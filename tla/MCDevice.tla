------------------------------ MODULE MCDevice ------------------------------
(* The device state on small instances: each behaviour is one component's,   *)
(* chosen in the initial state.  The components share the names of some      *)
(* variables and no state.                                                   *)
(*   rot     the rotation calls that the constants give, none failing        *)
(*   faults  the calls one can repeat safely, with CUDA calls that fail      *)
(*   seg     one shard's responses and output slab; a lap of the CQ is four  *)
(*           slots and a lap of a region two segments                        *)
(*   int     the integrity scan and self-healing                             *)
EXTENDS KeyRotation

VARIABLES
  which,
  load, running, starts, capacity, wr, rd, nextId, todo, cq, slab, owner, taken, held,
  reader,
  slot, status, mode, repairs, interval, healing, seeded, policy, epoch, ops, lastScan,
  out, hurt, faults, changes

One  == {"t1"}
Both == {"P256", "AES"}
AllAlgs == {"p256", "aes", "chacha"}
Guarded == {"generic"}

Faults == INSTANCE KeyRotation WITH
            Threads <- One, Ops <- AllOps \ {"load", "rotate", "prepare_async"},
            Types <- {"P256"}, Algs <- {}, Surfaces <- {}, MayFail <- TRUE,
            MaxCalls <- 4

Carries(kinds, reorder) == [kinds |-> kinds, reorder |-> reorder]
Seg == INSTANCE OutputSlab WITH
         Slots <- 4, Capacities <- {2, 4}, StdSegs <- 2, SealSegs <- 2, IdxMod <- 8,
         Loads <- {Carries({"digest", "digests", "seal"}, FALSE), Carries({"seal"}, TRUE)},
         MaxRequests <- 5, MaxStarts <- 1

Heal == INSTANCE KeyIntegrity WITH
         KeySlots <- {0, 1}, Modes <- {"DISABLED", "MONITOR", "STRICT"}, Repairs <- {1},
         Intervals <- {1, 2}, MaxFaults <- 3, MaxOps <- 4, MaxChanges <- 2
-----------------------------------------------------------------------------
rotOnly == vars
segOnly == <<load, running, starts, capacity, wr, rd, nextId, todo, cq, slab, owner,
             taken, held, reader>>
intOnly == <<slot, status, mode, repairs, interval, healing, seeded, policy, epoch, ops,
             lastScan, out, hurt, faults, changes>>

Off == "off"   \* the value of a variable of a component that is not chosen

RotOff ==
  /\ dev = Off /\ mir = Off /\ stream = Off /\ inner = Off /\ outer = Off
  /\ call = Off /\ calls = Off /\ known = Off /\ req = Off
SegOff ==
  /\ load = Off /\ running = Off /\ starts = Off /\ capacity = Off /\ wr = Off
  /\ rd = Off /\ nextId = Off /\ todo = Off /\ cq = Off /\ slab = Off /\ owner = Off
  /\ taken = Off /\ held = Off /\ reader = Off
IntOff ==
  /\ slot = Off /\ status = Off /\ mode = Off /\ repairs = Off /\ interval = Off
  /\ healing = Off /\ seeded = Off /\ policy = Off /\ epoch = Off /\ ops = Off
  /\ lastScan = Off /\ out = Off /\ hurt = Off /\ faults = Off /\ changes = Off

DeviceInit ==
  \/ which = "rot" /\ Init /\ SegOff /\ IntOff
  \/ which = "faults" /\ Faults!Init /\ SegOff /\ IntOff
  \/ which = "seg" /\ Seg!Init /\ RotOff /\ IntOff
  \/ which = "int" /\ Heal!Init /\ RotOff /\ SegOff

DeviceNext ==
  \/ which = "rot" /\ Next /\ UNCHANGED <<which, segOnly, intOnly>>
  \/ which = "faults" /\ Faults!Next /\ UNCHANGED <<which, segOnly, intOnly>>
  \/ which = "seg" /\ Seg!Next /\ UNCHANGED <<which, rotOnly, intOnly>>
  \/ which = "int" /\ Heal!Next /\ UNCHANGED <<which, rotOnly, segOnly>>

all == <<which, rotOnly, segOnly, intOnly>>
DeviceSpec == DeviceInit /\ [][DeviceNext]_all
-----------------------------------------------------------------------------
\* The components' properties, each of the behaviours it is about; their
\* comments stand in the components' modules.

\* The states of the rotation and of the output slab keep their types: every
\* index stays below its width and every slot names a response of this run.
DeviceTypeOK   == /\ which = "rot" => TypeOK
                  /\ which = "seg" => Seg!TypeOK
\* KeyRotation: the selected slot is never half written, whatever call fails.
SelectedWhole  == /\ which = "rot" => ActiveSlotWhole
                  /\ which = "faults" => Faults!ActiveSlotWhole
\* KeyRotation: a request is computed with the whole key its client loaded.
OwnWholeKey    == which = "rot" => OwnKey
\* KeyRotation: no call writes into the slot that is active.
SelectedStable == [][which = "rot" => ActiveSlotKept]_all
\* KeyRotation: the host's mirror says where the stream leads, and the latch
\* is closed while asynchronous copies are on their way.
MirrorLeads    == which = "faults" => /\ Faults!MirrorIsAhead
                                      /\ Faults!LatchWhileAsyncPending

\* OutputSlab: an answer the poll returns points at its own output, a checked
\* read that succeeds returns its bytes, and its status is the lane's.
ReadsAreOwn    == which = "seg" => /\ Seg!OutputIsOwn
                                   /\ Seg!CheckedReadIsOwn
                                   /\ Seg!StatusIsOwn
\* OutputSlab: the host finds what the kernel commits, and a sealed output
\* stays in the slab until its response is taken.
OutputsKept    == which = "seg" => Seg!CommittedIsFound /\ Seg!SealedOutputKept

\* KeyIntegrity: no tag is made over a key that was hit, and the heals the
\* host reads account for every version of a slot.
NoGarbageBlessed == which = "int" => Heal!NoGarbageBlessed /\ Heal!HealsAccounted
\* KeyIntegrity: a key is given up only after two faults.
TwoFaultsToZeroize == [][which = "int" => Heal!ZeroizedAfterTwo]_all
=============================================================================

------------------------------- MODULE MCHost -------------------------------
(* The host side on small instances: each behaviour is one component's,      *)
(* chosen in the initial state.  The components share the names of some      *)
(* variables and no state.                                                   *)
(*   pq     the post-quantum queues behind the fast path                     *)
(*   leg    the single-queue engine and one caller who is always answered    *)
(*   br     the ABI bridge's worker over that engine, answers that time out  *)
(*   gate   the lifecycle checks of the C entry points                       *)
(*   ways   the same with rotation and the Python entry points beside them   *)
(*   drv    the benchmark and hash drivers over the fast path                *)
(*   fw     the dispatcher and the flywheels over the fast path              *)
EXTENDS Integers, Sequences, FiniteSets

VARIABLES
  which,
  running, nextId, call, calls, ring, done, rr,
  wanted, startFailed, ringSent, cq, sigs, nextSlot, mlKey, slhKey, loads, queue, pending, job, taken,
  counter, head, tail, requests, responses, ready, shutdownFlag, tuning, kernel, batch,
  starts, giveUps,
  state, stopping, shmFlag, worker, reqs, rhead, rtail, slots, hashes, asks, got, bridges,
  eng, gpu, ret,
  slab, rid, drv, out, report, late,
  disp, queues, clients, next, fws, lost, items, runs

pqOnly     == <<wanted, startFailed, ringSent, cq, sigs, nextSlot, mlKey, slhKey, loads, queue,
                pending, job, taken>>
legacyOnly == <<counter, head, tail, requests, responses, ready, shutdownFlag, tuning,
                kernel, batch, starts, giveUps>>
bridgeOnly == <<state, stopping, shmFlag, worker, reqs, rhead, rtail, slots, hashes,
                asks, got, bridges>>
gateOnly   == <<eng, gpu, ret>>
drvOnly    == <<slab, rid, drv, out, report, late>>
fwOnly     == <<disp, queues, clients, next, fws, lost, items, runs>>

Msgs(k, m, d) == [kind |-> k, msgs |-> m, det |-> d]
PqCalls ==
  {Msgs("slh", <<TRUE, TRUE>>, FALSE), Msgs("slh", <<TRUE, FALSE>>, FALSE),
   Msgs("batch", <<TRUE, TRUE>>, FALSE), Msgs("batch", <<FALSE, TRUE>>, TRUE),
   Msgs("one", <<TRUE>>, FALSE)}
Tuning1 == <<1, 2, 1, 3>>
Tuning2 == <<2, 3, 1, 2>>

Pq == INSTANCE PqQueues WITH
        Modes <- {0}, KeySlots <- {0, 1}, BatchMax <- 3, SigSlots <- 8,
        Calls <- PqCalls, MaxCalls <- 2, MaxLoads <- 2, MaxRing <- 1

Leg == INSTANCE LegacyEngine WITH
         QueueSize <- 3, CounterMod <- 16, Callers <- {"a"}, BatchMax <- 3,
         Tunings <- {Tuning1, Tuning2}, MaxIds <- 7, MaxStarts <- 1, GiveUps <- 0

Br == INSTANCE AbiBridge WITH
        QueueSize <- 4, CounterMod <- 16, Callers <- {"worker"}, BatchMax <- 2,
        Tunings <- {Tuning1}, MaxIds <- 4, MaxStarts <- 1, GiveUps <- 1,
        Kind <- "multi", Clients <- {0, 1}, RingSize <- 2, DrainPerClient <- 1,
        BatchLimit <- 2, Ops <- {"SIGN", "NOP", "SHUTDOWN"}, Alone <- TRUE,
        MaxAsks <- 2, MaxBridges <- 1

Gate == INSTANCE AbiGate WITH
          FullWindow <- TRUE, Ways <- {"c"}, StopsInTime <- TRUE, Reloads <- FALSE,
          MaxCalls <- 10

Gates == INSTANCE AbiGate WITH
           FullWindow <- TRUE, Ways <- {"c", "rotate", "py"}, StopsInTime <- FALSE,
           Reloads <- TRUE, MaxCalls <- 6

Drv == INSTANCE Drivers WITH
         Shards <- {1, 2}, RingRoom <- 1, SlabCells <- 2, HashCounts <- {3},
         DrainCounts <- {2, 3}, BatchCap <- 2, HighWater <- 2, LowWater <- 1,
         MaxCalls <- 2, MaxRid <- 8, MayGiveUp <- TRUE

Fw == INSTANCE Flywheel WITH
        Shards <- {1}, RingRoom <- 1, ClientIds <- {1, 2}, QueueCapacity <- 2,
        RawMax <- 2, Burst <- 2, Target <- 3, Refill <- 2, Quantum <- 2,
        SubmitRounds <- 2, DrainRounds <- 1, PollMax <- 2, OutMaxes <- {1},
        Batches <- {1, 2}, MaxItems <- 2, MaxFlywheels <- 2, MaxRuns <- 1, MaxIds <- 4

-----------------------------------------------------------------------------
Off == "off"   \* the value of a variable of a component that is not chosen

InitOff(w) ==
  /\ IF w \in {"pq", "leg", "br"} THEN TRUE ELSE running = Off /\ nextId = Off
  /\ IF w \in {"pq", "leg", "br", "fw"} THEN TRUE ELSE call = Off
  /\ IF w \in {"pq", "gate", "ways", "drv"} THEN TRUE ELSE calls = Off
  /\ IF w \in {"pq", "drv", "fw"} THEN TRUE ELSE ring = Off
  /\ IF w \in {"drv", "fw"} THEN TRUE ELSE done = Off /\ rr = Off
  /\ IF w = "pq" THEN TRUE
     ELSE /\ wanted = Off /\ startFailed = Off /\ ringSent = Off /\ cq = Off /\ sigs = Off /\ nextSlot = Off
          /\ mlKey = Off /\ slhKey = Off /\ loads = Off /\ queue = Off /\ pending = Off
          /\ job = Off /\ taken = Off
  /\ IF w \in {"leg", "br"} THEN TRUE
     ELSE /\ counter = Off /\ head = Off /\ tail = Off /\ requests = Off
          /\ responses = Off /\ ready = Off /\ shutdownFlag = Off /\ tuning = Off
          /\ kernel = Off /\ batch = Off /\ starts = Off /\ giveUps = Off
  /\ IF w = "br" THEN TRUE
     ELSE /\ state = Off /\ stopping = Off /\ shmFlag = Off /\ worker = Off /\ reqs = Off
          /\ rhead = Off /\ rtail = Off /\ slots = Off /\ hashes = Off /\ asks = Off
          /\ got = Off /\ bridges = Off
  /\ IF w \in {"gate", "ways"} THEN TRUE ELSE eng = Off /\ gpu = Off /\ ret = Off
  /\ IF w = "drv" THEN TRUE
     ELSE /\ slab = Off /\ rid = Off /\ drv = Off /\ out = Off /\ report = Off
          /\ late = Off
  /\ IF w = "fw" THEN TRUE
     ELSE /\ disp = Off /\ queues = Off /\ clients = Off /\ next = Off /\ fws = Off
          /\ lost = Off /\ items = Off /\ runs = Off

StayOff(w) ==
  /\ UNCHANGED which
  /\ IF w \in {"pq", "leg", "br"} THEN TRUE ELSE UNCHANGED <<running, nextId>>
  /\ IF w \in {"pq", "leg", "br", "fw"} THEN TRUE ELSE UNCHANGED call
  /\ IF w \in {"pq", "gate", "ways", "drv"} THEN TRUE ELSE UNCHANGED calls
  /\ IF w \in {"pq", "drv", "fw"} THEN TRUE ELSE UNCHANGED ring
  /\ IF w \in {"drv", "fw"} THEN TRUE ELSE UNCHANGED <<done, rr>>
  /\ IF w = "pq" THEN TRUE ELSE UNCHANGED pqOnly
  /\ IF w \in {"leg", "br"} THEN TRUE ELSE UNCHANGED legacyOnly
  /\ IF w = "br" THEN TRUE ELSE UNCHANGED bridgeOnly
  /\ IF w \in {"gate", "ways"} THEN TRUE ELSE UNCHANGED gateOnly
  /\ IF w = "drv" THEN TRUE ELSE UNCHANGED drvOnly
  /\ IF w = "fw" THEN TRUE ELSE UNCHANGED fwOnly

Starts(w, init) == which = w /\ init /\ InitOff(w)

Init ==
  \/ Starts("pq", Pq!Init)
  \/ Starts("leg", Leg!Init)
  \/ Starts("br", Br!BridgeInit)
  \/ Starts("gate", Gate!GateInit)
  \/ Starts("ways", Gates!GateInit)
  \/ Starts("drv", Drv!DriversInit)
  \/ Starts("fw", Fw!FlywheelInit)

Next ==
  \/ which = "pq" /\ Pq!Next /\ StayOff("pq")
  \/ which = "leg" /\ Leg!Next /\ StayOff("leg")
  \/ which = "br" /\ Br!BridgeNext /\ StayOff("br")
  \/ which = "gate" /\ Gate!GateNext /\ StayOff("gate")
  \/ which = "ways" /\ Gates!GateNext /\ StayOff("ways")
  \/ which = "drv" /\ Drv!DriversNext /\ StayOff("drv")
  \/ which = "fw" /\ Fw!FlywheelNext /\ StayOff("fw")

all == <<which, running, nextId, call, calls, ring, done, rr, pqOnly, legacyOnly,
         bridgeOnly, gateOnly, drvOnly, fwOnly>>
Spec == Init /\ [][Next]_all
-----------------------------------------------------------------------------
\* The components' properties, each of the behaviours it is about; their
\* comments stand in the components' modules.

\* PqQueues: an SLH-DSA call gets its own signatures out of a CQ it shares,
\* and every successful response points at its own signature.
PqAnswersAreOwn   == which = "pq" => Pq!SlhRouted /\ Pq!PostedIsOwn
\* PqQueues: no dispatch, failed or not, leaves the kernel stopped, unless its
\* start itself fails.
RunningAsWanted   == which = "pq" => Pq!RunningAsWanted
\* PqQueues: a deterministic call gets deterministic signatures.
DeterministicKept == which = "pq" => Pq!DeterministicKept

\* LegacyEngine: a poll returns the response of the id it asked for, every id
\* that was accepted can be polled for, and head, tail and flags stay in step.
LegacyAnswers == which = "leg" => /\ Leg!ResponseIsForId
                                  /\ Leg!QueueInStep
                                  /\ Leg!NothingForgotten

\* AbiBridge: clients read their answers in order, each its own, and between
\* two batches nothing is owed to a client.
BridgeAnswers == which = "br" => Br!AnsweredInOrder /\ Br!NothingOwed

\* AbiGate: the ABI's flags say what runs, and a running kernel has the tables
\* that a P-256 key loaded with success needs.
FlagsAreTrue   == which = "gate" => Gate!FlagsAreTrue /\ Gate!SignerReady
\* AbiGate: one persistent kernel holds the GPU and no upload waits behind it.
GpuStaysUsable == which = "gate" => Gate!OneKernel /\ Gate!NeverStuck
\* AbiGate: a call that fails moves no flag, and leaves at most one key or table
\* half written.
RefusalIsClean == [][which = "ways" => Gates!CleanRefusal]_all

\* Drivers: a digest returned is the digest of its message, the counts a driver
\* reports are true, and a report is valid only if everything was answered.
DriversHonest == which = "drv" => /\ Drv!DigestIsOwn
                                  /\ Drv!HonestAccounting
                                  /\ Drv!ValidMeansAnswered

\* Flywheel: a payload is in one place at a time, and in_flight counts those
\* in flight.
PayloadsConserved == which = "fw" => Fw!OnePlace /\ Fw!InFlightCounted
\* Flywheel: a completion carries the id of its own payload.
CompletionIsOwn == which = "fw" => Fw!CompletionIsOwn
=============================================================================

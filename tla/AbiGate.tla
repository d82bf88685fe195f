------------------------------- MODULE AbiGate -------------------------------
(* The life of an engine behind the C ABI (engine/abi/smoke_engine_abi.cpp)  *)
(* and its Python bindings: which kernel runs, which keys and which signer   *)
(* tables are loaded, and what each entry point checks before it acts.       *)
(*                                                                           *)
(* The ABI decides by flags of its own (eng); what they stand for is in      *)
(* gpu: the kernels that run, the key slots, the tables.  A P-256 signer     *)
(* whose tables are missing signs with r = 0; a table upload beside a        *)
(* running kernel never returns.  Rotation is module KeyRotation, the        *)
(* queues are FastPath and LegacyEngine.                                     *)
EXTENDS Integers, Sequences, FiniteSetsExt

CONSTANTS
  FullWindow,    \* built with P256_FASTPATH_FULLWINDOW
  Ways,          \* entry points the clients use: "c", "rotate", "py"
  StopsInTime,   \* every kernel stops within the second a stop waits
  Reloads,       \* clients load a table again that is loaded already
  MaxCalls       \* bound on the calls

VARIABLES eng, gpu, ret, calls

gvars == <<eng, gpu, ret, calls>>

Handles == {"abi", "py"}         \* the fast path of smoke_fast_path_create, of Python
Whole(type) == [type |-> type, whole |-> TRUE]
Torn(type)  == [type |-> type, whole |-> FALSE]   \* a load of it stopped half way
NoKey   == [s \in {0, 1} |-> Whole("EMPTY")]
Flags   == [alive |-> FALSE, legacy |-> FALSE, fp |-> "none", fpRun |-> FALSE,
            keyLoaded |-> FALSE, hasP256 |-> FALSE, comb |-> FALSE, full |-> FALSE]
IdleGpu == [legacy |-> FALSE, made |-> {}, fast |-> {}, slots |-> NoKey,
            active |-> 0, comb |-> FALSE, full |-> FALSE, stuck |-> FALSE]

GateInit == eng = Flags /\ gpu = IdleGpu /\ ret = "OK" /\ calls = 0

(* An entry point checks in order and answers the first check that fails.    *)
Verdict(checks) ==
  LET failed == {i \in DOMAIN checks : ~checks[i][1]}
  IN  IF failed = {} THEN "OK" ELSE checks[Min(failed)][2]

Call(way, v, newEng, newGpu) ==
  /\ way \in Ways /\ ~gpu.stuck /\ calls < MaxCalls
  /\ calls' = calls + 1
  /\ ret' = v
  /\ eng' = newEng /\ gpu' = newGpu

(* The entry points that check and then leave all this state alone.          *)
Unchanged(way, v) == Call(way, v, eng, gpu)

(* Mutant of Done: the effect comes before the checks.                       *)
DoneFirst(way, v, newEng, newGpu) == Call(way, v, newEng, newGpu)

Done(way, v, newEng, newGpu) ==
  Call(way, v, IF v = "OK" THEN newEng ELSE eng, IF v = "OK" THEN newGpu ELSE gpu)

Alive == <<eng.alive, "NOT_INIT">>
-----------------------------------------------------------------------------
(* smoke_engine_init: create and start the legacy kernel, or nothing.        *)
EngineInit(created, started) ==
  /\ ~eng.alive
  /\ Done("c", Verdict(<< <<created, "DEVICE">>, <<started, "DEVICE">> >>),
          [Flags EXCEPT !.alive = TRUE, !.legacy = TRUE],
          [gpu EXCEPT !.legacy = TRUE, !.slots = NoKey, !.active = 0])

(* A stop waits a second and then takes the kernel for stopped.              *)
Stopped(k) == k /\ ~StopsInTime

EngineShutdown ==
  /\ eng.alive
  /\ Call("c", "OK", Flags,
          [gpu EXCEPT !.legacy = FALSE, !.fast = @ \ {eng.fp}, !.made = @ \ {eng.fp}])

(* Mutant of FastPathCreate: the legacy kernel is not shut down first.        *)
CreateBeside(made) ==
  Call("c", Verdict(<<Alive, <<made \/ eng.fp # "none", "DEVICE">> >>),
       [eng EXCEPT !.fp = IF eng.alive /\ made THEN "abi" ELSE @],
       [gpu EXCEPT !.made = IF eng.alive /\ made THEN @ \union {"abi"} ELSE @])

FastPathCreate(made) ==
  LET v   == Verdict(<<Alive, <<made \/ eng.fp # "none", "DEVICE">> >>)
      new == eng.alive /\ eng.fp = "none"
  IN  Call("c", v,
           [eng EXCEPT !.legacy = @ /\ ~new, !.fp = IF new /\ made THEN "abi" ELSE @],
           [gpu EXCEPT !.legacy = IF new THEN Stopped(@) ELSE @,
                       !.made = IF new /\ made THEN @ \union {"abi"} ELSE @])

(* Mutant of TablesFor: the full-window table forgotten.                     *)
CombFor(p256) == p256 => eng.comb

(* A P-256 key needs the comb table, and the full-window build its own too.  *)
TablesFor(p256) == p256 => eng.comb /\ (FullWindow => eng.full)

StartChecks(made, launched) ==
  << Alive, <<made, "NOT_INIT">>, <<TablesFor(eng.hasP256), "NOT_INIT">>,
     <<eng.fpRun \/ launched, "DEVICE">> >>

FastPathStart(launched) ==
  Done("c", Verdict(StartChecks(eng.fp # "none", launched)),
       [eng EXCEPT !.fpRun = TRUE], [gpu EXCEPT !.fast = @ \union {eng.fp}])

(* Mutant of FastPathStop: the flag is left set.                             *)
StopWithoutFlag ==
  LET stops == eng.alive /\ eng.fp # "none" /\ eng.fpRun
  IN  Call("c", Verdict(<<Alive>>), eng,
           [gpu EXCEPT !.fast = IF stops /\ StopsInTime THEN @ \ {eng.fp} ELSE @])

FastPathStop ==
  LET stops == eng.alive /\ eng.fp # "none" /\ eng.fpRun
  IN  Call("c", Verdict(<<Alive>>), [eng EXCEPT !.fpRun = @ /\ ~stops],
           [gpu EXCEPT !.fast = IF stops /\ StopsInTime THEN @ \ {eng.fp} ELSE @])
-----------------------------------------------------------------------------
(* Keys and tables *)

(* Mutant of Loaded: the copies start before the checks.                      *)
LoadedEarly(s, type, v) ==
  IF v = "OK" THEN {[gpu.slots EXCEPT ![s] = Whole(type)]}
  ELSE {gpu.slots} \union {[gpu.slots EXCEPT ![i] = Torn(type)] : i \in {s} \intersect {0, 1}}

(* The slots after a load that answers v.  It copies the key type first and  *)
(* then the rest, one copy at a time: if one fails, or the synchronize after *)
(* them, the slot is as it was or holds the new type and part or all of it. *)
Loaded(s, type, v) ==
  CASE v = "OK" -> {[gpu.slots EXCEPT ![s] = Whole(type)]}
    [] v = "DEVICE" /\ s \in {0, 1} -> {gpu.slots, [gpu.slots EXCEPT ![s] = Torn(type)]}
    [] OTHER -> {gpu.slots}

LoadKeyP256(copied) ==
  LET v == Verdict(<<Alive,
             <<eng.fp # "none" /\ eng.fpRun => TablesFor(TRUE), "NOT_INIT">>,
             <<copied, "DEVICE">> >>)
  IN  \E slots \in Loaded(0, "P256", v) :
        Call("c", v, [eng EXCEPT !.keyLoaded = @ \/ v = "OK", !.hasP256 = @ \/ v = "OK"],
             [gpu EXCEPT !.slots = slots])

LoadKeyTyped(s, type, copied) ==
  LET v == Verdict(<<Alive, <<s \in {0, 1}, "DEVICE">>, <<copied, "DEVICE">> >>)
  IN  \E slots \in Loaded(s, type, v) :
        Call("c", v, eng, [gpu EXCEPT !.slots = slots])

(* prepare_next_key_typed and commit_rotation, which the table gates ignore. *)
(* A commit that fails may have changed the active slot on the device.       *)
RotateTyped(type, prepared, committed) ==
  LET next == 1 - gpu.active
      v    == Verdict(<<Alive, <<prepared, "DEVICE">>, <<committed, "DEVICE">> >>)
      flip == {b \in BOOLEAN : (v = "OK" => b) /\ (b => eng.alive /\ prepared)}
  IN  \E slots \in Loaded(next, type, IF eng.alive /\ prepared THEN "OK" ELSE v), b \in flip :
        Call("rotate", v, eng,
             [gpu EXCEPT !.slots = slots, !.active = IF b THEN next ELSE @])

CombSize   == 8 * 255            \* limbs, entries
TableSizes == {CombSize - 1, CombSize}

Upload(g) == IF g.legacy \/ g.fast # {} THEN [g EXCEPT !.stuck = TRUE] ELSE g

(* Mutant of CombChecks: the table is uploaded beside a running kernel.       *)
CombAnyTime(size, copied) == << Alive, <<size = CombSize, "ARG">>, <<copied, "DEVICE">> >>

CombChecks(size, copied) ==
  << Alive, <<size = CombSize, "ARG">>, <<~eng.legacy /\ ~eng.fpRun, "ARG">>,
     <<copied, "DEVICE">> >>

(* The comb is copied in two halves: one that fails leaves any mixture.      *)
CombAfter(v) ==
  CASE v = "OK" -> {TRUE} [] v = "DEVICE" -> BOOLEAN [] OTHER -> {gpu.comb}

LoadComb(size, copied) ==
  LET v == Verdict(CombChecks(size, copied))
  IN  /\ Reloads \/ ~eng.comb
      /\ \E comb \in CombAfter(v) :
           Call("c", v, [eng EXCEPT !.comb = @ \/ v = "OK"],
                IF v \in {"OK", "DEVICE"} THEN [Upload(gpu) EXCEPT !.comb = comb] ELSE gpu)

(* The blob is checked as a whole before, and on the device after, the copy. *)
FullChecks(blob) ==
  << Alive, <<FullWindow, "UNSUPPORTED">>, <<blob # "short", "ARG">>,
     <<~eng.legacy /\ ~eng.fpRun, "ARG">>, <<blob # "header", "ARG">>,
     <<blob # "digest", "VERIFY">>, <<blob # "uncopied", "DEVICE">>,
     <<blob # "torn", "VERIFY">> >>

(* A copy, or the read-back after it, that fails leaves the table in any     *)
(* state, one whose read-back does not match leaves it torn.                 *)
FullAfter(blob, v) ==
  CASE v = "OK" -> {TRUE} [] v = "DEVICE" -> BOOLEAN
    [] blob = "torn" /\ v = "VERIFY" -> {FALSE} [] OTHER -> {gpu.full}

LoadFullWindow(blob) ==
  LET v == Verdict(FullChecks(blob))
  IN  /\ Reloads \/ ~eng.full
      /\ \E full \in FullAfter(blob, v) :
           Call("c", v, [eng EXCEPT !.full = @ \/ v = "OK"],
                IF v \in {"OK", "DEVICE"} \/ (blob = "torn" /\ v = "VERIFY")
                THEN [Upload(gpu) EXCEPT !.full = full] ELSE gpu)
-----------------------------------------------------------------------------
(* Using the engine *)

FastRunning == <<eng.fp # "none" /\ eng.fpRun, "NOT_INIT">>

(* smoke_engine_sign_p256, up to its submit to the legacy engine.            *)
SignP256(id, len) ==
  Unchanged("c", Verdict(<<Alive, <<eng.legacy, "NOT_INIT">>,
    <<eng.keyLoaded, "KEY">>, <<id = 0, "KEY">>, <<len = 32, "ARG">>,
    <<gpu.legacy, "DEVICE">> >>))

(* set_num_ctas, set_num_shards, set_submit_policy, set_shards_per_batch     *)
Configure(valid) ==
  Unchanged("c", Verdict(<<Alive, <<eng.fp # "none", "NOT_INIT">>,
                           <<~eng.fpRun, "ARG">>, <<valid, "ARG">> >>))

(* The requests of one smoke_generic_submit: the first that is refused ends  *)
(* it, one that finds its ring full is passed over.                          *)
RequestStatus(r) ==
  CASE r \in {"ok", "full"}        -> "OK"
    [] r \in {"version", "rsa"}    -> "UNSUPPORTED"
    [] r \in {"long", "slot"}      -> "ARG"

Accepted(rs) ==
  LET bad  == {i \in DOMAIN rs : RequestStatus(rs[i]) # "OK"}
      upto == IF bad = {} THEN Len(rs) ELSE Min(bad) - 1
  IN  {i \in 1 .. upto : rs[i] = "ok"}

SubmitStatus(rs) ==
  LET bad == {i \in DOMAIN rs : RequestStatus(rs[i]) # "OK"}
  IN  IF bad = {} \/ Accepted(rs) # {} THEN "OK" ELSE RequestStatus(rs[Min(bad)])

GenericSubmit(rs) ==
  Unchanged("c", Verdict(<<Alive, FastRunning, <<SubmitStatus(rs) = "OK", SubmitStatus(rs)>> >>))

(* smoke_engine_submit_and_drain *)
SubmitAndDrain(room, spans, all) ==
  Unchanged("c", Verdict(<<Alive, <<room, "ARG">>, <<spans, "ARG">>, FastRunning,
                           <<all, "DEVICE">> >>))

Measure(read) ==
  Unchanged("c", Verdict(<<Alive, <<eng.legacy, "NOT_INIT">>, <<read, "DEVICE">> >>))
-----------------------------------------------------------------------------
(* The Python bindings hold fast path handles of their own.                  *)

PyCreate ==
  /\ eng.alive /\ "py" \notin gpu.made
  /\ Call("py", "OK", eng, [gpu EXCEPT !.made = @ \union {"py"}])

PyEngineShutdown ==
  /\ eng.alive
  /\ Call("py", "OK", eng, [gpu EXCEPT !.legacy = Stopped(@)])

PyStart(launched) ==
  /\ "py" \in gpu.made
  /\ Done("py", Verdict(<< <<TablesFor(eng.hasP256), "NOT_INIT">>, <<launched, "DEVICE">> >>),
          eng, [gpu EXCEPT !.fast = @ \union {"py"}])

PyStop ==
  /\ "py" \in gpu.fast
  /\ Call("py", "OK", eng, [gpu EXCEPT !.fast = IF StopsInTime THEN @ \ {"py"} ELSE @])

(* Registering takes the handle for running; clearing forgets it.            *)
Register ==
  /\ eng.alive /\ "py" \in gpu.made
  /\ Call("py", "OK", [eng EXCEPT !.fp = "py", !.fpRun = TRUE], gpu)

ClearHandle ==
  /\ eng.alive
  /\ Call("py", "OK", [eng EXCEPT !.fp = "none", !.fpRun = FALSE], gpu)

PyLoadComb(size, copied) ==
  LET v == Verdict(<< <<size = CombSize, "ARG">>, <<copied, "DEVICE">> >>)
  IN  \E comb \in CombAfter(v) :
        Call("py", v, [eng EXCEPT !.comb = @ \/ (v = "OK" /\ eng.alive)],
             IF v = "ARG" THEN gpu ELSE [Upload(gpu) EXCEPT !.comb = comb])
-----------------------------------------------------------------------------
Blobs    == {"good", "short", "header", "digest", "uncopied", "torn"}
Requests == {"ok", "full", "version", "rsa", "long", "slot"}

GateNext ==
  \/ \E a, b \in BOOLEAN : EngineInit(a, b)
  \/ EngineShutdown \/ FastPathStop
  \/ \E ok \in BOOLEAN :
       \/ FastPathCreate(ok) \/ FastPathStart(ok) \/ LoadKeyP256(ok)
       \/ Measure(ok) \/ Configure(ok)
       \/ \E size \in TableSizes : LoadComb(size, ok)
       \/ \E s \in 0 .. 2, type \in {"AES256", "HMAC"} : LoadKeyTyped(s, type, ok)
  \/ \E blob \in Blobs : LoadFullWindow(blob)
  \/ \E type \in {"P256", "AES256"}, a, b \in BOOLEAN : RotateTyped(type, a, b)
  \/ \E id \in 0 .. 1, len \in {31, 32} : SignP256(id, len)
  \/ \E a, b \in Requests : GenericSubmit(<<a, b>>)
  \/ \E a, b, c \in BOOLEAN : SubmitAndDrain(a, b, c)
  \/ PyCreate \/ PyEngineShutdown \/ PyStop \/ Register \/ ClearHandle
  \/ \E ok \in BOOLEAN :
       PyStart(ok) \/ \E size \in TableSizes : PyLoadComb(size, ok)

GateSpec == GateInit /\ [][GateNext]_gvars
-----------------------------------------------------------------------------
Tables(g) == g.comb /\ (FullWindow => g.full)

(* "refuse to launch the warp-coop signer kernel if a P-256 keyslot is       *)
(* loaded but the generator-point comb table has not been uploaded"          *)
(* (smoke_engine_abi.cpp:2038), of the keys whose load was answered OK:      *)
(* whatever loads, uploads and starts failed before, a kernel that runs      *)
(* beside such a key has its tables whole on the device.  It does not hold   *)
(* of a slot that a failed load left with the P-256 type.                    *)
Confirmed   == eng.hasP256 \/ \E s \in {0, 1} : gpu.slots[s] = Whole("P256")
SignerReady == gpu.fast # {} /\ Confirmed => Tables(gpu)

(* At most one persistent kernel holds the GPU.                              *)
OneKernel == Cardinality(gpu.fast) + (IF gpu.legacy THEN 1 ELSE 0) <= 1

(* No table upload waits for a kernel that never ends.                       *)
NeverStuck == ~gpu.stuck

(* What the ABI believes is running, runs, and nothing else does.            *)
FlagsAreTrue ==
  eng.alive => /\ eng.legacy = gpu.legacy
               /\ eng.fpRun = (gpu.fast # {})
               /\ eng.fpRun => eng.fp \in gpu.made

(* A call that fails moves none of the flags that later calls are checked    *)
(* against, neither starts nor stops a fast path, and touches a key or a     *)
(* table only if a copy to the device went wrong, and then no more than one  *)
(* slot or one table (smoke_engine_load_key_p256 refused for a table has "no *)
(* partial state", smoke_engine_abi.cpp:819).  A create that fails has       *)
(* stopped the legacy kernel all the same.                                   *)
Flagged == <<eng.alive, eng.fp, eng.fpRun, eng.keyLoaded, eng.hasP256, eng.comb,
             eng.full, gpu.fast, gpu.made>>
Keys      == <<gpu.slots, gpu.active>>
SparesASlot   == \E s \in {0, 1} : gpu'.slots[1 - s] = gpu.slots[1 - s]
SparesATable  == gpu'.comb = gpu.comb \/ gpu'.full = gpu.full
CleanRefusal ==
  ret' # "OK" => /\ UNCHANGED Flagged
                 /\ ret' # "DEVICE" => UNCHANGED Keys
                 /\ ret' \notin {"DEVICE", "VERIFY"} => UNCHANGED <<gpu.comb, gpu.full>>
                 /\ SparesASlot /\ SparesATable
                 /\ UNCHANGED Keys \/ UNCHANGED <<gpu.comb, gpu.full>>
RefusalIsClean == [][CleanRefusal]_gvars
=============================================================================

--------------------------- MODULE AbiEngineProofs ---------------------------
(* Proofs about an engine behind the C ABI: its life, its single queue, and  *)
(* the shared-memory bridge that is the queue's one client.                  *)
(*                                                                           *)
(* A call that fails moves no flag and harms no more than the slot or table  *)
(* it was copying, whatever the entry points in use.  The ABI's flags are    *)
(* true and its guards enough for the keys whose load succeeded when the C   *)
(* entry points alone are used, every kernel stops within the second a stop  *)
(* waits, and no table is loaded again while it is loaded: Clean.  Beyond it *)
(* a rotation, a Python handle or a reload can make a flag false or arm a    *)
(* signer without its table.                                                 *)
(*                                                                           *)
(* The single queue answers each id with its own response, and skips or      *)
(* forgets none, for one client who waits for his answers: OneClient.        *)
(*                                                                           *)
(* The bridge's multi-client worker is such a client.  Whoever asks it reads *)
(* his own answers in the order he asked, and between two batches none of    *)
(* his requests is lost: OneWorker.                                          *)
EXTENDS AbiGate, BridgeInv, WellFoundedInduction, FiniteSetTheorems, TLAPS

SlotTypes == {"EMPTY", "P256", "AES256", "HMAC"}
SlotRecs  == [type : SlotTypes, whole : BOOLEAN]

Engines == [alive : BOOLEAN, legacy : BOOLEAN, fp : Handles \union {"none"}, fpRun : BOOLEAN,
            keyLoaded : BOOLEAN, hasP256 : BOOLEAN, comb : BOOLEAN, full : BOOLEAN]
Gpus == [legacy : BOOLEAN, made : SUBSET Handles, fast : SUBSET (Handles \union {"none"}),
         slots : [{0, 1} -> SlotRecs], active : {0, 1}, comb : BOOLEAN, full : BOOLEAN,
         stuck : BOOLEAN]
GateTypes == eng \in Engines /\ gpu \in Gpus

Clean == Ways \subseteq {"c"} /\ StopsInTime /\ ~Reloads

HasWhole(g) == \E s \in {0, 1} : g.slots[s] = Whole("P256")

\* What the ABI knows: the kernel that runs is the one its flags name, a table
\* it remembers is on the device, a whole P-256 key on the device is remembered
\* (one whose load stopped half way is not), and a fast path that runs beside a
\* remembered key has passed the table gate.
Known(e, g) ==
  /\ ~e.alive => e = Flags
  /\ e.fp \in {"abi", "none"} /\ g.made = {e.fp} \ {"none"}
  /\ e.fpRun => e.fp # "none"
  /\ g.fast = IF e.fpRun THEN {e.fp} ELSE {}
  /\ e.legacy = g.legacy /\ (e.fp # "none" => ~e.legacy)
  /\ ~g.stuck
  /\ (e.comb => g.comb) /\ (e.full => g.full)
  /\ e.alive /\ HasWhole(g) => e.hasP256
  /\ e.fpRun /\ e.hasP256 => e.comb /\ (FullWindow => e.full)

GateInv == GateTypes /\ Known(eng, gpu)

\* The entry points that only check.
ReadsOnly ==
  \/ \E id \in 0 .. 1, len \in {31, 32} : SignP256(id, len)
  \/ \E a, b \in Requests : GenericSubmit(<<a, b>>)
  \/ \E a, b, c \in BOOLEAN : SubmitAndDrain(a, b, c)
  \/ \E ok \in BOOLEAN : Measure(ok) \/ Configure(ok)
-----------------------------------------------------------------------------
(* The verdict of a list of checks.                                          *)

LEMMA LeastOf ==
  ASSUME NEW T, T \subseteq Nat, T # {}
  PROVE  Min(T) \in T /\ \A y \in T : Min(T) <= y
<1>. DEFINE L == OpToRel(<, Nat)
<1>1. IsWellFoundedOn(L, Nat) BY NatLessThanWellFounded
<1>2. \A x, y \in Nat : y < x => <<y, x>> \in L BY Zenon DEF OpToRel
<1>. HIDE DEF L
<1>3. PICK x \in T : \A y \in T : ~ (<<y, x>> \in L) BY <1>1, WFMin
<1>4. \A y \in T : ~ (y < x) BY <1>2, <1>3
<1>5. \E m \in T : \A y \in T : m <= y BY <1>4
<1>. QED BY <1>5 DEF Min

\* The verdict is OK when every check passes, else that of the first that fails.
LEMMA VerdictIs ==
  ASSUME NEW checks, DOMAIN checks \subseteq Nat
  PROVE  \/ Verdict(checks) = "OK" /\ \A i \in DOMAIN checks : checks[i][1]
         \/ \E m \in DOMAIN checks :
              /\ ~checks[m][1] /\ Verdict(checks) = checks[m][2]
              /\ \A j \in DOMAIN checks : j < m => checks[j][1]
<1>. DEFINE failed == {i \in DOMAIN checks : ~checks[i][1]}
            m == Min(failed)
<1>1. CASE failed = {} BY <1>1 DEF Verdict
<1>2. CASE failed # {}
  <2>1. m \in failed /\ \A y \in failed : m <= y BY <1>2, LeastOf
  <2>2. Verdict(checks) = checks[m][2] BY <1>2 DEF Verdict
  <2>. HIDE DEF m
  <2>3. m \in DOMAIN checks /\ ~checks[m][1] BY <2>1
  <2>4. \A j \in DOMAIN checks : j < m => checks[j][1] BY <2>1, <2>3
  <2>. QED BY <2>2, <2>3, <2>4
<1>. QED BY <1>1, <1>2

\* The same for each length of list.
LEMMA Verdict1 ==
  ASSUME NEW a \in BOOLEAN, NEW p
  PROVE  LET v == Verdict(<< <<a, p>> >>) IN (a => v = "OK") /\ (~a => v = p)
<1>. DEFINE checks == << <<a, p>> >>
<1>1. DOMAIN checks = {1} /\ checks[1] = <<a, p>> OBVIOUS
<1>. HIDE DEF checks
<1>2. (a => Verdict(checks) = "OK") /\ (~a => Verdict(checks) = p) BY <1>1, VerdictIs
<1>. QED BY <1>2 DEF checks

LEMMA Verdict2 ==
  ASSUME NEW a \in BOOLEAN, NEW b \in BOOLEAN, NEW p, NEW q
  PROVE  LET v == Verdict(<< <<a, p>>, <<b, q>> >>)
         IN  (~a => v = p) /\ (a /\ ~b => v = q) /\ (a /\ b => v = "OK")
<1>. DEFINE checks == << <<a, p>>, <<b, q>> >>
<1>1. DOMAIN checks = {1, 2} /\ checks[1] = <<a, p>> /\ checks[2] = <<b, q>> OBVIOUS
<1>. HIDE DEF checks
<1>2. LET v == Verdict(checks)
      IN  (~a => v = p) /\ (a /\ ~b => v = q) /\ (a /\ b => v = "OK")
  BY <1>1, VerdictIs
<1>. QED BY <1>2 DEF checks

LEMMA Verdict3 ==
  ASSUME NEW a \in BOOLEAN, NEW b \in BOOLEAN, NEW c \in BOOLEAN, NEW p, NEW q, NEW r
  PROVE  LET v == Verdict(<< <<a, p>>, <<b, q>>, <<c, r>> >>)
         IN  /\ ~a => v = p
             /\ a /\ ~b => v = q
             /\ a /\ b /\ ~c => v = r
             /\ a /\ b /\ c => v = "OK"
<1>. DEFINE checks == << <<a, p>>, <<b, q>>, <<c, r>> >>
<1>1. /\ DOMAIN checks = {1, 2, 3} /\ checks[1] = <<a, p>> /\ checks[2] = <<b, q>>
      /\ checks[3] = <<c, r>>
  OBVIOUS
<1>. HIDE DEF checks
<1>2. LET v == Verdict(checks)
      IN  /\ ~a => v = p
          /\ a /\ ~b => v = q
          /\ a /\ b /\ ~c => v = r
          /\ a /\ b /\ c => v = "OK"
  BY <1>1, VerdictIs
<1>. QED BY <1>2 DEF checks

LEMMA Verdict4 ==
  ASSUME NEW a \in BOOLEAN, NEW b \in BOOLEAN, NEW c \in BOOLEAN, NEW d \in BOOLEAN,
         NEW p, NEW q, NEW r, NEW t
  PROVE  LET v == Verdict(<< <<a, p>>, <<b, q>>, <<c, r>>, <<d, t>> >>)
         IN  /\ ~a => v = p
             /\ a /\ ~b => v = q
             /\ a /\ b /\ ~c => v = r
             /\ a /\ b /\ c /\ ~d => v = t
             /\ a /\ b /\ c /\ d => v = "OK"
<1>. DEFINE checks == << <<a, p>>, <<b, q>>, <<c, r>>, <<d, t>> >>
<1>1. /\ DOMAIN checks = {1, 2, 3, 4} /\ checks[1] = <<a, p>> /\ checks[2] = <<b, q>>
      /\ checks[3] = <<c, r>> /\ checks[4] = <<d, t>>
  OBVIOUS
<1>. HIDE DEF checks
<1>2. LET v == Verdict(checks)
      IN  /\ ~a => v = p
          /\ a /\ ~b => v = q
          /\ a /\ b /\ ~c => v = r
          /\ a /\ b /\ c /\ ~d => v = t
          /\ a /\ b /\ c /\ d => v = "OK"
  BY <1>1, VerdictIs
<1>. QED BY <1>2 DEF checks

\* The comb table is written only while the engine knows of no kernel.
LEMMA CombVerdict ==
  ASSUME GateTypes, NEW size, NEW copied \in BOOLEAN
  PROVE  LET v == Verdict(CombChecks(size, copied))
         IN  /\ v \in {"OK", "DEVICE", "NOT_INIT", "ARG"}
             /\ v \in {"OK", "DEVICE"} => eng.alive /\ ~eng.legacy /\ ~eng.fpRun
<1>0. PICK a, b, c : a = eng.alive /\ b = (size = CombSize) /\ c = (~eng.legacy /\ ~eng.fpRun)
  OBVIOUS
<1>1. a \in BOOLEAN /\ b \in BOOLEAN /\ c \in BOOLEAN BY <1>0 DEF GateTypes, Engines
<1>2. CombChecks(size, copied) = << <<a, "NOT_INIT">>, <<b, "ARG">>, <<c, "ARG">>,
                                    <<copied, "DEVICE">> >>
  BY <1>0 DEF CombChecks, Alive
<1>. DEFINE v == Verdict(CombChecks(size, copied))
<1>3. LET w == Verdict(<< <<a, "NOT_INIT">>, <<b, "ARG">>, <<c, "ARG">>, <<copied, "DEVICE">> >>)
      IN  /\ ~a => w = "NOT_INIT"
          /\ a /\ ~b => w = "ARG"
          /\ a /\ b /\ ~c => w = "ARG"
          /\ a /\ b /\ c /\ ~copied => w = "DEVICE"
          /\ a /\ b /\ c /\ copied => w = "OK"
  BY <1>1, Verdict4
<1>4. /\ ~a => v = "NOT_INIT"
      /\ a /\ ~b => v = "ARG"
      /\ a /\ b /\ ~c => v = "ARG"
      /\ a /\ b /\ c /\ ~copied => v = "DEVICE"
      /\ a /\ b /\ c /\ copied => v = "OK"
  BY <1>2, <1>3
<1>. HIDE DEF v
<1>5. v \in {"OK", "DEVICE", "NOT_INIT", "ARG"} BY <1>4
<1>6. v \in {"OK", "DEVICE"} => a /\ c BY <1>4
<1>7. v \in {"OK", "DEVICE"} => eng.alive /\ ~eng.legacy /\ ~eng.fpRun BY <1>0, <1>6, Zenon
<1>. QED BY <1>5, <1>7 DEF v

\* A full-window table is written only while the engine knows of no kernel: a
\* torn copy is found by the last check, so every check before it passed.
LEMMA FullVerdict ==
  ASSUME GateTypes, NEW blob
  PROVE  LET v == Verdict(FullChecks(blob))
         IN  v \in {"OK", "DEVICE"} \/ (blob = "torn" /\ v = "VERIFY")
             => eng.alive /\ ~eng.legacy /\ ~eng.fpRun
<1>. PICK checks : checks = FullChecks(blob) OBVIOUS
<1>. SUFFICES ASSUME \/ Verdict(checks) \in {"OK", "DEVICE"}
                     \/ blob = "torn" /\ Verdict(checks) = "VERIFY"
              PROVE  eng.alive /\ ~eng.legacy /\ ~eng.fpRun
  OBVIOUS
<1>0. eng.alive \in BOOLEAN /\ eng.legacy \in BOOLEAN /\ eng.fpRun \in BOOLEAN
  BY DEF GateTypes, Engines
<1>1. /\ DOMAIN checks = 1 .. 8
      /\ checks[1] = <<eng.alive, "NOT_INIT">> /\ checks[2] = <<FullWindow, "UNSUPPORTED">>
      /\ checks[4] = <<~eng.legacy /\ ~eng.fpRun, "ARG">>
  BY DEF FullChecks, Alive
<1>2. /\ checks[3] = <<blob # "short", "ARG">> /\ checks[5] = <<blob # "header", "ARG">>
      /\ checks[6] = <<blob # "digest", "VERIFY">> /\ checks[7] = <<blob # "uncopied", "DEVICE">>
      /\ checks[8] = <<blob # "torn", "VERIFY">>
  BY DEF FullChecks
<1>a. /\ checks[1][2] = "NOT_INIT" /\ checks[2][2] = "UNSUPPORTED" /\ checks[3][2] = "ARG"
      /\ checks[4][2] = "ARG" /\ checks[5][2] = "ARG" /\ checks[6][2] = "VERIFY"
      /\ checks[7][2] = "DEVICE" /\ checks[8][2] = "VERIFY"
  BY <1>1, <1>2
<1>b. /\ checks[1][1] = eng.alive /\ checks[4][1] = (~eng.legacy /\ ~eng.fpRun)
      /\ checks[6][1] = (blob # "digest")
  BY <1>0, <1>1, <1>2
<1>3. CASE \A i \in DOMAIN checks : checks[i][1]
  <2>1. checks[1][1] /\ checks[4][1] BY <1>1, <1>3
  <2>. QED BY <1>b, <2>1
<1>4. CASE \E m \in DOMAIN checks :
             /\ ~checks[m][1] /\ Verdict(checks) = checks[m][2]
             /\ \A j \in DOMAIN checks : j < m => checks[j][1]
  <2>1. PICK m \in DOMAIN checks :
               /\ ~checks[m][1] /\ Verdict(checks) = checks[m][2]
               /\ \A j \in DOMAIN checks : j < m => checks[j][1]
    BY <1>4
  <2>2. m \in {1, 2, 3, 4, 5, 6, 7, 8} BY <1>1
  <2>3. m \in {7, 8}
    <3>1. checks[m][2] \in {"OK", "DEVICE"} \/ (blob = "torn" /\ checks[m][2] = "VERIFY")
      BY <2>1
    <3>2. m # 6 \/ blob # "torn" BY <1>b, <2>1
    <3>. QED BY <1>a, <2>2, <3>1, <3>2
  <2>4. checks[1][1] /\ checks[4][1] BY <1>1, <2>1, <2>3
  <2>. QED BY <1>b, <2>4
<1>5. DOMAIN checks \subseteq Nat BY <1>1
<1>. QED BY <1>3, <1>4, <1>5, VerdictIs
-----------------------------------------------------------------------------
(* Types. *)

\* The steps, one by one.
LEMMA Steps ==
  ASSUME GateNext
  PROVE
    \/ \E a, b \in BOOLEAN : EngineInit(a, b)
    \/ EngineShutdown \/ FastPathStop
    \/ \E ok \in BOOLEAN : FastPathCreate(ok) \/ FastPathStart(ok) \/ LoadKeyP256(ok)
    \/ \E ok \in BOOLEAN, size \in TableSizes : LoadComb(size, ok)
    \/ \E ok \in BOOLEAN, s \in 0 .. 2, type \in {"AES256", "HMAC"} : LoadKeyTyped(s, type, ok)
    \/ \E blob \in Blobs : LoadFullWindow(blob)
    \/ \E type \in {"P256", "AES256"}, a, b \in BOOLEAN : RotateTyped(type, a, b)
    \/ PyCreate \/ PyEngineShutdown \/ PyStop \/ Register \/ ClearHandle
    \/ \E ok \in BOOLEAN : PyStart(ok) \/ \E size \in TableSizes : PyLoadComb(size, ok)
    \/ ReadsOnly
BY Zenon DEF GateNext, ReadsOnly

LEMMA CallTypes ==
  ASSUME GateTypes, NEW way, NEW v, NEW e \in Engines, NEW g \in Gpus, Call(way, v, e, g)
  PROVE  GateTypes'
BY DEF GateTypes, Call

LEMMA DoneTypes ==
  ASSUME GateTypes, NEW way, NEW v, NEW e \in Engines, NEW g \in Gpus, Done(way, v, e, g)
  PROVE  GateTypes'
BY DEF GateTypes, Done, Call

LEMMA TypesInit == GateInit => GateTypes
BY DEF GateInit, GateTypes, Flags, IdleGpu, NoKey, Whole, Engines, Gpus, Handles, SlotTypes, SlotRecs

\* A load writes one slot at most, and none when no copy was begun.
LEMMA LoadedIs ==
  ASSUME GateTypes, NEW s \in 0 .. 2, NEW type \in SlotTypes, NEW v, NEW keys \in Loaded(s, type, v)
  PROVE  /\ keys \in [{0, 1} -> SlotRecs]
         /\ \E i \in {0, 1} : keys[1 - i] = gpu.slots[1 - i]
         /\ v \notin {"OK", "DEVICE"} => keys = gpu.slots
<1>1. gpu.slots \in [{0, 1} -> SlotRecs] BY DEF GateTypes, Gpus
<1>2. Whole(type) \in SlotRecs /\ Torn(type) \in SlotRecs BY DEF Whole, Torn, SlotRecs
<1>3. \A x : [gpu.slots EXCEPT ![s] = x][1] = gpu.slots[1]
             \/ [gpu.slots EXCEPT ![s] = x][0] = gpu.slots[0]
  BY <1>1
<1>4. \A x \in SlotRecs : [gpu.slots EXCEPT ![s] = x] \in [{0, 1} -> SlotRecs] BY <1>1
<1>5. keys \in {gpu.slots, [gpu.slots EXCEPT ![s] = Whole(type)], [gpu.slots EXCEPT ![s] = Torn(type)]}
  BY DEF Loaded
<1>6. v \notin {"OK", "DEVICE"} => keys = gpu.slots BY DEF Loaded
<1>7. keys[1] = gpu.slots[1] \/ keys[0] = gpu.slots[0] BY <1>3, <1>5
<1>8. \E i \in {0, 1} : keys[1 - i] = gpu.slots[1 - i]
  <2>1. CASE keys[1] = gpu.slots[1]
    <3>1. 1 - 0 = 1 OBVIOUS
    <3>. QED BY <2>1, <3>1
  <2>2. CASE keys[0] = gpu.slots[0]
    <3>1. 1 - 1 = 0 OBVIOUS
    <3>. QED BY <2>2, <3>1
  <2>. QED BY <1>7, <2>1, <2>2
<1>. QED BY <1>1, <1>2, <1>4, <1>5, <1>6, <1>8

LEMMA CombIs ==
  ASSUME GateTypes, NEW v, NEW comb \in CombAfter(v)
  PROVE  comb \in BOOLEAN /\ (v = "OK" => comb)
BY DEF CombAfter, GateTypes, Gpus

LEMMA FullIs ==
  ASSUME GateTypes, NEW blob, NEW v, NEW full \in FullAfter(blob, v)
  PROVE  full \in BOOLEAN /\ (v = "OK" => full)
BY DEF FullAfter, GateTypes, Gpus

LEMMA TypesNext ==
  ASSUME GateTypes, GateNext
  PROVE  GateTypes'
<1>. USE DEF GateTypes
<1>0. /\ eng.alive \in BOOLEAN /\ eng.legacy \in BOOLEAN /\ eng.fpRun \in BOOLEAN
      /\ eng.fp \in Handles \union {"none"} /\ eng.comb \in BOOLEAN /\ eng.full \in BOOLEAN
      /\ gpu.legacy \in BOOLEAN /\ gpu.made \in SUBSET Handles
      /\ gpu.fast \in SUBSET (Handles \union {"none"}) /\ gpu.active \in {0, 1}
      /\ gpu.slots \in [{0, 1} -> SlotRecs] /\ gpu.comb \in BOOLEAN /\ gpu.full \in BOOLEAN
      /\ eng.keyLoaded \in BOOLEAN /\ eng.hasP256 \in BOOLEAN
  BY DEF Engines, Gpus
<1>1. Upload(gpu) \in Gpus BY DEF Upload, Gpus
<1>1a. \A f \in BOOLEAN : /\ [Upload(gpu) EXCEPT !.comb = f] \in Gpus
                          /\ [Upload(gpu) EXCEPT !.full = f] \in Gpus
  <2>1. \A g \in Gpus, f \in BOOLEAN :
          [g EXCEPT !.comb = f] \in Gpus /\ [g EXCEPT !.full = f] \in Gpus
    BY DEF Gpus
  <2>. QED BY <1>1, <2>1
<1>1b. \A f, h \in BOOLEAN : [eng EXCEPT !.keyLoaded = f, !.hasP256 = h] \in Engines
  BY DEF Engines
<1>2. Stopped(gpu.legacy) \in BOOLEAN BY <1>0 DEF Stopped
<1>3. NoKey \in [{0, 1} -> SlotRecs] BY DEF NoKey, Whole, SlotTypes, SlotRecs
<1>4. \A keys \in [{0, 1} -> SlotRecs], i \in {0, 1} :
        /\ [gpu EXCEPT !.slots = keys] \in Gpus
        /\ [gpu EXCEPT !.slots = keys, !.active = i] \in Gpus
  BY DEF Gpus
<1>5. ASSUME NEW a \in BOOLEAN, NEW b \in BOOLEAN, EngineInit(a, b) PROVE GateTypes'
  <2>1. [Flags EXCEPT !.alive = TRUE, !.legacy = TRUE] \in Engines BY DEF Flags, Engines, Handles
  <2>2. [gpu EXCEPT !.legacy = TRUE, !.slots = NoKey, !.active = 0] \in Gpus BY <1>3 DEF Gpus
  <2>. QED BY <1>5, <2>1, <2>2, DoneTypes DEF EngineInit
<1>6. CASE EngineShutdown
  <2>1. Flags \in Engines BY DEF Flags, Engines, Handles
  <2>2. [gpu EXCEPT !.legacy = FALSE, !.fast = @ \ {eng.fp}, !.made = @ \ {eng.fp}] \in Gpus
    BY <1>0 DEF Gpus
  <2>. QED BY <1>6, <2>1, <2>2, CallTypes DEF EngineShutdown
<1>7. CASE FastPathStop
  <2>. DEFINE stops == eng.alive /\ eng.fp # "none" /\ eng.fpRun
  <2>1. [eng EXCEPT !.fpRun = @ /\ ~stops] \in Engines BY <1>0 DEF Engines
  <2>2. [gpu EXCEPT !.fast = IF stops /\ StopsInTime THEN @ \ {eng.fp} ELSE @] \in Gpus
    BY <1>0 DEF Gpus
  <2>. QED BY <1>7, <2>1, <2>2, CallTypes DEF FastPathStop
<1>8. ASSUME NEW ok \in BOOLEAN, FastPathCreate(ok) PROVE GateTypes'
  <2>. DEFINE new == eng.alive /\ eng.fp = "none"
  <2>1. [eng EXCEPT !.legacy = @ /\ ~new, !.fp = IF new /\ ok THEN "abi" ELSE @] \in Engines
    BY <1>0 DEF Engines, Handles
  <2>2. [gpu EXCEPT !.legacy = IF new THEN Stopped(@) ELSE @,
                    !.made = IF new /\ ok THEN @ \union {"abi"} ELSE @] \in Gpus
    BY <1>0, <1>2 DEF Gpus, Handles
  <2>. QED BY <1>8, <2>1, <2>2, CallTypes DEF FastPathCreate
<1>9. ASSUME NEW ok \in BOOLEAN, FastPathStart(ok) PROVE GateTypes'
  <2>1. [eng EXCEPT !.fpRun = TRUE] \in Engines BY DEF Engines
  <2>2. [gpu EXCEPT !.fast = @ \union {eng.fp}] \in Gpus BY <1>0 DEF Gpus
  <2>. QED BY <1>9, <2>1, <2>2, DoneTypes DEF FastPathStart
<1>10. ASSUME NEW ok \in BOOLEAN, LoadKeyP256(ok) PROVE GateTypes'
  <2>. DEFINE v == Verdict(<<Alive,
                     <<eng.fp # "none" /\ eng.fpRun => TablesFor(TRUE), "NOT_INIT">>,
                     <<ok, "DEVICE">> >>)
              e == [eng EXCEPT !.keyLoaded = @ \/ v = "OK", !.hasP256 = @ \/ v = "OK"]
  <2>1. PICK keys \in Loaded(0, "P256", v) : Call("c", v, e, [gpu EXCEPT !.slots = keys])
    BY <1>10 DEF LoadKeyP256
  <2>. HIDE DEF v
  <2>2. e \in Engines
    <3>1. (eng.keyLoaded \/ v = "OK") \in BOOLEAN /\ (eng.hasP256 \/ v = "OK") \in BOOLEAN
      OBVIOUS
    <3>. QED BY <1>1b, <3>1, Zenon
  <2>3. keys \in [{0, 1} -> SlotRecs]
    <3>1. 0 \in 0 .. 2 /\ "P256" \in SlotTypes BY DEF SlotTypes
    <3>. QED BY <2>1, <3>1, LoadedIs
  <2>. HIDE DEF e
  <2>. QED BY <1>0, <1>4, <2>1, <2>2, <2>3, CallTypes
<1>11. ASSUME NEW ok \in BOOLEAN, NEW size \in TableSizes, LoadComb(size, ok) PROVE GateTypes'
  <2>. DEFINE v == Verdict(CombChecks(size, ok))
              e == [eng EXCEPT !.comb = @ \/ v = "OK"]
  <2>. HIDE DEF v
  <2>1. PICK comb, g :
               /\ comb \in CombAfter(v)
               /\ g = IF v \in {"OK", "DEVICE"} THEN [Upload(gpu) EXCEPT !.comb = comb] ELSE gpu
               /\ Call("c", v, e, g)
    BY <1>11 DEF LoadComb, v
  <2>2. g \in Gpus
    <3>1. comb \in BOOLEAN BY <2>1, CombIs
    <3>2. [Upload(gpu) EXCEPT !.comb = comb] \in Gpus BY <1>1a, <3>1, Zenon
    <3>. QED BY <2>1, <3>2
  <2>3. e \in Engines BY <1>0 DEF Engines
  <2>. HIDE DEF e
  <2>. QED BY <2>1, <2>2, <2>3, CallTypes
<1>12. ASSUME NEW ok \in BOOLEAN, NEW s \in 0 .. 2, NEW type \in {"AES256", "HMAC"},
              LoadKeyTyped(s, type, ok)
       PROVE  GateTypes'
  <2>. DEFINE v == Verdict(<<Alive, <<s \in {0, 1}, "DEVICE">>, <<ok, "DEVICE">> >>)
  <2>1. PICK keys \in Loaded(s, type, v) : Call("c", v, eng, [gpu EXCEPT !.slots = keys])
    BY <1>12 DEF LoadKeyTyped
  <2>. HIDE DEF v
  <2>2. keys \in [{0, 1} -> SlotRecs] BY <2>1, LoadedIs DEF SlotTypes
  <2>. QED BY <1>0, <1>4, <2>1, <2>2, CallTypes
<1>13. ASSUME NEW blob \in Blobs, LoadFullWindow(blob) PROVE GateTypes'
  <2>. DEFINE v == Verdict(FullChecks(blob))
              e == [eng EXCEPT !.full = @ \/ v = "OK"]
  <2>. HIDE DEF v
  <2>1. PICK full, g :
               /\ full \in FullAfter(blob, v)
               /\ g = IF v \in {"OK", "DEVICE"} \/ (blob = "torn" /\ v = "VERIFY")
                      THEN [Upload(gpu) EXCEPT !.full = full] ELSE gpu
               /\ Call("c", v, e, g)
    BY <1>13 DEF LoadFullWindow, v
  <2>2. g \in Gpus
    <3>1. full \in BOOLEAN BY <2>1, FullIs
    <3>2. [Upload(gpu) EXCEPT !.full = full] \in Gpus BY <1>1a, <3>1, Zenon
    <3>. QED BY <2>1, <3>2
  <2>3. e \in Engines BY <1>0 DEF Engines
  <2>. HIDE DEF e
  <2>. QED BY <2>1, <2>2, <2>3, CallTypes
<1>14. ASSUME NEW type \in {"P256", "AES256"}, NEW a \in BOOLEAN, NEW b \in BOOLEAN,
              RotateTyped(type, a, b)
       PROVE  GateTypes'
  <2>. DEFINE next == 1 - gpu.active
              v    == Verdict(<<Alive, <<a, "DEVICE">>, <<b, "DEVICE">> >>)
              w    == IF eng.alive /\ a THEN "OK" ELSE v
  <2>1. PICK keys \in Loaded(next, type, w), c \in BOOLEAN :
               Call("rotate", v, eng,
                    [gpu EXCEPT !.slots = keys, !.active = IF c THEN next ELSE @])
    BY <1>14 DEF RotateTyped
  <2>2. next \in {0, 1} BY <1>0
  <2>. HIDE DEF v, w
  <2>3. keys \in [{0, 1} -> SlotRecs]
    <3>1. next \in 0 .. 2 /\ type \in SlotTypes BY <2>2 DEF SlotTypes
    <3>. HIDE DEF next
    <3>. QED BY <2>1, <3>1, LoadedIs
  <2>4. (IF c THEN next ELSE gpu.active) \in {0, 1} BY <1>0, <2>2
  <2>. HIDE DEF next
  <2>. QED BY <1>4, <2>1, <2>3, <2>4, CallTypes
<1>15. CASE PyCreate
  <2>1. [gpu EXCEPT !.made = @ \union {"py"}] \in Gpus BY <1>0 DEF Gpus, Handles
  <2>. QED BY <1>15, <2>1, CallTypes DEF PyCreate
<1>16. CASE PyEngineShutdown
  <2>1. [gpu EXCEPT !.legacy = Stopped(@)] \in Gpus BY <1>2 DEF Gpus
  <2>. QED BY <1>16, <2>1, CallTypes DEF PyEngineShutdown
<1>17. CASE PyStop
  <2>1. [gpu EXCEPT !.fast = IF StopsInTime THEN @ \ {"py"} ELSE @] \in Gpus BY <1>0 DEF Gpus
  <2>. QED BY <1>17, <2>1, CallTypes DEF PyStop
<1>18. CASE Register
  <2>1. [eng EXCEPT !.fp = "py", !.fpRun = TRUE] \in Engines BY DEF Engines, Handles
  <2>. QED BY <1>18, <2>1, CallTypes DEF Register
<1>19. CASE ClearHandle
  <2>1. [eng EXCEPT !.fp = "none", !.fpRun = FALSE] \in Engines BY DEF Engines, Handles
  <2>. QED BY <1>19, <2>1, CallTypes DEF ClearHandle
<1>20. ASSUME NEW ok \in BOOLEAN, PyStart(ok) PROVE GateTypes'
  <2>1. [gpu EXCEPT !.fast = @ \union {"py"}] \in Gpus BY <1>0 DEF Gpus, Handles
  <2>. QED BY <1>20, <2>1, DoneTypes DEF PyStart
<1>21. ASSUME NEW ok \in BOOLEAN, NEW size \in TableSizes, PyLoadComb(size, ok) PROVE GateTypes'
  <2>. DEFINE v == Verdict(<< <<size = CombSize, "ARG">>, <<ok, "DEVICE">> >>)
              e == [eng EXCEPT !.comb = @ \/ (v = "OK" /\ eng.alive)]
  <2>. HIDE DEF v
  <2>1. PICK comb, g :
               /\ comb \in CombAfter(v)
               /\ g = IF v = "ARG" THEN gpu ELSE [Upload(gpu) EXCEPT !.comb = comb]
               /\ Call("py", v, e, g)
    BY <1>21 DEF PyLoadComb, v
  <2>2. g \in Gpus
    <3>1. comb \in BOOLEAN BY <2>1, CombIs
    <3>2. [Upload(gpu) EXCEPT !.comb = comb] \in Gpus BY <1>1a, <3>1, Zenon
    <3>. QED BY <2>1, <3>2
  <2>3. e \in Engines BY <1>0 DEF Engines
  <2>. HIDE DEF e
  <2>. QED BY <2>1, <2>2, <2>3, CallTypes
<1>22. ASSUME NEW way, NEW v, Unchanged(way, v) PROVE GateTypes'
  BY <1>22, CallTypes DEF Unchanged
<1>23. ASSUME ReadsOnly PROVE GateTypes'
  BY <1>22, <1>23 DEF ReadsOnly, SignP256, Configure, GenericSubmit, SubmitAndDrain, Measure
<1>. HIDE DEF GateTypes
<1>. QED
  BY <1>5, <1>6, <1>7, <1>8, <1>9, <1>10, <1>11, <1>12, <1>13, <1>14, <1>15, <1>16, <1>17,
     <1>18, <1>19, <1>20, <1>21, <1>23, Steps
-----------------------------------------------------------------------------
(* A call that fails is clean. *)

LEMMA DoneClean ==
  ASSUME NEW way, NEW v, NEW e, NEW g, Done(way, v, e, g)
  PROVE  CleanRefusal
BY DEF Done, Call, CleanRefusal, Flagged, Keys, SparesASlot, SparesATable

LEMMA OkClean ==
  ASSUME NEW way, NEW e, NEW g, Call(way, "OK", e, g)
  PROVE  CleanRefusal
BY DEF Call, CleanRefusal

LEMMA UnchangedClean ==
  ASSUME NEW way, NEW v, Unchanged(way, v)
  PROVE  CleanRefusal
BY DEF Unchanged, Call, CleanRefusal, Flagged, Keys, SparesASlot, SparesATable

\* A load of a key, and a rotation.
LEMMA KeysClean ==
  ASSUME GateTypes, NEW keys, NEW active, eng' = eng,
         gpu' = [gpu EXCEPT !.slots = keys, !.active = active],
         \E i \in {0, 1} : keys[1 - i] = gpu.slots[1 - i],
         ret' # "DEVICE" => keys = gpu.slots /\ active = gpu.active
  PROVE  CleanRefusal
<1>1. /\ gpu'.slots = keys /\ gpu'.active = active /\ gpu'.comb = gpu.comb
      /\ gpu'.full = gpu.full /\ gpu'.fast = gpu.fast /\ gpu'.made = gpu.made
  BY DEF GateTypes, Gpus
<1>2. SparesASlot /\ SparesATable BY <1>1 DEF SparesASlot, SparesATable
<1>. QED BY <1>1, <1>2 DEF CleanRefusal, Flagged, Keys

\* An upload of a table.
LEMMA TableClean ==
  ASSUME GateTypes, NEW comb, NEW full, eng' = eng,
         \/ gpu' = gpu
         \/ /\ gpu' = [Upload(gpu) EXCEPT !.comb = comb] \/ gpu' = [Upload(gpu) EXCEPT !.full = full]
            /\ ret' \in {"DEVICE", "VERIFY"}
  PROVE  CleanRefusal
<1>1. CASE gpu' = gpu BY <1>1 DEF CleanRefusal, Flagged, Keys, SparesASlot, SparesATable
<1>2. ASSUME gpu' # gpu PROVE CleanRefusal
  <2>1. ret' \in {"DEVICE", "VERIFY"} BY <1>2
  <2>2. /\ Upload(gpu) \in Gpus /\ Upload(gpu).slots = gpu.slots
        /\ Upload(gpu).active = gpu.active /\ Upload(gpu).fast = gpu.fast
        /\ Upload(gpu).made = gpu.made /\ Upload(gpu).comb = gpu.comb
        /\ Upload(gpu).full = gpu.full
    BY DEF Upload, GateTypes, Gpus
  <2>3. \A g \in Gpus :
          LET h == [g EXCEPT !.comb = comb]
          IN  /\ h.slots = g.slots /\ h.active = g.active /\ h.fast = g.fast
              /\ h.made = g.made /\ h.full = g.full
    BY DEF Gpus
  <2>4. \A g \in Gpus :
          LET h == [g EXCEPT !.full = full]
          IN  /\ h.slots = g.slots /\ h.active = g.active /\ h.fast = g.fast
              /\ h.made = g.made /\ h.comb = g.comb
    BY DEF Gpus
  <2>5. /\ gpu'.slots = gpu.slots /\ gpu'.active = gpu.active /\ gpu'.fast = gpu.fast
        /\ gpu'.made = gpu.made
        /\ gpu'.comb = gpu.comb \/ gpu'.full = gpu.full
    <3>1. CASE gpu' = [Upload(gpu) EXCEPT !.comb = comb] BY <2>2, <2>3, <3>1
    <3>2. CASE gpu' = [Upload(gpu) EXCEPT !.full = full] BY <2>2, <2>4, <3>2
    <3>. QED BY <1>2, <3>1, <3>2
  <2>6. SparesASlot /\ SparesATable BY <2>5 DEF SparesASlot, SparesATable
  <2>. QED BY <2>1, <2>5, <2>6 DEF CleanRefusal, Flagged, Keys
<1>. QED BY <1>1, <1>2

LEMMA CleanNext ==
  ASSUME GateTypes, GateNext
  PROVE  CleanRefusal
<1>0. /\ eng.alive \in BOOLEAN /\ eng.legacy \in BOOLEAN /\ eng.fpRun \in BOOLEAN
      /\ eng.full \in BOOLEAN /\ eng \in Engines /\ gpu \in Gpus
  BY DEF GateTypes, Engines
<1>1. ASSUME NEW ok \in BOOLEAN, FastPathCreate(ok) PROVE CleanRefusal
  <2>. DEFINE v == Verdict(<<Alive, <<ok \/ eng.fp # "none", "DEVICE">> >>)
              new == eng.alive /\ eng.fp = "none"
              e == [eng EXCEPT !.legacy = @ /\ ~new, !.fp = IF new /\ ok THEN "abi" ELSE @]
              g == [gpu EXCEPT !.legacy = IF new THEN Stopped(@) ELSE @,
                               !.made = IF new /\ ok THEN @ \union {"abi"} ELSE @]
  <2>1. eng' = e /\ gpu' = g /\ ret' = v BY <1>1 DEF FastPathCreate, Call
  <2>2. v = "OK" <=> eng.alive /\ (ok \/ eng.fp # "none")
    <3>1. (ok \/ eng.fp # "none") \in BOOLEAN OBVIOUS
    <3>2. \A a, b \in BOOLEAN :
            Verdict(<< <<a, "NOT_INIT">>, <<b, "DEVICE">> >>) = "OK" <=> a /\ b
      <4>1. \A p, q : \A a, b \in BOOLEAN :
              LET w == Verdict(<< <<a, p>>, <<b, q>> >>)
              IN  (~a => w = p) /\ (a /\ ~b => w = q) /\ (a /\ b => w = "OK")
        BY Verdict2
      <4>. QED BY <4>1
    <3>3. v = "OK" <=> eng.alive /\ (ok \/ eng.fp # "none")
      BY <1>0, <3>1, <3>2, Zenon DEF Alive
    <3>. QED BY <3>3
  <2>. HIDE DEF v
  <2>3. CASE v # "OK"
    <3>1. ~ (new /\ ok) BY <2>2, <2>3
    <3>2. /\ e.alive = eng.alive /\ e.fp = eng.fp /\ e.fpRun = eng.fpRun
          /\ e.keyLoaded = eng.keyLoaded /\ e.hasP256 = eng.hasP256
          /\ e.comb = eng.comb /\ e.full = eng.full
      BY <1>0, <3>1 DEF Engines
    <3>3. /\ g.slots = gpu.slots /\ g.active = gpu.active /\ g.fast = gpu.fast
          /\ g.made = gpu.made /\ g.comb = gpu.comb /\ g.full = gpu.full
      BY <1>0, <3>1 DEF Gpus
    <3>. HIDE DEF e, g
    <3>. QED BY <2>1, <3>2, <3>3 DEF CleanRefusal, Flagged, Keys, SparesASlot, SparesATable
  <2>. QED BY <2>1, <2>3 DEF CleanRefusal
<1>2. ASSUME FastPathStop PROVE CleanRefusal
  <2>. DEFINE v == Verdict(<<Alive>>)
              stops == eng.alive /\ eng.fp # "none" /\ eng.fpRun
              e == [eng EXCEPT !.fpRun = @ /\ ~stops]
              g == [gpu EXCEPT !.fast = IF stops /\ StopsInTime THEN @ \ {eng.fp} ELSE @]
  <2>1. eng' = e /\ gpu' = g /\ ret' = v BY <1>2 DEF FastPathStop, Call
  <2>2. v = "OK" <=> eng.alive BY <1>0, Verdict1 DEF Alive
  <2>. HIDE DEF v
  <2>3. CASE v # "OK"
    <3>1. ~stops BY <2>2, <2>3
    <3>2. e = eng /\ g = gpu BY <1>0, <3>1 DEF Engines, Gpus
    <3>. QED BY <2>1, <3>2 DEF CleanRefusal, Flagged, Keys, SparesASlot, SparesATable
  <2>. QED BY <2>1, <2>3 DEF CleanRefusal
<1>3. ASSUME NEW blob \in Blobs, LoadFullWindow(blob) PROVE CleanRefusal
  <2>. DEFINE v == Verdict(FullChecks(blob))
              e == [eng EXCEPT !.full = @ \/ v = "OK"]
  <2>1. PICK full \in FullAfter(blob, v) :
               Call("c", v, e, IF v \in {"OK", "DEVICE"} \/ (blob = "torn" /\ v = "VERIFY")
                               THEN [Upload(gpu) EXCEPT !.full = full] ELSE gpu)
    BY <1>3 DEF LoadFullWindow
  <2>. HIDE DEF v
  <2>2. CASE v # "OK"
    <3>1. e = eng BY <1>0, <2>2 DEF Engines
    <3>. HIDE DEF e
    <3>. QED BY <2>1, <2>2, <3>1, TableClean DEF Call
  <2>3. CASE v = "OK" BY <2>1, <2>3, OkClean
  <2>. QED BY <2>2, <2>3
<1>4. ASSUME ReadsOnly PROVE CleanRefusal
  BY <1>4, UnchangedClean
  DEF ReadsOnly, SignP256, Configure, GenericSubmit, SubmitAndDrain, Measure
<1>5. ASSUME NEW a, NEW b, EngineInit(a, b) PROVE CleanRefusal
  BY <1>5, DoneClean DEF EngineInit
<1>6. ASSUME NEW ok, FastPathStart(ok) \/ PyStart(ok) PROVE CleanRefusal
  BY <1>6, DoneClean DEF FastPathStart, PyStart
<1>7. ASSUME NEW ok \in BOOLEAN, LoadKeyP256(ok) PROVE CleanRefusal
  <2>. DEFINE v == Verdict(<<Alive,
                     <<eng.fp # "none" /\ eng.fpRun => TablesFor(TRUE), "NOT_INIT">>,
                     <<ok, "DEVICE">> >>)
              e == [eng EXCEPT !.keyLoaded = @ \/ v = "OK", !.hasP256 = @ \/ v = "OK"]
  <2>1. PICK keys \in Loaded(0, "P256", v) : Call("c", v, e, [gpu EXCEPT !.slots = keys])
    BY <1>7 DEF LoadKeyP256
  <2>. HIDE DEF v
  <2>2. CASE v # "OK"
    <3>1. e = eng BY <1>0, <2>2 DEF Engines
    <3>2. [gpu EXCEPT !.slots = keys] = [gpu EXCEPT !.slots = keys, !.active = gpu.active]
      BY <1>0 DEF Gpus
    <3>3. 0 \in 0 .. 2 /\ "P256" \in SlotTypes BY DEF SlotTypes
    <3>4. /\ \E i \in {0, 1} : keys[1 - i] = gpu.slots[1 - i]
          /\ v # "DEVICE" => keys = gpu.slots
      BY <2>1, <2>2, <3>3, LoadedIs
    <3>. HIDE DEF e
    <3>5. eng' = eng /\ ret' = v /\ gpu' = [gpu EXCEPT !.slots = keys, !.active = gpu.active]
      BY <2>1, <3>1, <3>2 DEF Call
    <3>. QED BY <3>4, <3>5, KeysClean
  <2>3. CASE v = "OK" BY <2>1, <2>3, OkClean
  <2>. QED BY <2>2, <2>3
<1>9. ASSUME NEW ok \in BOOLEAN, NEW size, LoadComb(size, ok) PROVE CleanRefusal
  <2>. DEFINE v == Verdict(CombChecks(size, ok))
              e == [eng EXCEPT !.comb = @ \/ v = "OK"]
  <2>1. PICK comb \in CombAfter(v) :
               Call("c", v, e, IF v \in {"OK", "DEVICE"}
                               THEN [Upload(gpu) EXCEPT !.comb = comb] ELSE gpu)
    BY <1>9 DEF LoadComb
  <2>. HIDE DEF v
  <2>2. CASE v # "OK"
    <3>1. e = eng BY <1>0, <2>2 DEF Engines
    <3>. HIDE DEF e
    <3>. QED BY <2>1, <2>2, <3>1, TableClean DEF Call
  <2>3. CASE v = "OK" BY <2>1, <2>3, OkClean
  <2>. QED BY <2>2, <2>3
<1>10. ASSUME NEW ok \in BOOLEAN, NEW size, PyLoadComb(size, ok) PROVE CleanRefusal
  <2>. DEFINE v == Verdict(<< <<size = CombSize, "ARG">>, <<ok, "DEVICE">> >>)
              e == [eng EXCEPT !.comb = @ \/ (v = "OK" /\ eng.alive)]
  <2>1. PICK comb \in CombAfter(v) :
               Call("py", v, e, IF v = "ARG" THEN gpu ELSE [Upload(gpu) EXCEPT !.comb = comb])
    BY <1>10 DEF PyLoadComb
  <2>2. v \in {"OK", "ARG", "DEVICE"}
    <3>1. \A a, b \in BOOLEAN :
            LET w == Verdict(<< <<a, "ARG">>, <<b, "DEVICE">> >>)
            IN  (~a => w = "ARG") /\ (a /\ ~b => w = "DEVICE") /\ (a /\ b => w = "OK")
      BY Verdict2
    <3>2. (size = CombSize) \in BOOLEAN OBVIOUS
    <3>3. /\ ~(size = CombSize) => v = "ARG"
          /\ size = CombSize /\ ~ok => v = "DEVICE"
          /\ size = CombSize /\ ok => v = "OK"
      BY <3>1, <3>2, Zenon
    <3>. HIDE DEF v
    <3>. QED BY <3>3
  <2>. HIDE DEF v
  <2>3. CASE v # "OK"
    <3>1. e = eng BY <1>0, <2>3 DEF Engines
    <3>. HIDE DEF e
    <3>. QED BY <2>1, <2>2, <2>3, <3>1, TableClean DEF Call
  <2>4. CASE v = "OK" BY <2>1, <2>4, OkClean
  <2>. QED BY <2>3, <2>4
<1>11. ASSUME NEW ok \in BOOLEAN, NEW s \in 0 .. 2, NEW type \in {"AES256", "HMAC"},
              LoadKeyTyped(s, type, ok)
       PROVE  CleanRefusal
  <2>. DEFINE v == Verdict(<<Alive, <<s \in {0, 1}, "DEVICE">>, <<ok, "DEVICE">> >>)
  <2>1. PICK keys \in Loaded(s, type, v) : Call("c", v, eng, [gpu EXCEPT !.slots = keys])
    BY <1>11 DEF LoadKeyTyped
  <2>. HIDE DEF v
  <2>2. CASE v # "OK"
    <3>1. [gpu EXCEPT !.slots = keys] = [gpu EXCEPT !.slots = keys, !.active = gpu.active]
      BY <1>0 DEF Gpus
    <3>2. /\ \E i \in {0, 1} : keys[1 - i] = gpu.slots[1 - i]
          /\ v # "DEVICE" => keys = gpu.slots
      BY <2>1, <2>2, LoadedIs DEF SlotTypes
    <3>. QED BY <2>1, <3>1, <3>2, KeysClean DEF Call
  <2>3. CASE v = "OK" BY <2>1, <2>3, OkClean
  <2>. QED BY <2>2, <2>3
<1>12. ASSUME NEW type \in {"P256", "AES256"}, NEW a \in BOOLEAN, NEW b \in BOOLEAN,
              RotateTyped(type, a, b)
       PROVE  CleanRefusal
  <2>. DEFINE next == 1 - gpu.active
              v    == Verdict(<<Alive, <<a, "DEVICE">>, <<b, "DEVICE">> >>)
              w    == IF eng.alive /\ a THEN "OK" ELSE v
  <2>1. PICK keys \in Loaded(next, type, w), c \in BOOLEAN :
               /\ c => eng.alive /\ a
               /\ Call("rotate", v, eng,
                       [gpu EXCEPT !.slots = keys, !.active = IF c THEN next ELSE @])
    BY <1>12 DEF RotateTyped
  <2>2. /\ ~eng.alive => v = "NOT_INIT"
        /\ eng.alive /\ ~a => v = "DEVICE"
        /\ eng.alive /\ a /\ ~b => v = "DEVICE"
        /\ eng.alive /\ a /\ b => v = "OK"
    <3>1. \A x, y, z \in BOOLEAN :
            LET u == Verdict(<< <<x, "NOT_INIT">>, <<y, "DEVICE">>, <<z, "DEVICE">> >>)
            IN  /\ ~x => u = "NOT_INIT"
                /\ x /\ ~y => u = "DEVICE"
                /\ x /\ y /\ ~z => u = "DEVICE"
                /\ x /\ y /\ z => u = "OK"
      BY Verdict3
    <3>. QED BY <1>0, <3>1, Zenon DEF Alive
  <2>3. next \in 0 .. 2 BY <1>0 DEF Gpus
  <2>. HIDE DEF v, next
  <2>4. CASE v # "OK"
    <3>1. \E i \in {0, 1} : keys[1 - i] = gpu.slots[1 - i]
      BY <2>1, <2>3, LoadedIs DEF SlotTypes
    <3>2. v # "DEVICE" => keys = gpu.slots /\ (IF c THEN next ELSE gpu.active) = gpu.active
      <4>. SUFFICES ASSUME v # "DEVICE" PROVE keys = gpu.slots /\ ~c OBVIOUS
      <4>1. ~eng.alive /\ v = "NOT_INIT" BY <1>0, <2>2, <2>4
      <4>2. w = "NOT_INIT" BY <4>1
      <4>. QED BY <2>1, <2>3, <4>1, <4>2, LoadedIs DEF SlotTypes
    <3>. QED BY <2>1, <3>1, <3>2, KeysClean DEF Call
  <2>5. CASE v = "OK" BY <2>1, <2>5, OkClean
  <2>. QED BY <2>4, <2>5
<1>8. ASSUME EngineShutdown \/ PyCreate \/ PyEngineShutdown \/ PyStop \/ Register \/ ClearHandle
      PROVE  CleanRefusal
  BY <1>8, OkClean DEF EngineShutdown, PyCreate, PyEngineShutdown, PyStop, Register, ClearHandle
<1>. QED
  BY <1>1, <1>2, <1>3, <1>4, <1>5, <1>6, <1>7, <1>8, <1>9, <1>10, <1>11, <1>12, Steps
-----------------------------------------------------------------------------
(* What the ABI knows, step by step.                                         *)

LEMMA KnownInit == GateInit => Known(eng, gpu)
<1>. SUFFICES ASSUME GateInit PROVE Known(eng, gpu) OBVIOUS
<1>1. eng = Flags /\ gpu = IdleGpu BY DEF GateInit
<1>2. ~HasWhole(IdleGpu) BY DEF HasWhole, IdleGpu, NoKey, Whole
<1>. QED BY <1>1, <1>2 DEF Known, Flags, IdleGpu

\* Loading a key or a table, and starting and stopping nothing.
LEMMA KnownKept ==
  ASSUME NEW e, NEW f, NEW g, NEW h, Known(e, g),
         f.alive = e.alive, f.legacy = e.legacy, f.fp = e.fp, f.fpRun = e.fpRun,
         h.legacy = g.legacy, h.made = g.made, h.fast = g.fast, h.stuck = g.stuck,
         ~e.alive => f = e,
         f.comb => h.comb, f.full => h.full,
         f.alive /\ HasWhole(h) => f.hasP256,
         f.fpRun /\ f.hasP256 => f.comb /\ (FullWindow => f.full)
  PROVE  Known(f, h)
BY DEF Known

\* A key that is new in a slot was loaded by a call that answered OK.
LEMMA LoadedKey ==
  ASSUME GateTypes, NEW s \in 0 .. 2, NEW type, NEW v, NEW keys \in Loaded(s, type, v),
         NEW h, h = [gpu EXCEPT !.slots = keys], HasWhole(h)
  PROVE  HasWhole(gpu) \/ (v = "OK" /\ type = "P256")
<1>1. gpu.slots \in [{0, 1} -> SlotRecs] /\ h.slots = keys BY DEF GateTypes, Gpus
<1>2. PICK i \in {0, 1} : keys[i] = Whole("P256") BY <1>1 DEF HasWhole
<1>3. CASE keys[i] = gpu.slots[i] BY <1>2, <1>3 DEF HasWhole
<1>4. CASE keys[i] # gpu.slots[i]
  <2>1. \/ v = "OK" /\ keys = [gpu.slots EXCEPT ![s] = Whole(type)]
        \/ keys = [gpu.slots EXCEPT ![s] = Torn(type)]
    BY <1>4 DEF Loaded
  <2>2. keys[i] \in {Whole(type), Torn(type)} /\ (keys[i] = Whole(type) => v = "OK" \/ Whole(type) = Torn(type))
    BY <1>1, <1>4, <2>1
  <2>3. Torn(type) # Whole("P256") BY DEF Torn, Whole
  <2>4. Whole(type) = Whole("P256") => type = "P256" BY DEF Whole
  <2>. QED BY <1>2, <2>2, <2>3, <2>4
<1>. QED BY <1>3, <1>4

LEMMA KnownNext ==
  ASSUME GateInv, Clean, GateNext
  PROVE  Known(eng', gpu')
<1>0. /\ eng.alive \in BOOLEAN /\ eng.legacy \in BOOLEAN /\ eng.fpRun \in BOOLEAN
      /\ eng.full \in BOOLEAN /\ eng.hasP256 \in BOOLEAN /\ eng.comb \in BOOLEAN
      /\ eng \in Engines /\ gpu \in Gpus /\ GateTypes
  BY DEF GateInv, GateTypes, Engines
<1>1. Known(eng, gpu) BY DEF GateInv
<1>2. \A way, v, e, g : Call(way, v, e, g) => way = "c" /\ eng' = e /\ gpu' = g
  BY DEF Call, Clean
<1>3. \A way, v, e, g : Done(way, v, e, g) =>
        /\ way = "c"
        /\ IF v = "OK" THEN eng' = e /\ gpu' = g ELSE eng' = eng /\ gpu' = gpu
  BY <1>2 DEF Done
<1>5. ~eng.legacy /\ ~eng.fpRun => Upload(gpu) = gpu BY <1>0, <1>1 DEF Known, Upload
<1>6. ASSUME NEW a \in BOOLEAN, NEW b \in BOOLEAN, EngineInit(a, b) PROVE Known(eng', gpu')
  <2>. DEFINE v == Verdict(<< <<a, "DEVICE">>, <<b, "DEVICE">> >>)
              e == [Flags EXCEPT !.alive = TRUE, !.legacy = TRUE]
              g == [gpu EXCEPT !.legacy = TRUE, !.slots = NoKey, !.active = 0]
  <2>1. /\ ~eng.alive
        /\ IF v = "OK" THEN eng' = e /\ gpu' = g ELSE eng' = eng /\ gpu' = gpu
    BY <1>3, <1>6 DEF EngineInit
  <2>2. eng = Flags BY <1>1, <2>1 DEF Known
  <2>3. ~HasWhole(g)
    <3>1. g.slots = NoKey BY <1>0 DEF Gpus
    <3>2. \A s \in {0, 1} : NoKey[s] # Whole("P256") BY DEF NoKey, Whole
    <3>. QED BY <3>1, <3>2 DEF HasWhole
  <2>4. /\ g.legacy = TRUE /\ g.made = gpu.made /\ g.fast = gpu.fast /\ g.stuck = gpu.stuck
        /\ gpu.made = {} /\ gpu.fast = {} /\ ~gpu.stuck
    BY <1>0, <1>1, <2>2 DEF Gpus, Known, Flags
  <2>5. /\ e.alive = TRUE /\ e.legacy = TRUE /\ e.fp = "none" /\ e.fpRun = FALSE
        /\ e.comb = FALSE /\ e.full = FALSE
    BY DEF Flags
  <2>. HIDE DEF g, e, v
  <2>6. Known(e, g) BY <2>3, <2>4, <2>5 DEF Known
  <2>. QED BY <1>1, <2>1, <2>6
<1>7. ASSUME EngineShutdown PROVE Known(eng', gpu')
  <2>. DEFINE g == [gpu EXCEPT !.legacy = FALSE, !.fast = @ \ {eng.fp}, !.made = @ \ {eng.fp}]
  <2>1. eng' = Flags /\ gpu' = g BY <1>2, <1>7 DEF EngineShutdown
  <2>2. /\ g.legacy = FALSE /\ g.made = {} /\ g.fast = {} /\ ~g.stuck
    BY <1>0, <1>1 DEF Gpus, Known
  <2>. HIDE DEF g
  <2>3. Known(Flags, g) BY <2>2 DEF Known, Flags
  <2>. QED BY <2>1, <2>3
<1>8. ASSUME FastPathStop PROVE Known(eng', gpu')
  <2>. DEFINE stops == eng.alive /\ eng.fp # "none" /\ eng.fpRun
              e == [eng EXCEPT !.fpRun = @ /\ ~stops]
              g == [gpu EXCEPT !.fast = IF stops /\ StopsInTime THEN @ \ {eng.fp} ELSE @]
  <2>1. eng' = e /\ gpu' = g BY <1>2, <1>8 DEF FastPathStop
  <2>2. stops <=> eng.fpRun BY <1>0, <1>1 DEF Known, Flags
  <2>3. e = [eng EXCEPT !.fpRun = FALSE] BY <1>0, <2>2 DEF Engines
  <2>4. g = [gpu EXCEPT !.fast = {}] BY <1>0, <1>1, <2>2 DEF Known, Gpus, Clean
  <2>5. ~eng.alive => e = eng BY <1>0, <1>1, <2>3 DEF Known, Flags, Engines
  <2>6. HasWhole(g) <=> HasWhole(gpu) BY <1>0, <2>4 DEF HasWhole, Gpus
  <2>. HIDE DEF e, g, stops
  <2>7. /\ e.alive = eng.alive /\ e.legacy = eng.legacy /\ e.fp = eng.fp /\ e.fpRun = FALSE
        /\ e.hasP256 = eng.hasP256 /\ e.comb = eng.comb /\ e.full = eng.full
    BY <1>0, <2>3 DEF Engines
  <2>8. /\ g.legacy = gpu.legacy /\ g.made = gpu.made /\ g.fast = {} /\ g.stuck = gpu.stuck
        /\ g.comb = gpu.comb /\ g.full = gpu.full
    BY <1>0, <2>4 DEF Gpus
  <2>9. Known(e, g) BY <1>1, <2>5, <2>6, <2>7, <2>8 DEF Known
  <2>. QED BY <2>1, <2>9
<1>9. ASSUME NEW ok \in BOOLEAN, FastPathCreate(ok) PROVE Known(eng', gpu')
  <2>. DEFINE new == eng.alive /\ eng.fp = "none"
              e == [eng EXCEPT !.legacy = @ /\ ~new, !.fp = IF new /\ ok THEN "abi" ELSE @]
              g == [gpu EXCEPT !.legacy = IF new THEN Stopped(@) ELSE @,
                               !.made = IF new /\ ok THEN @ \union {"abi"} ELSE @]
  <2>1. eng' = e /\ gpu' = g BY <1>2, <1>9 DEF FastPathCreate
  <2>2. CASE ~new
    <3>1. e = eng /\ g = gpu BY <1>0, <2>2 DEF Engines, Gpus
    <3>. QED BY <1>1, <2>1, <3>1
  <2>3. CASE new
    <3>1. /\ e.alive = eng.alive /\ e.legacy = FALSE /\ e.fp = (IF ok THEN "abi" ELSE "none")
          /\ e.fpRun = eng.fpRun /\ e.hasP256 = eng.hasP256 /\ e.comb = eng.comb
          /\ e.full = eng.full
      BY <1>0, <2>3 DEF Engines
    <3>2. ~Stopped(gpu.legacy) BY DEF Stopped, Clean
    <3>3. g = [gpu EXCEPT !.legacy = Stopped(gpu.legacy),
                          !.made = IF ok THEN gpu.made \union {"abi"} ELSE gpu.made]
      BY <1>0, <2>3 DEF Gpus
    <3>. HIDE DEF e, g
    <3>4. /\ g.legacy = Stopped(gpu.legacy) /\ g.slots = gpu.slots
          /\ g.made = (IF ok THEN gpu.made \union {"abi"} ELSE gpu.made)
          /\ g.fast = gpu.fast /\ g.stuck = gpu.stuck /\ g.comb = gpu.comb /\ g.full = gpu.full
      BY <1>0, <3>3 DEF Gpus
    <3>5. /\ gpu.made = {} /\ ~eng.fpRun /\ gpu.fast = {} /\ eng.alive
      BY <1>0, <1>1, <2>3 DEF Known
    <3>6. g.legacy = FALSE BY <3>2, <3>4 DEF Stopped
    <3>7. g.made = {e.fp} \ {"none"} BY <3>1, <3>4, <3>5
    <3>8. HasWhole(g) <=> HasWhole(gpu) BY <3>4 DEF HasWhole
    <3>9. Known(e, g) BY <1>1, <3>1, <3>4, <3>5, <3>6, <3>7, <3>8 DEF Known
    <3>. QED BY <2>1, <3>9
  <2>. QED BY <2>2, <2>3
<1>10. ASSUME NEW ok \in BOOLEAN, FastPathStart(ok) PROVE Known(eng', gpu')
  <2>. DEFINE v == Verdict(StartChecks(eng.fp # "none", ok))
              e == [eng EXCEPT !.fpRun = TRUE]
              g == [gpu EXCEPT !.fast = @ \union {eng.fp}]
  <2>1. IF v = "OK" THEN eng' = e /\ gpu' = g ELSE eng' = eng /\ gpu' = gpu
    BY <1>3, <1>10 DEF FastPathStart
  <2>2. CASE v = "OK"
    <3>1. eng.alive /\ eng.fp # "none" /\ TablesFor(eng.hasP256)
      <4>1. \A a, b, c, d \in BOOLEAN :
              Verdict(<< <<a, "NOT_INIT">>, <<b, "NOT_INIT">>, <<c, "NOT_INIT">>,
                         <<d, "DEVICE">> >>) = "OK" => a /\ b /\ c
        <5>1. \A p, t : \A a, b, c, d \in BOOLEAN :
                LET w == Verdict(<< <<a, p>>, <<b, p>>, <<c, p>>, <<d, t>> >>)
                IN  /\ ~a \/ ~b \/ ~c => w = p
                    /\ a /\ b /\ c /\ ~d => w = t
          BY Verdict4
        <5>. QED BY <5>1
      <4>2. /\ eng.alive \in BOOLEAN /\ (eng.fp # "none") \in BOOLEAN
            /\ TablesFor(eng.hasP256) \in BOOLEAN /\ (eng.fpRun \/ ok) \in BOOLEAN
        BY <1>0 DEF TablesFor
      <4>. QED BY <2>2, <4>1, <4>2, Zenon DEF StartChecks, Alive
    <3>2. /\ e.alive = eng.alive /\ e.legacy = eng.legacy /\ e.fp = eng.fp /\ e.fpRun = TRUE
          /\ e.hasP256 = eng.hasP256 /\ e.comb = eng.comb /\ e.full = eng.full
      BY <1>0 DEF Engines
    <3>3. /\ g.legacy = gpu.legacy /\ g.made = gpu.made /\ g.fast = gpu.fast \union {eng.fp}
          /\ g.stuck = gpu.stuck /\ g.slots = gpu.slots /\ g.comb = gpu.comb /\ g.full = gpu.full
      BY <1>0 DEF Gpus
    <3>. HIDE DEF e, g
    <3>4. g.fast = {eng.fp} BY <1>1, <3>3 DEF Known
    <3>5. HasWhole(g) <=> HasWhole(gpu) BY <3>3 DEF HasWhole
    <3>6. eng.hasP256 => eng.comb /\ (FullWindow => eng.full) BY <3>1 DEF TablesFor
    <3>7. Known(e, g) BY <1>1, <3>1, <3>2, <3>3, <3>4, <3>5, <3>6 DEF Known
    <3>. QED BY <2>1, <2>2, <3>7
  <2>. QED BY <1>1, <2>1, <2>2
<1>11. ASSUME NEW ok \in BOOLEAN, LoadKeyP256(ok) PROVE Known(eng', gpu')
  <2>. DEFINE runs == eng.fp # "none" /\ eng.fpRun
              v == Verdict(<<Alive, <<runs => TablesFor(TRUE), "NOT_INIT">>, <<ok, "DEVICE">> >>)
              e == [eng EXCEPT !.keyLoaded = @ \/ v = "OK", !.hasP256 = @ \/ v = "OK"]
  <2>1. PICK keys \in Loaded(0, "P256", v) : Call("c", v, e, [gpu EXCEPT !.slots = keys])
    BY <1>11 DEF LoadKeyP256
  <2>2. v = "OK" => eng.alive /\ (eng.fpRun => TablesFor(TRUE))
    <3>1. \A p, q : \A a, b, c \in BOOLEAN :
            LET w == Verdict(<< <<a, p>>, <<b, p>>, <<c, q>> >>)
            IN  ~a \/ ~b => w = p
      BY Verdict3
    <3>2. eng.alive \in BOOLEAN /\ (runs => TablesFor(TRUE)) \in BOOLEAN BY <1>0
    <3>3. ~eng.alive \/ ~(runs => TablesFor(TRUE)) => v = "NOT_INIT"
      BY <3>1, <3>2, Zenon DEF Alive
    <3>. HIDE DEF v
    <3>. QED BY <1>1, <3>3 DEF Known
  <2>3. LET h == [gpu EXCEPT !.slots = keys] IN HasWhole(h) => HasWhole(gpu) \/ v = "OK"
    BY <1>0, <2>1, LoadedKey
  <2>. HIDE DEF v
  <2>4. PICK f, h : f = e /\ h = [gpu EXCEPT !.slots = keys] OBVIOUS
  <2>5. /\ f.alive = eng.alive /\ f.legacy = eng.legacy /\ f.fp = eng.fp /\ f.fpRun = eng.fpRun
        /\ f.hasP256 = (eng.hasP256 \/ v = "OK") /\ f.comb = eng.comb /\ f.full = eng.full
    BY <1>0, <2>4 DEF Engines
  <2>6. /\ h.legacy = gpu.legacy /\ h.made = gpu.made /\ h.fast = gpu.fast
        /\ h.stuck = gpu.stuck /\ h.comb = gpu.comb /\ h.full = gpu.full
    BY <1>0, <2>4 DEF Gpus
  <2>7. v # "OK" => f = eng BY <1>0, <2>4 DEF Engines
  <2>. HIDE DEF e
  <2>8. eng.fpRun /\ f.hasP256 => f.comb /\ (FullWindow => f.full)
    BY <1>1, <2>2, <2>5 DEF Known, TablesFor
  <2>9. f.alive /\ HasWhole(h) => f.hasP256 BY <1>1, <2>3, <2>4, <2>5 DEF Known
  <2>10. Known(f, h)
    <3>1. (f.comb => h.comb) /\ (f.full => h.full) BY <1>1, <2>5, <2>6 DEF Known
    <3>2. ~eng.alive => f = eng BY <2>2, <2>7
    <3>. QED BY <1>1, <2>5, <2>6, <2>8, <2>9, <3>1, <3>2, KnownKept
  <2>. QED BY <1>2, <2>1, <2>4, <2>10
<1>12. ASSUME NEW ok \in BOOLEAN, NEW size, LoadComb(size, ok)
       PROVE  Known(eng', gpu')
  <2>. DEFINE v == Verdict(CombChecks(size, ok))
  <2>0. v \in {"OK", "DEVICE"} => eng.alive /\ ~eng.legacy /\ ~eng.fpRun BY <1>0, CombVerdict
  <2>. HIDE DEF v
  <2>1. PICK comb, f, h :
               /\ comb \in CombAfter(v)
               /\ f = [eng EXCEPT !.comb = @ \/ v = "OK"]
               /\ h = IF v \in {"OK", "DEVICE"} THEN [Upload(gpu) EXCEPT !.comb = comb] ELSE gpu
               /\ Call("c", v, f, h)
    BY <1>12 DEF LoadComb, v
  <2>2. ~eng.comb BY <1>12 DEF LoadComb, Clean
  <2>3. CASE v \in {"OK", "DEVICE"}
    <3>1. eng.alive /\ ~eng.fpRun /\ h = [gpu EXCEPT !.comb = comb] BY <1>5, <2>0, <2>1, <2>3
    <3>2. /\ h.legacy = gpu.legacy /\ h.made = gpu.made /\ h.fast = gpu.fast /\ h.slots = gpu.slots
          /\ h.stuck = gpu.stuck /\ h.comb = comb /\ h.full = gpu.full
      BY <1>0, <3>1 DEF Gpus
    <3>3. /\ f.alive = eng.alive /\ f.legacy = eng.legacy /\ f.fp = eng.fp /\ f.fpRun = eng.fpRun
          /\ f.hasP256 = eng.hasP256 /\ f.comb = (v = "OK") /\ f.full = eng.full
      BY <1>0, <2>1, <2>2 DEF Engines
    <3>4. f.comb => h.comb BY <1>0, <2>1, <3>2, <3>3, CombIs
    <3>5. HasWhole(h) <=> HasWhole(gpu) BY <3>2 DEF HasWhole
    <3>6. /\ f.full => h.full
          /\ f.alive /\ HasWhole(h) => f.hasP256
          /\ ~f.fpRun
      BY <1>1, <3>1, <3>2, <3>3, <3>5 DEF Known
    <3>7. Known(f, h) BY <1>1, <3>1, <3>2, <3>3, <3>4, <3>6, KnownKept
    <3>. QED BY <1>2, <2>1, <3>7
  <2>4. CASE v \notin {"OK", "DEVICE"}
    <3>1. f = eng /\ h = gpu BY <1>0, <2>1, <2>4 DEF Engines
    <3>. QED BY <1>1, <1>2, <2>1, <3>1
  <2>. QED BY <2>3, <2>4
<1>13. ASSUME NEW ok \in BOOLEAN, NEW s \in 0 .. 2, NEW type \in {"AES256", "HMAC"},
              LoadKeyTyped(s, type, ok)
       PROVE  Known(eng', gpu')
  <2>. DEFINE v == Verdict(<<Alive, <<s \in {0, 1}, "DEVICE">>, <<ok, "DEVICE">> >>)
  <2>. HIDE DEF v
  <2>1. PICK keys, h :
               /\ keys \in Loaded(s, type, v)
               /\ h = [gpu EXCEPT !.slots = keys] /\ Call("c", v, eng, h)
    BY <1>13 DEF LoadKeyTyped, v
  <2>2. HasWhole(h) => HasWhole(gpu) BY <1>0, <2>1, LoadedKey
  <2>3. /\ h.legacy = gpu.legacy /\ h.made = gpu.made /\ h.fast = gpu.fast
        /\ h.stuck = gpu.stuck /\ h.comb = gpu.comb /\ h.full = gpu.full
    BY <1>0, <2>1 DEF Gpus
  <2>4. Known(eng, h)
    <3>1. /\ eng.comb => h.comb
          /\ eng.full => h.full
          /\ eng.alive /\ HasWhole(h) => eng.hasP256
          /\ eng.fpRun /\ eng.hasP256 => eng.comb /\ (FullWindow => eng.full)
      BY <1>1, <2>2, <2>3 DEF Known
    <3>. QED BY <1>1, <2>3, <3>1, KnownKept
  <2>. QED BY <1>2, <2>1, <2>4
<1>14. ASSUME NEW blob \in Blobs, LoadFullWindow(blob) PROVE Known(eng', gpu')
  <2>. DEFINE v == Verdict(FullChecks(blob))
              written == v \in {"OK", "DEVICE"} \/ (blob = "torn" /\ v = "VERIFY")
  <2>0. written => eng.alive /\ ~eng.legacy /\ ~eng.fpRun BY <1>0, FullVerdict
  <2>. HIDE DEF v
  <2>1. PICK full, f, h :
               /\ full \in FullAfter(blob, v)
               /\ f = [eng EXCEPT !.full = @ \/ v = "OK"]
               /\ h = IF written THEN [Upload(gpu) EXCEPT !.full = full] ELSE gpu
               /\ Call("c", v, f, h)
    BY <1>14 DEF LoadFullWindow, v
  <2>2. ~eng.full BY <1>14 DEF LoadFullWindow, Clean
  <2>3. CASE written
    <3>1. eng.alive /\ ~eng.fpRun /\ h = [gpu EXCEPT !.full = full] BY <1>5, <2>0, <2>1, <2>3
    <3>2. /\ h.legacy = gpu.legacy /\ h.made = gpu.made /\ h.fast = gpu.fast /\ h.slots = gpu.slots
          /\ h.stuck = gpu.stuck /\ h.comb = gpu.comb /\ h.full = full
      BY <1>0, <3>1 DEF Gpus
    <3>3. /\ f.alive = eng.alive /\ f.legacy = eng.legacy /\ f.fp = eng.fp /\ f.fpRun = eng.fpRun
          /\ f.hasP256 = eng.hasP256 /\ f.comb = eng.comb /\ f.full = (v = "OK")
      BY <1>0, <2>1, <2>2 DEF Engines
    <3>4. f.full => h.full BY <1>0, <2>1, <3>2, <3>3, FullIs
    <3>5. HasWhole(h) <=> HasWhole(gpu) BY <3>2 DEF HasWhole
    <3>6. /\ f.comb => h.comb
          /\ f.alive /\ HasWhole(h) => f.hasP256
          /\ ~f.fpRun
      BY <1>1, <3>1, <3>2, <3>3, <3>5 DEF Known
    <3>7. Known(f, h) BY <1>1, <3>1, <3>2, <3>3, <3>4, <3>6, KnownKept
    <3>. QED BY <1>2, <2>1, <3>7
  <2>4. CASE ~written
    <3>1. f = eng /\ h = gpu BY <1>0, <2>1, <2>4 DEF Engines
    <3>. QED BY <1>1, <1>2, <2>1, <3>1
  <2>. QED BY <2>3, <2>4
<1>15. ASSUME ReadsOnly PROVE Known(eng', gpu')
  <2>1. \A way, v : Unchanged(way, v) => eng' = eng /\ gpu' = gpu BY <1>2 DEF Unchanged
  <2>2. eng' = eng /\ gpu' = gpu
    BY <1>15, <2>1 DEF ReadsOnly, SignP256, Configure, GenericSubmit, SubmitAndDrain, Measure
  <2>. QED BY <1>1, <2>2
<1>c. \A v, e, g : ~Call("rotate", v, e, g) /\ ~Call("py", v, e, g) BY <1>2
<1>16. \A type, a, b : ~RotateTyped(type, a, b) BY <1>c, Zenon DEF RotateTyped
<1>17. ~PyCreate /\ ~PyEngineShutdown /\ ~PyStop /\ ~Register /\ ~ClearHandle
  BY <1>2 DEF PyCreate, PyEngineShutdown, PyStop, Register, ClearHandle
<1>18. \A ok : ~PyStart(ok) BY <1>3 DEF PyStart
<1>19. \A size, ok : ~PyLoadComb(size, ok) BY <1>c, Zenon DEF PyLoadComb
<1>. QED
  BY <1>6, <1>7, <1>8, <1>9, <1>10, <1>11, <1>12, <1>13, <1>14, <1>15, <1>16, <1>17, <1>18, <1>19, Steps

LEMMA NextInv ==
  ASSUME Clean, GateInv, [GateNext]_gvars
  PROVE  GateInv'
<1>1. CASE GateNext
  <2>1. GateTypes' BY <1>1, TypesNext DEF GateInv
  <2>2. Known(eng', gpu') BY <1>1, KnownNext
  <2>. QED BY <2>1, <2>2 DEF GateInv
<1>2. CASE UNCHANGED gvars BY <1>2 DEF GateInv, GateTypes, gvars
<1>. QED BY <1>1, <1>2
-----------------------------------------------------------------------------
LEMMA GateFollows ==
  ASSUME GateInv
  PROVE  FlagsAreTrue /\ SignerReady /\ OneKernel /\ NeverStuck
<1>1. GateTypes /\ Known(eng, gpu) BY DEF GateInv
<1>2. eng.alive \in BOOLEAN /\ eng.fpRun \in BOOLEAN /\ eng.legacy \in BOOLEAN
  BY <1>1 DEF GateTypes, Engines
<1>3. FlagsAreTrue BY <1>1, <1>2 DEF Known, FlagsAreTrue
<1>4. eng.fpRun => eng.alive BY <1>1 DEF Known, Flags
<1>5. SignerReady
  <2>. SUFFICES ASSUME gpu.fast # {}, Confirmed PROVE gpu.comb /\ (FullWindow => gpu.full)
    BY DEF SignerReady, Tables
  <2>1. eng.fpRun BY <1>1, <1>2 DEF Known
  <2>2. eng.hasP256 BY <1>1, <1>4, <2>1 DEF Known, Confirmed, HasWhole
  <2>3. eng.comb /\ (FullWindow => eng.full) BY <1>1, <2>1, <2>2 DEF Known
  <2>. QED BY <1>1, <2>3 DEF Known
<1>6. OneKernel
  <2>1. CASE eng.fpRun
    <3>1. gpu.fast = {eng.fp} /\ ~gpu.legacy BY <1>1, <1>2, <2>1 DEF Known
    <3>2. Cardinality(gpu.fast) = 1 BY <3>1, FS_Singleton
    <3>3. (IF gpu.legacy THEN 1 ELSE 0) = 0 BY <3>1
    <3>. QED BY <3>2, <3>3 DEF OneKernel
  <2>2. CASE ~eng.fpRun
    <3>1. gpu.fast = {} BY <1>1, <2>2 DEF Known
    <3>2. Cardinality(gpu.fast) = 0 BY <3>1, FS_EmptySet
    <3>3. (IF gpu.legacy THEN 1 ELSE 0) \in {0, 1} OBVIOUS
    <3>. QED BY <3>2, <3>3 DEF OneKernel
  <2>. QED BY <2>1, <2>2
<1>7. NeverStuck BY <1>1 DEF Known, NeverStuck
<1>. QED BY <1>3, <1>5, <1>6, <1>7

\* The states keep their types, whatever the entry points in use.
THEOREM GateTyped == GateSpec => []GateTypes
<1>1. GateTypes /\ [GateNext]_gvars => GateTypes' BY TypesNext DEF gvars, GateTypes
<1>. QED BY <1>1, TypesInit, PTL DEF GateSpec

\* A call that fails moves no flag that later calls are checked against and no
\* fast path; it touches a key or a table only when a copy went wrong, and then
\* one slot or one table: in every build, whatever the entry points in use.
THEOREM RefusalsAreClean == GateSpec => RefusalIsClean
<1>1. GateTypes /\ [GateNext]_gvars => [CleanRefusal]_gvars BY CleanNext
<1>. QED BY <1>1, GateTyped, PTL DEF GateSpec, RefusalIsClean

\* The inductive invariant, of the C entry points.
THEOREM GateInvariant == Clean => (GateSpec => []GateInv)
<1>. SUFFICES ASSUME Clean PROVE GateSpec => []GateInv OBVIOUS
<1>1. GateInit => GateInv BY TypesInit, KnownInit DEF GateInv
<1>2. GateInv /\ [GateNext]_gvars => GateInv' BY NextInv
<1>. QED BY <1>1, <1>2, PTL DEF GateSpec

\* The flags of the ABI are true, a running signer has the tables of every P-256
\* key whose load answered OK, however many loads failed before, one kernel holds
\* the GPU and no upload waits behind it: of the C entry points.
THEOREM GateSafe ==
  Clean => (GateSpec => [](FlagsAreTrue /\ SignerReady /\ OneKernel /\ NeverStuck))
<1>. SUFFICES ASSUME Clean
     PROVE  GateSpec => [](FlagsAreTrue /\ SignerReady /\ OneKernel /\ NeverStuck)
  OBVIOUS
<1>1. GateInv => FlagsAreTrue /\ SignerReady /\ OneKernel /\ NeverStuck BY GateFollows
<1>. QED BY <1>1, GateInvariant, PTL

-----------------------------------------------------------------------------
(* The single queue of the engine and the one client who uses it.            *)

\* Quotient and remainder of any integer.
LEMMA DivMod ==
  ASSUME NEW n \in Nat \ {0}, NEW a \in Int
  PROVE  a \div n \in Int /\ a = n * (a \div n) + (a % n) /\ a % n \in 0 .. n - 1
  OBVIOUS

\* The only multiple of n strictly between -n and n is 0.
LEMMA MultBound ==
  ASSUME NEW n \in Nat \ {0}, NEW x \in Int, n * x > -n, n * x < n
  PROVE  x = 0
<1>1. CASE x >= 1
  <2>1. n * x >= n BY <1>1
  <2>. QED BY <2>1
<1>2. CASE x <= -1
  <2>1. n * x <= -n BY <1>2
  <2>. QED BY <2>1
<1>. QED BY <1>1, <1>2

\* Two numbers less than n apart have different remainders.
LEMMA ModInj ==
  ASSUME NEW n \in Nat \ {0}, NEW a \in Int, NEW b \in Int, a < b, b - a < n
  PROVE  a % n # b % n
<1>. SUFFICES ASSUME a % n = b % n PROVE FALSE OBVIOUS
<1>. DEFINE q == a \div n  p == b \div n
<1>1. a = n * q + (a % n) /\ b = n * p + (a % n) /\ q \in Int /\ p \in Int BY DivMod
<1>2. n * (p - q) = b - a BY <1>1
<1>3. p - q = 0 BY <1>1, <1>2, MultBound
<1>. QED BY <1>2, <1>3

\* A number below the modulus is its own remainder.
LEMMA ModSmall ==
  ASSUME NEW n \in Nat \ {0}, NEW a \in 0 .. n - 1
  PROVE  a % n = a
<1>. DEFINE q == a \div n  r == a % n
<1>1. a = n * q + r /\ q \in Int /\ r \in 0 .. n - 1 BY DivMod
<1>. HIDE DEF q, r
<1>2. n * q = a - r BY <1>1
<1>3. q = 0 BY <1>1, <1>2, MultBound
<1>4. r = a BY <1>1, <1>2, <1>3
<1>. QED BY <1>4 DEF r

-----------------------------------------------------------------------------
(* Slots and ids *)

LEMMA SlotFacts ==
  ASSUME OneClient
  PROVE  /\ \A p \in Int : SlotOf(p) \in Slots
         /\ \A p, q \in Int : p < q /\ q - p < QueueSize => SlotOf(p) # SlotOf(q)
<1>1. \A p \in Int : SlotOf(p) \in Slots BY DivMod DEF OneClient, SlotOf, Slots
<1>2. \A p, q \in Int : p < q /\ q - p < QueueSize => SlotOf(p) # SlotOf(q)
  BY ModInj DEF OneClient, SlotOf
<1>. QED BY <1>1, <1>2

\* Ids that have been given out do not wrap.
LEMMA NoWrap ==
  ASSUME OneClient, NEW a \in Nat, NEW n \in Nat, a + n <= MaxIds
  PROVE  Plus(a, n) = a + n
<1>1. a + n \in 0 .. CounterMod - 1 BY DEF OneClient
<1>. QED BY <1>1, ModSmall DEF OneClient, Plus

\* Numbers of one queue length have different slots.
LEMMA OneSlot ==
  ASSUME OneClient, NEW b \in Int, NEW n \in Nat, n <= QueueSize,
         NEW p \in b .. b + n - 1, NEW q \in b .. b + n - 1, SlotOf(p) = SlotOf(q)
  PROVE  p = q
<1>1. CASE p < q BY <1>1, SlotFacts DEF OneClient
<1>2. CASE q < p BY <1>2, SlotFacts DEF OneClient
<1>. QED BY <1>1, <1>2

\* The ids of the call in progress are the numbers from its base on, and each
\* has a slot of its own.
LEMMA CallIds ==
  ASSUME OneClient, LegacyTypes, NEW c \in Callers, IdsInv(c), call[c].pc # "idle"
  PROVE  /\ call[c].base \in Nat /\ Len(call[c].ids) \in Nat
         /\ nextId = call[c].base + Len(call[c].ids) /\ Len(call[c].ids) <= QueueSize
         /\ DOMAIN call[c].ids = 1 .. Len(call[c].ids)
         /\ \A i \in DOMAIN call[c].ids : call[c].ids[i] \in call[c].base .. nextId - 1
         /\ \A p \in call[c].base .. nextId - 1 :
              p - call[c].base + 1 \in DOMAIN call[c].ids
              /\ call[c].ids[p - call[c].base + 1] = p
         /\ \A i, j \in DOMAIN call[c].ids :
              SlotOf(call[c].ids[i]) = SlotOf(call[c].ids[j]) => call[c].ids[i] = call[c].ids[j]
<1>1. call[c] \in CallType BY DEF LegacyTypes
<1>2. call[c].ids \in Seq(Nat) /\ call[c].base \in Nat BY <1>1 DEF CallType
<1>3. PICK n \in Nat : n = Len(call[c].ids) BY <1>2
<1>4. PICK b \in Nat : b = call[c].base BY <1>2
<1>5. DOMAIN call[c].ids = 1 .. n BY <1>2, <1>3
<1>6. nextId = b + n /\ n <= QueueSize /\ \A i \in 1 .. n : call[c].ids[i] = b + (i - 1)
  BY <1>3, <1>4, <1>5 DEF IdsInv
<1>7. \A i \in 1 .. n : call[c].ids[i] \in b .. nextId - 1 BY <1>6
<1>8. \A p \in b .. nextId - 1 : p - b + 1 \in 1 .. n /\ call[c].ids[p - b + 1] = p BY <1>6
<1>9. \A i, j \in 1 .. n : SlotOf(call[c].ids[i]) = SlotOf(call[c].ids[j])
                           => call[c].ids[i] = call[c].ids[j]
  BY <1>6, <1>7, OneSlot
<1>. QED BY <1>3, <1>4, <1>5, <1>6, <1>7, <1>8, <1>9

-----------------------------------------------------------------------------
LEMMA LegacyInit ==
  ASSUME OneClient, Init
  PROVE  LegacyInvariant
<1>. USE DEF Init, Idle, NoBatch, NoReq
<1>1. LegacyTypes
  <2>1. call \in [Callers -> CallType]
    <3>1. Idle \in CallType BY DEF CallType
    <3>. QED BY <3>1
  <2>2. batch \in [from : Nat, size : Nat, done : Nat] OBVIOUS
  <2>3. requests \in [Slots -> Int] /\ responses \in [Slots -> Int]
    <3>1. -1 \in Int OBVIOUS
    <3>. QED BY <3>1, Zenon
  <2>4. ready \in [Slots -> BOOLEAN] OBVIOUS
  <2>. QED BY <2>1, <2>2, <2>3, <2>4 DEF LegacyTypes
<1>2. KernelAt = 0 BY DEF KernelAt
<1>3. BatchInv /\ StartInv /\ HeldInv BY <1>2 DEF BatchInv, StartInv, HeldInv, OneClient
<1>4. ASSUME NEW c \in Callers PROVE Behind(c) /\ IdsInv(c) /\ FlagInv(c) /\ GotInv(c)
  <2>1. call[c].pc = "idle" /\ call[c].ids = <<>> /\ call[c].got = {} /\ call[c].flags = {}
    OBVIOUS
  <2>. QED BY <1>2, <2>1 DEF Behind, IdsInv, FlagInv, GotInv
<1>. QED BY <1>1, <1>3, <1>4 DEF LegacyInvariant

\* The size a batch is given is a number.
LEMMA MicroBatchType ==
  ASSUME NEW a \in Nat, NEW t \in [1 .. 4 -> Int]
  PROVE  MicroBatch(a, t) \in Int
<1>1. t[1] \in Int /\ t[2] \in Int /\ t[3] \in Int /\ t[4] \in Int OBVIOUS
<1>2. \A w \in Nat \ {0}, x \in Int : x \div w \in Int BY DivMod
<1>3. ASSUME NEW w \in Nat \ {0}
      PROVE  t[1] + ((t[2] - t[1]) * (a - t[3])) \div w \in Int
  <2>1. (t[2] - t[1]) * (a - t[3]) \in Int BY <1>1
  <2>. QED BY <1>1, <1>2, <2>1
<1>4. (IF t[4] > t[3] THEN t[4] - t[3] ELSE 1) \in Nat \ {0} BY <1>1
<1>. DEFINE span == IF t[4] > t[3] THEN t[4] - t[3] ELSE 1
            scaled == t[1] + ((t[2] - t[1]) * (a - t[3])) \div span
<1>5. scaled \in Int BY <1>3, <1>4
<1>. HIDE DEF span, scaled
<1>6. MicroBatch(a, t) =
        IF a = 0 THEN 0
        ELSE IF a <= t[3] THEN IF a < t[1] THEN a ELSE t[1]
        ELSE IF a >= t[4] THEN t[2]
        ELSE IF scaled < t[1] THEN t[1] ELSE IF scaled > t[2] THEN t[2] ELSE scaled
  BY DEF MicroBatch, span, scaled
<1>. QED BY <1>1, <1>5, <1>6

-----------------------------------------------------------------------------
(* One lemma per kind of step. *)

\* Steps that leave the position, the slots and the calls alone.
LEMMA SameKernelAt ==
  ASSUME LegacyInvariant, KernelAt' = KernelAt, starts' = starts, running' = running \/ ~running',
         UNCHANGED <<counter, nextId, head, requests, responses, ready, call>>
  PROVE  /\ StartInv' /\ HeldInv'
         /\ \A c \in Callers : Behind(c)' /\ IdsInv(c)' /\ FlagInv(c)' /\ GotInv(c)'
<1>1. StartInv' BY DEF LegacyInvariant, StartInv, LegacyTypes
<1>2. HeldInv' BY DEF LegacyInvariant, HeldInv, SlotOf
<1>3. ASSUME NEW c \in Callers PROVE Behind(c)' /\ IdsInv(c)' /\ FlagInv(c)' /\ GotInv(c)'
  <2>1. Behind(c) /\ IdsInv(c) /\ FlagInv(c) /\ GotInv(c) BY DEF LegacyInvariant
  <2>2. Behind(c)' BY <2>1 DEF Behind
  <2>3. IdsInv(c)' BY <2>1 DEF IdsInv
  <2>4. FlagInv(c)' BY <2>1 DEF FlagInv, Answered, SlotOf
  <2>5. GotInv(c)' BY <2>1 DEF GotInv, Answered
  <2>. QED BY <2>2, <2>3, <2>4, <2>5
<1>. QED BY <1>1, <1>2, <1>3

\* Shutdown, tuning and the kernel's exit.
LEMMA QuietNext ==
  ASSUME OneClient, LegacyInvariant,
         ShutdownBegin \/ ShutdownEnd \/ KernelExit \/ \E t \in Tunings : SetTuning(t)
  PROVE  LegacyInvariant'
<1>1. /\ UNCHANGED <<counter, nextId, head, tail, requests, responses, ready, call, batch,
                     starts, giveUps>>
      /\ running' = running \/ ~running'
      /\ running' \in BOOLEAN /\ shutdownFlag' \in BOOLEAN /\ kernel' \in {"off", "on"}
      /\ tuning' \in Tunings
  BY DEF ShutdownBegin, ShutdownEnd, KernelExit, SetTuning, host, device, LegacyInvariant,
         LegacyTypes
<1>2. KernelAt' = KernelAt BY <1>1 DEF KernelAt
<1>3. LegacyTypes' BY <1>1 DEF LegacyInvariant, LegacyTypes
<1>4. BatchInv' BY <1>1 DEF LegacyInvariant, BatchInv
<1>. QED BY <1>1, <1>2, <1>3, <1>4, SameKernelAt DEF LegacyInvariant

\* The kernel takes a batch of what it sees, or moves its tail behind the batch
\* it has answered: its position stays.
LEMMA TakeNext ==
  ASSUME OneClient, LegacyInvariant, KernelTake
  PROVE  LegacyInvariant'
<1>1. head \in Nat /\ tail \in Nat /\ tuning \in [1 .. 4 -> Int]
  BY DEF LegacyInvariant, LegacyTypes, OneClient
<1>2. Available \in Nat /\ (Available # 0 => tail + Available = head)
  BY <1>1 DEF Available
<1>3. MicroBatch(Available, tuning) \in Int BY <1>1, <1>2, MicroBatchType
<1>4. PICK size \in Nat \ {0} :
        size <= Available /\ batch' = [from |-> tail, size |-> size, done |-> 0]
  BY <1>2, <1>3 DEF KernelTake
<1>5. /\ UNCHANGED <<counter, nextId, head, tail, requests, responses, ready, call, starts,
                     giveUps, running, shutdownFlag, tuning, kernel>>
      /\ batch = NoBatch
  BY DEF KernelTake, host, device
<1>6. KernelAt' = KernelAt BY <1>1, <1>4, <1>5 DEF KernelAt, NoBatch
<1>7. LegacyTypes' BY <1>1, <1>4, <1>5 DEF LegacyInvariant, LegacyTypes
<1>8. BatchInv'
  <2>1. tail + size <= head BY <1>1, <1>2, <1>4
  <2>. QED BY <1>4, <1>5, <2>1 DEF LegacyInvariant, BatchInv
<1>. QED BY <1>5, <1>6, <1>7, <1>8, SameKernelAt DEF LegacyInvariant

LEMMA AdvanceNext ==
  ASSUME OneClient, LegacyInvariant, KernelAdvance
  PROVE  LegacyInvariant'
<1>1. /\ head \in Nat /\ tail \in Nat /\ nextId \in Nat
      /\ batch.size \in Nat /\ batch.done \in Nat
  BY DEF LegacyInvariant, LegacyTypes
<1>2. batch.from = tail /\ tail + batch.size <= head /\ head <= nextId /\ nextId <= MaxIds
  <2>1. batch # NoBatch BY DEF KernelAdvance, NoBatch
  <2>. QED BY <2>1 DEF LegacyInvariant, BatchInv
<1>3. tail' = tail + batch.size
  <2>1. tail + batch.size <= MaxIds BY <1>1, <1>2 DEF OneClient
  <2>. QED BY <1>1, <1>2, <2>1, NoWrap DEF KernelAdvance
<1>4. /\ UNCHANGED <<counter, nextId, head, requests, responses, ready, call, starts,
                     giveUps, running, shutdownFlag, tuning, kernel>>
      /\ batch' = NoBatch /\ batch.done = batch.size
  BY DEF KernelAdvance, host
<1>5. KernelAt' = KernelAt BY <1>1, <1>3, <1>4 DEF KernelAt, NoBatch
<1>6. LegacyTypes' BY <1>1, <1>3, <1>4 DEF LegacyInvariant, LegacyTypes, NoBatch
<1>7. BatchInv' BY <1>1, <1>2, <1>3, <1>4 DEF LegacyInvariant, BatchInv, NoBatch
<1>. QED BY <1>4, <1>5, <1>6, <1>7, SameKernelAt DEF LegacyInvariant

\* The kernel answers the request at its position, in that request's slot.
LEMMA AnswerNext ==
  ASSUME OneClient, LegacyInvariant, KernelAnswer
  PROVE  LegacyInvariant'
<1>1. /\ head \in Nat /\ tail \in Nat /\ nextId \in Nat
      /\ batch.size \in Nat /\ batch.done \in Nat /\ batch.from \in Nat
      /\ batch = [from |-> batch.from, size |-> batch.size, done |-> batch.done]
  BY DEF LegacyInvariant, LegacyTypes
<1>2. batch.from = tail /\ tail + batch.size <= head /\ head <= nextId /\ nextId <= MaxIds
      /\ batch.done < batch.size
  <2>1. batch # NoBatch BY DEF KernelAnswer, NoBatch
  <2>. QED BY <2>1 DEF LegacyInvariant, BatchInv, KernelAnswer
<1>3. /\ UNCHANGED <<counter, nextId, head, tail, requests, call, starts,
                     giveUps, running, shutdownFlag, tuning, kernel>>
      /\ batch' = [batch EXCEPT !.done = batch.done + 1]
      /\ responses' = [responses EXCEPT ![SlotOf(KernelAt)] = requests[SlotOf(KernelAt)]]
      /\ ready' = [ready EXCEPT ![SlotOf(KernelAt)] = TRUE]
  BY <1>1, <1>2 DEF KernelAnswer, host, KernelAt
<1>4. batch' = [from |-> tail, size |-> batch.size, done |-> batch.done + 1] BY <1>1, <1>2, <1>3
<1>5. KernelAt \in Nat /\ KernelAt < head /\ KernelAt' = KernelAt + 1
  BY <1>1, <1>2, <1>3, <1>4 DEF KernelAt
<1>6. SlotOf(KernelAt) \in Slots BY <1>5, SlotFacts
<1>7. requests[SlotOf(KernelAt)] = KernelAt
  BY <1>1, <1>2, <1>5 DEF LegacyInvariant, HeldInv
<1>8. LegacyTypes'
  <2>1. responses' \in [Slots -> Int] /\ ready' \in [Slots -> BOOLEAN]
    BY <1>3, <1>5, <1>6, <1>7 DEF LegacyInvariant, LegacyTypes
  <2>. QED BY <1>1, <1>3, <1>4, <2>1 DEF LegacyInvariant, LegacyTypes
<1>9. BatchInv' BY <1>1, <1>2, <1>3, <1>4 DEF LegacyInvariant, BatchInv
<1>10. StartInv'
  <2>1. nextId # 0 BY <1>1, <1>2, <1>5
  <2>. QED BY <1>3, <2>1 DEF LegacyInvariant, StartInv
<1>11. HeldInv' BY <1>1, <1>3, <1>5 DEF LegacyInvariant, HeldInv, SlotOf
<1>12. ASSUME NEW c \in Callers
       PROVE  Behind(c)' /\ IdsInv(c)' /\ FlagInv(c)' /\ GotInv(c)'
  <2>1. LegacyTypes /\ Behind(c) /\ IdsInv(c) /\ FlagInv(c) /\ GotInv(c) BY DEF LegacyInvariant
  <2>2. call[c].pc \notin {"idle", "head"} /\ call[c].base <= KernelAt
    <3>1. KernelAt < nextId BY <1>1, <1>2, <1>5
    <3>. QED BY <1>5, <2>1, <3>1 DEF Behind, IdsInv
  <2>3. /\ call[c].base \in Nat /\ \A i \in DOMAIN call[c].ids : call[c].ids[i] \in Nat
        /\ \E i \in DOMAIN call[c].ids : call[c].ids[i] = KernelAt
        /\ \A i, j \in DOMAIN call[c].ids :
             SlotOf(call[c].ids[i]) = SlotOf(call[c].ids[j]) => call[c].ids[i] = call[c].ids[j]
    <3>1. KernelAt \in call[c].base .. nextId - 1 BY <1>1, <1>2, <1>5, <2>1, <2>2, CallIds
    <3>2. call[c].base \in Nat /\ \A i \in DOMAIN call[c].ids : call[c].ids[i] \in Nat
      BY <2>1, <2>2, CallIds
    <3>3. \A i, j \in DOMAIN call[c].ids :
            SlotOf(call[c].ids[i]) = SlotOf(call[c].ids[j]) => call[c].ids[i] = call[c].ids[j]
      BY <2>1, <2>2, CallIds
    <3>4. \E i \in DOMAIN call[c].ids : call[c].ids[i] = KernelAt BY <2>1, <2>2, <3>1, CallIds
    <3>. QED BY <3>2, <3>3, <3>4
  <2>4. KernelAt \notin Answered(c)
    <3>1. \A g \in call[c].got : g[1] < KernelAt BY <2>1 DEF GotInv
    <3>. QED BY <1>5, <3>1 DEF Answered
  <2>5. UNCHANGED <<call, Answered(c)>> BY <1>3 DEF Answered
  <2>6. Behind(c)' BY <1>3, <2>1, <2>2 DEF Behind
  <2>7. IdsInv(c)' BY <1>3, <1>5, <2>1, <2>3 DEF IdsInv
  <2>8. FlagInv(c)'
    <3>1. ASSUME NEW s \in Slots, ready'[s]
          PROVE  \E i \in DOMAIN call[c].ids :
                   /\ SlotOf(call[c].ids[i]) = s /\ call[c].ids[i] < KernelAt + 1
                   /\ responses'[s] = call[c].ids[i] /\ call[c].ids[i] \notin Answered(c)
      <4>1. CASE s = SlotOf(KernelAt)
        <5>1. responses'[s] = KernelAt BY <1>3, <1>6, <1>7, <4>1, <2>1 DEF LegacyTypes
        <5>. QED BY <1>5, <2>3, <2>4, <4>1, <5>1
      <4>2. CASE s # SlotOf(KernelAt)
        <5>1. ready[s] /\ responses'[s] = responses[s]
          BY <1>3, <2>1, <3>1, <4>2 DEF LegacyTypes
        <5>. QED BY <1>5, <2>1, <2>3, <5>1 DEF FlagInv
      <4>. QED BY <4>1, <4>2
    <3>2. ASSUME NEW i \in DOMAIN call[c].ids, call[c].ids[i] < KernelAt + 1,
                 call[c].ids[i] \notin Answered(c)
          PROVE  ready'[SlotOf(call[c].ids[i])]
      <4>1. SlotOf(call[c].ids[i]) \in Slots BY <2>3, SlotFacts
      <4>2. CASE call[c].ids[i] = KernelAt BY <1>3, <1>6, <2>1, <4>2 DEF LegacyTypes
      <4>3. CASE call[c].ids[i] < KernelAt
        <5>1. ready[SlotOf(call[c].ids[i])] BY <2>1, <3>2, <4>3 DEF FlagInv
        <5>. QED BY <1>3, <2>1, <4>1, <5>1 DEF LegacyTypes
      <4>. QED BY <1>5, <2>3, <3>2, <4>2, <4>3
    <3>3. \A s \in call[c].flags : ready'[s] BY <1>3, <1>6, <2>1 DEF FlagInv, LegacyTypes, CallType
    <3>. QED BY <1>5, <2>5, <3>1, <3>2, <3>3 DEF FlagInv, SlotOf
  <2>9. GotInv(c)'
    <3>1. \A g \in call[c].got : g[1] \in Nat BY <2>1 DEF LegacyTypes, CallType
    <3>2. \A g \in call[c].got : g[1] < KernelAt + 1 BY <1>5, <2>1, <3>1 DEF GotInv
    <3>. QED BY <1>5, <2>1, <2>5, <3>2 DEF GotInv
  <2>. QED BY <2>6, <2>7, <2>8, <2>9
<1>. QED BY <1>8, <1>9, <1>10, <1>11, <1>12 DEF LegacyInvariant

\* The only start finds a queue that nobody has used.
LEMMA StartNext ==
  ASSUME OneClient, LegacyInvariant, Start
  PROVE  LegacyInvariant'
<1>1. /\ UNCHANGED <<counter, nextId, tuning, call, giveUps>>
      /\ starts' = starts + 1 /\ starts < 1 /\ starts \in Nat
      /\ head' = 0 /\ tail' = 0 /\ shutdownFlag' = FALSE /\ running' = TRUE /\ kernel' = "on"
      /\ batch' = NoBatch
      /\ requests' = [s \in Slots |-> NoReq] /\ responses' = [s \in Slots |-> NoReq]
      /\ ready' = [s \in Slots |-> FALSE]
  BY DEF Start, BlankQueue, OneClient, LegacyInvariant, LegacyTypes
<1>2. nextId = 0 /\ counter = 0 /\ \A s \in Slots : ~ready[s]
  BY <1>1 DEF LegacyInvariant, StartInv
<1>3. KernelAt' = 0 BY <1>1 DEF KernelAt, NoBatch
<1>4. LegacyTypes'
  <2>1. requests' \in [Slots -> Int] /\ responses' \in [Slots -> Int]
    <3>1. NoReq \in Int BY DEF NoReq
    <3>. QED BY <1>1, <3>1, Zenon
  <2>2. ready' \in [Slots -> BOOLEAN] BY <1>1
  <2>3. batch' \in [from : Nat, size : Nat, done : Nat] BY <1>1 DEF NoBatch
  <2>4. counter' \in Nat /\ nextId' \in Nat /\ head' \in Nat /\ tail' \in Nat
    BY <1>1, <1>2
  <2>5. tuning' \in Tunings /\ call' \in [Callers -> CallType] /\ giveUps' = 0
    BY <1>1 DEF LegacyInvariant, LegacyTypes
  <2>6. starts' \in Nat BY <1>1
  <2>7. running' \in BOOLEAN /\ shutdownFlag' \in BOOLEAN /\ kernel' \in {"off", "on"} BY <1>1
  <2>. QED BY <2>1, <2>2, <2>3, <2>4, <2>5, <2>6, <2>7 DEF LegacyTypes
<1>5. BatchInv' BY <1>1, <1>2 DEF BatchInv, NoBatch, OneClient
<1>6. StartInv' BY <1>1 DEF StartInv
<1>7. HeldInv' BY <1>1, <1>2, <1>3 DEF HeldInv
<1>8. ASSUME NEW c \in Callers
      PROVE  Behind(c)' /\ IdsInv(c)' /\ FlagInv(c)' /\ GotInv(c)'
  <2>1. LegacyTypes /\ Behind(c) /\ IdsInv(c) /\ FlagInv(c) /\ GotInv(c) /\ BatchInv
    BY DEF LegacyInvariant
  <2>2. call[c] \in CallType BY <2>1 DEF LegacyTypes
  <2>3. call[c].ids = <<>> /\ (call[c].pc # "idle" => call[c].base = 0)
    <3>1. CASE call[c].pc = "idle" BY <2>1, <3>1 DEF Behind
    <3>2. CASE call[c].pc # "idle"
      <4>1. call[c].base \in Nat /\ Len(call[c].ids) \in Nat /\ 0 = call[c].base + Len(call[c].ids)
        BY <1>2, <2>1, <3>2, CallIds
      <4>2. call[c].base = 0 /\ Len(call[c].ids) = 0 BY <4>1
      <4>. QED BY <2>2, <4>2 DEF CallType
    <3>. QED BY <3>1, <3>2
  <2>4. call[c].got = {}
    <3>1. DOMAIN call[c].ids = {} BY <2>3
    <3>. QED BY <2>1, <3>1 DEF GotInv
  <2>5. call[c].flags = {} BY <1>2, <2>1, <2>2 DEF FlagInv, CallType
  <2>6. Behind(c)' BY <1>1, <1>2, <1>3, <2>1, <2>3, <2>4 DEF Behind
  <2>7. IdsInv(c)' BY <1>1, <1>2, <1>3, <2>1, <2>3 DEF IdsInv
  <2>8. FlagInv(c)' BY <1>1, <2>3, <2>5 DEF FlagInv
  <2>9. GotInv(c)' BY <1>1, <2>3, <2>4 DEF GotInv
  <2>. QED BY <2>6, <2>7, <2>8, <2>9
<1>. QED BY <1>4, <1>5, <1>6, <1>7, <1>8 DEF LegacyInvariant

-----------------------------------------------------------------------------
(* The caller *)

\* A record of a call of which a field changed.
LEMMA FieldChanged ==
  ASSUME NEW r \in CallType
  PROVE  /\ \A p \in {"idle", "head", "sync", "wait", "fetch", "done"} :
              LET e == [r EXCEPT !.pc = p]
              IN  e \in CallType /\ e.pc = p /\ e.ids = r.ids /\ e.base = r.base
                  /\ e.flags = r.flags /\ e.got = r.got
         /\ \A x \in Seq(Nat) :
              LET e == [r EXCEPT !.ids = x]
              IN  e \in CallType /\ e.pc = r.pc /\ e.ids = x /\ e.base = r.base
                  /\ e.flags = r.flags /\ e.got = r.got
         /\ \A b \in Nat :
              LET e == [r EXCEPT !.base = b]
              IN  e \in CallType /\ e.pc = r.pc /\ e.ids = r.ids /\ e.base = b
                  /\ e.flags = r.flags /\ e.got = r.got
         /\ \A h \in SUBSET Slots :
              LET e == [r EXCEPT !.flags = h]
              IN  e \in CallType /\ e.pc = r.pc /\ e.ids = r.ids /\ e.base = r.base
                  /\ e.flags = h /\ e.got = r.got
         /\ \A g \in SUBSET (Nat \X Int) :
              LET e == [r EXCEPT !.got = g]
              IN  e \in CallType /\ e.pc = r.pc /\ e.ids = r.ids /\ e.base = r.base
                  /\ e.flags = r.flags /\ e.got = g
  BY DEF CallType

LEMMA CallChanged ==
  ASSUME NEW f \in [Callers -> CallType], NEW c \in Callers, NEW e \in CallType
  PROVE  [f EXCEPT ![c] = e] \in [Callers -> CallType] /\ [f EXCEPT ![c] = e][c] = e
  OBVIOUS

LEMMA CopyRecord ==
  ASSUME LegacyTypes, NEW c \in Callers, NEW x \in Seq(Nat),
         call' = [call EXCEPT ![c] = [Idle EXCEPT !.pc = "head", !.ids = x, !.base = counter]]
  PROVE  /\ call' \in [Callers -> CallType] /\ call'[c].pc = "head" /\ call'[c].ids = x
         /\ call'[c].base = counter /\ call'[c].flags = {} /\ call'[c].got = {}
<1>1. Idle \in CallType /\ Idle.flags = {} /\ Idle.got = {} BY DEF Idle, CallType
<1>2. PICK i \in CallType : i = Idle BY <1>1
<1>3. PICK r \in CallType : r = [i EXCEPT !.pc = "head"] BY FieldChanged
<1>4. r.pc = "head" /\ r.flags = {} /\ r.got = {} BY <1>1, <1>2, <1>3, FieldChanged
<1>5. PICK q \in CallType : q = [r EXCEPT !.ids = x] BY FieldChanged
<1>6. q.pc = "head" /\ q.ids = x /\ q.flags = {} /\ q.got = {} BY <1>4, <1>5, FieldChanged
<1>7. PICK y \in Nat : y = counter BY DEF LegacyTypes
<1>8. PICK m \in CallType : m = [q EXCEPT !.base = y] BY FieldChanged
<1>9. m.pc = "head" /\ m.ids = x /\ m.base = y /\ m.flags = {} /\ m.got = {}
  BY <1>6, <1>8, FieldChanged
<1>10. call' = [call EXCEPT ![c] = m] BY <1>2, <1>3, <1>5, <1>7, <1>8
<1>11. call' \in [Callers -> CallType] /\ call'[c] = m BY <1>10, CallChanged DEF LegacyTypes
<1>. QED BY <1>7, <1>9, <1>11

LEMMA PhaseRecord ==
  ASSUME LegacyTypes, NEW c \in Callers, NEW p \in {"sync", "wait"},
         call' = [call EXCEPT ![c].pc = p]
  PROVE  /\ call' \in [Callers -> CallType] /\ call'[c].pc = p /\ call'[c].ids = call[c].ids
         /\ call'[c].base = call[c].base /\ call'[c].flags = call[c].flags
         /\ call'[c].got = call[c].got
<1>1. PICK r \in CallType : r = call[c] BY DEF LegacyTypes
<1>2. PICK m \in CallType : m = [r EXCEPT !.pc = p] BY FieldChanged
<1>3. m.pc = p /\ m.ids = r.ids /\ m.base = r.base /\ m.flags = r.flags /\ m.got = r.got
  BY <1>2, FieldChanged
<1>4. call' = [call EXCEPT ![c] = m] BY <1>1, <1>2
<1>5. call' \in [Callers -> CallType] /\ call'[c] = m BY <1>4, CallChanged DEF LegacyTypes
<1>. QED BY <1>1, <1>3, <1>5

LEMMA FlagsRecord ==
  ASSUME LegacyTypes, NEW c \in Callers, NEW h \in SUBSET Slots,
         call' = [call EXCEPT ![c].flags = h, ![c].pc = "fetch"]
  PROVE  /\ call' \in [Callers -> CallType] /\ call'[c].pc = "fetch"
         /\ call'[c].ids = call[c].ids /\ call'[c].base = call[c].base
         /\ call'[c].flags = h /\ call'[c].got = call[c].got
<1>1. PICK r \in CallType : r = call[c] BY DEF LegacyTypes
<1>2. PICK n \in CallType : n = [r EXCEPT !.flags = h] BY FieldChanged
<1>3. n.ids = r.ids /\ n.base = r.base /\ n.flags = h /\ n.got = r.got BY <1>2, FieldChanged
<1>4. PICK m \in CallType : m = [n EXCEPT !.pc = "fetch"] BY FieldChanged
<1>5. m.pc = "fetch" /\ m.ids = n.ids /\ m.base = n.base /\ m.flags = n.flags /\ m.got = n.got
  BY <1>4, FieldChanged
<1>6. PICK d \in [Callers -> CallType] : d = [call EXCEPT ![c] = n] BY CallChanged DEF LegacyTypes
<1>7. d[c] = n BY <1>6, CallChanged DEF LegacyTypes
<1>8. call' = [d EXCEPT ![c] = m] BY <1>1, <1>2, <1>4, <1>6, <1>7
<1>9. PICK e \in [Callers -> CallType] : e = [d EXCEPT ![c] = m] BY CallChanged
<1>10. e[c] = m BY <1>9, CallChanged
<1>11. call' \in [Callers -> CallType] /\ call'[c] = m BY <1>8, <1>9, <1>10
<1>. QED BY <1>1, <1>3, <1>5, <1>11

LEMMA GotRecord ==
  ASSUME LegacyTypes, NEW c \in Callers, NEW g \in SUBSET (Nat \X Int), NEW p \in {"done", "wait"},
         call' = [call EXCEPT ![c].got = g, ![c].flags = {}, ![c].pc = p]
  PROVE  /\ call' \in [Callers -> CallType] /\ call'[c].pc = p
         /\ call'[c].ids = call[c].ids /\ call'[c].base = call[c].base
         /\ call'[c].flags = {} /\ call'[c].got = g
<1>1. PICK r \in CallType : r = call[c] BY DEF LegacyTypes
<1>2. PICK q \in CallType : q = [r EXCEPT !.got = g] BY FieldChanged
<1>3. q.ids = r.ids /\ q.base = r.base /\ q.got = g BY <1>2, FieldChanged
<1>4. {} \in SUBSET Slots OBVIOUS
<1>5. PICK n \in CallType : n = [q EXCEPT !.flags = {}] BY <1>4, FieldChanged
<1>6. n.ids = q.ids /\ n.base = q.base /\ n.flags = {} /\ n.got = q.got
  BY <1>4, <1>5, FieldChanged
<1>7. PICK m \in CallType : m = [n EXCEPT !.pc = p] BY FieldChanged
<1>8. m.pc = p /\ m.ids = n.ids /\ m.base = n.base /\ m.flags = n.flags /\ m.got = n.got
  BY <1>7, FieldChanged
<1>9. PICK a \in [Callers -> CallType] : a = [call EXCEPT ![c] = q] BY CallChanged DEF LegacyTypes
<1>10. a[c] = q BY <1>9, CallChanged DEF LegacyTypes
<1>11. PICK d \in [Callers -> CallType] : d = [a EXCEPT ![c] = n] BY CallChanged
<1>12. d[c] = n BY <1>11, CallChanged
<1>13. call' = [d EXCEPT ![c] = m] BY <1>1, <1>2, <1>5, <1>7, <1>9, <1>10, <1>11, <1>12
<1>14. PICK e \in [Callers -> CallType] : e = [d EXCEPT ![c] = m] BY CallChanged
<1>15. e[c] = m BY <1>14, CallChanged
<1>16. call' \in [Callers -> CallType] /\ call'[c] = m BY <1>13, <1>14, <1>15
<1>. QED BY <1>1, <1>3, <1>6, <1>8, <1>16

\* A step of the caller that leaves the slots alone.
LEMMA CallerStep ==
  ASSUME OneClient, LegacyInvariant, NEW c \in Callers, call' \in [Callers -> CallType],
         UNCHANGED <<running, nextId, tail, requests, responses, shutdownFlag, tuning, kernel,
                     batch, starts, giveUps>>,
         counter' \in Nat, head' \in Nat, head' <= nextId, head' >= head,
         ready' \in [Slots -> BOOLEAN], \A s \in Slots : ready'[s] => ready[s],
         starts < 1 => counter' = 0,
         Behind(c)', IdsInv(c)', FlagInv(c)', GotInv(c)'
  PROVE  LegacyInvariant'
<1>1. LegacyTypes'
  <2>1. LegacyTypes BY DEF LegacyInvariant
  <2>3. /\ running' \in BOOLEAN /\ shutdownFlag' \in BOOLEAN /\ kernel' \in {"off", "on"}
        /\ counter' \in Nat /\ nextId' \in Nat /\ head' \in Nat /\ tail' \in Nat
        /\ requests' \in [Slots -> Int] /\ responses' \in [Slots -> Int]
        /\ ready' \in [Slots -> BOOLEAN] /\ tuning' \in Tunings
    BY <2>1 DEF LegacyTypes
  <2>4. batch' \in [from : Nat, size : Nat, done : Nat] /\ starts' \in Nat /\ giveUps' = 0
    BY <2>1 DEF LegacyTypes
  <2>. QED BY <2>3, <2>4 DEF LegacyTypes
<1>2. BatchInv'
  <2>1. tail \in Nat /\ head \in Nat /\ batch.size \in Nat BY DEF LegacyInvariant, LegacyTypes
  <2>2. tail + batch.size <= head' BY <2>1 DEF LegacyInvariant, BatchInv
  <2>. QED BY <2>2 DEF LegacyInvariant, BatchInv
<1>3. StartInv' BY DEF LegacyInvariant, StartInv
<1>4. HeldInv' BY DEF LegacyInvariant, HeldInv, KernelAt, SlotOf
<1>5. \A d \in Callers : d = c BY DEF OneClient
<1>. QED BY <1>1, <1>2, <1>3, <1>4, <1>5 DEF LegacyInvariant

\* What the caller's record is when it waits, or has been idle.
LEMMA CallIs ==
  ASSUME LegacyInvariant, NEW c \in Callers
  PROVE  /\ call[c] \in CallType
         /\ call[c] = [pc |-> call[c].pc, ids |-> call[c].ids, base |-> call[c].base,
                       flags |-> call[c].flags, got |-> call[c].got]
         /\ LegacyTypes /\ Behind(c) /\ IdsInv(c) /\ FlagInv(c) /\ GotInv(c) /\ BatchInv
         /\ KernelAt \in Nat
<1>1. call[c] \in CallType BY DEF LegacyInvariant, LegacyTypes
<1>2. KernelAt \in Nat BY DEF LegacyInvariant, LegacyTypes, KernelAt
<1>. QED BY <1>1, <1>2 DEF LegacyInvariant, CallType

\* The copies of a submit: the ids are new, and each slot belongs to one of them.
LEMMA CopyNext ==
  ASSUME OneClient, LegacyInvariant, NEW c \in Callers, NEW n \in 1 .. BatchMax, SubmitCopy(c, n)
  PROVE  LegacyInvariant'
<1>. DEFINE ids == Ids(n)
<1>1. n \in Nat /\ n <= QueueSize /\ nextId \in Nat /\ nextId + n <= MaxIds
  BY DEF OneClient, SubmitCopy, LegacyInvariant, LegacyTypes
<1>2. \A i \in 1 .. n : ids[i] = nextId + (i - 1)
  <2>1. \A i \in 1 .. n : i - 1 \in Nat /\ nextId + (i - 1) <= MaxIds BY <1>1 DEF OneClient
  <2>2. \A i \in 1 .. n : Plus(nextId, i - 1) = nextId + (i - 1) BY <1>1, <2>1, NoWrap
  <2>. QED BY <2>2 DEF Ids
<1>3. ids \in Seq(Nat) /\ Len(ids) = n /\ DOMAIN ids = 1 .. n
  <2>1. ids \in [1 .. n -> Nat] BY <1>1, <1>2 DEF Ids
  <2>. QED BY <1>1, <2>1
<1>4. /\ call[c].pc = "idle" /\ running
      /\ call' = [call EXCEPT ![c] = [Idle EXCEPT !.pc = "head", !.ids = ids, !.base = counter]]
      /\ nextId' = nextId + n
      /\ UNCHANGED <<running, counter, head, tail, responses, ready, shutdownFlag, tuning, kernel,
                     batch, starts, giveUps>>
  BY <1>1, NoWrap DEF SubmitCopy
<1>. HIDE DEF ids
<1>5. /\ call' \in [Callers -> CallType] /\ call'[c].pc = "head" /\ call'[c].ids = ids
      /\ call'[c].base = counter /\ call'[c].flags = {} /\ call'[c].got = {}
  BY <1>3, <1>4, CopyRecord DEF LegacyInvariant
<1>6. /\ LegacyTypes /\ Behind(c) /\ IdsInv(c) /\ FlagInv(c) /\ GotInv(c) /\ BatchInv
      /\ KernelAt \in Nat
  BY CallIs
<1>7. counter = nextId /\ head = nextId /\ KernelAt = nextId /\ call[c].ids = <<>>
  BY <1>4, <1>6 DEF Behind
<1>8. KernelAt' = KernelAt BY <1>4 DEF KernelAt
<1>9. /\ requests' \in [Slots -> Int]
      /\ \A p \in nextId .. nextId + n - 1 : requests'[SlotOf(p)] = p
  <2>. DEFINE Newest(s) == CHOOSE i \in 1 .. n : /\ SlotOf(ids[i]) = s
                                               /\ \A j \in i + 1 .. n : SlotOf(ids[j]) # s
              held(s) == \E i \in 1 .. n : SlotOf(ids[i]) = s
  <2>1. requests' = [s \in Slots |-> IF held(s) THEN ids[Newest(s)] ELSE requests[s]]
    BY DEF SubmitCopy, ids
  <2>2. \A i, j \in 1 .. n : SlotOf(ids[i]) = SlotOf(ids[j]) => i = j
    <3>. SUFFICES ASSUME NEW i \in 1 .. n, NEW j \in 1 .. n, SlotOf(ids[i]) = SlotOf(ids[j])
                  PROVE  i = j
      OBVIOUS
    <3>1. ids[i] \in nextId .. nextId + n - 1 /\ ids[j] \in nextId .. nextId + n - 1
      BY <1>1, <1>2
    <3>2. ids[i] = ids[j] BY <1>1, <3>1, OneSlot
    <3>. QED BY <1>1, <1>2, <3>2
  <2>3. ASSUME NEW i \in 1 .. n PROVE held(SlotOf(ids[i])) /\ Newest(SlotOf(ids[i])) = i
    <3>1. \A j \in i + 1 .. n : SlotOf(ids[j]) # SlotOf(ids[i])
      <4>1. \A j \in i + 1 .. n : j \in 1 .. n /\ j # i BY <1>1
      <4>. QED BY <2>2, <4>1
    <3>. QED BY <2>2, <3>1
  <2>4. ASSUME NEW s \in Slots, held(s) PROVE ids[Newest(s)] \in Nat
    <3>1. PICK i \in 1 .. n : SlotOf(ids[i]) = s BY <2>4
    <3>2. Newest(s) = i BY <2>3, <3>1
    <3>3. ids[i] \in Nat BY <1>3
    <3>. HIDE DEF Last
    <3>. QED BY <3>2, <3>3
  <2>5. requests' \in [Slots -> Int]
    <3>1. \A s \in Slots : requests[s] \in Int BY <1>6 DEF LegacyTypes
    <3>. HIDE DEF held, Last
    <3>2. \A s \in Slots : (IF held(s) THEN ids[Newest(s)] ELSE requests[s]) \in Int
      BY <2>4, <3>1
    <3>. QED BY <2>1, <3>2
  <2>6. ASSUME NEW p \in nextId .. nextId + n - 1 PROVE requests'[SlotOf(p)] = p
    <3>1. PICK i \in 1 .. n : i = p - nextId + 1 BY <1>1
    <3>2. ids[i] = p BY <1>1, <1>2, <3>1
    <3>3. SlotOf(p) \in Slots BY <1>1, SlotFacts
    <3>4. held(SlotOf(p)) /\ Newest(SlotOf(p)) = i BY <2>3, <3>2
    <3>. HIDE DEF held, Last
    <3>. QED BY <2>1, <3>2, <3>3, <3>4
  <2>. QED BY <2>5, <2>6
<1>10. LegacyTypes'
  <2>. QED BY <1>1, <1>4, <1>5, <1>6, <1>9 DEF LegacyTypes
<1>11. BatchInv' BY <1>1, <1>4, <1>6, <1>7 DEF BatchInv
<1>12. StartInv' BY <1>4 DEF LegacyInvariant, StartInv
<1>13. HeldInv'
  <2>1. KernelAt' = nextId /\ nextId' = nextId + n BY <1>4, <1>7, <1>8
  <2>2. ASSUME NEW p \in KernelAt' .. nextId' - 1 PROVE requests'[SlotOf(p)] = p
    <3>1. p \in Int /\ nextId <= p /\ p <= nextId + n - 1 BY <1>1, <2>1
    <3>2. p \in nextId .. nextId + n - 1 BY <1>1, <3>1
    <3>. QED BY <1>9, <3>2
  <2>. QED BY <2>2 DEF HeldInv, SlotOf
<1>15. Behind(c)' BY <1>4, <1>5, <1>7, <1>8 DEF Behind
<1>16. IdsInv(c)' BY <1>1, <1>2, <1>3, <1>4, <1>5, <1>7, <1>8 DEF IdsInv
<1>17. FlagInv(c)'
  <2>1. \A s \in Slots : ~ready[s] BY <1>6, <1>7 DEF FlagInv
  <2>2. \A i \in 1 .. n : ~ (ids[i] < nextId) BY <1>1, <1>2
  <2>. QED BY <1>3, <1>4, <1>5, <1>7, <1>8, <2>1, <2>2 DEF FlagInv
<1>18. GotInv(c)' BY <1>5 DEF GotInv
<1>19. \A d \in Callers : d = c BY DEF OneClient
<1>. QED BY <1>10, <1>11, <1>12, <1>13, <1>15, <1>16, <1>17, <1>18, <1>19 DEF LegacyInvariant

\* The head moves to the last id given, the counter follows.
LEMMA HeadNext ==
  ASSUME OneClient, LegacyInvariant, NEW c \in Callers, SubmitHead(c)
  PROVE  /\ LegacyInvariant'
         /\ call'[c].ids = call[c].ids /\ call'[c].got = call[c].got /\ call'[c].pc # "idle"
<1>1. /\ call[c] \in CallType /\ LegacyTypes /\ Behind(c) /\ IdsInv(c) /\ FlagInv(c) /\ GotInv(c)
      /\ BatchInv /\ KernelAt \in Nat
  BY CallIs
<1>2. call[c].pc = "head" /\ head' = NewHead(c)
  BY DEF SubmitHead
<1>3. /\ call' \in [Callers -> CallType] /\ call'[c].pc = "sync"
      /\ call'[c].ids = call[c].ids /\ call'[c].base = call[c].base
      /\ call'[c].flags = call[c].flags /\ call'[c].got = call[c].got
  <2>1. call' = [call EXCEPT ![c].pc = "sync"] BY DEF SubmitHead
  <2>2. "sync" \in {"sync", "wait"} OBVIOUS
  <2>. QED BY <1>1, <2>1, <2>2, PhaseRecord
<1>4. UNCHANGED <<running, counter, nextId, tail, requests, responses, ready, shutdownFlag, tuning,
                  kernel, batch, starts, giveUps>>
  BY DEF SubmitHead, host
<1>5. /\ call[c].base \in Nat /\ Len(call[c].ids) \in Nat
      /\ nextId = call[c].base + Len(call[c].ids) /\ nextId <= MaxIds
  BY <1>1, <1>2, CallIds DEF BatchInv
<1>6. head' = nextId BY <1>2, <1>5, NoWrap DEF NewHead
<1>9. head = call[c].base /\ counter = call[c].base BY <1>1, <1>2 DEF Behind
<1>10. KernelAt' = KernelAt /\ head \in Nat /\ counter \in Nat
  BY <1>1, <1>4 DEF KernelAt, LegacyTypes
<1>11. Behind(c)' BY <1>2, <1>4, <1>6, <1>3, <1>9 DEF Behind
<1>12. IdsInv(c)' BY <1>1, <1>2, <1>4, <1>3, <1>10 DEF IdsInv
<1>13. FlagInv(c)' BY <1>1, <1>4, <1>3, <1>10 DEF FlagInv, Answered, SlotOf
<1>14. GotInv(c)' BY <1>1, <1>2, <1>3, <1>10 DEF GotInv, Answered
<1>15. starts < 1 => counter' = 0 BY <1>4 DEF LegacyInvariant, StartInv
<1>16. head' \in Nat /\ head' <= nextId /\ head' >= head /\ counter' \in Nat
  BY <1>4, <1>5, <1>6, <1>9, <1>10
<1>17. ready' \in [Slots -> BOOLEAN] /\ \A s \in Slots : ready'[s] => ready[s]
  BY <1>1, <1>4 DEF LegacyTypes
<1>30. LegacyInvariant'
  BY <1>3, <1>4, <1>11, <1>12, <1>13, <1>14, <1>15, <1>16, <1>17, CallerStep
<1>. QED BY <1>30, <1>3

LEMMA DoneNext ==
  ASSUME OneClient, LegacyInvariant, NEW c \in Callers, SubmitDone(c)
  PROVE  /\ LegacyInvariant'
         /\ call'[c].ids = call[c].ids /\ call'[c].got = call[c].got /\ call'[c].pc # "idle"
<1>1. /\ call[c] \in CallType /\ LegacyTypes /\ Behind(c) /\ IdsInv(c) /\ FlagInv(c) /\ GotInv(c)
      /\ BatchInv /\ KernelAt \in Nat
  BY CallIs
<1>2. call[c].pc = "sync" /\ counter' = NewHead(c)
  BY DEF SubmitDone
<1>3. /\ call' \in [Callers -> CallType] /\ call'[c].pc = "wait"
      /\ call'[c].ids = call[c].ids /\ call'[c].base = call[c].base
      /\ call'[c].flags = call[c].flags /\ call'[c].got = call[c].got
  <2>1. call' = [call EXCEPT ![c].pc = "wait"] BY DEF SubmitDone
  <2>2. "wait" \in {"sync", "wait"} OBVIOUS
  <2>. QED BY <1>1, <2>1, <2>2, PhaseRecord
<1>4. UNCHANGED <<running, nextId, head, tail, requests, responses, ready, shutdownFlag, tuning,
                  kernel, batch, starts, giveUps>>
  BY DEF SubmitDone, device
<1>5. /\ call[c].base \in Nat /\ Len(call[c].ids) \in Nat /\ nextId \in Nat
      /\ nextId = call[c].base + Len(call[c].ids) /\ nextId <= MaxIds
  BY <1>1, <1>2, CallIds DEF BatchInv, LegacyTypes
<1>6. counter' = nextId BY <1>2, <1>5, NoWrap DEF NewHead
<1>9. head = nextId BY <1>1, <1>2 DEF Behind
<1>10. KernelAt' = KernelAt BY <1>4 DEF KernelAt
<1>11. Behind(c)' BY <1>4, <1>6, <1>3, <1>9 DEF Behind
<1>12. IdsInv(c)' BY <1>1, <1>2, <1>4, <1>3, <1>10 DEF IdsInv
<1>13. FlagInv(c)' BY <1>1, <1>4, <1>3, <1>10 DEF FlagInv, Answered, SlotOf
<1>14. GotInv(c)' BY <1>1, <1>2, <1>3, <1>10 DEF GotInv, Answered
<1>15. starts < 1 => counter' = 0 BY <1>4, <1>6 DEF LegacyInvariant, StartInv
<1>16. head' \in Nat /\ head' <= nextId /\ head' >= head /\ counter' \in Nat
  BY <1>4, <1>5, <1>6, <1>9
<1>17. ready' \in [Slots -> BOOLEAN] /\ \A s \in Slots : ready'[s] => ready[s]
  BY <1>1, <1>4 DEF LegacyTypes
<1>30. LegacyInvariant'
  BY <1>3, <1>4, <1>11, <1>12, <1>13, <1>14, <1>15, <1>16, <1>17, CallerStep
<1>. QED BY <1>30, <1>3

\* A poll sees flags of its own ids.
LEMMA FlagsNext ==
  ASSUME OneClient, LegacyInvariant, NEW c \in Callers, PollFlags(c)
  PROVE  /\ LegacyInvariant'
         /\ call'[c].ids = call[c].ids /\ call'[c].got = call[c].got /\ call'[c].pc # "idle"
<1>. DEFINE hot == {s \in Ids2Slots(c) : ready[s]}
<1>1. /\ call[c] \in CallType /\ LegacyTypes /\ Behind(c) /\ IdsInv(c) /\ FlagInv(c) /\ GotInv(c)
      /\ BatchInv /\ KernelAt \in Nat
  BY CallIs
<1>2. call[c].pc = "wait" BY DEF PollFlags
<1>4. UNCHANGED <<running, counter, nextId, head, tail, requests, responses, ready, shutdownFlag,
                  tuning, kernel, batch, starts, giveUps>>
  BY DEF PollFlags, host, device
<1>3. call' = [call EXCEPT ![c].flags = hot, ![c].pc = "fetch"] BY DEF PollFlags
<1>5. hot \in SUBSET Slots
  <2>1. \A i \in DOMAIN call[c].ids : call[c].ids[i] \in Int BY <1>1 DEF CallType
  <2>2. \A i \in DOMAIN call[c].ids : SlotOf(call[c].ids[i]) \in Slots BY <2>1, SlotFacts
  <2>. QED BY <2>2 DEF Ids2Slots
<1>6. \A s \in hot : ready[s] OBVIOUS
<1>. HIDE DEF hot
<1>8. /\ call' \in [Callers -> CallType] /\ call'[c].pc = "fetch"
      /\ call'[c].ids = call[c].ids /\ call'[c].base = call[c].base
      /\ call'[c].flags = hot /\ call'[c].got = call[c].got
  <2>. QED BY <1>1, <1>3, <1>5, FlagsRecord
<1>10. KernelAt' = KernelAt /\ head \in Nat /\ counter \in Nat /\ head <= nextId
  BY <1>1, <1>4 DEF KernelAt, LegacyTypes, BatchInv
<1>11. Behind(c)' BY <1>1, <1>2, <1>4, <1>8 DEF Behind
<1>12. IdsInv(c)' BY <1>1, <1>2, <1>4, <1>8, <1>10 DEF IdsInv
<1>13. FlagInv(c)' BY <1>1, <1>4, <1>6, <1>8, <1>10 DEF FlagInv, Answered, SlotOf
<1>14. GotInv(c)' BY <1>1, <1>2, <1>8, <1>10 DEF GotInv, Answered
<1>15. starts < 1 => counter' = 0 BY <1>4 DEF LegacyInvariant, StartInv
<1>16. head' \in Nat /\ head' <= nextId /\ head' >= head /\ counter' \in Nat
  BY <1>4, <1>10
<1>17. ready' \in [Slots -> BOOLEAN] /\ \A s \in Slots : ready'[s] => ready[s]
  BY <1>1, <1>4 DEF LegacyTypes
<1>30. LegacyInvariant'
  BY <1>4, <1>8, <1>11, <1>12, <1>13, <1>14, <1>15, <1>16, <1>17, CallerStep
<1>. QED BY <1>30, <1>8

\* A fetch takes the answers behind the flags it saw, each the answer of the id
\* that is asked for, and clears those flags alone.
LEMMA FetchNext ==
  ASSUME OneClient, LegacyInvariant, NEW c \in Callers, PollFetch(c)
  PROVE  /\ LegacyInvariant'
         /\ call'[c].ids = call[c].ids /\ call'[c].pc # "idle"
         /\ call'[c].got = call[c].got \union Fetched(c)
<1>. DEFINE fetched == call[c].got \union Fetched(c)
            pc == IF {g[1] : g \in fetched} = {call[c].ids[i] : i \in DOMAIN call[c].ids}
                  THEN "done" ELSE "wait"
            New == {i \in DOMAIN call[c].ids : /\ SlotOf(call[c].ids[i]) \in call[c].flags
                                               /\ call[c].ids[i] \notin Answered(c)}
<1>1. /\ call[c] \in CallType /\ LegacyTypes /\ Behind(c) /\ IdsInv(c) /\ FlagInv(c) /\ GotInv(c)
      /\ BatchInv /\ KernelAt \in Nat
  BY CallIs
<1>2. call[c].pc = "fetch" /\ ready' = ClearReady(c) BY DEF PollFetch
<1>3. call' = [call EXCEPT ![c].got = fetched, ![c].flags = {}, ![c].pc = pc] BY DEF PollFetch
<1>4. UNCHANGED <<running, counter, nextId, head, tail, requests, responses, shutdownFlag,
                  tuning, kernel, batch, starts, giveUps>>
  BY DEF PollFetch, host
<1>5. /\ call[c].ids \in Seq(Nat) /\ call[c].flags \in SUBSET Slots
      /\ call[c].got \in SUBSET (Nat \X Int)
      /\ \A i \in DOMAIN call[c].ids : call[c].ids[i] \in Nat /\ SlotOf(call[c].ids[i]) \in Slots
  <2>1. call[c].ids \in Seq(Nat) BY <1>1 DEF CallType
  <2>2. \A i \in DOMAIN call[c].ids : call[c].ids[i] \in Nat /\ call[c].ids[i] \in Int BY <2>1
  <2>. QED BY <1>1, <2>1, <2>2, SlotFacts DEF CallType
<1>6. \A i, j \in DOMAIN call[c].ids :
        SlotOf(call[c].ids[i]) = SlotOf(call[c].ids[j]) => call[c].ids[i] = call[c].ids[j]
  BY <1>1, <1>2, CallIds
\* What is fetched: the answers of the ids behind the flags.
<1>7. ASSUME NEW i \in New
      PROVE  /\ responses[SlotOf(call[c].ids[i])] = call[c].ids[i]
             /\ call[c].ids[i] < KernelAt
  <2>1. ready[SlotOf(call[c].ids[i])] BY <1>1 DEF FlagInv
  <2>2. PICK j \in DOMAIN call[c].ids :
          /\ SlotOf(call[c].ids[j]) = SlotOf(call[c].ids[i]) /\ call[c].ids[j] < KernelAt
          /\ responses[SlotOf(call[c].ids[i])] = call[c].ids[j]
    BY <1>1, <1>5, <2>1 DEF FlagInv
  <2>3. call[c].ids[j] = call[c].ids[i] BY <1>6, <2>2
  <2>. QED BY <2>2, <2>3
<1>8. Fetched(c) = {<<call[c].ids[i], call[c].ids[i]>> : i \in New} BY <1>7 DEF Fetched
<1>9. {g[1] : g \in fetched} = Answered(c) \union {call[c].ids[i] : i \in New}
  <2>1. {g[1] : g \in Fetched(c)} = {call[c].ids[i] : i \in New}
    <3>. HIDE DEF New
    <3>1. ASSUME NEW x \in {g[1] : g \in Fetched(c)} PROVE x \in {call[c].ids[i] : i \in New}
      BY <1>8
    <3>2. ASSUME NEW i \in New PROVE call[c].ids[i] \in {g[1] : g \in Fetched(c)}
      <4>1. <<call[c].ids[i], call[c].ids[i]>> \in Fetched(c) BY <1>8
      <4>2. PICK g : g = <<call[c].ids[i], call[c].ids[i]>> OBVIOUS
      <4>3. g \in Fetched(c) /\ g[1] = call[c].ids[i] BY <4>1, <4>2
      <4>. QED BY <4>3
    <3>. QED BY <3>1, <3>2
  <2>2. {g[1] : g \in fetched} = {g[1] : g \in call[c].got} \union {g[1] : g \in Fetched(c)}
    OBVIOUS
  <2>. QED BY <2>1, <2>2 DEF Answered
<1>10. fetched \in SUBSET (Nat \X Int) BY <1>5, <1>8
<1>. DEFINE All == {call[c].ids[i] : i \in DOMAIN call[c].ids}
<1>11. pc \in {"done", "wait"} /\ (pc = "done" => {g[1] : g \in fetched} = All) OBVIOUS
<1>12. \A g \in fetched : g[2] = g[1] /\ g[1] < KernelAt /\ \E i \in DOMAIN call[c].ids : g[1] = call[c].ids[i]
  <2>1. \A g \in call[c].got :
          g[2] = g[1] /\ g[1] < KernelAt /\ \E i \in DOMAIN call[c].ids : g[1] = call[c].ids[i]
    BY <1>1 DEF GotInv
  <2>2. ASSUME NEW g \in Fetched(c)
        PROVE  g[2] = g[1] /\ g[1] < KernelAt /\ \E i \in DOMAIN call[c].ids : g[1] = call[c].ids[i]
    BY <1>7, <1>8
  <2>. QED BY <2>1, <2>2
<1>. HIDE DEF fetched, pc
<1>14. /\ call' \in [Callers -> CallType] /\ call'[c].pc = pc
       /\ call'[c].ids = call[c].ids /\ call'[c].base = call[c].base
       /\ call'[c].flags = {} /\ call'[c].got = fetched
  <2>. QED BY <1>1, <1>3, <1>10, <1>11, GotRecord
<1>15. Answered(c)' = Answered(c) \union {call[c].ids[i] : i \in New}
  <2>1. Answered(c)' = {g[1] : g \in fetched} BY <1>14 DEF Answered
  <2>. QED BY <1>9, <2>1
<1>16. KernelAt' = KernelAt /\ head \in Nat /\ counter \in Nat /\ head <= nextId
  BY <1>1, <1>4 DEF KernelAt, LegacyTypes, BatchInv
<1>17. ready' \in [Slots -> BOOLEAN] /\ \A s \in Slots : ready'[s] <=> ready[s] /\ s \notin call[c].flags
  BY <1>1, <1>2 DEF LegacyTypes, ClearReady
<1>18. Behind(c)' BY <1>1, <1>2, <1>4, <1>11, <1>14 DEF Behind
<1>19. IdsInv(c)' BY <1>1, <1>2, <1>4, <1>11, <1>14, <1>16 DEF IdsInv
<1>20. FlagInv(c)'
  <2>1. ASSUME NEW s \in Slots, ready'[s]
        PROVE  \E i \in DOMAIN call[c].ids :
                 /\ SlotOf(call[c].ids[i]) = s /\ call[c].ids[i] < KernelAt
                 /\ responses[s] = call[c].ids[i] /\ call[c].ids[i] \notin Answered(c)'
    <3>1. ready[s] /\ s \notin call[c].flags BY <1>17, <2>1
    <3>2. PICK i \in DOMAIN call[c].ids :
            /\ SlotOf(call[c].ids[i]) = s /\ call[c].ids[i] < KernelAt
            /\ responses[s] = call[c].ids[i] /\ call[c].ids[i] \notin Answered(c)
      BY <1>1, <3>1 DEF FlagInv
    <3>3. \A j \in New : call[c].ids[j] # call[c].ids[i] BY <3>1, <3>2
    <3>. QED BY <1>15, <3>2, <3>3
  <2>2. ASSUME NEW i \in DOMAIN call[c].ids, call[c].ids[i] < KernelAt,
               call[c].ids[i] \notin Answered(c)'
        PROVE  ready'[SlotOf(call[c].ids[i])]
    <3>1. call[c].ids[i] \notin Answered(c) /\ i \notin New BY <1>15, <2>2
    <3>2. SlotOf(call[c].ids[i]) \notin call[c].flags BY <3>1
    <3>3. ready[SlotOf(call[c].ids[i])] BY <1>1, <2>2, <3>1 DEF FlagInv
    <3>. QED BY <1>5, <1>17, <3>2, <3>3
  <2>3. call'[c].ids = call[c].ids /\ call'[c].flags = {} BY <1>14
  <2>. QED BY <1>4, <1>16, <2>1, <2>2, <2>3 DEF FlagInv, SlotOf
<1>21. GotInv(c)'
  <2>1. call'[c].got = fetched /\ call'[c].ids = call[c].ids /\ call'[c].pc = pc BY <1>14
  <2>2. pc = "done" => \A i \in DOMAIN call[c].ids : call[c].ids[i] \in Answered(c)'
    BY <1>9, <1>11, <1>15
  <2>. QED BY <1>12, <1>16, <2>1, <2>2 DEF GotInv
<1>22. starts < 1 => counter' = 0 BY <1>4 DEF LegacyInvariant, StartInv
<1>23. head' \in Nat /\ head' <= nextId /\ head' >= head /\ counter' \in Nat
  BY <1>4, <1>16
<1>24. \A s \in Slots : ready'[s] => ready[s] BY <1>17
<1>30. LegacyInvariant'
  BY <1>4, <1>14, <1>17, <1>18, <1>19, <1>20, <1>21, <1>22, <1>23, <1>24, CallerStep
<1>. QED BY <1>30, <1>11, <1>14 DEF fetched

\* The call returns when all is answered: nothing is left in the queue.
LEMMA ReturnNext ==
  ASSUME OneClient, LegacyInvariant, NEW c \in Callers, Return(c)
  PROVE  LegacyInvariant'
<1>1. /\ call[c] \in CallType /\ LegacyTypes /\ Behind(c) /\ IdsInv(c) /\ FlagInv(c) /\ GotInv(c)
      /\ BatchInv /\ KernelAt \in Nat
  BY CallIs
<1>2. call[c].pc = "done" /\ call' = [call EXCEPT ![c] = Idle] BY DEF Return
<1>3. UNCHANGED <<running, counter, nextId, head, tail, requests, responses, ready, shutdownFlag,
                  tuning, kernel, batch, starts, giveUps>>
  BY DEF Return, host, device
<1>4. /\ counter = nextId /\ head = nextId /\ nextId \in Nat /\ call[c].base <= KernelAt
      /\ call[c].base \in Nat
  BY <1>1, <1>2 DEF Behind, IdsInv, LegacyTypes, CallType
<1>5. \A i \in DOMAIN call[c].ids : call[c].ids[i] \in Answered(c) /\ call[c].ids[i] < KernelAt
  <2>1. \A i \in DOMAIN call[c].ids : call[c].ids[i] \in Answered(c) BY <1>1, <1>2 DEF GotInv
  <2>2. \A x \in Answered(c) : x < KernelAt BY <1>1 DEF GotInv, Answered
  <2>. QED BY <2>1, <2>2
<1>6. KernelAt = nextId
  <2>1. KernelAt <= nextId
    <3>1. tail \in Nat /\ batch.done \in Nat /\ batch.size \in Nat /\ head \in Nat
      BY <1>1 DEF LegacyTypes
    <3>. QED BY <1>4, <3>1, <1>1 DEF KernelAt, BatchInv
  <2>2. ASSUME KernelAt < nextId PROVE FALSE
    <3>1. KernelAt \in call[c].base .. nextId - 1 BY <1>1, <1>4, <2>2
    <3>2. PICK i \in DOMAIN call[c].ids : call[c].ids[i] = KernelAt
      BY <1>1, <1>2, <3>1, CallIds
    <3>. QED BY <1>1, <1>5, <3>2
  <2>. QED BY <1>1, <1>4, <2>1, <2>2
<1>7. \A s \in Slots : ~ready[s] BY <1>1, <1>5 DEF FlagInv
<1>9. /\ Idle \in CallType /\ Idle.pc = "idle" /\ Idle.ids = <<>> /\ Idle.got = {}
      /\ Idle.flags = {}
  BY DEF Idle, CallType
<1>8. call' \in [Callers -> CallType] /\ call'[c] = Idle
  BY <1>1, <1>2, <1>9, CallChanged DEF LegacyTypes
<1>10. KernelAt' = KernelAt BY <1>3 DEF KernelAt
<1>11. Behind(c)' BY <1>3, <1>4, <1>6, <1>8, <1>9, <1>10 DEF Behind
<1>12. IdsInv(c)' BY <1>8, <1>9 DEF IdsInv
<1>13. FlagInv(c)' BY <1>3, <1>7, <1>8, <1>9 DEF FlagInv
<1>14. GotInv(c)' BY <1>8, <1>9 DEF GotInv
<1>15. starts < 1 => counter' = 0 BY <1>3 DEF LegacyInvariant, StartInv
<1>16. head' \in Nat /\ head' <= nextId /\ head' >= head /\ counter' \in Nat
  BY <1>3, <1>4
<1>17. ready' \in [Slots -> BOOLEAN] /\ \A s \in Slots : ready'[s] => ready[s]
  BY <1>1, <1>3 DEF LegacyTypes
<1>. QED BY <1>3, <1>8, <1>11, <1>12, <1>13, <1>14, <1>15, <1>16, <1>17, CallerStep

\* Every step keeps the invariant but that of a caller who gives up.
LEMMA LegacyNext ==
  ASSUME OneClient, LegacyInvariant, Next, giveUps' = 0
  PROVE  LegacyInvariant'
<1>1. CASE Engine BY <1>1, QuietNext, TakeNext, AnswerNext, AdvanceNext DEF Engine
<1>2. CASE Start BY <1>2, StartNext
<1>3. CASE ShutdownBegin \/ ShutdownEnd \/ \E t \in Tunings : SetTuning(t) BY <1>3, QuietNext
<1>4. ASSUME NEW c \in Callers, Submit(c) PROVE LegacyInvariant'
  BY <1>4, CopyNext, HeadNext, DoneNext DEF Submit
<1>5. ASSUME NEW c \in Callers, Poll(c) PROVE LegacyInvariant'
  <2>1. ~GiveUp(c)
    <3>1. giveUps = 0 BY DEF LegacyInvariant, LegacyTypes
    <3>. QED BY <3>1 DEF GiveUp
  <2>. QED BY <1>5, <2>1, FlagsNext, FetchNext, ReturnNext DEF Poll
<1>. QED BY <1>1, <1>2, <1>3, <1>4, <1>5 DEF Next

LEMMA LegacyStutters ==
  ASSUME LegacyInvariant, UNCHANGED vars
  PROVE  LegacyInvariant'
<1>1. UNCHANGED <<running, counter, nextId, head, tail, requests, responses, ready, shutdownFlag,
                  tuning, kernel, batch, call, starts, giveUps>>
  BY DEF vars, host, device
<1>2. LegacyTypes' /\ BatchInv' BY <1>1 DEF LegacyInvariant, LegacyTypes, BatchInv
<1>3. KernelAt' = KernelAt BY <1>1 DEF KernelAt
<1>. QED BY <1>1, <1>2, <1>3, SameKernelAt DEF LegacyInvariant

-----------------------------------------------------------------------------
\* What the invariant says of the three properties.
LEMMA LegacyAnswer ==
  ASSUME OneClient, LegacyInvariant
  PROVE  ResponseIsForId /\ QueueInStep /\ NothingForgotten
<1>1. ResponseIsForId BY DEF LegacyInvariant, GotInv, ResponseIsForId
<1>2. QueueInStep
  <2>1. /\ tail \in Nat /\ batch.done \in Nat /\ head \in Nat /\ nextId \in Nat /\ head <= nextId
        /\ \A p \in KernelAt .. nextId - 1 : requests[SlotOf(p)] = p
    BY DEF LegacyInvariant, LegacyTypes, BatchInv, HeldInv
  <2>. QED BY <2>1 DEF QueueInStep, KernelAt
<1>3. ASSUME NEW c \in Callers, call[c].pc = "wait", NEW i \in DOMAIN call[c].ids,
             call[c].ids[i] \notin Answered(c), ~ready[SlotOf(call[c].ids[i])]
      PROVE  call[c].ids[i] \in tail .. head - 1
  <2>1. call[c] \in CallType /\ LegacyTypes /\ Behind(c) /\ IdsInv(c) /\ FlagInv(c) /\ KernelAt \in Nat
    BY CallIs, Zenon
  <2>2. call[c].ids[i] \in call[c].base .. nextId - 1 /\ call[c].base \in Nat
    BY <1>3, <2>1, CallIds
  <2>3. ~(call[c].ids[i] < KernelAt) BY <1>3, <2>1 DEF FlagInv
  <2>4. head = nextId /\ tail \in Nat /\ batch.done \in Nat /\ nextId \in Nat
    BY <1>3, <2>1 DEF Behind, LegacyTypes
  <2>. QED BY <2>1, <2>2, <2>3, <2>4 DEF KernelAt
<1>4. NothingForgotten BY <1>3 DEF NothingForgotten
<1>. QED BY <1>1, <1>2, <1>4

\* Only a caller who gives up is counted.
LEMMA GiveUpsCount ==
  ASSUME Next
  PROVE  UNCHANGED giveUps \/ \E c \in Callers : GiveUp(c)
<1>1. CASE Engine
  BY <1>1 DEF Engine, KernelTake, KernelAnswer, KernelAdvance, KernelExit
<1>2. CASE Start \/ ShutdownBegin \/ ShutdownEnd \/ \E t \in Tunings : SetTuning(t)
  BY <1>2 DEF Start, ShutdownBegin, ShutdownEnd, SetTuning
<1>3. ASSUME NEW c \in Callers, Submit(c) PROVE UNCHANGED giveUps
  <2>1. ASSUME NEW n, SubmitCopy(c, n) PROVE UNCHANGED giveUps BY <2>1, Zenon DEF SubmitCopy
  <2>2. SubmitHead(c) => UNCHANGED giveUps BY DEF SubmitHead
  <2>3. SubmitDone(c) => UNCHANGED giveUps BY DEF SubmitDone
  <2>. QED BY <1>3, <2>1, <2>2, <2>3 DEF Submit
<1>4. ASSUME NEW c \in Callers, Poll(c), ~GiveUp(c) PROVE UNCHANGED giveUps
  <2>1. PollFlags(c) => UNCHANGED giveUps BY DEF PollFlags
  <2>2. PollFetch(c) => UNCHANGED giveUps BY DEF PollFetch
  <2>3. Return(c) => UNCHANGED giveUps BY DEF Return
  <2>. QED BY <1>4, <2>1, <2>2, <2>3 DEF Poll
<1>. QED BY <1>1, <1>2, <1>3, <1>4 DEF Next

\* Where the bound allows nobody to give up, nobody does.
LEMMA NoneGivesUp ==
  ASSUME Next, giveUps = 0, GiveUps = 0
  PROVE  giveUps' = 0
BY GiveUpsCount DEF GiveUp

GiveUpInv == giveUps \in Nat /\ (giveUps = 0 => LegacyInvariant)

LEMMA GiveUpNext ==
  ASSUME OneClient, GiveUpInv, [Next]_vars
  PROVE  GiveUpInv'
<1>1. giveUps' \in {giveUps, giveUps + 1} BY GiveUpsCount DEF GiveUp, vars
<1>2. giveUps' \in Nat /\ (giveUps' = 0 => giveUps = 0) BY <1>1 DEF GiveUpInv
<1>3. ASSUME giveUps' = 0 PROVE LegacyInvariant'
  <2>1. LegacyInvariant BY <1>2, <1>3 DEF GiveUpInv
  <2>. QED BY <1>3, <2>1, LegacyNext, LegacyStutters
<1>. QED BY <1>2, <1>3 DEF GiveUpInv

\* The numbers of client and kernel march together until the caller gives up:
\* every step of either keeps the inductive invariant of the single-queue engine.
THEOREM LegacyInvariantHolds ==
  ASSUME OneClient
  PROVE  Spec => [](giveUps = 0 => LegacyInvariant)
<1>1. Init => GiveUpInv
  <2>1. Init => giveUps = 0 BY DEF Init
  <2>. QED BY <2>1, LegacyInit DEF GiveUpInv
<1>2. GiveUpInv /\ [Next]_vars => GiveUpInv' BY GiveUpNext
<1>3. GiveUpInv => (giveUps = 0 => LegacyInvariant) BY DEF GiveUpInv
<1>. QED BY <1>1, <1>2, <1>3, PTL DEF Spec

\* Until then, a poll returns the response of the id it asked for, what the
\* kernel is about to sign is the request of that number, and no accepted
\* request is forgotten.
THEOREM LegacyAnswersRight ==
  ASSUME OneClient
  PROVE  Spec => [](giveUps = 0 => ResponseIsForId /\ QueueInStep /\ NothingForgotten)
<1>1. (giveUps = 0 => LegacyInvariant)
      => (giveUps = 0 => ResponseIsForId /\ QueueInStep /\ NothingForgotten)
  BY LegacyAnswer
<1>. QED BY <1>1, LegacyInvariantHolds, PTL

-----------------------------------------------------------------------------
(* The bridge: places in a response ring.                                    *)

LEMMA Distribute ==
  ASSUME NEW n \in Int, NEW a \in Int, NEW b \in Int, NEW c \in Int
  PROVE  n * ((a - b) - c) = ((n * a) - (n * b)) - (n * c)
<1>1. \A x, y \in Int : n * (x - y) = (n * x) - (n * y) OBVIOUS
<1>2. n * ((a - b) - c) = (n * (a - b)) - (n * c) BY <1>1
<1>. QED BY <1>1, <1>2

\* A remainder may be taken early.
LEMMA ModShift ==
  ASSUME NEW n \in Nat \ {0}, NEW a \in Int, NEW b \in Int
  PROVE  /\ ((a % n) + b) % n = (a + b) % n
         /\ (b - (a % n)) % n = (b - a) % n
<1>. DEFINE r == a % n  q == a \div n
<1>1. q \in Int /\ a = n * q + r /\ r \in Int BY DivMod
<1>. HIDE DEF r, q
<1>2. (r + b) % n = (a + b) % n
  <2>. DEFINE x == r + b  y == a + b  u == x \div n  v == y \div n
  <2>1. x \in Int /\ y \in Int /\ y = n * q + x BY <1>1
  <2>. HIDE DEF x, y
  <2>2. u \in Int /\ x = n * u + (x % n) /\ x % n \in 0 .. n - 1 BY <2>1, DivMod
  <2>3. v \in Int /\ y = n * v + (y % n) /\ y % n \in 0 .. n - 1 BY <2>1, DivMod
  <2>. HIDE DEF u, v
  <2>4. PICK g \in Int, e \in Int : g = x % n /\ e = y % n BY <2>2, <2>3
  <2>5. PICK w \in Int : w = (v - q) - u BY <1>1, <2>2, <2>3
  <2>6. n * w = g - e
    <3>1. n * w = ((n * v) - (n * q)) - (n * u) BY <1>1, <2>2, <2>3, <2>5, Distribute
    <3>2. n * v \in Int /\ n * q \in Int /\ n * u \in Int BY <1>1, <2>2, <2>3
    <3>. QED BY <2>1, <2>2, <2>3, <2>4, <3>1, <3>2
  <2>7. w = 0
    <3>1. g \in 0 .. n - 1 /\ e \in 0 .. n - 1 BY <2>2, <2>3, <2>4
    <3>2. n * w > -n /\ n * w < n BY <2>6, <3>1
    <3>. QED BY <3>2, MultBound
  <2>8. n * w = 0 BY <2>7
  <2>9. x % n = y % n BY <2>4, <2>6, <2>8
  <2>. QED BY <2>9 DEF x, y
<1>3. (b - r) % n = (b - a) % n
  <2>. DEFINE x == b - r  y == b - a  u == x \div n  v == y \div n
  <2>1. x \in Int /\ y \in Int /\ x = n * q + y BY <1>1
  <2>. HIDE DEF x, y
  <2>2. u \in Int /\ x = n * u + (x % n) /\ x % n \in 0 .. n - 1 BY <2>1, DivMod
  <2>3. v \in Int /\ y = n * v + (y % n) /\ y % n \in 0 .. n - 1 BY <2>1, DivMod
  <2>. HIDE DEF u, v
  <2>4. PICK g \in Int, e \in Int : g = x % n /\ e = y % n BY <2>2, <2>3
  <2>5. PICK w \in Int : w = (u - q) - v BY <1>1, <2>2, <2>3
  <2>6. n * w = e - g
    <3>1. n * w = ((n * u) - (n * q)) - (n * v) BY <1>1, <2>2, <2>3, <2>5, Distribute
    <3>2. n * v \in Int /\ n * q \in Int /\ n * u \in Int BY <1>1, <2>2, <2>3
    <3>. QED BY <2>1, <2>2, <2>3, <2>4, <3>1, <3>2
  <2>7. w = 0
    <3>1. g \in 0 .. n - 1 /\ e \in 0 .. n - 1 BY <2>2, <2>3, <2>4
    <3>2. n * w > -n /\ n * w < n BY <2>6, <3>1
    <3>. QED BY <3>2, MultBound
  <2>8. n * w = 0 BY <2>7
  <2>9. x % n = y % n BY <2>4, <2>6, <2>8
  <2>. QED BY <2>9 DEF x, y
<1>. QED BY <1>2, <1>3 DEF r

\* The visible responses end at the head, and behind them come the free slots.
LEMMA RingFacts ==
  ASSUME OneWorker, BridgeTypes, NEW c \in Clients
  PROVE  /\ rhead[c] \in 0 .. RingSize - 1 /\ rtail[c] \in 0 .. RingSize - 1
         /\ Visible(c) \in 0 .. RingSize - 1
         /\ \A k \in Nat : SlotFor(c, k) = (rtail[c] + Visible(c) + k) % RingSize
         /\ \A k \in Nat : SlotFor(c, k) \in 0 .. RingSize - 1
         /\ \A k \in Nat : (rtail[c] + k) % RingSize \in 0 .. RingSize - 1
         /\ SlotFor(c, 0) = rhead[c]
<1>. DEFINE n == RingSize  h == rhead[c]  t == rtail[c]
<1>1. n \in Nat \ {0} /\ h \in 0 .. n - 1 /\ t \in 0 .. n - 1 BY DEF OneWorker, BridgeTypes
<1>2. Visible(c) = (h - t) % n BY DEF Visible
<1>. HIDE DEF n, h, t
<1>3. (h - t) % n \in 0 .. n - 1 BY <1>1, DivMod
<1>4. ASSUME NEW k \in Nat PROVE (h + k) % n = (t + ((h - t) % n) + k) % n
  <2>0. PICK a \in Int, b \in Int : a = h - t /\ b = t + k BY <1>1
  <2>1. (((h - t) % n) + (t + k)) % n = ((h - t) + (t + k)) % n BY <1>1, <2>0, ModShift
  <2>2. (h - t) + (t + k) = h + k BY <1>1
  <2>3. ((h - t) % n) + (t + k) = t + ((h - t) % n) + k BY <1>1, <1>3
  <2>. QED BY <2>1, <2>2, <2>3
<1>5. \A k \in Nat : (h + k) % n \in 0 .. n - 1 /\ (t + k) % n \in 0 .. n - 1 BY <1>1, DivMod
<1>6. (h + 0) % n = h
  <2>1. h + 0 = h BY <1>1
  <2>. QED BY <1>1, <2>1, ModSmall
<1>. QED BY <1>1, <1>2, <1>3, <1>4, <1>5, <1>6 DEF SlotFor, n, h, t

\* The head moves over reserved slots, the tail over a visible one.
LEMMA HeadMoves ==
  ASSUME OneWorker, BridgeTypes, NEW c \in Clients, NEW m \in Nat,
         Visible(c) + m < RingSize, rtail'[c] = rtail[c], rhead'[c] = SlotFor(c, m)
  PROVE  Visible(c)' = Visible(c) + m /\ rhead'[c] \in 0 .. RingSize - 1
<1>. DEFINE n == RingSize  h == rhead[c]  t == rtail[c]  v == Visible(c)
<1>1. /\ n \in Nat \ {0} /\ h \in 0 .. n - 1 /\ t \in 0 .. n - 1 /\ v \in 0 .. n - 1
      /\ rhead'[c] = (t + v + m) % n /\ rhead'[c] \in 0 .. n - 1
  BY RingFacts DEF OneWorker
<1>2. Visible(c)' = (rhead'[c] - t) % n BY DEF Visible
<1>3. v + m \in 0 .. n - 1 BY <1>1
<1>. HIDE DEF n, h, t, v
<1>9. PICK a \in Int, b \in Int : a = t + v + m /\ b = -t BY <1>1
<1>4. (((t + v + m) % n) + (-t)) % n = ((t + v + m) + (-t)) % n BY <1>1, <1>9, ModShift
<1>5. (t + v + m) + (-t) = v + m BY <1>1
<1>6. (t + v + m) % n \in Int BY <1>1
<1>7. ((t + v + m) % n) + (-t) = ((t + v + m) % n) - t BY <1>1, <1>6
<1>8. (v + m) % n = v + m BY <1>1, <1>3, ModSmall
<1>. QED BY <1>1, <1>2, <1>4, <1>5, <1>7, <1>8 DEF v, n

LEMMA TailMoves ==
  ASSUME OneWorker, BridgeTypes, NEW c \in Clients, Visible(c) > 0,
         rhead'[c] = rhead[c], rtail'[c] = RingNext(rtail[c])
  PROVE  /\ Visible(c)' = Visible(c) - 1 /\ rtail'[c] \in 0 .. RingSize - 1
         /\ \A k \in Nat : (rtail'[c] + k) % RingSize = (rtail[c] + (k + 1)) % RingSize
         /\ (rtail[c] + 0) % RingSize = rtail[c]
<1>. DEFINE n == RingSize  h == rhead[c]  t == rtail[c]
<1>1. /\ n \in Nat \ {0} /\ h \in 0 .. n - 1 /\ t \in 0 .. n - 1
      /\ Visible(c) \in 1 .. n - 1 /\ Visible(c) = (h - t) % n
      /\ Visible(c)' = (h - rtail'[c]) % n /\ rtail'[c] = (t + 1) % n
  BY RingFacts DEF OneWorker, Visible, RingNext
<1>. HIDE DEF n, h, t
<1>11. PICK a \in Int, b \in Int, d \in Int : a = t + 1 /\ b = h - t /\ d = -1 BY <1>1
<1>2. (h - ((t + 1) % n)) % n = (h - (t + 1)) % n
  <2>1. h \in Int BY <1>1
  <2>2. (h - (a % n)) % n = (h - a) % n BY <1>1, <2>1, ModShift
  <2>. QED BY <2>2, <1>11
<1>3. (((h - t) % n) + (-1)) % n = ((h - t) + (-1)) % n BY <1>1, <1>11, ModShift
<1>4. (h - t) + (-1) = h - (t + 1) BY <1>1
<1>5. ((h - t) % n) + (-1) \in 0 .. n - 1 BY <1>1
<1>6. (((h - t) % n) + (-1)) % n = ((h - t) % n) + (-1) BY <1>1, <1>5, ModSmall
<1>7. Visible(c)' = Visible(c) - 1 BY <1>1, <1>2, <1>3, <1>4, <1>6
<1>8. ASSUME NEW k \in Nat PROVE (((t + 1) % n) + k) % n = (t + (k + 1)) % n
  <2>3. k \in Int /\ n \in Nat \ {0} BY <1>1
  <2>0. ((a % n) + k) % n = (a + k) % n BY <2>3, ModShift
  <2>1. (((t + 1) % n) + k) % n = ((t + 1) + k) % n BY <1>11, <2>0
  <2>2. (t + 1) + k = t + (k + 1) BY <1>1
  <2>. QED BY <2>1, <2>2
<1>9. (t + 1) % n \in 0 .. n - 1 BY <1>1, <1>11, DivMod
<1>10. (t + 0) % n = t
  <2>1. t + 0 = t BY <1>1
  <2>. QED BY <1>1, <2>1, ModSmall
<1>. QED BY <1>1, <1>7, <1>8, <1>9, <1>10 DEF n, t

\* A reserved slot is not a visible one, and two reserved slots differ.
LEMMA SlotsApart ==
  ASSUME OneWorker, BridgeTypes, NEW c \in Clients, NEW j \in Nat, Visible(c) + j < RingSize
  PROVE  /\ \A k \in 0 .. Visible(c) - 1 : SlotFor(c, j) # (rtail[c] + k) % RingSize
         /\ \A k \in 0 .. j - 1 : SlotFor(c, k) # SlotFor(c, j)
<1>. DEFINE n == RingSize  t == rtail[c]  v == Visible(c)
<1>1. /\ n \in Nat \ {0} /\ t \in 0 .. n - 1 /\ v \in 0 .. n - 1 /\ v + j < n
      /\ \A k \in Nat : SlotFor(c, k) = (t + v + k) % n
  BY RingFacts DEF OneWorker
<1>. HIDE DEF n, t, v
<1>2. ASSUME NEW k \in 0 .. v - 1 PROVE (t + k) % n # (t + v + j) % n
  <2>1. t + k \in Int /\ t + v + j \in Int /\ t + k < t + v + j /\ (t + v + j) - (t + k) < n
    BY <1>1
  <2>. QED BY <1>1, <2>1, ModInj
<1>3. ASSUME NEW k \in 0 .. j - 1 PROVE (t + v + k) % n # (t + v + j) % n
  <2>1. /\ t + v + k \in Int /\ t + v + j \in Int /\ t + v + k < t + v + j
        /\ (t + v + j) - (t + v + k) < n
    BY <1>1
  <2>. QED BY <1>1, <2>1, ModInj
<1>. QED BY <1>1, <1>2, <1>3 DEF n, t, v

-----------------------------------------------------------------------------
(* The bridge: the records.                                                  *)

LEMMA WorkerIs ==
  ASSUME NEW w \in WorkerType
  PROVE  /\ w.pc \in {"gone", "init", "top", "drain", "submit", "poll"} /\ w.at \in Int
         /\ w.n \in Nat /\ w.flight \in Seq(FlightType)
         /\ w.start \in [Clients -> Nat] /\ w.count \in [Clients -> Nat]
BY DEF WorkerType

\* A record of the worker of which a field changed.
LEMMA WorkerField ==
  ASSUME NEW w \in WorkerType
  PROVE  /\ \A p \in {"gone", "init", "top", "drain", "submit", "poll"} :
              LET e == [w EXCEPT !.pc = p]
              IN  e \in WorkerType /\ e.pc = p /\ e.at = w.at /\ e.n = w.n
                  /\ e.flight = w.flight /\ e.start = w.start /\ e.count = w.count
         /\ \A x \in Int :
              LET e == [w EXCEPT !.at = x]
              IN  e \in WorkerType /\ e.pc = w.pc /\ e.at = x /\ e.n = w.n
                  /\ e.flight = w.flight /\ e.start = w.start /\ e.count = w.count
         /\ \A x \in Nat :
              LET e == [w EXCEPT !.n = x]
              IN  e \in WorkerType /\ e.pc = w.pc /\ e.at = w.at /\ e.n = x
                  /\ e.flight = w.flight /\ e.start = w.start /\ e.count = w.count
         /\ \A x \in Seq(FlightType) :
              LET e == [w EXCEPT !.flight = x]
              IN  e \in WorkerType /\ e.pc = w.pc /\ e.at = w.at /\ e.n = w.n
                  /\ e.flight = x /\ e.start = w.start /\ e.count = w.count
         /\ \A x \in [Clients -> Nat] :
              LET e == [w EXCEPT !.start = x]
              IN  e \in WorkerType /\ e.pc = w.pc /\ e.at = w.at /\ e.n = w.n
                  /\ e.flight = w.flight /\ e.start = x /\ e.count = w.count
         /\ \A x \in [Clients -> Nat] :
              LET e == [w EXCEPT !.count = x]
              IN  e \in WorkerType /\ e.pc = w.pc /\ e.at = w.at /\ e.n = w.n
                  /\ e.flight = w.flight /\ e.start = w.start /\ e.count = x
<1>. DEFINE P == {"gone", "init", "top", "drain", "submit", "poll"}
            F == Seq(FlightType)
            C == [Clients -> Nat]
<1>0. WorkerType = [pc : P, at : Int, n : Nat, flight : F, start : C, count : C]
  BY DEF WorkerType
<1>. HIDE DEF P, F, C
<1>1. \A p \in P :
        LET e == [w EXCEPT !.pc = p]
        IN  e \in WorkerType /\ e.pc = p /\ e.at = w.at /\ e.n = w.n
            /\ e.flight = w.flight /\ e.start = w.start /\ e.count = w.count
  BY <1>0
<1>2. \A x \in Int :
        LET e == [w EXCEPT !.at = x]
        IN  e \in WorkerType /\ e.pc = w.pc /\ e.at = x /\ e.n = w.n
            /\ e.flight = w.flight /\ e.start = w.start /\ e.count = w.count
  BY <1>0
<1>3. \A x \in Nat :
        LET e == [w EXCEPT !.n = x]
        IN  e \in WorkerType /\ e.pc = w.pc /\ e.at = w.at /\ e.n = x
            /\ e.flight = w.flight /\ e.start = w.start /\ e.count = w.count
  BY <1>0
<1>4. \A x \in F :
        LET e == [w EXCEPT !.flight = x]
        IN  e \in WorkerType /\ e.pc = w.pc /\ e.at = w.at /\ e.n = w.n
            /\ e.flight = x /\ e.start = w.start /\ e.count = w.count
  BY <1>0
<1>5. \A x \in C :
        LET e == [w EXCEPT !.start = x]
        IN  e \in WorkerType /\ e.pc = w.pc /\ e.at = w.at /\ e.n = w.n
            /\ e.flight = w.flight /\ e.start = x /\ e.count = w.count
  BY <1>0
<1>6. \A x \in C :
        LET e == [w EXCEPT !.count = x]
        IN  e \in WorkerType /\ e.pc = w.pc /\ e.at = w.at /\ e.n = w.n
            /\ e.flight = w.flight /\ e.start = w.start /\ e.count = x
  BY <1>0
<1>. QED BY <1>1, <1>2, <1>3, <1>4, <1>5, <1>6 DEF P, F, C

LEMMA GoneIs ==
  /\ Gone \in WorkerType /\ Gone.pc = "gone" /\ Gone.flight = << >>
  /\ Gone.count = [c \in Clients |-> 0]
<1>. DEFINE F == Seq(FlightType)
            C == [Clients -> Nat]
            z == [c \in Clients |-> 0]
<1>1. << >> \in F OBVIOUS
<1>2. z \in C OBVIOUS
<1>3. Gone = [pc |-> "gone", at |-> 0, n |-> 0, flight |-> << >>, start |-> z, count |-> z]
  BY DEF Gone
<1>4. WorkerType = [pc : {"gone", "init", "top", "drain", "submit", "poll"}, at : Int, n : Nat,
                    flight : F, start : C, count : C]
  BY DEF WorkerType
<1>. HIDE DEF F, C, z
<1>5. Gone \in WorkerType /\ Gone.pc = "gone" /\ Gone.flight = << >> /\ Gone.count = z
  BY <1>1, <1>2, <1>3, <1>4
<1>. QED BY <1>5 DEF z

\* The worker takes a request from a ring, with a slot to answer it in.
LEMMA TakeRecord ==
  ASSUME worker \in WorkerType, NEW c \in Clients, NEW f \in FlightType,
         worker' = [worker EXCEPT !.n = @ + 1, !.count[c] = @ + 1, !.flight = Append(@, f)]
  PROVE  /\ worker' \in WorkerType /\ worker'.pc = worker.pc
         /\ worker'.flight = Append(worker.flight, f) /\ worker'.start = worker.start
         /\ worker'.count = [worker.count EXCEPT ![c] = @ + 1]
<1>0. PICK w \in WorkerType : w = worker OBVIOUS
<1>1. w.n \in Nat /\ w.flight \in Seq(FlightType) /\ w.count \in [Clients -> Nat] BY WorkerIs
<1>2. PICK x \in Nat : x = w.n + 1 BY <1>1
<1>3. PICK y \in [Clients -> Nat] : y = [w.count EXCEPT ![c] = @ + 1]
  <2>1. [w.count EXCEPT ![c] = @ + 1] \in [Clients -> Nat] BY <1>1
  <2>. QED BY <2>1
<1>4. PICK z \in Seq(FlightType) : z = Append(w.flight, f)
  <2>1. Append(w.flight, f) \in Seq(FlightType) BY <1>1
  <2>. QED BY <2>1
<1>5. PICK a \in WorkerType : a = [w EXCEPT !.n = x] BY WorkerField
<1>6. /\ a.pc = w.pc /\ a.flight = w.flight /\ a.start = w.start /\ a.count = w.count
  BY <1>5, WorkerField
<1>7. PICK b \in WorkerType : b = [a EXCEPT !.count = y] BY WorkerField
<1>8. b.pc = a.pc /\ b.flight = a.flight /\ b.start = a.start /\ b.count = y
  BY <1>7, WorkerField
<1>9. PICK e \in WorkerType : e = [b EXCEPT !.flight = z] BY WorkerField
<1>10. e.pc = b.pc /\ e.flight = z /\ e.start = b.start /\ e.count = b.count
  BY <1>9, WorkerField
<1>11. worker' = e
  BY <1>0, <1>2, <1>3, <1>4, <1>5, <1>6, <1>7, <1>9
<1>. QED BY <1>0, <1>3, <1>4, <1>6, <1>8, <1>10, <1>11

LEMMA AckRecord ==
  ASSUME worker \in WorkerType, NEW c \in Clients, NEW v \in Nat,
         worker' = [worker EXCEPT !.n = @ + 1, !.start[c] = v]
  PROVE  /\ worker' \in WorkerType /\ worker'.pc = worker.pc /\ worker'.flight = worker.flight
         /\ worker'.start = [worker.start EXCEPT ![c] = v] /\ worker'.count = worker.count
<1>0. PICK w \in WorkerType : w = worker OBVIOUS
<1>1. w.n \in Nat /\ w.start \in [Clients -> Nat] BY WorkerIs
<1>2. PICK x \in Nat : x = w.n + 1 BY <1>1
<1>3. PICK y \in [Clients -> Nat] : y = [w.start EXCEPT ![c] = v] BY <1>1
<1>5. PICK a \in WorkerType : a = [w EXCEPT !.n = x] BY WorkerField
<1>6. /\ a.pc = w.pc /\ a.flight = w.flight /\ a.start = w.start /\ a.count = w.count
  BY <1>5, WorkerField
<1>7. PICK e \in WorkerType : e = [a EXCEPT !.start = y] BY WorkerField
<1>8. e.pc = a.pc /\ e.flight = a.flight /\ e.start = y /\ e.count = a.count
  BY <1>7, WorkerField
<1>9. worker' = e BY <1>0, <1>2, <1>3, <1>5, <1>6, <1>7
<1>. QED BY <1>0, <1>3, <1>6, <1>8, <1>9

-----------------------------------------------------------------------------
(* The bridge: what a step leaves alone.                                     *)

\* The head moves over m answered slots; the client may have asked more.
LEMMA ReadKept ==
  ASSUME OneWorker, BridgeTypes, NEW c \in Clients, NEW m \in Nat, ReadInv(c),
         Visible(c) + m < RingSize, Stand(c) + m <= Len(asks[c]),
         got'[c] = got[c], rtail'[c] = rtail[c], rhead'[c] = SlotFor(c, m),
         asks'[c] \in Seq(AskIds), Len(asks[c]) <= Len(asks'[c]),
         \A i \in 1 .. Len(asks[c]) : asks'[c][i] = asks[c][i],
         \A k \in 0 .. Visible(c) - 1 :
           slots'[c][(rtail[c] + k) % RingSize] = slots[c][(rtail[c] + k) % RingSize],
         \A k \in 0 .. m - 1 : Answers(slots'[c][SlotFor(c, k)], asks[c][Stand(c) + k + 1])
  PROVE  /\ ReadInv(c)' /\ Stand(c)' = Stand(c) + m /\ Visible(c)' = Visible(c) + m
         /\ rhead'[c] \in 0 .. RingSize - 1
<1>1. /\ Visible(c) \in 0 .. RingSize - 1
      /\ \A k \in Nat : SlotFor(c, k) = (rtail[c] + Visible(c) + k) % RingSize
  BY RingFacts
<1>2. Visible(c)' = Visible(c) + m /\ rhead'[c] \in 0 .. RingSize - 1 BY HeadMoves
<1>3. Len(got[c]) \in Nat /\ Len(asks[c]) \in Nat /\ Len(asks'[c]) \in Nat BY DEF BridgeTypes
<1>4. PICK v \in Nat, g \in Nat, n \in Nat :
        v = Visible(c) /\ g = Len(got[c]) /\ n = Len(asks[c])
  <2>1. Visible(c) \in Nat BY <1>1 DEF OneWorker
  <2>. QED BY <1>3, <2>1
<1>5. Stand(c) = g + v /\ Stand(c)' = g + (v + m) /\ g + v + m <= n BY <1>2, <1>4 DEF Stand
<1>6. Stand(c)' <= Len(asks'[c]) BY <1>3, <1>4, <1>5
<1>7. \A i \in 1 .. Len(got'[c]) : Answers(got'[c][i], asks'[c][i])
  <2>1. \A i \in 1 .. g : i \in 1 .. n BY <1>4, <1>5
  <2>2. \A i \in 1 .. g : Answers(got[c][i], asks[c][i]) BY <1>4 DEF ReadInv
  <2>. QED BY <1>4, <2>1, <2>2
<1>8. ASSUME NEW k \in 0 .. Visible(c)' - 1
      PROVE  Answers(slots'[c][(rtail'[c] + k) % RingSize], asks'[c][Len(got'[c]) + k + 1])
  <2>1. k \in Nat /\ k < v + m /\ g + k + 1 \in 1 .. n BY <1>2, <1>4, <1>5
  <2>2. asks'[c][g + k + 1] = asks[c][g + k + 1] BY <1>4, <2>1
  <2>3. CASE k < v
    <3>1. k \in 0 .. Visible(c) - 1 BY <1>4, <2>1, <2>3
    <3>2. Answers(slots[c][(rtail[c] + k) % RingSize], asks[c][Len(got[c]) + k + 1])
      BY <3>1 DEF ReadInv
    <3>. QED BY <1>4, <2>2, <3>1, <3>2
  <2>4. CASE ~(k < v)
    <3>1. PICK j \in 0 .. m - 1 : k = v + j
      <4>1. k - v \in 0 .. m - 1 /\ k = v + (k - v) BY <2>1, <2>4
      <4>. QED BY <4>1
    <3>2. rtail[c] + Visible(c) + j = rtail[c] + k /\ Stand(c) + j + 1 = g + k + 1
      <4>0. rtail[c] \in Nat BY RingFacts DEF OneWorker
      <4>1. PICK t \in Nat : t = rtail[c] BY <4>0
      <4>2. t + v + j = t + k /\ (g + v) + j + 1 = g + k + 1 BY <3>1
      <4>. QED BY <1>4, <1>5, <4>1, <4>2
    <3>3. Answers(slots'[c][SlotFor(c, j)], asks[c][Stand(c) + j + 1]) BY <3>1
    <3>4. SlotFor(c, j) = (rtail[c] + k) % RingSize BY <1>1, <3>1, <3>2
    <3>. QED BY <1>4, <2>2, <3>2, <3>3, <3>4
  <2>. QED BY <2>1, <2>3, <2>4
<1>. QED BY <1>2, <1>4, <1>5, <1>6, <1>7, <1>8 DEF ReadInv

\* The rings stay as they are.
LEMMA RingsKept ==
  ASSUME NEW c \in Clients, ReadInv(c), UNCHANGED ringVars
  PROVE  /\ ReadInv(c)' /\ Stand(c)' = Stand(c) /\ Visible(c)' = Visible(c)
         /\ UNCHANGED <<reqs, rhead, rtail, slots, asks, got>>
<1>1. UNCHANGED <<reqs, rhead, rtail, slots, asks, got>> BY DEF ringVars
<1>2. Visible(c)' = Visible(c) BY <1>1 DEF Visible
<1>3. Stand(c)' = Stand(c) BY <1>1, <1>2 DEF Stand
<1>4. ReadInv(c)' BY <1>1, <1>2, <1>3 DEF ReadInv
<1>. QED BY <1>1, <1>2, <1>3, <1>4

\* Neither the requests of a client nor where they start have changed.
LEMMA OwedKept ==
  ASSUME NEW c \in Clients, OwedInv(c), worker'.pc # "gone" => worker.pc # "gone",
         reqs'[c] = reqs[c], asks'[c] = asks[c],
         Stand(c)' + Reserved(c)' = Stand(c) + Reserved(c),
         Reserved(c) = 0 => Reserved(c)' = 0
  PROVE  OwedInv(c)'
<1>. SUFFICES ASSUME worker'.pc # "gone" PROVE OwedInv(c)' BY DEF OwedInv
<1>1. worker.pc # "gone" OBVIOUS
<1>. DEFINE n == Stand(c) + Reserved(c)
<1>2. /\ Len(asks[c]) = n + Len(reqs[c])
      /\ \A k \in 1 .. Len(reqs[c]) : /\ reqs[c][k].id = asks[c][n + k]
                                      /\ reqs[c][k].op # "SIGN" => k = 1 /\ Reserved(c) = 0
  BY <1>1 DEF OwedInv
<1>3. Stand(c)' + Reserved(c)' = n OBVIOUS
<1>. HIDE DEF n
<1>. QED BY <1>2, <1>3 DEF OwedInv

\* The batch in progress keeps its slots while the client asks and reads.
LEMMA BatchKept ==
  ASSUME OneWorker, BridgeTypes, BridgeTypes', NEW c \in Clients, BatchOf(c),
         Stand(c) + Reserved(c) <= Len(asks[c]),
         Batching, worker'.start[c] = worker.start[c], worker'.count[c] = worker.count[c],
         DOMAIN worker.flight \subseteq DOMAIN worker'.flight,
         \A i \in DOMAIN worker.flight : worker'.flight[i] = worker.flight[i],
         rhead'[c] = rhead[c], Visible(c)' <= Visible(c), Stand(c)' = Stand(c),
         \A i \in 1 .. Len(asks[c]) : asks'[c][i] = asks[c][i]
  PROVE  BatchOf(c)'
<1>1. /\ worker.start[c] = rhead[c] /\ Visible(c) + worker.count[c] < RingSize
      /\ \A k \in 0 .. worker.count[c] - 1 :
           \E i \in DOMAIN worker.flight :
             /\ worker.flight[i].client = c /\ worker.flight[i].slot = SlotFor(c, k)
             /\ worker.flight[i].id = asks[c][Stand(c) + k + 1]
  BY DEF BatchOf
<1>2. worker.count[c] \in Nat BY WorkerIs DEF BridgeTypes
<1>3. Visible(c) \in Nat /\ Visible(c)' \in Nat
  <2>1. Visible(c) \in 0 .. RingSize - 1 BY RingFacts
  <2>2. Visible(c)' \in 0 .. RingSize - 1
    <3>1. rhead'[c] \in 0 .. RingSize - 1 /\ rtail'[c] \in 0 .. RingSize - 1 BY DEF BridgeTypes
    <3>2. rhead'[c] - rtail'[c] \in Int BY <3>1 DEF OneWorker
    <3>. QED BY <3>2, DivMod DEF Visible, OneWorker
  <2>. QED BY <2>1, <2>2 DEF OneWorker
<1>4. Stand(c) \in Nat /\ Len(asks[c]) \in Nat BY <1>3 DEF Stand, BridgeTypes
<1>5. \A k \in 0 .. worker.count[c] - 1 : Stand(c) + k + 1 \in 1 .. Len(asks[c])
  <2>1. Reserved(c) = worker.count[c] BY DEF Reserved
  <2>. QED BY <1>2, <1>4, <2>1
<1>6. \A k \in 0 .. worker.count[c] - 1 :
        \E i \in DOMAIN worker'.flight :
          /\ worker'.flight[i].client = c /\ worker'.flight[i].slot = SlotFor(c, k)
          /\ worker'.flight[i].id = asks'[c][Stand(c) + k + 1]
  BY <1>1, <1>5
<1>7. \A k : SlotFor(c, k)' = SlotFor(c, k) BY DEF SlotFor
<1>8. Visible(c)' + worker'.count[c] < RingSize BY <1>1, <1>2, <1>3 DEF OneWorker
<1>9. \A k \in 0 .. worker'.count[c] - 1 :
        \E i \in DOMAIN worker'.flight :
          /\ worker'.flight[i].client = c /\ worker'.flight[i].slot = SlotFor(c, k)'
          /\ worker'.flight[i].id = asks'[c][Stand(c)' + k + 1]
  BY <1>6, <1>7
<1>. QED BY <1>1, <1>8, <1>9 DEF BatchOf

\* The engine rests, and the worker is not waiting for it.
LEMMA EngineIdle ==
  ASSUME OneWorker, BridgeTypes, EngineInv, UNCHANGED <<vars, hashes>>,
         worker.pc # "poll", worker'.pc # "poll", bridges' \in Nat, bridges' >= bridges,
         worker'.pc # "gone" => giveUps = 0 /\ bridges' > 0
  PROVE  EngineInv'
<1>1. UNCHANGED <<giveUps, nextId, call>> BY DEF vars, host
<1>2. giveUps = 0 => LegacyInvariant' BY LegacyStutters DEF EngineInv
<1>3. giveUps' \in Nat /\ (giveUps' # 0 => worker'.pc = "gone" /\ bridges' >= MaxBridges)
  BY <1>1 DEF EngineInv, BridgeTypes, OneWorker
<1>4. giveUps = 0 => call'[W].pc = "idle" /\ Len(hashes') = nextId' BY <1>1 DEF EngineInv
<1>. QED BY <1>1, <1>2, <1>3, <1>4 DEF EngineInv

\* Neither the engine nor the batch has moved.
LEMMA EngineSame ==
  ASSUME EngineInv, UNCHANGED <<vars, hashes, worker, bridges, slots>>
  PROVE  EngineInv'
<1>1. UNCHANGED <<giveUps, nextId, call>> BY DEF vars, host
<1>2. giveUps = 0 => LegacyInvariant' BY LegacyStutters DEF EngineInv
<1>3. Answered(W)' = Answered(W) BY <1>1 DEF Answered
<1>. QED BY <1>1, <1>2, <1>3 DEF EngineInv


-----------------------------------------------------------------------------
(* The bridge: starting and stopping.                                        *)

\* An empty ring shows nothing.
LEMMA Nothing0 ==
  ASSUME OneWorker
  PROVE  (0 - 0) % RingSize = 0 /\ 0 \in 0 .. RingSize - 1
BY ModSmall DEF OneWorker

LEMMA BlankTypes ==
  ASSUME OneWorker
  PROVE  /\ NoReplies \in [0 .. RingSize - 1 -> ReplyType]
         /\ [c \in Clients |-> NoReplies] \in [Clients -> [0 .. RingSize - 1 -> ReplyType]]
         /\ [c \in Clients |-> << >>] \in [Clients -> Seq([id : AskIds, op : Ops])]
         /\ [c \in Clients |-> << >>] \in [Clients -> Seq(AskIds)]
         /\ [c \in Clients |-> << >>] \in [Clients -> Seq(ReplyType)]
         /\ [c \in Clients |-> 0] \in [Clients -> 0 .. RingSize - 1]
<1>1. NoReply \in ReplyType BY DEF NoReply, ReplyType, AskIds, Nothing
<1>2. NoReplies \in [0 .. RingSize - 1 -> ReplyType] BY <1>1 DEF NoReplies
<1>3. 0 \in 0 .. RingSize - 1 BY Nothing0
<1>4. \A S : << >> \in Seq(S) OBVIOUS
<1>. QED BY <1>2, <1>3, <1>4

LEMMA BridgeInitInv ==
  ASSUME OneWorker, BridgeInit
  PROVE  BridgeInvariant
<1>1. LegacyInvariant BY LegacyInit DEF OneWorker, BridgeInit
<1>2. /\ worker = Gone /\ hashes = << >> /\ bridges = 0 /\ giveUps = 0 /\ nextId = 0
      /\ call[W].pc = "idle"
  BY DEF BridgeInit, Init, Idle, OneWorker
<1>3. BridgeTypes
  <2>1. state \in {"STOPPED", "RUNNING", "FAULTED"} /\ stopping \in BOOLEAN /\ shmFlag \in BOOLEAN
    BY DEF BridgeInit
  <2>2. worker \in WorkerType /\ bridges \in Nat /\ hashes \in Seq(AskIds) BY <1>2, GoneIs
  <2>3. /\ reqs \in [Clients -> Seq([id : AskIds, op : Ops])]
        /\ rhead \in [Clients -> 0 .. RingSize - 1] /\ rtail \in [Clients -> 0 .. RingSize - 1]
        /\ slots \in [Clients -> [0 .. RingSize - 1 -> ReplyType]]
        /\ asks \in [Clients -> Seq(AskIds)] /\ got \in [Clients -> Seq(ReplyType)]
    BY BlankTypes DEF BridgeInit
  <2>. QED BY <2>1, <2>2, <2>3 DEF BridgeTypes
<1>4. worker.pc = "gone" BY <1>2, GoneIs
<1>5. FlightInv BY <1>4 DEF FlightInv, Batching
<1>6. EngineInv BY <1>1, <1>2, <1>4 DEF EngineInv
<1>7. ASSUME NEW c \in Clients PROVE ReadInv(c) /\ OwedInv(c) /\ BatchOf(c)
  <2>1. rhead[c] = 0 /\ rtail[c] = 0 /\ asks[c] = << >> /\ got[c] = << >> BY DEF BridgeInit
  <2>2. Visible(c) = 0 BY <2>1, Nothing0 DEF Visible
  <2>3. ReadInv(c) BY <2>1, <2>2 DEF ReadInv, Stand
  <2>. QED BY <1>4, <2>3 DEF OwedInv, BatchOf, Batching
<1>. QED BY <1>3, <1>5, <1>6, <1>7 DEF BridgeInvariant

LEMMA BridgeStartNext ==
  ASSUME OneWorker, BridgeInvariant, BridgeStart
  PROVE  BridgeInvariant'
<1>1. BridgeTypes /\ EngineInv BY DEF BridgeInvariant
<1>2. /\ worker.pc = "gone" /\ bridges < MaxBridges /\ bridges' = bridges + 1 /\ bridges \in Nat
      /\ worker' = [Gone EXCEPT !.pc = "init"] /\ UNCHANGED <<vars, hashes>>
  BY <1>1 DEF BridgeStart, BridgeTypes
<1>3. worker' \in WorkerType /\ worker'.pc = "init"
  <2>1. "init" \in {"gone", "init", "top", "drain", "submit", "poll"} OBVIOUS
  <2>2. Gone \in WorkerType BY GoneIs
  <2>. QED BY <1>2, <2>1, <2>2, WorkerField
<1>4. giveUps = 0 BY <1>1, <1>2 DEF EngineInv, OneWorker
<1>5. EngineInv'
  <2>1. bridges' \in Nat /\ bridges' >= bridges /\ bridges' > 0 BY <1>2
  <2>. QED BY <1>1, <1>2, <1>3, <1>4, <2>1, EngineIdle
<1>6. BridgeTypes'
  <2>1. /\ state' \in {"STOPPED", "RUNNING", "FAULTED"} /\ stopping' \in BOOLEAN
        /\ shmFlag' \in BOOLEAN
    BY DEF BridgeStart, BlankRegion
  <2>2. worker' \in WorkerType /\ bridges' \in Nat /\ hashes' \in Seq(AskIds)
    BY <1>1, <1>2, <1>3 DEF BridgeTypes
  <2>3. /\ reqs' \in [Clients -> Seq([id : AskIds, op : Ops])]
        /\ rhead' \in [Clients -> 0 .. RingSize - 1] /\ rtail' \in [Clients -> 0 .. RingSize - 1]
        /\ slots' \in [Clients -> [0 .. RingSize - 1 -> ReplyType]]
        /\ asks' \in [Clients -> Seq(AskIds)] /\ got' \in [Clients -> Seq(ReplyType)]
    BY BlankTypes DEF BridgeStart, BlankRegion
  <2>. QED BY <2>1, <2>2, <2>3 DEF BridgeTypes
<1>7. FlightInv' BY <1>3 DEF FlightInv, Batching
<1>8. ASSUME NEW c \in Clients PROVE ReadInv(c)' /\ OwedInv(c)' /\ BatchOf(c)'
  <2>1. rhead'[c] = 0 /\ rtail'[c] = 0 /\ asks'[c] = << >> /\ got'[c] = << >> /\ reqs'[c] = << >>
    BY DEF BridgeStart, BlankRegion
  <2>2. Visible(c)' = 0 BY <2>1, Nothing0 DEF Visible
  <2>3. ReadInv(c)' BY <2>1, <2>2 DEF ReadInv, Stand
  <2>4. OwedInv(c)' BY <1>3, <2>1, <2>2 DEF OwedInv, Stand, Reserved, Batching
  <2>. QED BY <1>3, <2>3, <2>4 DEF BatchOf, Batching
<1>. QED BY <1>5, <1>6, <1>7, <1>8 DEF BridgeInvariant

LEMMA BridgeStopNext ==
  ASSUME OneWorker, BridgeInvariant, BridgeStop
  PROVE  BridgeInvariant'
<1>1. BridgeTypes /\ EngineInv /\ FlightInv BY DEF BridgeInvariant
<1>2. UNCHANGED <<vars, hashes, worker, bridges, ringVars>> /\ UNCHANGED shmFlag
      /\ state' = "STOPPED" /\ stopping' = TRUE
  BY DEF BridgeStop
<1>3. UNCHANGED <<reqs, rhead, rtail, slots, asks, got>> BY <1>2 DEF ringVars
<1>4. EngineInv' BY <1>1, <1>2, <1>3, EngineSame
<1>5. BridgeTypes' BY <1>1, <1>2, <1>3 DEF BridgeTypes
<1>6. FlightInv' BY <1>1, <1>2, <1>3 DEF FlightInv, Batching, SlotFor
<1>7. ASSUME NEW c \in Clients PROVE ReadInv(c)' /\ OwedInv(c)' /\ BatchOf(c)'
  <2>1. ReadInv(c) /\ OwedInv(c) /\ BatchOf(c) BY DEF BridgeInvariant
  <2>2. ReadInv(c)' /\ Stand(c)' = Stand(c) /\ Visible(c)' = Visible(c) BY <1>2, <2>1, RingsKept
  <2>3. Reserved(c)' = Reserved(c) BY <1>2 DEF Reserved, Batching
  <2>4. OwedInv(c)' BY <1>2, <1>3, <2>1, <2>2, <2>3, OwedKept
  <2>5. BatchOf(c)' BY <1>2, <1>3, <2>1, <2>2 DEF BatchOf, Batching, SlotFor
  <2>. QED BY <2>2, <2>4, <2>5
<1>. QED BY <1>4, <1>5, <1>6, <1>7 DEF BridgeInvariant


-----------------------------------------------------------------------------
(* The bridge: the worker between the rings and the engine.                  *)

\* A step of the worker alone.
LEMMA WorkerMoves ==
  ASSUME OneWorker, BridgeInvariant, worker.pc \notin {"gone", "poll"}, worker'.pc # "poll",
         UNCHANGED <<vars, ringVars, hashes, bridges, stopping, shmFlag>>,
         state' \in {"STOPPED", "RUNNING", "FAULTED"}, worker' \in WorkerType, FlightInv',
         \A c \in Clients : Reserved(c)' = Reserved(c) /\ BatchOf(c)'
  PROVE  BridgeInvariant'
<1>1. BridgeTypes /\ EngineInv /\ FlightInv BY DEF BridgeInvariant
<1>2. UNCHANGED <<reqs, rhead, rtail, slots, asks, got>> BY DEF ringVars
<1>3. EngineInv'
  <2>1. bridges \in Nat /\ bridges > 0 /\ giveUps = 0 BY <1>1 DEF EngineInv, BridgeTypes
  <2>. QED BY <1>1, <2>1, EngineIdle
<1>4. BridgeTypes' BY <1>1, <1>2 DEF BridgeTypes
<1>5. ASSUME NEW c \in Clients PROVE ReadInv(c)' /\ OwedInv(c)'
  <2>1. ReadInv(c) /\ OwedInv(c) BY DEF BridgeInvariant
  <2>2. ReadInv(c)' /\ Stand(c)' = Stand(c) BY <2>1, RingsKept
  <2>3. OwedInv(c)' BY <1>2, <2>1, <2>2, OwedKept
  <2>. QED BY <2>2, <2>3
<1>. QED BY <1>3, <1>4, <1>5 DEF BridgeInvariant

LEMMA WorkerInitNext ==
  ASSUME OneWorker, BridgeInvariant, NEW ok \in BOOLEAN, WorkerInit(ok)
  PROVE  BridgeInvariant'
<1>1. BridgeTypes BY DEF BridgeInvariant
<1>2. /\ worker.pc = "init" /\ worker' = (IF ok THEN [worker EXCEPT !.pc = "top"] ELSE Gone)
      /\ state' = (IF ok THEN state ELSE "FAULTED")
      /\ UNCHANGED <<vars, ringVars, hashes, bridges, stopping, shmFlag>>
  BY DEF WorkerInit
<1>3. worker' \in WorkerType /\ worker'.pc \in {"top", "gone"}
  <2>1. worker \in WorkerType BY <1>1 DEF BridgeTypes
  <2>2. CASE ok BY <1>2, <2>1, <2>2, WorkerField
  <2>3. CASE ~ok BY <1>2, <2>3, GoneIs
  <2>. QED BY <2>2, <2>3
<1>4. ~Batching /\ ~Batching' BY <1>2, <1>3 DEF Batching
<1>5. FlightInv' BY <1>4 DEF FlightInv
<1>6. \A c \in Clients : Reserved(c)' = Reserved(c) /\ BatchOf(c)' BY <1>4 DEF Reserved, BatchOf
<1>7. state' \in {"STOPPED", "RUNNING", "FAULTED"} BY <1>1, <1>2 DEF BridgeTypes
<1>. QED BY <1>2, <1>3, <1>5, <1>6, <1>7, WorkerMoves

LEMMA WorkerExitNext ==
  ASSUME OneWorker, BridgeInvariant, WorkerExit
  PROVE  BridgeInvariant'
<1>1. BridgeTypes BY DEF BridgeInvariant
<1>2. /\ worker.pc = "top" /\ worker' = Gone
      /\ UNCHANGED <<vars, ringVars, hashes, bridges, stopping, shmFlag, state>>
  BY DEF WorkerExit, lifeVars
<1>3. worker' \in WorkerType /\ worker'.pc = "gone" BY <1>2, GoneIs
<1>4. ~Batching /\ ~Batching' BY <1>2, <1>3 DEF Batching
<1>5. FlightInv' BY <1>4 DEF FlightInv
<1>6. \A c \in Clients : Reserved(c)' = Reserved(c) /\ BatchOf(c)' BY <1>4 DEF Reserved, BatchOf
<1>7. state' \in {"STOPPED", "RUNNING", "FAULTED"} BY <1>1, <1>2 DEF BridgeTypes
<1>. QED BY <1>2, <1>3, <1>5, <1>6, <1>7, WorkerMoves

\* A batch begins empty, from the response heads as they are.
LEMMA BeginNext ==
  ASSUME OneWorker, BridgeInvariant, Begin
  PROVE  BridgeInvariant'
<1>1. BridgeTypes BY DEF BridgeInvariant
<1>2. /\ worker.pc = "top" /\ worker' = [Gone EXCEPT !.pc = "drain", !.start = rhead]
      /\ UNCHANGED <<vars, ringVars, hashes, bridges, stopping, shmFlag, state>>
  BY DEF Begin, lifeVars
<1>3. /\ worker' \in WorkerType /\ worker'.pc = "drain" /\ worker'.start = rhead
      /\ worker'.flight = << >> /\ worker'.count = [c \in Clients |-> 0]
  <2>1. PICK h \in [Clients -> Nat] : h = rhead
    <3>1. rhead \in [Clients -> 0 .. RingSize - 1] /\ RingSize \in Nat
      BY <1>1 DEF BridgeTypes, OneWorker
    <3>2. rhead \in [Clients -> Nat] BY <3>1
    <3>. QED BY <3>2
  <2>2. PICK a \in WorkerType : a = Gone BY GoneIs
  <2>3. PICK b \in WorkerType : b = [a EXCEPT !.pc = "drain"]
    <3>1. "drain" \in {"gone", "init", "top", "drain", "submit", "poll"} OBVIOUS
    <3>. QED BY <3>1, WorkerField
  <2>4. b.pc = "drain" /\ b.flight = a.flight /\ b.count = a.count
    <3>1. "drain" \in {"gone", "init", "top", "drain", "submit", "poll"} OBVIOUS
    <3>. QED BY <2>3, <3>1, WorkerField
  <2>5. PICK e \in WorkerType : e = [b EXCEPT !.start = h] BY WorkerField
  <2>6. e.pc = b.pc /\ e.flight = b.flight /\ e.count = b.count /\ e.start = h
    BY <2>5, WorkerField
  <2>7. worker' = e BY <1>2, <2>1, <2>2, <2>3, <2>5
  <2>. QED BY <2>1, <2>2, <2>4, <2>6, <2>7, GoneIs
<1>4. ~Batching /\ Batching' BY <1>2, <1>3 DEF Batching
<1>5. FlightInv'
  <2>1. Len(worker'.flight) = 0 /\ DOMAIN worker'.flight = {} BY <1>3
  <2>. QED BY <1>3, <2>1 DEF FlightInv, OneWorker
<1>6. ASSUME NEW c \in Clients PROVE Reserved(c)' = Reserved(c) /\ BatchOf(c)'
  <2>1. worker'.count[c] = 0 BY <1>3
  <2>2. Reserved(c)' = 0 /\ Reserved(c) = 0 BY <1>4, <2>1 DEF Reserved
  <2>3. ReadInv(c) BY DEF BridgeInvariant
  <2>4. rhead' = rhead /\ Visible(c)' = Visible(c) BY <1>2, <2>3, RingsKept
  <2>5. Visible(c) + 0 < RingSize
    <3>1. Visible(c) \in 0 .. RingSize - 1 BY <1>1, RingFacts
    <3>. QED BY <3>1 DEF OneWorker
  <2>6. worker'.start[c] = rhead'[c] BY <1>3, <2>4
  <2>. QED BY <2>1, <2>2, <2>4, <2>5, <2>6 DEF BatchOf
<1>7. state' \in {"STOPPED", "RUNNING", "FAULTED"} BY <1>1, <1>2 DEF BridgeTypes
<1>. QED BY <1>2, <1>3, <1>5, <1>6, <1>7, WorkerMoves

\* The worker moves on to the next client, or has been to all.
LEMMA NextClient ==
  ASSUME OneWorker, BridgeInvariant, DrainNext
  PROVE  BridgeInvariant'
<1>1. BridgeTypes /\ FlightInv BY DEF BridgeInvariant
<1>2. /\ worker.pc = "drain"
      /\ worker' = IF worker.at < LastClient
                   THEN [worker EXCEPT !.at = @ + 1, !.n = 0]
                   ELSE [worker EXCEPT !.pc = IF worker.flight = << >> THEN "top" ELSE "submit"]
      /\ UNCHANGED <<vars, ringVars, hashes, bridges, stopping, shmFlag, state>>
  BY DEF DrainNext, lifeVars
<1>3. /\ worker' \in WorkerType /\ worker'.flight = worker.flight
      /\ worker'.start = worker.start /\ worker'.count = worker.count
      /\ \/ worker'.pc = "drain"
         \/ worker'.pc = "top" /\ worker.flight = << >>
         \/ worker'.pc = "submit" /\ worker.flight # << >>
  <2>1. PICK w \in WorkerType : w = worker BY <1>1 DEF BridgeTypes
  <2>2. CASE worker.at < LastClient
    <3>1. PICK x \in Int, y \in Nat : x = w.at + 1 /\ y = 0 BY WorkerIs
    <3>2. PICK a \in WorkerType : a = [w EXCEPT !.at = x] BY WorkerField
    <3>3. a.pc = w.pc /\ a.flight = w.flight /\ a.start = w.start /\ a.count = w.count
      BY <3>2, WorkerField
    <3>4. PICK e \in WorkerType : e = [a EXCEPT !.n = y] BY WorkerField
    <3>5. e.pc = a.pc /\ e.flight = a.flight /\ e.start = a.start /\ e.count = a.count
      BY <3>4, WorkerField
    <3>6. worker' = e BY <1>2, <2>1, <2>2, <3>1, <3>2, <3>4
    <3>. QED BY <1>2, <2>1, <3>3, <3>5, <3>6
  <2>3. CASE ~(worker.at < LastClient)
    <3>1. PICK p \in {"top", "submit"} : p = IF worker.flight = << >> THEN "top" ELSE "submit"
      OBVIOUS
    <3>2. p \in {"gone", "init", "top", "drain", "submit", "poll"} BY <3>1
    <3>3. worker' = [w EXCEPT !.pc = p] BY <1>2, <2>1, <2>3, <3>1
    <3>4. PICK e \in WorkerType : e = [w EXCEPT !.pc = p] BY <3>2, WorkerField
    <3>5. e.pc = p /\ e.flight = w.flight /\ e.start = w.start /\ e.count = w.count
      BY <3>2, <3>4, WorkerField
    <3>. QED BY <2>1, <3>1, <3>3, <3>4, <3>5
  <2>. QED BY <2>2, <2>3
<1>4. Batching /\ (Batching' <=> worker'.pc # "top") BY <1>2, <1>3 DEF Batching
<1>5. UNCHANGED <<reqs, rhead, rtail, slots, asks, got>> BY <1>2 DEF ringVars
<1>6. FlightInv' BY <1>1, <1>3, <1>4, <1>5 DEF FlightInv, SlotFor
<1>7. ASSUME NEW c \in Clients PROVE Reserved(c)' = Reserved(c) /\ BatchOf(c)'
  <2>1. ReadInv(c) /\ BatchOf(c) BY DEF BridgeInvariant
  <2>2. Stand(c)' = Stand(c) /\ Visible(c)' = Visible(c) BY <1>2, <2>1, RingsKept
  <2>3. worker'.pc = "top" => worker.count[c] = 0
    <3>1. worker.count[c] \in Nat BY <1>1, WorkerIs DEF BridgeTypes
    <3>2. ASSUME worker.flight = << >>, worker.count[c] > 0 PROVE FALSE
      <4>1. 0 \in 0 .. worker.count[c] - 1 /\ DOMAIN worker.flight = {} BY <3>1, <3>2
      <4>. QED BY <1>4, <2>1, <4>1 DEF BatchOf
    <3>. QED BY <1>3, <3>1, <3>2
  <2>4. Reserved(c)' = Reserved(c) BY <1>3, <1>4, <2>3 DEF Reserved
  <2>5. BatchOf(c)' BY <1>3, <1>4, <1>5, <2>1, <2>2 DEF BatchOf, SlotFor
  <2>. QED BY <2>4, <2>5
<1>8. state' \in {"STOPPED", "RUNNING", "FAULTED"} BY <1>1, <1>2 DEF BridgeTypes
<1>. QED BY <1>2, <1>3, <1>6, <1>7, <1>8, WorkerMoves


-----------------------------------------------------------------------------
(* The bridge: the clients.                                                  *)

\* The counts of a client are numbers.
LEMMA Counts ==
  ASSUME OneWorker, BridgeTypes, NEW c \in Clients
  PROVE  /\ Visible(c) \in Nat /\ Stand(c) \in Nat /\ Reserved(c) \in Nat
         /\ Len(got[c]) \in Nat /\ Len(asks[c]) \in Nat /\ Len(reqs[c]) \in Nat
         /\ worker.count[c] \in Nat /\ Stand(c) = Len(got[c]) + Visible(c)
         /\ asks[c] \in Seq(AskIds) /\ got[c] \in Seq(ReplyType)
         /\ reqs[c] \in Seq([id : AskIds, op : Ops])
<1>1. Visible(c) \in Nat
  <2>1. Visible(c) \in 0 .. RingSize - 1 BY RingFacts
  <2>. QED BY <2>1 DEF OneWorker
<1>2. worker.count[c] \in Nat BY WorkerIs DEF BridgeTypes
<1>3. /\ asks[c] \in Seq(AskIds) /\ got[c] \in Seq(ReplyType)
      /\ reqs[c] \in Seq([id : AskIds, op : Ops])
  BY DEF BridgeTypes
<1>4. Len(got[c]) \in Nat /\ Len(asks[c]) \in Nat /\ Len(reqs[c]) \in Nat BY <1>3
<1>5. Stand(c) \in Nat /\ Stand(c) = Len(got[c]) + Visible(c) BY <1>1, <1>4 DEF Stand
<1>6. Reserved(c) \in Nat BY <1>2 DEF Reserved
<1>. QED BY <1>1, <1>2, <1>3, <1>4, <1>5, <1>6

LEMMA AskNext ==
  ASSUME OneWorker, BridgeInvariant, NEW c \in Clients, NEW op \in Ops, Ask(c, op)
  PROVE  BridgeInvariant'
<1>. DEFINE id == <<c, bridges, Len(asks[c]) + 1>>
            r == [id |-> id, op |-> op]
<1>1. BridgeTypes /\ EngineInv /\ FlightInv /\ ReadInv(c) /\ OwedInv(c) BY DEF BridgeInvariant
<1>2. /\ UNCHANGED <<vars, lifeVars, worker, rhead, rtail, slots, got, hashes>>
      /\ reqs' = [reqs EXCEPT ![c] = Append(reqs[c], r)]
      /\ asks' = [asks EXCEPT ![c] = Append(asks[c], id)]
      /\ op # "SIGN" => Len(asks[c]) = Len(got[c])
  BY DEF Ask, OneWorker
<1>3. UNCHANGED <<state, stopping, shmFlag, bridges>> BY <1>2 DEF lifeVars
<1>4. /\ asks[c] \in Seq(AskIds) /\ reqs[c] \in Seq([id : AskIds, op : Ops])
      /\ got[c] \in Seq(ReplyType) /\ bridges \in Nat
  BY <1>1 DEF BridgeTypes
<1>5. id \in AskIds /\ r \in [id : AskIds, op : Ops]
  <2>1. id \in AskIds BY <1>4 DEF AskIds, OneWorker
  <2>. QED BY <2>1
<1>6. r.id = id /\ r.op = op OBVIOUS
<1>. HIDE DEF id, r
<1>7. /\ asks'[c] = Append(asks[c], id) /\ reqs'[c] = Append(reqs[c], r)
      /\ \A d \in Clients : d # c => asks'[d] = asks[d] /\ reqs'[d] = reqs[d]
  BY <1>1, <1>2 DEF BridgeTypes
<1>8. /\ asks'[c] \in Seq(AskIds) /\ Len(asks'[c]) = Len(asks[c]) + 1
      /\ \A i \in 1 .. Len(asks[c]) : asks'[c][i] = asks[c][i]
      /\ asks'[c][Len(asks[c]) + 1] = id
  BY <1>4, <1>5, <1>7
<1>9. /\ reqs'[c] \in Seq([id : AskIds, op : Ops]) /\ Len(reqs'[c]) = Len(reqs[c]) + 1
      /\ \A i \in 1 .. Len(reqs[c]) : reqs'[c][i] = reqs[c][i]
      /\ reqs'[c][Len(reqs[c]) + 1] = r
  BY <1>4, <1>5, <1>7
<1>10. BridgeTypes'
  <2>1. asks' \in [Clients -> Seq(AskIds)] BY <1>1, <1>2, <1>7, <1>8 DEF BridgeTypes
  <2>2. reqs' \in [Clients -> Seq([id : AskIds, op : Ops])] BY <1>1, <1>2, <1>7, <1>9 DEF BridgeTypes
  <2>. QED BY <1>1, <1>2, <1>3, <2>1, <2>2 DEF BridgeTypes
<1>11. EngineInv' BY <1>1, <1>2, <1>3, EngineSame
<1>12. FlightInv' BY <1>1, <1>2 DEF FlightInv, Batching, SlotFor
<1>13. ASSUME NEW d \in Clients
       PROVE  /\ ReadInv(d)' /\ Stand(d)' = Stand(d) /\ Visible(d)' = Visible(d)
              /\ Reserved(d)' = Reserved(d)
              /\ \A i \in 1 .. Len(asks[d]) : asks'[d][i] = asks[d][i]
  <2>1. ReadInv(d) /\ asks[d] \in Seq(AskIds) /\ got[d] \in Seq(ReplyType)
    BY <1>1 DEF BridgeInvariant, BridgeTypes
  <2>2. /\ asks'[d] \in Seq(AskIds) /\ Len(asks[d]) <= Len(asks'[d])
        /\ \A i \in 1 .. Len(asks[d]) : asks'[d][i] = asks[d][i]
    <3>1. Len(asks[d]) \in Nat BY <2>1
    <3>2. CASE d # c
      <4>1. asks'[d] = asks[d] BY <1>7, <3>2
      <4>. QED BY <2>1, <3>1, <4>1
    <3>3. CASE d = c BY <1>8, <3>1, <3>3
    <3>. QED BY <3>2, <3>3
  <2>3. /\ Visible(d) \in 0 .. RingSize - 1 /\ SlotFor(d, 0) = rhead[d]
    BY <1>1, RingFacts
  <2>4. Visible(d) + 0 < RingSize /\ Stand(d) \in Nat BY <2>1, <2>3 DEF OneWorker, Stand
  <2>5. Stand(d) + 0 <= Len(asks[d]) BY <2>1, <2>4 DEF ReadInv
  <2>6. rhead'[d] = SlotFor(d, 0) BY <1>2, <2>3
  <2>8. PICK m \in Nat : m = 0 OBVIOUS
  <2>7. ReadInv(d)' /\ Stand(d)' = Stand(d) + m /\ Visible(d)' = Visible(d) + m
    <3>1. \A k \in 0 .. m - 1 : FALSE BY <2>8
    <3>. QED BY <1>1, <1>2, <2>1, <2>2, <2>4, <2>5, <2>6, <2>8, <3>1, ReadKept
  <2>9. Reserved(d)' = Reserved(d) BY <1>2 DEF Reserved, Batching
  <2>. QED BY <2>2, <2>3, <2>4, <2>7, <2>8, <2>9
<1>14. \A d \in Clients : Visible(d) \in Nat /\ Stand(d) \in Nat /\ Reserved(d) \in Nat
  BY <1>1, Counts
<1>15. ASSUME NEW d \in Clients PROVE OwedInv(d)'
  <2>1. CASE d # c
    <3>1. OwedInv(d) BY DEF BridgeInvariant
    <3>2. Stand(d)' + Reserved(d)' = Stand(d) + Reserved(d) BY <1>13
    <3>. QED BY <1>2, <1>7, <1>13, <2>1, <3>1, <3>2, OwedKept
  <2>2. CASE d = c
    <3>. SUFFICES ASSUME worker'.pc # "gone" PROVE OwedInv(c)' BY <2>2 DEF OwedInv
    <3>1. PICK s \in Nat, e \in Nat, v \in Nat, g \in Nat, l \in Nat, n \in Nat :
            /\ s = Stand(c) /\ e = Reserved(c) /\ v = Visible(c) /\ g = Len(got[c])
            /\ l = Len(reqs[c]) /\ n = Len(asks[c]) /\ s = g + v
      BY <1>1, Counts
    <3>2. /\ n = s + e + l
          /\ \A k \in 1 .. l : /\ reqs[c][k].id = asks[c][s + e + k]
                               /\ reqs[c][k].op # "SIGN" => k = 1 /\ e = 0
      BY <1>1, <1>2, <3>1 DEF OwedInv
    <3>3. op # "SIGN" => e = 0 /\ l = 0
      <4>1. op # "SIGN" => n = g BY <1>2, <3>1
      <4>2. n = s + e + l /\ s = g + v BY <3>1, <3>2
      <4>3. n = g => e = 0 /\ l = 0 BY <4>2
      <4>. QED BY <4>1, <4>3
    <3>4. Len(asks'[c]) = s + e + Len(reqs'[c])
      <4>1. n = s + e + l BY <3>2
      <4>2. Len(asks'[c]) = n + 1 /\ Len(reqs'[c]) = l + 1 BY <1>8, <1>9, <3>1
      <4>3. n + 1 = s + e + (l + 1) BY <4>1
      <4>. QED BY <4>2, <4>3
    <3>5. ASSUME NEW k \in 1 .. Len(reqs'[c])
          PROVE  /\ reqs'[c][k].id = asks'[c][s + e + k]
                 /\ reqs'[c][k].op # "SIGN" => k = 1 /\ e = 0
      <4>1. k \in 1 .. l \/ k = l + 1 BY <1>9, <3>1
      <4>2. CASE k \in 1 .. l
        <5>1. s + e + k \in 1 .. n BY <3>2, <4>2
        <5>2. reqs'[c][k] = reqs[c][k] /\ asks'[c][s + e + k] = asks[c][s + e + k]
          BY <1>8, <1>9, <3>1, <4>2, <5>1
        <5>. QED BY <3>2, <4>2, <5>2
      <4>3. CASE k = l + 1
        <5>1. s + e + k = n + 1 BY <3>2, <4>3
        <5>2. reqs'[c][k] = r /\ asks'[c][s + e + k] = id BY <1>8, <1>9, <3>1, <4>3, <5>1
        <5>. QED BY <1>6, <3>3, <4>3, <5>2
      <4>. QED BY <4>1, <4>2, <4>3
    <3>6. Stand(c)' = s /\ Reserved(c)' = e BY <1>13, <3>1
    <3>. QED BY <3>4, <3>5, <3>6 DEF OwedInv
  <2>. QED BY <2>1, <2>2
<1>16. ASSUME NEW d \in Clients PROVE BatchOf(d)'
  <2>1. CASE ~Batching BY <1>2, <2>1 DEF BatchOf, Batching
  <2>2. CASE Batching
    <3>1. BatchOf(d) /\ OwedInv(d) BY DEF BridgeInvariant
    <3>2. Stand(d) + Reserved(d) <= Len(asks[d])
      <4>1. worker.pc # "gone" BY <2>2 DEF Batching
      <4>2. Len(reqs[d]) \in Nat BY <1>1 DEF BridgeTypes
      <4>. QED BY <1>14, <3>1, <4>1, <4>2 DEF OwedInv
    <3>3. Visible(d)' <= Visible(d) BY <1>13, <1>14
    <3>. QED BY <1>1, <1>2, <1>10, <1>13, <2>2, <3>1, <3>2, <3>3, BatchKept
  <2>. QED BY <2>1, <2>2
<1>. QED BY <1>10, <1>11, <1>12, <1>13, <1>15, <1>16 DEF BridgeInvariant


LEMMA ReadNext ==
  ASSUME OneWorker, BridgeInvariant, NEW c \in Clients, Read(c)
  PROVE  BridgeInvariant'
<1>. DEFINE r == slots[c][rtail[c]]
<1>1. BridgeTypes /\ EngineInv /\ FlightInv /\ ReadInv(c) BY DEF BridgeInvariant
<1>2. /\ UNCHANGED <<vars, lifeVars, worker, reqs, rhead, slots, asks, hashes>>
      /\ Visible(c) > 0
      /\ got' = [got EXCEPT ![c] = Append(got[c], r)]
      /\ rtail' = [rtail EXCEPT ![c] = RingNext(rtail[c])]
  BY DEF Read
<1>3. UNCHANGED <<state, stopping, shmFlag, bridges>> BY <1>2 DEF lifeVars
<1>4. /\ got'[c] = Append(got[c], r) /\ rtail'[c] = RingNext(rtail[c])
      /\ \A d \in Clients : d # c => got'[d] = got[d] /\ rtail'[d] = rtail[d]
  BY <1>1, <1>2 DEF BridgeTypes
<1>5. /\ Visible(c)' = Visible(c) - 1 /\ rtail'[c] \in 0 .. RingSize - 1
      /\ \A k \in Nat : (rtail'[c] + k) % RingSize = (rtail[c] + (k + 1)) % RingSize
      /\ (rtail[c] + 0) % RingSize = rtail[c]
  BY <1>1, <1>2, <1>4, TailMoves
<1>6. r \in ReplyType
  <2>1. rtail[c] \in 0 .. RingSize - 1 /\ slots[c] \in [0 .. RingSize - 1 -> ReplyType]
    BY <1>1 DEF BridgeTypes
  <2>. QED BY <2>1
<1>7. Answers(r, asks[c][Len(got[c]) + 1])
  <2>1. 0 \in 0 .. Visible(c) - 1 /\ Len(got[c]) + 0 + 1 = Len(got[c]) + 1
    BY <1>1, <1>2, Counts
  <2>2. Answers(slots[c][(rtail[c] + 0) % RingSize], asks[c][Len(got[c]) + 0 + 1])
    BY <1>1, <2>1 DEF ReadInv
  <2>. QED BY <1>5, <2>1, <2>2
<1>. HIDE DEF r
<1>8. /\ got'[c] \in Seq(ReplyType) /\ Len(got'[c]) = Len(got[c]) + 1
      /\ \A i \in 1 .. Len(got[c]) : got'[c][i] = got[c][i]
      /\ got'[c][Len(got[c]) + 1] = r
  BY <1>1, <1>4, <1>6, Counts
<1>9. BridgeTypes'
  <2>1. got' \in [Clients -> Seq(ReplyType)] BY <1>1, <1>2, <1>4, <1>8 DEF BridgeTypes
  <2>2. rtail' \in [Clients -> 0 .. RingSize - 1] BY <1>1, <1>2, <1>4, <1>5 DEF BridgeTypes
  <2>. QED BY <1>1, <1>2, <1>3, <2>1, <2>2 DEF BridgeTypes
<1>10. EngineInv' BY <1>1, <1>2, <1>3, EngineSame
<1>11. FlightInv' BY <1>1, <1>2 DEF FlightInv, Batching, SlotFor
<1>12. PICK v \in Nat, g \in Nat, n \in Nat :
         v = Visible(c) /\ g = Len(got[c]) /\ n = Len(asks[c]) /\ Stand(c) = g + v
  BY <1>1, Counts
<1>13. v > 0 /\ Visible(c)' = v - 1 /\ Len(got'[c]) = g + 1 BY <1>2, <1>5, <1>8, <1>12
<1>14. Stand(c)' = g + v BY <1>12, <1>13 DEF Stand
<1>15. ReadInv(c)'
  <2>1. Stand(c)' <= Len(asks'[c]) BY <1>1, <1>2, <1>12, <1>14 DEF ReadInv
  <2>2. ASSUME NEW i \in 1 .. Len(got'[c]) PROVE Answers(got'[c][i], asks'[c][i])
    <3>1. i \in 1 .. g \/ i = g + 1 BY <1>13
    <3>2. CASE i \in 1 .. g BY <1>1, <1>2, <1>8, <1>12, <3>2 DEF ReadInv
    <3>3. CASE i = g + 1 BY <1>2, <1>7, <1>8, <1>12, <3>3
    <3>. QED BY <3>1, <3>2, <3>3
  <2>3. ASSUME NEW k \in 0 .. Visible(c)' - 1
        PROVE  Answers(slots'[c][(rtail'[c] + k) % RingSize], asks'[c][Len(got'[c]) + k + 1])
    <3>1. k \in Nat /\ k + 1 \in 0 .. Visible(c) - 1 BY <1>12, <1>13
    <3>2. Answers(slots[c][(rtail[c] + (k + 1)) % RingSize], asks[c][Len(got[c]) + (k + 1) + 1])
      BY <1>1, <3>1 DEF ReadInv
    <3>3. Len(got[c]) + (k + 1) + 1 = Len(got'[c]) + k + 1
      <4>1. g + (k + 1) + 1 = (g + 1) + k + 1 BY <3>1
      <4>. QED BY <1>12, <1>13, <4>1
    <3>. QED BY <1>2, <1>5, <3>1, <3>2, <3>3
  <2>. QED BY <2>1, <2>2, <2>3 DEF ReadInv
<1>16. ASSUME NEW d \in Clients
       PROVE  ReadInv(d)' /\ Stand(d)' = Stand(d) /\ Visible(d)' <= Visible(d)
  <2>1. CASE d = c BY <1>12, <1>13, <1>14, <1>15, <2>1
  <2>2. CASE d # c
    <3>1. UNCHANGED <<rhead, slots, asks>> /\ got'[d] = got[d] /\ rtail'[d] = rtail[d] /\ ReadInv(d)
      BY <1>2, <1>4, <2>2 DEF BridgeInvariant
    <3>2. Visible(d)' = Visible(d) BY <3>1 DEF Visible
    <3>3. Stand(d)' = Stand(d) BY <3>1, <3>2 DEF Stand
    <3>4. ReadInv(d)' BY <3>1, <3>2, <3>3 DEF ReadInv
    <3>5. Visible(d) \in Nat BY <1>1, Counts
    <3>. QED BY <3>2, <3>3, <3>4, <3>5
  <2>. QED BY <2>1, <2>2
<1>17. ASSUME NEW d \in Clients PROVE OwedInv(d)' /\ BatchOf(d)'
  <2>1. OwedInv(d) /\ BatchOf(d) BY DEF BridgeInvariant
  <2>2. Reserved(d)' = Reserved(d) BY <1>2 DEF Reserved, Batching
  <2>3. OwedInv(d)' BY <1>2, <1>16, <2>1, <2>2, OwedKept
  <2>4. CASE ~Batching BY <1>2, <2>3, <2>4 DEF BatchOf, Batching
  <2>5. CASE Batching
    <3>1. worker.pc # "gone" BY <2>5 DEF Batching
    <3>2. Stand(d) + Reserved(d) <= Len(asks[d]) BY <1>1, <2>1, <3>1, Counts DEF OwedInv
    <3>. QED BY <1>1, <1>2, <1>9, <1>16, <2>1, <2>3, <2>5, <3>2, BatchKept
  <2>. QED BY <2>4, <2>5
<1>. QED BY <1>9, <1>10, <1>11, <1>16, <1>17 DEF BridgeInvariant


-----------------------------------------------------------------------------
(* The bridge: draining.                                                     *)

\* The slot the worker would give to the next request of a client is behind
\* those it has reserved, and the one after it is free too.
LEMMA NextFree ==
  ASSUME OneWorker, BridgeTypes, NEW c \in Clients, BatchOf(c), MayDrain(c)
  PROVE  /\ worker.pc = "drain" /\ Batching /\ Reserved(c) = worker.count[c]
         /\ RespHead(c) = SlotFor(c, worker.count[c])
         /\ RespHead(c) \in 0 .. RingSize - 1
         /\ RingNext(RespHead(c)) = SlotFor(c, worker.count[c] + 1)
         /\ Visible(c) + (worker.count[c] + 1) < RingSize
         /\ reqs[c] # << >> /\ Len(worker.flight) < BatchLimit
<1>1. /\ worker.pc = "drain" /\ RingNext(RespHead(c)) # rtail[c] /\ reqs[c] # << >>
      /\ Len(worker.flight) < BatchLimit
  BY DEF MayDrain
<1>2. Batching BY <1>1 DEF Batching
<1>3. worker.start[c] = rhead[c] /\ Visible(c) + worker.count[c] < RingSize BY <1>2 DEF BatchOf
<1>4. PICK m \in Nat : m = worker.count[c] BY Counts
<1>5. RespHead(c) = SlotFor(c, m) BY <1>3, <1>4 DEF RespHead, SlotFor
<1>6. PICK n \in Nat \ {0}, h \in Nat, t \in Nat, v \in Nat :
        n = RingSize /\ h = rhead[c] /\ t = rtail[c] /\ v = Visible(c)
  <2>1. rhead[c] \in Nat /\ rtail[c] \in Nat BY RingFacts DEF OneWorker
  <2>. QED BY <2>1, Counts DEF OneWorker
<1>7. t < n /\ SlotFor(c, m) \in 0 .. n - 1 /\ SlotFor(c, m + 1) = (t + v + (m + 1)) % n
  <2>1. m + 1 \in Nat OBVIOUS
  <2>2. SlotFor(c, m + 1) = (rtail[c] + Visible(c) + (m + 1)) % RingSize BY <2>1, RingFacts
  <2>. QED BY <1>6, <2>2, RingFacts
<1>8. RingNext(RespHead(c)) = SlotFor(c, m + 1)
  <2>1. PICK a \in Int, b \in Int : a = h + m /\ b = 1 OBVIOUS
  <2>2. ((a % n) + b) % n = (a + b) % n BY ModShift
  <2>3. a + b = h + (m + 1) BY <2>1
  <2>. QED BY <1>5, <1>6, <2>1, <2>2, <2>3 DEF RingNext, SlotFor
<1>9. v + (m + 1) < n
  <2>1. v + m < n BY <1>3, <1>4, <1>6
  <2>2. ASSUME v + (m + 1) = n PROVE FALSE
    <3>1. t + v + (m + 1) = t + n BY <2>2
    <3>2. (t + n) % n = t
      <4>1. PICK a \in Int, b \in Int : a = n /\ b = t OBVIOUS
      <4>2. ((a % n) + b) % n = (a + b) % n BY ModShift
      <4>3. n % n = 0
        <5>1. PICK q \in Int, r \in 0 .. n - 1 : n = n * q + r /\ r = n % n BY DivMod
        <5>2. n * (1 - q) = r BY <5>1
        <5>3. PICK w \in Int : w = 1 - q BY <5>1
        <5>4. n * w > -n /\ n * w < n BY <5>1, <5>2, <5>3
        <5>5. w = 0 BY <5>3, <5>4, MultBound
        <5>6. n * w = 0 BY <5>5
        <5>. QED BY <5>1, <5>2, <5>3, <5>6
      <4>4. 0 + b = t /\ a + b = t + n BY <4>1
      <4>5. t % n = t BY <1>7, ModSmall
      <4>. QED BY <4>1, <4>2, <4>3, <4>4, <4>5
    <3>. QED BY <1>1, <1>6, <1>7, <1>8, <3>1, <3>2
  <2>. QED BY <2>1, <2>2
<1>. QED BY <1>1, <1>2, <1>4, <1>5, <1>6, <1>7, <1>8, <1>9 DEF Reserved


\* What is left in a request ring when its first request is taken.
LEMMA TailIs ==
  ASSUME NEW S, NEW q \in Seq(S), q # << >>
  PROVE  /\ Tail(q) \in Seq(S) /\ Len(Tail(q)) = Len(q) - 1 /\ Head(q) = q[1] /\ q[1] \in S
         /\ Len(q) \in Nat /\ Len(q) > 0
         /\ \A k \in 1 .. Len(Tail(q)) : Tail(q)[k] = q[k + 1]
OBVIOUS

LEMMA DrainSignNext ==
  ASSUME OneWorker, BridgeInvariant, NEW c \in Clients, DrainSign(c)
  PROVE  BridgeInvariant'
<1>. DEFINE r == Head(reqs[c])
            f == [client |-> c, id |-> r.id, slot |-> RespHead(c)]
            l == Len(worker.flight)
<1>1. BridgeTypes /\ EngineInv /\ FlightInv /\ OwedInv(c) /\ BatchOf(c) BY DEF BridgeInvariant
<1>2. /\ MayDrain(c) /\ r.op = "SIGN"
      /\ UNCHANGED <<vars, lifeVars, rhead, rtail, slots, asks, got, hashes>>
      /\ reqs' = [reqs EXCEPT ![c] = Tail(reqs[c])]
      /\ worker' = [worker EXCEPT !.n = @ + 1, !.count[c] = @ + 1, !.flight = Append(@, f)]
  BY DEF DrainSign, PublishedAtDrain, OneWorker
<1>3. UNCHANGED <<state, stopping, shmFlag, bridges>> BY <1>2 DEF lifeVars
<1>4. PICK m \in Nat : m = worker.count[c] BY <1>1, Counts
<1>5. /\ worker.pc = "drain" /\ Batching /\ Reserved(c) = m
      /\ RespHead(c) = SlotFor(c, m) /\ RespHead(c) \in 0 .. RingSize - 1
      /\ Visible(c) + (m + 1) < RingSize /\ reqs[c] # << >> /\ l < BatchLimit
  BY <1>1, <1>2, <1>4, NextFree
<1>6. /\ Tail(reqs[c]) \in Seq([id : AskIds, op : Ops]) /\ r = reqs[c][1]
      /\ reqs[c][1] \in [id : AskIds, op : Ops]
      /\ Len(Tail(reqs[c])) = Len(reqs[c]) - 1 /\ Len(reqs[c]) \in Nat /\ Len(reqs[c]) > 0
      /\ \A k \in 1 .. Len(Tail(reqs[c])) : Tail(reqs[c])[k] = reqs[c][k + 1]
  <2>1. reqs[c] \in Seq([id : AskIds, op : Ops]) BY <1>1, Counts
  <2>. QED BY <1>5, <2>1, TailIs
<1>7. f \in FlightType
  <2>1. r.id \in AskIds BY <1>6
  <2>. QED BY <1>5, <2>1 DEF FlightType
<1>8. f.client = c /\ f.id = r.id /\ f.slot = SlotFor(c, m) BY <1>5
<1>9. worker \in WorkerType /\ worker.flight \in Seq(FlightType) /\ l \in Nat
      /\ worker.count \in [Clients -> Nat]
  BY <1>1, WorkerIs DEF BridgeTypes
<1>. HIDE DEF r, f, l
<1>10. /\ worker' \in WorkerType /\ worker'.pc = "drain"
       /\ worker'.flight = Append(worker.flight, f) /\ worker'.start = worker.start
       /\ worker'.count = [worker.count EXCEPT ![c] = @ + 1]
  <2>1. worker' = [worker EXCEPT !.n = @ + 1, !.count[c] = @ + 1, !.flight = Append(@, f)]
    BY <1>2, Zenon
  <2>. QED BY <1>5, <1>7, <1>9, <2>1, TakeRecord
<1>11. Batching' BY <1>10 DEF Batching
<1>12. /\ Len(worker'.flight) = l + 1 /\ DOMAIN worker'.flight = 1 .. l + 1
       /\ DOMAIN worker.flight = 1 .. l
       /\ \A i \in 1 .. l : worker'.flight[i] = worker.flight[i]
       /\ worker'.flight[l + 1] = f
  BY <1>7, <1>9, <1>10 DEF l
<1>13. /\ worker'.count[c] = m + 1
       /\ \A d \in Clients : d # c => worker'.count[d] = worker.count[d]
  BY <1>4, <1>9, <1>10
<1>14. /\ reqs'[c] = Tail(reqs[c])
       /\ \A d \in Clients : d # c => reqs'[d] = reqs[d]
  BY <1>1, <1>2 DEF BridgeTypes
<1>15. BridgeTypes'
  <2>1. reqs' \in [Clients -> Seq([id : AskIds, op : Ops])]
    BY <1>1, <1>2, <1>6, <1>14 DEF BridgeTypes
  <2>. QED BY <1>1, <1>2, <1>3, <1>10, <2>1 DEF BridgeTypes
<1>16. EngineInv'
  <2>1. bridges' \in Nat /\ bridges' >= bridges /\ bridges' > 0 /\ giveUps = 0
    BY <1>1, <1>3, <1>5 DEF EngineInv, BridgeTypes
  <2>. QED BY <1>1, <1>2, <1>5, <1>10, <2>1, EngineIdle
<1>17. \A d \in Clients, k \in Nat : SlotFor(d, k)' = SlotFor(d, k) BY <1>2 DEF SlotFor
<1>18. ASSUME NEW d \in Clients
       PROVE  ReadInv(d)' /\ Stand(d)' = Stand(d) /\ Visible(d)' = Visible(d)
  <2>1. ReadInv(d) BY DEF BridgeInvariant
  <2>2. Visible(d)' = Visible(d) BY <1>2 DEF Visible
  <2>3. Stand(d)' = Stand(d) BY <1>2, <2>2 DEF Stand
  <2>. QED BY <1>2, <2>1, <2>2, <2>3 DEF ReadInv
<1>19. FlightInv'
  <2>1. Len(worker'.flight) <= BatchLimit BY <1>5, <1>9, <1>12 DEF OneWorker
  <2>2. ASSUME NEW i \in 1 .. l
        PROVE  \E k \in 0 .. worker.count[worker.flight[i].client] - 1 :
                 worker.flight[i].slot = SlotFor(worker.flight[i].client, k)
    BY <1>1, <1>5, <1>12 DEF FlightInv
  <2>3. \A i \in 1 .. l : worker.flight[i].client \in Clients
    <3>1. \A i \in DOMAIN worker.flight : worker.flight[i] \in FlightType BY <1>9
    <3>. QED BY <1>12, <3>1 DEF FlightType
  <2>4. ASSUME NEW i \in 1 .. l + 1
        PROVE  \E k \in 0 .. worker'.count[worker'.flight[i].client] - 1 :
                 worker'.flight[i].slot = SlotFor(worker'.flight[i].client, k)
    <3>1. CASE i \in 1 .. l
      <4>1. PICK d \in Clients : d = worker.flight[i].client BY <2>3, <3>1
      <4>2. PICK k \in 0 .. worker.count[d] - 1 : worker.flight[i].slot = SlotFor(d, k)
        BY <2>2, <3>1, <4>1
      <4>3. worker.count[d] \in Nat /\ (worker'.count[d] = worker.count[d] \/ worker'.count[d] = worker.count[d] + 1)
        BY <1>4, <1>9, <1>13
      <4>4. k \in 0 .. worker'.count[d] - 1 /\ k \in Nat BY <4>2, <4>3
      <4>. QED BY <1>12, <3>1, <4>1, <4>2, <4>4
    <3>2. CASE i = l + 1
      <4>1. m \in 0 .. worker'.count[c] - 1 BY <1>13
      <4>. QED BY <1>8, <1>12, <3>2, <4>1
    <3>. QED BY <1>9, <3>1, <3>2
  <2>5. ASSUME NEW i \in 1 .. l, worker.flight[i].client = c PROVE worker.flight[i].slot # f.slot
    <3>1. PICK k \in 0 .. m - 1 : worker.flight[i].slot = SlotFor(c, k) BY <1>4, <2>2, <2>5
    <3>2. SlotFor(c, k) # SlotFor(c, m)
      <4>1. Visible(c) + m < RingSize BY <1>1, <1>5, Counts DEF OneWorker
      <4>. QED BY <1>1, <4>1, SlotsApart
    <3>. QED BY <1>8, <3>1, <3>2
  <2>6. ASSUME NEW i \in 1 .. l + 1, NEW j \in 1 .. l + 1,
               worker'.flight[i].client = worker'.flight[j].client,
               worker'.flight[i].slot = worker'.flight[j].slot
        PROVE  i = j
    <3>1. CASE i \in 1 .. l /\ j \in 1 .. l BY <1>1, <1>5, <1>12, <2>6, <3>1 DEF FlightInv
    <3>2. CASE i \in 1 .. l /\ j = l + 1 BY <1>8, <1>12, <2>5, <2>6, <3>2
    <3>3. CASE i = l + 1 /\ j \in 1 .. l BY <1>8, <1>12, <2>5, <2>6, <3>3
    <3>. QED BY <1>9, <3>1, <3>2, <3>3
  <2>. QED BY <1>2, <1>10, <1>12, <2>1, <2>4, <2>6 DEF FlightInv, SlotFor
<1>20. PICK s \in Nat, q \in Nat, n \in Nat :
         s = Stand(c) /\ q = Len(reqs[c]) /\ n = Len(asks[c])
  BY <1>1, Counts
<1>21. /\ n = s + m + q
       /\ \A k \in 1 .. q : /\ reqs[c][k].id = asks[c][s + m + k]
                            /\ reqs[c][k].op # "SIGN" => k = 1 /\ m = 0
  BY <1>1, <1>5, <1>20 DEF OwedInv
<1>22. OwedInv(c)'
  <2>1. q > 0 /\ Len(reqs'[c]) = q - 1 /\ Reserved(c)' = m + 1 /\ Stand(c)' = s
    BY <1>6, <1>11, <1>13, <1>14, <1>18, <1>20 DEF Reserved
  <2>2. n = s + (m + 1) + (q - 1) BY <1>21
  <2>3. ASSUME NEW k \in 1 .. q - 1
        PROVE  reqs'[c][k].id = asks[c][s + (m + 1) + k] /\ reqs'[c][k].op = "SIGN"
    <3>1. reqs'[c][k] = reqs[c][k + 1] BY <1>6, <1>14, <1>20
    <3>2. k + 1 \in 1 .. q /\ k + 1 # 1 /\ s + m + (k + 1) = s + (m + 1) + k BY <2>1
    <3>3. reqs[c][k + 1].id = asks[c][s + m + (k + 1)] /\ reqs[c][k + 1].op = "SIGN"
      BY <1>21, <3>2
    <3>. QED BY <3>1, <3>2, <3>3
  <2>. QED BY <1>2, <1>20, <2>1, <2>2, <2>3 DEF OwedInv
<1>23. BatchOf(c)'
  <2>1. worker'.start[c] = rhead'[c] BY <1>1, <1>2, <1>5, <1>10 DEF BatchOf
  <2>2. Visible(c)' + worker'.count[c] < RingSize BY <1>5, <1>13, <1>18
  <2>3. ASSUME NEW k \in 0 .. worker'.count[c] - 1
        PROVE  \E i \in DOMAIN worker'.flight :
                 /\ worker'.flight[i].client = c /\ worker'.flight[i].slot = SlotFor(c, k)'
                 /\ worker'.flight[i].id = asks'[c][Stand(c)' + k + 1]
    <3>1. k \in 0 .. m - 1 \/ k = m BY <1>13
    <3>2. CASE k \in 0 .. m - 1
      <4>1. PICK i \in 1 .. l :
              /\ worker.flight[i].client = c /\ worker.flight[i].slot = SlotFor(c, k)
              /\ worker.flight[i].id = asks[c][Stand(c) + k + 1]
        BY <1>1, <1>4, <1>5, <1>12, <3>2 DEF BatchOf
      <4>2. i \in DOMAIN worker'.flight /\ worker'.flight[i] = worker.flight[i] BY <1>9, <1>12
      <4>. QED BY <1>2, <1>17, <1>18, <3>2, <4>1, <4>2
    <3>3. CASE k = m
      <4>1. l + 1 \in DOMAIN worker'.flight BY <1>9, <1>12
      <4>2. f.id = asks[c][s + m + 1]
        <5>1. 1 \in 1 .. q BY <1>6, <1>20
        <5>. QED BY <1>6, <1>8, <1>21, <5>1
      <4>. QED BY <1>2, <1>8, <1>12, <1>17, <1>18, <1>20, <3>3, <4>1, <4>2
    <3>. QED BY <3>1, <3>2, <3>3
  <2>. QED BY <2>1, <2>2, <2>3 DEF BatchOf
<1>24. ASSUME NEW d \in Clients, d # c PROVE OwedInv(d)' /\ BatchOf(d)'
  <2>1. OwedInv(d) /\ BatchOf(d) BY DEF BridgeInvariant
  <2>2. Reserved(d)' = Reserved(d) BY <1>5, <1>11, <1>13, <1>24 DEF Reserved
  <2>3. OwedInv(d)'
    <3>1. Stand(d)' + Reserved(d)' = Stand(d) + Reserved(d) BY <1>18, <2>2
    <3>. QED BY <1>2, <1>5, <1>14, <1>24, <2>1, <2>2, <3>1, OwedKept
  <2>4. Stand(d) + Reserved(d) <= Len(asks[d]) BY <1>1, <1>5, <2>1, Counts DEF OwedInv
  <2>5. Visible(d)' <= Visible(d) BY <1>1, <1>18, Counts
  <2>6. DOMAIN worker.flight \subseteq DOMAIN worker'.flight BY <1>9, <1>12
  <2>7. BatchOf(d)'
    BY <1>1, <1>2, <1>5, <1>10, <1>12, <1>13, <1>15, <1>18, <1>24, <2>1, <2>4, <2>5, <2>6, BatchKept
  <2>. QED BY <2>3, <2>7
<1>. QED BY <1>15, <1>16, <1>18, <1>19, <1>22, <1>23, <1>24 DEF BridgeInvariant


\* A request that is not signed is answered on the spot; nothing of its client
\* is in the batch then.
LEMMA DrainOtherNext ==
  ASSUME OneWorker, BridgeInvariant, NEW c \in Clients, DrainOther(c)
  PROVE  BridgeInvariant'
<1>. DEFINE r == Head(reqs[c])
            h == RespHead(c)
            x == Reply(r.id, Nothing, "OK")
<1>1. BridgeTypes /\ EngineInv /\ FlightInv /\ ReadInv(c) /\ OwedInv(c) /\ BatchOf(c)
  BY DEF BridgeInvariant
<1>2. /\ MayDrain(c) /\ r.op # "SIGN"
      /\ UNCHANGED <<vars, state, stopping, bridges, rtail, asks, got, hashes>>
      /\ reqs' = [reqs EXCEPT ![c] = Tail(reqs[c])]
      /\ slots' = [slots EXCEPT ![c][h] = x]
      /\ rhead' = [rhead EXCEPT ![c] = RingNext(h)]
      /\ shmFlag' \in BOOLEAN
      /\ worker' = [worker EXCEPT !.n = @ + 1, !.start[c] = RingNext(h)]
  BY <1>1 DEF DrainOther, OneWorker, BridgeTypes
<1>4. /\ Tail(reqs[c]) \in Seq([id : AskIds, op : Ops]) /\ r = reqs[c][1]
      /\ reqs[c][1] \in [id : AskIds, op : Ops]
      /\ Len(Tail(reqs[c])) = Len(reqs[c]) - 1 /\ Len(reqs[c]) \in Nat /\ Len(reqs[c]) > 0
      /\ \A k \in 1 .. Len(Tail(reqs[c])) : Tail(reqs[c])[k] = reqs[c][k + 1]
  <2>1. reqs[c] \in Seq([id : AskIds, op : Ops]) /\ reqs[c] # << >>
    BY <1>1, <1>2, Counts, NextFree
  <2>. QED BY <2>1, TailIs
<1>5. worker.pc = "drain" /\ Batching /\ Reserved(c) = worker.count[c] BY <1>1, <1>2, NextFree
<1>6. worker.count[c] = 0
  <2>1. 1 \in 1 .. Len(reqs[c]) BY <1>4
  <2>. QED BY <1>1, <1>2, <1>4, <1>5, <2>1 DEF OwedInv
<1>7. /\ h = SlotFor(c, 0) /\ h \in 0 .. RingSize - 1 /\ RingNext(h) = SlotFor(c, 1)
      /\ Visible(c) + 1 < RingSize
  BY <1>1, <1>2, <1>6, NextFree
<1>8. r.id \in AskIds /\ x \in ReplyType /\ x.id = r.id /\ x.sig = Nothing
  BY <1>4 DEF ReplyType, Reply, Nothing, AskIds
<1>. HIDE DEF r, h, x
<1>9. RingNext(h) \in 0 .. RingSize - 1 /\ RingNext(h) \in Nat
  <2>1. SlotFor(c, 1) \in 0 .. RingSize - 1 BY <1>1, RingFacts
  <2>. QED BY <1>7, <2>1 DEF OneWorker
<1>10. /\ worker' \in WorkerType /\ worker'.pc = "drain" /\ worker'.flight = worker.flight
       /\ worker'.start = [worker.start EXCEPT ![c] = RingNext(h)]
       /\ worker'.count = worker.count
  BY <1>1, <1>2, <1>5, <1>9, AckRecord DEF BridgeTypes
<1>11. Batching' BY <1>10 DEF Batching
<1>12. /\ reqs'[c] = Tail(reqs[c]) /\ rhead'[c] = RingNext(h)
       /\ slots'[c] = [slots[c] EXCEPT ![h] = x]
       /\ \A d \in Clients : d # c => /\ reqs'[d] = reqs[d] /\ rhead'[d] = rhead[d]
                                      /\ slots'[d] = slots[d]
  BY <1>1, <1>2 DEF BridgeTypes
<1>13. /\ worker'.start[c] = RingNext(h)
       /\ \A d \in Clients : d # c => worker'.start[d] = worker.start[d]
  <2>1. worker.start \in [Clients -> Nat] BY <1>1, WorkerIs DEF BridgeTypes
  <2>. QED BY <1>10, <2>1
<1>14. /\ slots[c] \in [0 .. RingSize - 1 -> ReplyType]
       /\ slots'[c] \in [0 .. RingSize - 1 -> ReplyType] /\ slots'[c][h] = x
       /\ \A s \in 0 .. RingSize - 1 : s # h => slots'[c][s] = slots[c][s]
  <2>1. slots[c] \in [0 .. RingSize - 1 -> ReplyType] BY <1>1 DEF BridgeTypes
  <2>. QED BY <1>7, <1>8, <1>12, <2>1
<1>15. BridgeTypes'
  <2>1. reqs' \in [Clients -> Seq([id : AskIds, op : Ops])]
    BY <1>1, <1>2, <1>4, <1>12 DEF BridgeTypes
  <2>2. rhead' \in [Clients -> 0 .. RingSize - 1] BY <1>1, <1>2, <1>9, <1>12 DEF BridgeTypes
  <2>3. slots' \in [Clients -> [0 .. RingSize - 1 -> ReplyType]]
    BY <1>1, <1>2, <1>12, <1>14 DEF BridgeTypes
  <2>. QED BY <1>1, <1>2, <1>10, <2>1, <2>2, <2>3 DEF BridgeTypes
<1>16. EngineInv'
  <2>1. bridges' \in Nat /\ bridges' >= bridges /\ bridges' > 0 /\ giveUps = 0
    BY <1>1, <1>2, <1>5 DEF EngineInv, BridgeTypes
  <2>. QED BY <1>1, <1>2, <1>5, <1>10, <2>1, EngineIdle
<1>17. PICK s \in Nat, q \in Nat, n \in Nat, v \in Nat :
         s = Stand(c) /\ q = Len(reqs[c]) /\ n = Len(asks[c]) /\ v = Visible(c)
  BY <1>1, Counts
<1>18. /\ n = s + q
       /\ \A k \in 1 .. q : /\ reqs[c][k].id = asks[c][s + k]
                            /\ reqs[c][k].op # "SIGN" => k = 1
  <2>1. /\ n = s + 0 + q
        /\ \A k \in 1 .. q : /\ reqs[c][k].id = asks[c][s + 0 + k]
                             /\ reqs[c][k].op # "SIGN" => k = 1
    BY <1>1, <1>5, <1>6, <1>17 DEF OwedInv
  <2>2. s + 0 = s OBVIOUS
  <2>. QED BY <2>1, <2>2
<1>19. \A d \in Clients \ {c} : Visible(d)' = Visible(d) /\ Stand(d)' = Stand(d)
  <2>1. \A d \in Clients \ {c} : Visible(d)' = Visible(d) BY <1>2, <1>12 DEF Visible
  <2>. QED BY <1>2, <2>1 DEF Stand
<1>20. ReadInv(c)' /\ Stand(c)' = s + 1 /\ Visible(c)' = v + 1
  <2>1. \A k \in 0 .. Visible(c) - 1 :
          slots'[c][(rtail[c] + k) % RingSize] = slots[c][(rtail[c] + k) % RingSize]
    <3>1. Visible(c) + 0 < RingSize BY <1>7, <1>17 DEF OneWorker
    <3>2. \A k \in 0 .. Visible(c) - 1 : h # (rtail[c] + k) % RingSize
      BY <1>1, <1>7, <3>1, SlotsApart
    <3>3. \A k \in 0 .. Visible(c) - 1 : (rtail[c] + k) % RingSize \in 0 .. RingSize - 1
      BY <1>1, <1>17, RingFacts
    <3>. QED BY <1>14, <3>2, <3>3
  <2>2. PICK m \in Nat : m = 1 OBVIOUS
  <2>3. ASSUME NEW k \in 0 .. m - 1 PROVE Answers(slots'[c][SlotFor(c, k)], asks[c][Stand(c) + k + 1])
    <3>1. k = 0 /\ s + 0 + 1 = s + 1 /\ 1 \in 1 .. q BY <1>4, <1>17, <2>2
    <3>2. asks[c][Stand(c) + k + 1] = r.id BY <1>4, <1>17, <1>18, <3>1
    <3>. QED BY <1>7, <1>8, <1>14, <3>1, <3>2 DEF Answers
  <2>4. Visible(c) + m < RingSize /\ Stand(c) + m <= Len(asks[c])
    <3>1. q > 0 BY <1>4, <1>17
    <3>. QED BY <1>7, <1>17, <1>18, <2>2, <3>1
  <2>5. rhead'[c] = SlotFor(c, m) BY <1>7, <1>12, <2>2
  <2>6. asks'[c] = asks[c] /\ got'[c] = got[c] /\ rtail'[c] = rtail[c] /\ asks[c] \in Seq(AskIds)
    BY <1>1, <1>2, Counts
  <2>7. asks'[c] \in Seq(AskIds) /\ Len(asks[c]) <= Len(asks'[c])
        /\ \A i \in 1 .. Len(asks[c]) : asks'[c][i] = asks[c][i]
    BY <1>17, <2>6
  <2>8. ReadInv(c)' /\ Stand(c)' = Stand(c) + m /\ Visible(c)' = Visible(c) + m
    BY <1>1, <2>1, <2>3, <2>4, <2>5, <2>6, <2>7, ReadKept
  <2>. QED BY <1>17, <2>2, <2>8
<1>21. FlightInv'
  <2>1. ASSUME NEW i \in DOMAIN worker.flight PROVE worker.flight[i].client \in Clients \ {c}
    <3>1. worker.flight[i] \in FlightType BY <1>1, WorkerIs DEF BridgeTypes
    <3>2. worker.flight[i].client = c => \E k \in 0 .. 0 - 1 : TRUE
      BY <1>1, <1>5, <1>6 DEF FlightInv
    <3>. QED BY <3>1, <3>2 DEF FlightType
  <2>2. ASSUME NEW i \in DOMAIN worker.flight
        PROVE  \E k \in 0 .. worker.count[worker.flight[i].client] - 1 :
                 worker.flight[i].slot = SlotFor(worker.flight[i].client, k)'
    <3>1. PICK d \in Clients \ {c} : d = worker.flight[i].client BY <2>1
    <3>2. PICK k \in 0 .. worker.count[d] - 1 : worker.flight[i].slot = SlotFor(d, k)
      BY <1>1, <1>5, <3>1 DEF FlightInv
    <3>3. rhead'[d] = rhead[d] /\ worker'.flight = worker.flight BY <1>10, <1>12
    <3>4. SlotFor(worker.flight[i].client, k)' = SlotFor(d, k) BY <3>1, <3>3 DEF SlotFor
    <3>. QED BY <3>1, <3>2, <3>4
  <2>. QED BY <1>1, <1>5, <1>10, <2>2 DEF FlightInv, SlotFor
<1>22. OwedInv(c)'
  <2>1. Len(reqs'[c]) = q - 1 /\ Reserved(c)' = 0 /\ q > 0
    BY <1>4, <1>6, <1>10, <1>11, <1>12, <1>17 DEF Reserved
  <2>2. n = (s + 1) + 0 + (q - 1) BY <1>18
  <2>3. ASSUME NEW k \in 1 .. q - 1
        PROVE  reqs'[c][k].id = asks[c][(s + 1) + 0 + k] /\ reqs'[c][k].op = "SIGN"
    <3>1. reqs'[c][k] = reqs[c][k + 1] BY <1>4, <1>12, <1>17
    <3>2. k + 1 \in 1 .. q /\ k + 1 # 1 /\ s + (k + 1) = (s + 1) + 0 + k BY <2>1
    <3>3. reqs[c][k + 1].id = asks[c][s + (k + 1)] /\ reqs[c][k + 1].op = "SIGN"
      BY <1>18, <3>2
    <3>. QED BY <3>1, <3>2, <3>3
  <2>. QED BY <1>2, <1>17, <1>20, <2>1, <2>2, <2>3 DEF OwedInv
<1>23. BatchOf(c)'
  <2>1. worker'.count[c] = 0 /\ worker'.start[c] = rhead'[c] BY <1>6, <1>10, <1>12, <1>13
  <2>2. Visible(c)' + 0 < RingSize BY <1>7, <1>17, <1>20 DEF OneWorker
  <2>. QED BY <2>1, <2>2 DEF BatchOf
<1>24. ASSUME NEW d \in Clients, d # c PROVE ReadInv(d)' /\ OwedInv(d)' /\ BatchOf(d)'
  <2>1. ReadInv(d) /\ OwedInv(d) /\ BatchOf(d) BY DEF BridgeInvariant
  <2>2. Reserved(d)' = Reserved(d) BY <1>5, <1>10, <1>11 DEF Reserved
  <2>3. ReadInv(d)' BY <1>2, <1>12, <1>19, <1>24, <2>1 DEF ReadInv
  <2>4. OwedInv(d)'
    <3>1. Stand(d)' + Reserved(d)' = Stand(d) + Reserved(d) BY <1>19, <1>24, <2>2
    <3>. QED BY <1>2, <1>5, <1>12, <1>24, <2>1, <2>2, <3>1, OwedKept
  <2>5. Stand(d) + Reserved(d) <= Len(asks[d]) BY <1>1, <1>5, <2>1, Counts DEF OwedInv
  <2>6. Visible(d)' <= Visible(d) BY <1>1, <1>19, <1>24, Counts
  <2>7. BatchOf(d)'
    BY <1>1, <1>2, <1>5, <1>10, <1>12, <1>13, <1>15, <1>19, <1>24, <2>1, <2>5, <2>6, BatchKept
  <2>. QED BY <2>3, <2>4, <2>7
<1>. QED BY <1>15, <1>16, <1>20, <1>21, <1>22, <1>23, <1>24 DEF BridgeInvariant


-----------------------------------------------------------------------------
(* The bridge: the batch in the engine.                                      *)

\* The slots of a batch are not visible.
LEMMA FlightHidden ==
  ASSUME OneWorker, BridgeInvariant, Batching, NEW i \in DOMAIN worker.flight
  PROVE  /\ worker.flight[i].client \in Clients /\ worker.flight[i].slot \in 0 .. RingSize - 1
         /\ worker.flight[i].id \in AskIds
         /\ \A k \in 0 .. Visible(worker.flight[i].client) - 1 :
              worker.flight[i].slot # (rtail[worker.flight[i].client] + k) % RingSize
<1>1. BridgeTypes /\ FlightInv BY DEF BridgeInvariant
<1>2. worker.flight[i] \in FlightType BY <1>1, WorkerIs DEF BridgeTypes
<1>3. PICK c \in Clients : c = worker.flight[i].client BY <1>2 DEF FlightType
<1>4. PICK j \in 0 .. worker.count[c] - 1 : worker.flight[i].slot = SlotFor(c, j)
  BY <1>1, <1>3 DEF FlightInv
<1>5. BatchOf(c) BY DEF BridgeInvariant
<1>6. j \in Nat /\ Visible(c) + j < RingSize
  <2>1. PICK m \in Nat, v \in Nat : m = worker.count[c] /\ v = Visible(c) BY <1>1, Counts
  <2>2. v + m < RingSize BY <1>5, <2>1 DEF BatchOf
  <2>. QED BY <1>4, <2>1, <2>2 DEF OneWorker
<1>7. \A k \in 0 .. Visible(c) - 1 : SlotFor(c, j) # (rtail[c] + k) % RingSize
  BY <1>1, <1>6, SlotsApart
<1>. QED BY <1>2, <1>3, <1>4, <1>7 DEF FlightType

\* A response is written for each member of a part of the batch, to its slot.
LEMMA Written ==
  ASSUME OneWorker, BridgeInvariant, Batching, NEW J \in SUBSET DOMAIN worker.flight,
         NEW rep \in [J -> ReplyType],
         slots' = WriteSlots({[client |-> worker.flight[i].client, slot |-> worker.flight[i].slot,
                               reply |-> rep[i]] : i \in J})
  PROVE  /\ slots' \in [Clients -> [0 .. RingSize - 1 -> ReplyType]]
         /\ \A i \in J : slots'[worker.flight[i].client][worker.flight[i].slot] = rep[i]
         /\ \A c \in Clients, s \in 0 .. RingSize - 1 :
              slots'[c][s] # slots[c][s] =>
                \E i \in J : worker.flight[i].client = c /\ worker.flight[i].slot = s
<1>. DEFINE new == {[client |-> worker.flight[i].client, slot |-> worker.flight[i].slot,
                     reply |-> rep[i]] : i \in J}
            here(c, s) == {r \in new : r.client = c /\ r.slot = s}
            val(c, s) == IF here(c, s) = {} THEN slots[c][s]
                         ELSE (CHOOSE r \in here(c, s) : TRUE).reply
<1>1. slots' = [c \in Clients |-> [s \in 0 .. RingSize - 1 |-> val(c, s)]] BY DEF WriteSlots
<1>2. slots \in [Clients -> [0 .. RingSize - 1 -> ReplyType]] BY DEF BridgeInvariant, BridgeTypes
<1>3. \A c, s : \A r \in here(c, s) :
        \E i \in J : worker.flight[i].client = c /\ worker.flight[i].slot = s /\ r.reply = rep[i]
  OBVIOUS
<1>4. ASSUME NEW i \in J PROVE here(worker.flight[i].client, worker.flight[i].slot) # {}
  <2>1. PICK r : r = [client |-> worker.flight[i].client, slot |-> worker.flight[i].slot,
                      reply |-> rep[i]]
    OBVIOUS
  <2>2. r \in new /\ r.client = worker.flight[i].client /\ r.slot = worker.flight[i].slot
    BY <2>1
  <2>. QED BY <2>2
<1>11. \A c, s : here(c, s) = {} => val(c, s) = slots[c][s] OBVIOUS
<1>12. \A c, s : here(c, s) # {} => \E r \in here(c, s) : val(c, s) = r.reply
  <2>. SUFFICES ASSUME NEW c, NEW s, here(c, s) # {}
                PROVE  \E r \in here(c, s) : val(c, s) = r.reply
    OBVIOUS
  <2>. HIDE DEF new, here
  <2>1. (CHOOSE r \in here(c, s) : TRUE) \in here(c, s) OBVIOUS
  <2>. QED BY <2>1
<1>. HIDE DEF new, here, val
<1>5. ASSUME NEW c, NEW s, here(c, s) # {}
      PROVE  \E i \in J : worker.flight[i].client = c /\ worker.flight[i].slot = s
                          /\ val(c, s) = rep[i]
  <2>1. PICK r \in here(c, s) : val(c, s) = r.reply BY <1>5, <1>12
  <2>. QED BY <1>3, <2>1
<1>6. ASSUME NEW c \in Clients, NEW s \in 0 .. RingSize - 1 PROVE val(c, s) \in ReplyType
  <2>1. slots[c][s] \in ReplyType BY <1>2
  <2>2. here(c, s) # {} => \E i \in J : val(c, s) = rep[i] BY <1>5
  <2>. QED BY <1>11, <2>1, <2>2
<1>8. ASSUME NEW c \in Clients, NEW s \in 0 .. RingSize - 1 PROVE slots'[c][s] = val(c, s)
  <2>1. slots'[c] = [x \in 0 .. RingSize - 1 |-> val(c, x)] BY <1>1, Zenon
  <2>. QED BY <2>1, Zenon
<1>9. ASSUME NEW i \in J PROVE slots'[worker.flight[i].client][worker.flight[i].slot] = rep[i]
  <2>1. PICK c \in Clients, s \in 0 .. RingSize - 1 :
          c = worker.flight[i].client /\ s = worker.flight[i].slot
    BY FlightHidden
  <2>2. PICK j \in J : worker.flight[j].client = c /\ worker.flight[j].slot = s
                       /\ val(c, s) = rep[j]
    BY <1>4, <1>5, <2>1
  <2>3. j = i BY <2>1, <2>2 DEF BridgeInvariant, FlightInv
  <2>. QED BY <1>8, <2>1, <2>2, <2>3
<1>10. slots' \in [Clients -> [0 .. RingSize - 1 -> ReplyType]] BY <1>1, <1>6
<1>13. ASSUME NEW c \in Clients, NEW s \in 0 .. RingSize - 1, slots'[c][s] # slots[c][s]
       PROVE  \E i \in J : worker.flight[i].client = c /\ worker.flight[i].slot = s
  BY <1>5, <1>8, <1>11, <1>13
<1>. QED BY <1>9, <1>10, <1>13


\* Responses written for the batch are not seen yet.
LEMMA UnseenWrites ==
  ASSUME OneWorker, BridgeInvariant, Batching, UNCHANGED <<rhead, rtail, asks, got>>,
         slots' \in [Clients -> [0 .. RingSize - 1 -> ReplyType]],
         \A c \in Clients, s \in 0 .. RingSize - 1 :
           slots'[c][s] # slots[c][s] =>
             \E i \in DOMAIN worker.flight :
               worker.flight[i].client = c /\ worker.flight[i].slot = s,
         NEW c \in Clients
  PROVE  ReadInv(c)' /\ Stand(c)' = Stand(c) /\ Visible(c)' = Visible(c)
<1>1. BridgeTypes /\ ReadInv(c) BY DEF BridgeInvariant
<1>2. Visible(c)' = Visible(c) BY DEF Visible
<1>3. Stand(c)' = Stand(c) BY <1>2 DEF Stand
<1>4. ASSUME NEW k \in 0 .. Visible(c) - 1
      PROVE  slots'[c][(rtail[c] + k) % RingSize] = slots[c][(rtail[c] + k) % RingSize]
  <2>1. k \in Nat BY <1>1, Counts
  <2>2. PICK s \in 0 .. RingSize - 1 : s = (rtail[c] + k) % RingSize BY <1>1, <2>1, RingFacts
  <2>3. ~\E i \in DOMAIN worker.flight : worker.flight[i].client = c /\ worker.flight[i].slot = s
    BY <2>2, FlightHidden
  <2>. QED BY <2>2, <2>3
<1>5. ReadInv(c)' BY <1>1, <1>2, <1>3, <1>4 DEF ReadInv
<1>. QED BY <1>2, <1>3, <1>5

\* A step of the engine's poll, which may have written responses of the batch.
LEMMA PollMoves ==
  ASSUME OneWorker, BridgeInvariant, Batching,
         UNCHANGED <<lifeVars, worker, reqs, rhead, rtail, asks, got, hashes>>,
         slots' \in [Clients -> [0 .. RingSize - 1 -> ReplyType]],
         \A c \in Clients, s \in 0 .. RingSize - 1 :
           slots'[c][s] # slots[c][s] =>
             \E i \in DOMAIN worker.flight :
               worker.flight[i].client = c /\ worker.flight[i].slot = s,
         EngineInv'
  PROVE  BridgeInvariant'
<1>1. BridgeTypes /\ FlightInv BY DEF BridgeInvariant
<1>2. UNCHANGED <<state, stopping, shmFlag, bridges>> BY DEF lifeVars
<1>3. BridgeTypes' BY <1>1, <1>2 DEF BridgeTypes
<1>4. FlightInv' BY <1>1 DEF FlightInv, Batching, SlotFor
<1>5. ASSUME NEW c \in Clients PROVE ReadInv(c)' /\ OwedInv(c)' /\ BatchOf(c)'
  <2>1. OwedInv(c) /\ BatchOf(c) BY DEF BridgeInvariant
  <2>2. ReadInv(c)' /\ Stand(c)' = Stand(c) /\ Visible(c)' = Visible(c) BY UnseenWrites
  <2>3. Reserved(c)' = Reserved(c) BY DEF Reserved, Batching
  <2>4. OwedInv(c)' BY <2>1, <2>2, <2>3, OwedKept
  <2>5. BatchOf(c)' BY <2>1, <2>2 DEF BatchOf, Batching, SlotFor
  <2>. QED BY <2>2, <2>4, <2>5
<1>. QED BY <1>3, <1>4, <1>5 DEF BridgeInvariant

\* The ids a batch is given are the next numbers.
LEMMA IdsAre ==
  ASSUME OneClient, LegacyInvariant, NEW n \in Nat, n <= QueueSize, nextId + n <= MaxIds
  PROVE  /\ Ids(n) \in Seq(Nat) /\ Len(Ids(n)) = n /\ DOMAIN Ids(n) = 1 .. n
         /\ \A i \in 1 .. n : Ids(n)[i] = nextId + (i - 1)
<1>1. nextId \in Nat /\ MaxIds \in Nat BY DEF LegacyInvariant, LegacyTypes, OneClient
<1>2. \A i \in 1 .. n : Ids(n)[i] = nextId + (i - 1)
  <2>1. \A i \in 1 .. n : i - 1 \in Nat /\ nextId + (i - 1) <= MaxIds BY <1>1
  <2>2. \A i \in 1 .. n : Plus(nextId, i - 1) = nextId + (i - 1) BY <1>1, <2>1, NoWrap
  <2>. QED BY <2>2 DEF Ids
<1>3. Ids(n) \in [1 .. n -> Nat] BY <1>1, <1>2 DEF Ids
<1>. QED BY <1>2, <1>3

LEMMA SubmitBatchNext ==
  ASSUME OneWorker, BridgeInvariant, SubmitBatch
  PROVE  BridgeInvariant'
<1>. DEFINE n == Len(worker.flight)
            new == [i \in DOMAIN worker.flight |-> worker.flight[i].id]
<1>1. BridgeTypes /\ EngineInv /\ FlightInv BY DEF BridgeInvariant
<1>2. /\ worker.pc = "submit" /\ SubmitCopy(W, n) /\ hashes' = hashes \o new
      /\ worker' = [worker EXCEPT !.pc = "poll"] /\ UNCHANGED <<lifeVars, ringVars>>
  BY DEF SubmitBatch
<1>3. /\ UNCHANGED <<state, stopping, shmFlag, bridges>>
      /\ UNCHANGED <<reqs, rhead, rtail, slots, asks, got>>
  BY <1>2 DEF lifeVars, ringVars
<1>4. /\ worker \in WorkerType /\ worker.flight \in Seq(FlightType) /\ n \in Nat
      /\ DOMAIN worker.flight = 1 .. n /\ Batching
  BY <1>1, <1>2, WorkerIs DEF BridgeTypes, Batching
<1>5. n \in 1 .. BatchMax /\ n <= QueueSize
  <2>1. worker.flight # << >> /\ n <= BatchLimit BY <1>1, <1>2, <1>4 DEF FlightInv
  <2>2. n # 0 BY <1>4, <2>1
  <2>. QED BY <1>4, <2>1, <2>2 DEF OneWorker, OneClient
<1>6. giveUps = 0 /\ LegacyInvariant /\ Len(hashes) = nextId /\ OneClient /\ W \in Callers
  BY <1>1, <1>2 DEF EngineInv, OneWorker
<1>7. LegacyInvariant' BY <1>2, <1>5, <1>6, CopyNext
<1>8. new \in Seq(AskIds) /\ Len(new) = n /\ \A i \in 1 .. n : new[i] = worker.flight[i].id
  <2>1. \A i \in 1 .. n : worker.flight[i] \in FlightType BY <1>4
  <2>2. \A i \in 1 .. n : worker.flight[i].id \in AskIds BY <2>1 DEF FlightType
  <2>3. new \in [1 .. n -> AskIds] BY <1>4, <2>2
  <2>. QED BY <1>4, <2>3
<1>. HIDE DEF n, new
<1>9. nextId + n <= MaxIds /\ nextId \in Nat /\ n \in Nat
  BY <1>2, <1>4, <1>6 DEF SubmitCopy, LegacyInvariant, LegacyTypes
<1>10. /\ Ids(n) \in Seq(Nat) /\ Len(Ids(n)) = n /\ DOMAIN Ids(n) = 1 .. n
       /\ \A i \in 1 .. n : Ids(n)[i] = nextId + (i - 1)
  BY <1>5, <1>6, <1>9, IdsAre
<1>11. call'[W].pc = "head" /\ call'[W].ids = Ids(n) /\ call'[W].got = {}
  <2>1. call' = [call EXCEPT ![W] = [Idle EXCEPT !.pc = "head", !.ids = Ids(n), !.base = counter]]
    BY <1>2 DEF SubmitCopy
  <2>2. LegacyTypes BY <1>6 DEF LegacyInvariant
  <2>. QED BY <1>6, <1>10, <2>1, <2>2, CopyRecord
<1>12. nextId' = nextId + n /\ giveUps' = 0
  BY <1>2, <1>6, <1>9, NoWrap DEF SubmitCopy
<1>13. /\ worker' \in WorkerType /\ worker'.pc = "poll" /\ worker'.flight = worker.flight
       /\ worker'.start = worker.start /\ worker'.count = worker.count
  <2>1. "poll" \in {"gone", "init", "top", "drain", "submit", "poll"} OBVIOUS
  <2>2. PICK e \in WorkerType : e = [worker EXCEPT !.pc = "poll"] BY <1>4, <2>1, WorkerField
  <2>3. /\ e.pc = "poll" /\ e.flight = worker.flight
        /\ e.start = worker.start /\ e.count = worker.count
    BY <1>4, <2>1, <2>2, WorkerField
  <2>. QED BY <1>2, <2>2, <2>3
<1>14. /\ hashes' \in Seq(AskIds) /\ Len(hashes') = nextId + n
       /\ \A i \in 1 .. n : hashes'[nextId + i] = worker.flight[i].id
  <2>1. hashes \in Seq(AskIds) BY <1>1 DEF BridgeTypes
  <2>2. Len(hashes') = nextId + n /\ hashes' \in Seq(AskIds)
    <3>1. hashes \o new \in Seq(AskIds) /\ Len(hashes \o new) = Len(hashes) + Len(new)
      BY <1>8, <2>1
    <3>. QED BY <1>2, <1>6, <1>8, <3>1
  <2>3. \A i \in 1 .. n : hashes'[nextId + i] = new[i]
    <3>1. \A i \in 1 .. n : (hashes \o new)[Len(hashes) + i] = new[i] BY <1>8, <2>1
    <3>. QED BY <1>2, <1>6, <3>1
  <2>. QED BY <1>8, <2>2, <2>3
<1>15. EngineInv'
  <2>1. ~\E x : x \in Answered(W)' BY <1>11 DEF Answered
  <2>2. ASSUME NEW i \in 1 .. n PROVE hashes'[call'[W].ids[i] + 1] = worker.flight[i].id
    <3>1. (nextId + (i - 1)) + 1 = nextId + i BY <1>9
    <3>. QED BY <1>10, <1>11, <1>14, <3>1
  <2>3. bridges' > 0 BY <1>1, <1>2, <1>3 DEF EngineInv
  <2>. QED BY <1>4, <1>7, <1>10, <1>11, <1>12, <1>13, <1>14, <2>1, <2>2, <2>3 DEF EngineInv
<1>16. BridgeTypes' BY <1>1, <1>3, <1>13, <1>14 DEF BridgeTypes
<1>17. Batching' BY <1>13 DEF Batching
<1>18. FlightInv'
  <2>1. worker.flight # << >> BY <1>1, <1>2, <1>4 DEF FlightInv
  <2>. QED BY <1>1, <1>3, <1>4, <1>13, <2>1 DEF FlightInv, SlotFor
<1>19. ASSUME NEW c \in Clients PROVE ReadInv(c)' /\ OwedInv(c)' /\ BatchOf(c)'
  <2>1. ReadInv(c) /\ OwedInv(c) /\ BatchOf(c) BY DEF BridgeInvariant
  <2>2. ReadInv(c)' /\ Stand(c)' = Stand(c) /\ Visible(c)' = Visible(c)
    BY <1>2, <2>1, RingsKept
  <2>3. Reserved(c)' = Reserved(c) BY <1>4, <1>13, <1>17 DEF Reserved
  <2>4. worker.pc # "gone" BY <1>2
  <2>5. OwedInv(c)' BY <1>3, <2>1, <2>2, <2>3, <2>4, OwedKept
  <2>6. BatchOf(c)' BY <1>3, <1>4, <1>13, <1>17, <2>1, <2>2 DEF BatchOf, SlotFor
  <2>. QED BY <2>2, <2>5, <2>6
<1>. QED BY <1>15, <1>16, <1>18, <1>19 DEF BridgeInvariant


\* When the batch fails, the worker leaves error responses nobody sees, and is gone.
LEMMA FaultNext ==
  ASSUME OneWorker, BridgeInvariant, Batching, Fault, EngineInv'
  PROVE  BridgeInvariant'
<1>. DEFINE rep == [i \in Unanswered |-> Reply(worker.flight[i].id, Nothing, "ERR")]
<1>1. BridgeTypes BY DEF BridgeInvariant
<1>2. /\ state' = "FAULTED" /\ worker' = Gone
      /\ UNCHANGED <<stopping, shmFlag, bridges, reqs, rhead, rtail, asks, got, hashes>>
      /\ slots' = WriteSlots({[client |-> worker.flight[i].client, slot |-> worker.flight[i].slot,
                               reply |-> Reply(worker.flight[i].id, Nothing, "ERR")]
                              : i \in Unanswered})
  BY DEF Fault, OneWorker
<1>3. Unanswered \in SUBSET DOMAIN worker.flight BY DEF Unanswered
<1>4. rep \in [Unanswered -> ReplyType]
  <2>1. \A i \in Unanswered : worker.flight[i].id \in AskIds BY <1>3, FlightHidden
  <2>2. Nothing \in AskIds BY DEF Nothing, AskIds
  <2>. QED BY <2>1, <2>2 DEF Reply, ReplyType
<1>5. slots' = WriteSlots({[client |-> worker.flight[i].client, slot |-> worker.flight[i].slot,
                            reply |-> rep[i]] : i \in Unanswered})
  <2>1. \A i \in Unanswered : rep[i] = Reply(worker.flight[i].id, Nothing, "ERR") OBVIOUS
  <2>2. {[client |-> worker.flight[i].client, slot |-> worker.flight[i].slot,
          reply |-> Reply(worker.flight[i].id, Nothing, "ERR")] : i \in Unanswered}
        = {[client |-> worker.flight[i].client, slot |-> worker.flight[i].slot,
            reply |-> rep[i]] : i \in Unanswered}
    BY <2>1
  <2>. QED BY <1>2, <2>2
<1>. HIDE DEF rep
<1>6. /\ slots' \in [Clients -> [0 .. RingSize - 1 -> ReplyType]]
      /\ \A c \in Clients, s \in 0 .. RingSize - 1 :
           slots'[c][s] # slots[c][s] =>
             \E i \in DOMAIN worker.flight :
               worker.flight[i].client = c /\ worker.flight[i].slot = s
  <2>1. PICK J \in SUBSET DOMAIN worker.flight : J = Unanswered BY <1>3
  <2>2. PICK r \in [J -> ReplyType] : r = rep BY <1>4, <2>1
  <2>3. slots' = WriteSlots({[client |-> worker.flight[i].client, slot |-> worker.flight[i].slot,
                              reply |-> r[i]] : i \in J})
    BY <1>5, <2>1, <2>2
  <2>4. /\ slots' \in [Clients -> [0 .. RingSize - 1 -> ReplyType]]
        /\ \A c \in Clients, s \in 0 .. RingSize - 1 :
             slots'[c][s] # slots[c][s] =>
               \E i \in J : worker.flight[i].client = c /\ worker.flight[i].slot = s
    BY <2>3, Written
  <2>. QED BY <2>4
<1>7. worker' \in WorkerType /\ worker'.pc = "gone" /\ ~Batching' BY <1>2, GoneIs DEF Batching
<1>8. BridgeTypes' BY <1>1, <1>2, <1>6, <1>7 DEF BridgeTypes
<1>9. ASSUME NEW c \in Clients PROVE ReadInv(c)' /\ OwedInv(c)' /\ BatchOf(c)'
  <2>1. ReadInv(c)' BY <1>2, <1>6, UnseenWrites
  <2>. QED BY <1>7, <2>1 DEF OwedInv, BatchOf
<1>10. FlightInv' BY <1>7 DEF FlightInv
<1>. QED BY <1>8, <1>9, <1>10 DEF BridgeInvariant

LEMMA SubmitRefusedNext ==
  ASSUME OneWorker, BridgeInvariant, SubmitRefused
  PROVE  BridgeInvariant'
<1>1. worker.pc = "submit" /\ Fault /\ UNCHANGED vars BY DEF SubmitRefused
<1>2. Batching /\ BridgeTypes /\ EngineInv BY <1>1 DEF Batching, BridgeInvariant
<1>3. UNCHANGED <<bridges, hashes>> /\ worker'.pc = "gone" BY <1>1, GoneIs DEF Fault
<1>4. EngineInv'
  <2>1. bridges' \in Nat /\ bridges' >= bridges BY <1>2, <1>3 DEF BridgeTypes
  <2>. QED BY <1>1, <1>2, <1>3, <2>1, EngineIdle
<1>. QED BY <1>1, <1>2, <1>4, FaultNext

LEMMA PollTimeoutNext ==
  ASSUME OneWorker, BridgeInvariant, PollTimeout
  PROVE  BridgeInvariant'
<1>1. worker.pc = "poll" /\ Fault /\ GiveUp(W) BY DEF PollTimeout
<1>2. Batching /\ BridgeTypes /\ EngineInv BY <1>1 DEF Batching, BridgeInvariant
<1>3. UNCHANGED bridges /\ worker'.pc = "gone" BY <1>1, GoneIs DEF Fault
<1>4. giveUps' = giveUps + 1 /\ giveUps < GiveUps /\ giveUps \in Nat
  BY <1>1, <1>2 DEF GiveUp, EngineInv
<1>5. bridges \in Nat /\ bridges > 0 /\ MaxBridges \in Nat BY <1>1, <1>2 DEF EngineInv, BridgeTypes, OneWorker
<1>6. MaxBridges <= 1 BY <1>4 DEF OneWorker
<1>7. EngineInv' BY <1>3, <1>4, <1>5, <1>6 DEF EngineInv
<1>. QED BY <1>1, <1>2, <1>7, FaultNext


\* While the worker polls, the engine is in the call it made.
LEMMA PollState ==
  ASSUME OneWorker, BridgeInvariant, worker.pc = "poll"
  PROVE  /\ Batching /\ BridgeTypes /\ EngineInv /\ FlightInv /\ giveUps = 0
         /\ LegacyInvariant /\ OneClient /\ W \in Callers /\ bridges > 0
         /\ DOMAIN call[W].ids = DOMAIN worker.flight
BY DEF BridgeInvariant, EngineInv, Batching, OneWorker

\* A poll leaves the ids of the batch, and every answer it has is written.
LEMMA PollEngine ==
  ASSUME OneWorker, BridgeInvariant, worker.pc = "poll", LegacyInvariant',
         UNCHANGED <<bridges, worker, hashes, nextId, giveUps>>,
         call'[W].ids = call[W].ids, call'[W].pc # "idle",
         \A i \in DOMAIN worker.flight :
           call[W].ids[i] \in Answered(W)' =>
             Answers(slots'[worker.flight[i].client][worker.flight[i].slot], worker.flight[i].id)
  PROVE  EngineInv'
<1>1. EngineInv /\ giveUps = 0 BY PollState
<1>2. \A i \in DOMAIN worker.flight :
        hashes[call[W].ids[i] + 1] = worker.flight[i].id
  BY <1>1 DEF EngineInv
<1>. QED BY <1>1, <1>2 DEF EngineInv

LEMMA PollWaits ==
  ASSUME OneWorker, BridgeInvariant, worker.pc = "poll",
         SubmitHead(W) \/ SubmitDone(W) \/ PollFlags(W),
         UNCHANGED <<slots, lifeVars, worker, reqs, rhead, rtail, asks, got, hashes>>
  PROVE  BridgeInvariant'
<1>1. /\ Batching /\ BridgeTypes /\ EngineInv /\ LegacyInvariant /\ OneClient /\ W \in Callers
      /\ giveUps = 0
  BY PollState
<1>2. /\ LegacyInvariant' /\ call'[W].ids = call[W].ids /\ call'[W].got = call[W].got
      /\ call'[W].pc # "idle"
  BY <1>1, HeadNext, DoneNext, FlagsNext
<1>3. UNCHANGED <<nextId, giveUps>> BY DEF SubmitHead, SubmitDone, PollFlags, host
<1>4. Answered(W)' = Answered(W) BY <1>2 DEF Answered
<1>5. \A i \in DOMAIN worker.flight :
        call[W].ids[i] \in Answered(W)' =>
          Answers(slots'[worker.flight[i].client][worker.flight[i].slot], worker.flight[i].id)
  BY <1>1, <1>4 DEF EngineInv
<1>6. EngineInv' BY <1>2, <1>3, <1>5, PollEngine DEF lifeVars
<1>7. slots' \in [Clients -> [0 .. RingSize - 1 -> ReplyType]] BY <1>1 DEF BridgeTypes
<1>. QED BY <1>1, <1>6, <1>7, PollMoves

\* The responses fetched are written to the slots of the requests they sign.
LEMMA PollFans ==
  ASSUME OneWorker, BridgeInvariant, worker.pc = "poll", PollFetch(W), slots' = FanOut,
         UNCHANGED <<lifeVars, worker, reqs, rhead, rtail, asks, got, hashes>>
  PROVE  BridgeInvariant'
<1>. DEFINE J == {j \in DOMAIN worker.flight : \E f \in Fetched(W) : f[1] = call[W].ids[j]}
            ans(i) == CHOOSE f \in Fetched(W) : f[1] = call[W].ids[i]
            val(i) == IF ans(i)[2] = NoReq THEN Reply(worker.flight[i].id, Nothing, "ERR")
                      ELSE Reply(worker.flight[i].id, hashes[ans(i)[2] + 1], "OK")
            rep == [i \in J |-> val(i)]
<1>1. /\ Batching /\ BridgeTypes /\ EngineInv /\ LegacyInvariant /\ OneClient /\ W \in Callers
      /\ giveUps = 0 /\ FlightInv /\ DOMAIN call[W].ids = DOMAIN worker.flight
  BY PollState
<1>2. /\ LegacyInvariant' /\ call'[W].ids = call[W].ids
      /\ call'[W].pc # "idle" /\ call'[W].got = call[W].got \union Fetched(W)
  BY <1>1, FetchNext
<1>3. UNCHANGED <<nextId, giveUps, bridges>> BY DEF PollFetch, host, lifeVars
<1>4. \A f \in Fetched(W) : f[2] = f[1]
  <2>1. GotInv(W)' BY <1>1, <1>2 DEF LegacyInvariant
  <2>. QED BY <1>2, <2>1 DEF GotInv
<1>5. ASSUME NEW i \in J PROVE ans(i)[2] = call[W].ids[i]
  <2>1. \E f \in Fetched(W) : f[1] = call[W].ids[i] OBVIOUS
  <2>2. ans(i) \in Fetched(W) /\ ans(i)[1] = call[W].ids[i] BY <2>1
  <2>. QED BY <1>4, <2>2
<1>. HIDE DEF ans
<1>6. ASSUME NEW i \in J PROVE val(i) \in ReplyType /\ Answers(val(i), worker.flight[i].id)
  <2>1. hashes[ans(i)[2] + 1] = worker.flight[i].id BY <1>1, <1>5 DEF EngineInv
  <2>2. worker.flight[i].id \in AskIds /\ Nothing \in AskIds
    BY <1>1, FlightHidden DEF Nothing, AskIds
  <2>. QED BY <2>1, <2>2 DEF Reply, ReplyType, Answers
<1>7. FanOut = WriteSlots({[client |-> worker.flight[i].client, slot |-> worker.flight[i].slot,
                            reply |-> val(i)] : i \in J})
  BY Zenon DEF FanOut, ans
<1>8. \A i \in J : rep[i] = val(i) OBVIOUS
<1>9. rep \in [J -> ReplyType] BY <1>6
<1>10. J \in SUBSET DOMAIN worker.flight OBVIOUS
<1>. HIDE DEF val, rep
<1>11. slots' = WriteSlots({[client |-> worker.flight[i].client, slot |-> worker.flight[i].slot,
                             reply |-> rep[i]] : i \in J})
  <2>1. {[client |-> worker.flight[i].client, slot |-> worker.flight[i].slot,
          reply |-> val(i)] : i \in J}
        = {[client |-> worker.flight[i].client, slot |-> worker.flight[i].slot,
            reply |-> rep[i]] : i \in J}
    BY <1>8
  <2>. QED BY <1>7, <2>1
<1>12. \A x : x \in Answered(W)' => x \in Answered(W) \/ \E f \in Fetched(W) : f[1] = x
  BY <1>2 DEF Answered
<1>13. \A i \in DOMAIN worker.flight :
         call[W].ids[i] \in Answered(W)' => i \in J \/ call[W].ids[i] \in Answered(W)
  BY <1>12
<1>. HIDE DEF J
<1>14. PICK K \in SUBSET DOMAIN worker.flight : K = J BY <1>10
<1>15. PICK r \in [K -> ReplyType] : r = rep BY <1>9, <1>14
<1>16. slots' = WriteSlots({[client |-> worker.flight[i].client, slot |-> worker.flight[i].slot,
                             reply |-> r[i]] : i \in K})
  BY <1>11, <1>14, <1>15
<1>17. /\ slots' \in [Clients -> [0 .. RingSize - 1 -> ReplyType]]
       /\ \A i \in K : slots'[worker.flight[i].client][worker.flight[i].slot] = r[i]
       /\ \A c \in Clients, s \in 0 .. RingSize - 1 :
            slots'[c][s] # slots[c][s] =>
              \E i \in K : worker.flight[i].client = c /\ worker.flight[i].slot = s
  BY <1>1, <1>16, Written
<1>18. ASSUME NEW i \in DOMAIN worker.flight, call[W].ids[i] \in Answered(W)'
       PROVE  Answers(slots'[worker.flight[i].client][worker.flight[i].slot], worker.flight[i].id)
  <2>1. CASE i \in J BY <1>6, <1>8, <1>14, <1>15, <1>17, <2>1
  <2>2. CASE i \notin J
    <3>1. call[W].ids[i] \in Answered(W) BY <1>13, <1>18, <2>2
    <3>2. Answers(slots[worker.flight[i].client][worker.flight[i].slot], worker.flight[i].id)
      BY <1>1, <3>1 DEF EngineInv
    <3>3. PICK c \in Clients, s \in 0 .. RingSize - 1 :
            c = worker.flight[i].client /\ s = worker.flight[i].slot
      BY <1>1, FlightHidden
    <3>4. ~\E j \in K : worker.flight[j].client = c /\ worker.flight[j].slot = s
      BY <1>1, <1>14, <2>2, <3>3 DEF FlightInv
    <3>5. slots'[c][s] = slots[c][s] BY <1>17, <3>4
    <3>. QED BY <3>2, <3>3, <3>5
  <2>. QED BY <2>1, <2>2
<1>19. EngineInv' BY <1>2, <1>3, <1>18, PollEngine
<1>. QED BY <1>1, <1>17, <1>19, PollMoves

LEMMA PollBatchNext ==
  ASSUME OneWorker, BridgeInvariant, PollBatch
  PROVE  BridgeInvariant'
<1>1. worker.pc = "poll" /\ UNCHANGED <<lifeVars, worker, reqs, rhead, rtail, asks, got, hashes>>
  BY DEF PollBatch
<1>2. \/ (SubmitHead(W) \/ SubmitDone(W) \/ PollFlags(W)) /\ UNCHANGED slots
      \/ PollFetch(W) /\ slots' = FanOut
  BY DEF PollBatch
<1>. QED BY <1>1, <1>2, PollWaits, PollFans


\* All of the batch is answered when the call is done.
LEMMA BatchAnswered ==
  ASSUME OneWorker, BridgeInvariant, worker.pc = "poll", call[W].pc = "done",
         NEW c \in Clients, NEW k \in 0 .. worker.count[c] - 1
  PROVE  Answers(slots[c][SlotFor(c, k)], asks[c][Stand(c) + k + 1])
<1>1. Batching /\ EngineInv /\ LegacyInvariant /\ W \in Callers
      /\ DOMAIN call[W].ids = DOMAIN worker.flight
  BY PollState
<1>2. BatchOf(c) BY DEF BridgeInvariant
<1>3. PICK i \in DOMAIN worker.flight :
        /\ worker.flight[i].client = c /\ worker.flight[i].slot = SlotFor(c, k)
        /\ worker.flight[i].id = asks[c][Stand(c) + k + 1]
  BY <1>1, <1>2 DEF BatchOf
<1>4. call[W].ids[i] \in Answered(W)
  <2>1. GotInv(W) BY <1>1 DEF LegacyInvariant
  <2>. QED BY <1>1, <2>1 DEF GotInv
<1>5. Answers(slots[worker.flight[i].client][worker.flight[i].slot], worker.flight[i].id)
  BY <1>1, <1>4 DEF EngineInv
<1>. QED BY <1>3, <1>5

\* The heads move past the batch, each by what it had reserved.
LEMMA PublishBatchNext ==
  ASSUME OneWorker, BridgeInvariant, PublishBatch
  PROVE  BridgeInvariant'
<1>1. /\ worker.pc = "poll" /\ Return(W) /\ rhead' = NewHeads
      /\ worker' = [worker EXCEPT !.pc = "top"]
      /\ UNCHANGED <<lifeVars, reqs, rtail, slots, asks, got, hashes>>
  BY DEF PublishBatch
<1>2. /\ Batching /\ BridgeTypes /\ EngineInv /\ LegacyInvariant /\ OneClient /\ W \in Callers
      /\ giveUps = 0 /\ bridges > 0
  BY <1>1, PollState
<1>3. call[W].pc = "done" /\ call' = [call EXCEPT ![W] = Idle] /\ UNCHANGED <<nextId, giveUps>>
  BY <1>1 DEF Return, host
<1>4. UNCHANGED <<state, stopping, shmFlag, bridges>> BY <1>1 DEF lifeVars
<1>5. worker' \in WorkerType /\ worker'.pc = "top"
  <2>1. "top" \in {"gone", "init", "top", "drain", "submit", "poll"} OBVIOUS
  <2>2. worker \in WorkerType BY <1>2 DEF BridgeTypes
  <2>. QED BY <1>1, <2>1, <2>2, WorkerField
<1>6. ~Batching' BY <1>5 DEF Batching
<1>7. EngineInv'
  <2>1. LegacyInvariant' BY <1>1, <1>2, ReturnNext
  <2>2. call'[W].pc = "idle"
    <3>1. call \in [Callers -> CallType] BY <1>2 DEF LegacyInvariant, LegacyTypes
    <3>2. call'[W] = Idle BY <1>2, <1>3, <3>1
    <3>. QED BY <3>2 DEF Idle
  <2>3. Len(hashes') = nextId' BY <1>1, <1>2, <1>3 DEF EngineInv
  <2>. QED BY <1>2, <1>3, <1>4, <1>5, <2>1, <2>2, <2>3 DEF EngineInv
<1>8. ASSUME NEW c \in Clients
      PROVE  /\ ReadInv(c)' /\ OwedInv(c)' /\ BatchOf(c)' /\ rhead'[c] \in 0 .. RingSize - 1
  <2>1. ReadInv(c) /\ OwedInv(c) /\ BatchOf(c) BY DEF BridgeInvariant
  <2>2. PICK m \in Nat : m = worker.count[c] BY <1>2, Counts
  <2>3. /\ worker.start[c] = rhead[c] /\ Visible(c) + m < RingSize /\ Reserved(c) = m
    BY <1>2, <2>1, <2>2 DEF BatchOf, Reserved
  <2>4. rhead'[c] = SlotFor(c, m)
    <3>1. rhead'[c] = IF m > 0 THEN RespHead(c) ELSE rhead[c]
      BY <1>1, <2>2 DEF NewHeads, OneWorker
    <3>2. RespHead(c) = SlotFor(c, m) BY <2>2, <2>3 DEF RespHead, SlotFor
    <3>3. SlotFor(c, 0) = rhead[c] BY <1>2, RingFacts
    <3>. QED BY <3>1, <3>2, <3>3
  <2>5. /\ Stand(c) \in Nat /\ Len(reqs[c]) \in Nat /\ Len(asks[c]) \in Nat
        /\ asks[c] \in Seq(AskIds)
    BY <1>2, Counts
  <2>6. Len(asks[c]) = Stand(c) + m + Len(reqs[c]) BY <1>1, <2>1, <2>3 DEF OwedInv
  <2>7. Stand(c) + m <= Len(asks[c]) BY <2>5, <2>6
  <2>8. \A k \in 0 .. m - 1 : Answers(slots'[c][SlotFor(c, k)], asks[c][Stand(c) + k + 1])
    BY <1>1, <1>3, <2>2, BatchAnswered
  <2>9. /\ ReadInv(c)' /\ Stand(c)' = Stand(c) + m /\ rhead'[c] \in 0 .. RingSize - 1
    BY <1>1, <1>2, <2>1, <2>3, <2>4, <2>5, <2>7, <2>8, ReadKept
  <2>10. Reserved(c)' = 0 BY <1>6 DEF Reserved
  <2>11. OwedInv(c)'
    <3>1. Stand(c)' + Reserved(c)' = Stand(c) + Reserved(c) BY <2>3, <2>5, <2>9, <2>10
    <3>. QED BY <1>1, <2>1, <2>10, <3>1, OwedKept
  <2>12. BatchOf(c)' BY <1>6 DEF BatchOf
  <2>. QED BY <2>9, <2>11, <2>12
<1>9. BridgeTypes'
  <2>1. rhead' = [c \in Clients |-> rhead'[c]] BY <1>1 DEF NewHeads
  <2>2. rhead' \in [Clients -> 0 .. RingSize - 1] BY <1>8, <2>1
  <2>. QED BY <1>1, <1>2, <1>4, <1>5, <2>2 DEF BridgeTypes
<1>10. FlightInv' BY <1>6 DEF FlightInv
<1>. QED BY <1>7, <1>8, <1>9, <1>10 DEF BridgeInvariant


\* The engine moves under a bridge that stands still.
LEMMA EngineMovesNext ==
  ASSUME OneWorker, BridgeInvariant, EngineMoves
  PROVE  BridgeInvariant'
<1>1. /\ BridgeTypes /\ EngineInv /\ FlightInv /\ OneClient BY DEF BridgeInvariant, OneWorker
<1>2. /\ UNCHANGED <<lifeVars, worker, ringVars, hashes>>
      /\ Engine \/ Start \/ ShutdownBegin \/ ShutdownEnd
  BY DEF EngineMoves
<1>3. UNCHANGED <<state, stopping, shmFlag, bridges, reqs, rhead, rtail, slots, asks, got>>
  BY <1>2 DEF lifeVars, ringVars
<1>4. UNCHANGED <<nextId, call, giveUps>>
  <2>1. CASE Engine
    BY <2>1 DEF Engine, KernelTake, KernelAnswer, KernelAdvance, KernelExit, host
  <2>2. CASE Start BY <2>2 DEF Start
  <2>3. CASE ShutdownBegin BY <2>3 DEF ShutdownBegin, host
  <2>4. CASE ShutdownEnd BY <2>4 DEF ShutdownEnd
  <2>. QED BY <1>2, <2>1, <2>2, <2>3, <2>4
<1>5. EngineInv'
  <2>1. giveUps = 0 => LegacyInvariant'
    <3>1. SUFFICES ASSUME giveUps = 0 PROVE LegacyInvariant' OBVIOUS
    <3>2. LegacyInvariant BY <1>1, <3>1 DEF EngineInv
    <3>3. Next BY <1>2 DEF Next
    <3>4. giveUps' = 0 BY <1>4, <3>1
    <3>. QED BY <1>1, <3>2, <3>3, <3>4, LegacyNext
  <2>2. Answered(W)' = Answered(W) BY <1>4 DEF Answered
  <2>. QED BY <1>1, <1>2, <1>3, <1>4, <2>1, <2>2 DEF EngineInv
<1>6. BridgeTypes' BY <1>1, <1>2, <1>3 DEF BridgeTypes
<1>7. FlightInv' BY <1>1, <1>2, <1>3 DEF FlightInv, Batching, SlotFor
<1>8. ASSUME NEW c \in Clients PROVE ReadInv(c)' /\ OwedInv(c)' /\ BatchOf(c)'
  <2>1. ReadInv(c) /\ OwedInv(c) /\ BatchOf(c) BY DEF BridgeInvariant
  <2>2. ReadInv(c)' /\ Stand(c)' = Stand(c) /\ Visible(c)' = Visible(c) BY <1>2, <2>1, RingsKept
  <2>3. Reserved(c)' = Reserved(c) BY <1>2 DEF Reserved, Batching
  <2>4. OwedInv(c)' BY <1>2, <1>3, <2>1, <2>2, <2>3, OwedKept
  <2>5. BatchOf(c)' BY <1>2, <1>3, <2>1, <2>2 DEF BatchOf, Batching, SlotFor
  <2>. QED BY <2>2, <2>4, <2>5
<1>. QED BY <1>5, <1>6, <1>7, <1>8 DEF BridgeInvariant

\* Nothing moves.
LEMMA BridgeStutter ==
  ASSUME BridgeInvariant, UNCHANGED bvars
  PROVE  BridgeInvariant'
<1>1. BridgeTypes /\ EngineInv /\ FlightInv BY DEF BridgeInvariant
<1>2. UNCHANGED <<vars, lifeVars, worker, ringVars, hashes>> BY DEF bvars
<1>3. UNCHANGED <<state, stopping, shmFlag, bridges, reqs, rhead, rtail, slots, asks, got>>
  BY <1>2 DEF lifeVars, ringVars
<1>4. EngineInv' BY <1>1, <1>2, <1>3, EngineSame
<1>5. BridgeTypes' BY <1>1, <1>2, <1>3 DEF BridgeTypes
<1>6. FlightInv' BY <1>1, <1>2, <1>3 DEF FlightInv, Batching, SlotFor
<1>7. ASSUME NEW c \in Clients PROVE ReadInv(c)' /\ OwedInv(c)' /\ BatchOf(c)'
  <2>1. ReadInv(c) /\ OwedInv(c) /\ BatchOf(c) BY DEF BridgeInvariant
  <2>2. ReadInv(c)' /\ Stand(c)' = Stand(c) /\ Visible(c)' = Visible(c) BY <1>2, <2>1, RingsKept
  <2>3. Reserved(c)' = Reserved(c) BY <1>2 DEF Reserved, Batching
  <2>4. OwedInv(c)' BY <1>2, <1>3, <2>1, <2>2, <2>3, OwedKept
  <2>5. BatchOf(c)' BY <1>2, <1>3, <2>1, <2>2 DEF BatchOf, Batching, SlotFor
  <2>. QED BY <2>2, <2>4, <2>5
<1>. QED BY <1>4, <1>5, <1>6, <1>7 DEF BridgeInvariant

LEMMA BridgeNextInv ==
  ASSUME OneWorker, BridgeInvariant, BridgeNext
  PROVE  BridgeInvariant'
<1>1. CASE Worker
  <2>1. ASSUME NEW ok \in BOOLEAN, WorkerInit(ok) PROVE BridgeInvariant'
    BY <2>1, WorkerInitNext
  <2>2. CASE WorkerExit \/ Begin \/ DrainNext
    BY <2>2, WorkerExitNext, BeginNext, NextClient
  <2>3. ASSUME NEW c \in Clients, DrainSign(c) \/ DrainOther(c) PROVE BridgeInvariant'
    BY <2>3, DrainSignNext, DrainOtherNext
  <2>4. CASE SubmitBatch \/ SubmitRefused BY <2>4, SubmitBatchNext, SubmitRefusedNext
  <2>5. CASE PollBatch \/ PollTimeout \/ PublishBatch
    BY <2>5, PollBatchNext, PollTimeoutNext, PublishBatchNext
  <2>. QED BY <1>1, <2>1, <2>2, <2>3, <2>4, <2>5 DEF Worker
<1>2. CASE EngineMoves BY <1>2, EngineMovesNext
<1>3. CASE BridgeStart \/ BridgeStop BY <1>3, BridgeStartNext, BridgeStopNext
<1>4. ASSUME NEW c \in Clients, Read(c) PROVE BridgeInvariant' BY <1>4, ReadNext
<1>5. ASSUME NEW c \in Clients, NEW op \in Ops, Ask(c, op) PROVE BridgeInvariant'
  BY <1>5, AskNext
<1>. QED BY <1>1, <1>2, <1>3, <1>4, <1>5 DEF BridgeNext

\* The invariant says what a client reads and what the bridge owes him.
LEMMA BridgeAnswer ==
  ASSUME OneWorker, BridgeInvariant
  PROVE  AnsweredInOrder /\ NothingOwed
<1>1. BridgeTypes BY DEF BridgeInvariant
<1>2. ASSUME NEW c \in Clients, NEW i \in DOMAIN got[c]
      PROVE  i <= Len(asks[c]) /\ got[c][i].id = asks[c][i] /\ got[c][i].sig \in {Nothing, asks[c][i]}
  <2>1. ReadInv(c) BY DEF BridgeInvariant
  <2>2. /\ Stand(c) = Len(got[c]) + Visible(c) /\ Visible(c) \in Nat /\ Len(got[c]) \in Nat
        /\ Len(asks[c]) \in Nat /\ i \in 1 .. Len(got[c])
    BY <1>1, Counts
  <2>3. Stand(c) <= Len(asks[c]) /\ Answers(got[c][i], asks[c][i]) BY <2>1, <2>2 DEF ReadInv
  <2>. QED BY <2>2, <2>3 DEF Answers
<1>3. ASSUME worker.pc = "top", NEW c \in Clients
      PROVE  Len(asks[c]) = Len(got[c]) + Len(reqs[c]) + Visible(c)
  <2>1. OwedInv(c) BY DEF BridgeInvariant
  <2>2. Reserved(c) = 0 BY <1>3 DEF Reserved, Batching
  <2>3. /\ Stand(c) = Len(got[c]) + Visible(c) /\ Visible(c) \in Nat /\ Len(got[c]) \in Nat
        /\ Len(reqs[c]) \in Nat
    BY <1>1, Counts
  <2>4. Len(asks[c]) = Stand(c) + Reserved(c) + Len(reqs[c]) BY <1>3, <2>1 DEF OwedInv
  <2>5. PICK g \in Nat, v \in Nat, r \in Nat :
          g = Len(got[c]) /\ v = Visible(c) /\ r = Len(reqs[c])
    BY <2>3
  <2>6. Len(asks[c]) = (g + v) + 0 + r BY <2>2, <2>3, <2>4, <2>5
  <2>7. (g + v) + 0 + r = g + r + v OBVIOUS
  <2>. QED BY <2>5, <2>6, <2>7
<1>. QED BY <1>2, <1>3 DEF AnsweredInOrder, NothingOwed

\* The inductive invariant of the bridge over the engine: the four stretches of
\* what a client asked, and each id of the engine tied to the request it signs.
THEOREM BridgeInvariantHolds ==
  ASSUME OneWorker
  PROVE  BridgeSpec => []BridgeInvariant
<1>1. BridgeInvariant /\ [BridgeNext]_bvars => BridgeInvariant' BY BridgeNextInv, BridgeStutter
<1>. QED BY <1>1, BridgeInitInv, PTL DEF BridgeSpec

\* Each client of the multi-client bridge reads the responses to its requests in
\* the order it made them, and between two batches nothing it asked is lost.
THEOREM BridgeAnswersRight ==
  ASSUME OneWorker
  PROVE  BridgeSpec => [](AnsweredInOrder /\ NothingOwed)
<1>1. BridgeInvariant => AnsweredInOrder /\ NothingOwed BY BridgeAnswer
<1>. QED BY <1>1, BridgeInvariantHolds, PTL
=============================================================================

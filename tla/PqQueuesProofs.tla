---------------------------- MODULE PqQueuesProofs ----------------------------
(* The post-quantum queues keep their inductive invariant: whatever fails and *)
(* however often the slots of the slab are reused, an SLH-DSA call gets its   *)
(* own signatures and the kernel runs again after a flush unless the start of *)
(* it fails.  Every answer points at its own signature until a slot is given  *)
(* away that is still named, so at least during the first lap of the slot     *)
(* counter.                                                                   *)
EXTENDS PqQueuesInv, WellFoundedInduction, FiniteSetTheorems, TLAPS

-----------------------------------------------------------------------------
(* Modular arithmetic: consecutive slots of a ring buffer are distinct. *)

\* Quotient and remainder of any integer.
LEMMA DivMod ==
  ASSUME NEW n \in Nat \ {0}, NEW a \in Int
  PROVE  a \div n \in Int /\ a = n * (a \div n) + (a % n) /\ a % n \in 0 .. n - 1
  OBVIOUS

\* The only multiple of n strictly between -n and n is 0.
LEMMA MultBound ==
  ASSUME NEW n \in Nat \ {0}, NEW x \in Int, n * x > -n, n * x < n
  PROVE  x = 0
<1>1. CASE x >= 1
  <2>1. n * x >= n BY <1>1
  <2>. QED BY <2>1
<1>2. CASE x <= -1
  <2>1. n * x <= -n BY <1>2
  <2>. QED BY <2>1
<1>. QED BY <1>1, <1>2

\* Two numbers less than n apart have different remainders: n consecutive
\* positions of a ring buffer of n slots use each slot once.
LEMMA ModInj ==
  ASSUME NEW n \in Nat \ {0}, NEW a \in Int, NEW b \in Int, a < b, b - a < n
  PROVE  a % n # b % n
<1>. SUFFICES ASSUME a % n = b % n PROVE FALSE OBVIOUS
<1>. DEFINE q == a \div n  p == b \div n
<1>1. a = n * q + (a % n) /\ b = n * p + (a % n) /\ q \in Int /\ p \in Int BY DivMod
<1>2. n * (p - q) = b - a BY <1>1
<1>3. p - q = 0 BY <1>1, <1>2, MultBound
<1>. QED BY <1>2, <1>3

-----------------------------------------------------------------------------
(* Sequences *)

\* What the library's sequences are as functions, for the provers.
LEMMA EmptySeq == ASSUME NEW S PROVE <<>> \in Seq(S)
  OBVIOUS

LEMMA FunSeq ==
  ASSUME NEW S, NEW n \in Nat, NEW f, f \in [1 .. n -> S]
  PROVE  f \in Seq(S) /\ Len(f) = n
  OBVIOUS

LEMMA SeqFun ==
  ASSUME NEW S, NEW s \in Seq(S)
  PROVE  DOMAIN s = 1 .. Len(s) /\ Len(s) \in Nat /\ \A k \in DOMAIN s : s[k] \in S
  OBVIOUS

\* Any choice of a sequence's places is finite.
LEMMA FinitePlaces ==
  ASSUME NEW S, NEW s \in Seq(S), NEW T \in SUBSET DOMAIN s
  PROVE  IsFiniteSet(T) /\ Cardinality(T) \in Nat
<1>1. PICK n \in Int : n = Len(s) BY SeqFun
<1>2. 1 \in Int OBVIOUS
<1>3. IsFiniteSet(1 .. n) BY <1>2, FS_Interval
<1>4. DOMAIN s = 1 .. n BY <1>1, SeqFun
<1>5. IsFiniteSet(DOMAIN s) BY <1>3, <1>4
<1>6. IsFiniteSet(T) BY <1>5, FS_Subset
<1>. QED BY <1>6, FS_CardinalityType

LEMMA NonEmpty ==
  ASSUME NEW S, NEW s \in Seq(S), s # <<>>
  PROVE  1 \in DOMAIN s /\ s[1] \in S /\ Head(s) = s[1] /\ Tail(s) \in Seq(S) /\ Len(s) >= 1
  OBVIOUS

LEMMA Appended ==
  ASSUME NEW S, NEW s \in Seq(S), NEW e \in S
  PROVE  /\ DOMAIN s \subseteq DOMAIN Append(s, e) /\ Len(Append(s, e)) = Len(s) + 1
         /\ \A k \in DOMAIN Append(s, e) :
              \/ k \in DOMAIN s /\ Append(s, e)[k] = s[k]
              \/ k = Len(s) + 1 /\ Append(s, e)[k] = e
  OBVIOUS

LEMMA TailOf ==
  ASSUME NEW S, NEW s \in Seq(S), s # <<>>
  PROVE  /\ 1 \in DOMAIN s /\ Head(s) = s[1]
         /\ \A k \in DOMAIN Tail(s) : k + 1 \in DOMAIN s /\ Tail(s)[k] = s[k + 1]
  OBVIOUS

LEMMA Joined ==
  ASSUME NEW S, NEW s \in Seq(S), NEW t \in Seq(S)
  PROVE  \A k \in DOMAIN (s \o t) :
           \/ k \in DOMAIN s /\ (s \o t)[k] = s[k]
           \/ k - Len(s) \in DOMAIN t /\ (s \o t)[k] = t[k - Len(s)]
  OBVIOUS

\* A set of numbers up to n that is not empty has a greatest.
LEMMA GreatestExists ==
  ASSUME NEW n \in Nat, NEW T, T \subseteq 1 .. n, T # {}
  PROVE  \E k \in T : \A j \in T : j <= k
<1>. DEFINE L == OpToRel(<, Nat)  U == {n - k : k \in T}
<1>1. IsWellFoundedOn(L, Nat) BY NatLessThanWellFounded
<1>2. \A x, y \in Nat : y < x => <<y, x>> \in L BY Zenon DEF OpToRel
<1>. HIDE DEF L
<1>3. U \subseteq Nat /\ U # {}
  <2>1. PICK t : t \in T OBVIOUS
  <2>2. n - t \in U BY <2>1
  <2>. QED BY <2>2
<1>. HIDE DEF U
<1>4. PICK x \in U : \A y \in U : ~ (<<y, x>> \in L) BY <1>1, <1>3, WFMin
<1>5. \A y \in U : ~ (y < x) BY <1>2, <1>3, <1>4
<1>6. PICK k \in T : x = n - k BY <1>4 DEF U
<1>7. \A j \in T : j <= k
  <2>. SUFFICES ASSUME NEW j \in T PROVE j <= k OBVIOUS
  <2>1. n - j \in U BY DEF U
  <2>. QED BY <1>5, <1>6, <2>1
<1>. QED BY <1>7

\* So the CHOOSE of WithSignatures picks the last lane that signs into a slot.
LEMMA GreatestOf ==
  ASSUME NEW n \in Nat, NEW T, T \subseteq 1 .. n, T # {}
  PROVE  (CHOOSE k \in T : \A j \in T : j <= k) \in T
  BY GreatestExists

\* The initial state is well typed, and has every other part of the invariants.
LEMMA InitTypes ==
  ASSUME PqAssumption, Init
  PROVE  TypeInv
<1>1. NoJob \in JobType BY EmptySeq DEF NoJob, JobType
<1>2. NoCall \in CallType BY EmptySeq DEF NoCall, CallType
<1>3. sigs \in [0 .. SigSlots - 1 -> SigType] BY DEF Init, NoSig, SigType
<1>4. mlKey \in [KeySlots -> MlKeyType] BY DEF Init, MlKeyType
<1>5. slhKey \in [KeySlots -> SlhType] BY DEF Init, SlhType
<1>6. queue \in [Algs -> Seq(ReqType)] BY EmptySeq DEF Init
<1>. QED BY <1>1, <1>2, <1>3, <1>4, <1>5, <1>6, EmptySeq DEF Init, TypeInv

LEMMA InitRest ==
  ASSUME PqAssumption, Init
  PROVE  /\ ThreadInv /\ RunInv /\ FlushInv /\ QueueInv /\ LengthInv
         /\ DetInv /\ IdInv /\ OrderInv /\ BatchInv /\ DownInv /\ RouteInv
         /\ SlotInv /\ Places = {}
<1>. USE DEF Init, NoJob, NoCall
<1>1. ThreadInv BY DEF ThreadInv, Algs, Msgs
<1>2. RunInv BY DEF RunInv, Up, InSlhCall
<1>3. FlushInv BY DEF FlushInv
<1>4. QueueInv BY DEF QueueInv, Algs
<1>11. LengthInv
  <2>1. \A a \in Algs : Len(queue[a]) = 0 BY DEF Algs
  <2>. QED BY <2>1 DEF LengthInv, PqAssumption
<1>5. DetInv BY DEF DetInv
<1>6. IdInv BY DEF IdInv, Algs
<1>7. OrderInv BY DEF OrderInv, InSlhCall
<1>12. BatchInv /\ DownInv BY DEF BatchInv, DownInv, InSlhCall
<1>8. RouteInv BY DEF RouteInv, SlhRouted, InSlhCall
<1>9. Places = {} BY DEF Places, PlacesOf, AnswersOf, Algs
<1>10. SlotInv BY <1>9 DEF SlotInv, OneOwner, PostedIsOwn
<1>. QED BY <1>1, <1>2, <1>3, <1>4, <1>5, <1>6, <1>7, <1>8, <1>9, <1>10, <1>11, <1>12
-----------------------------------------------------------------------------

\* Every step keeps the types; one named step per action.
LEMMA NextTypes ==
  ASSUME PqAssumption, TypeInv, ThreadInv, FlushInv, Next
  PROVE  TypeInv'
<1>. USE DEF TypeInv
<1>1. ASSUME ClientStop \/ ClientStart PROVE TypeInv'
  BY <1>1, EmptySeq DEF ClientStop, ClientStart
<1>2. ASSUME RingSubmit PROVE TypeInv' BY <1>2 DEF RingSubmit
<1>3. ASSUME KernelAnswer PROVE TypeInv'
  <2>1. PICK rid \in ring : cq' = Append(cq, Response([rid |-> rid, alg |-> "ring"], "OK", 0))
                            /\ ring' = ring \ {rid}
    BY <1>3 DEF KernelAnswer
  <2>2. Response([rid |-> rid, alg |-> "ring"], "OK", 0) \in RespType 
    BY DEF Response, RespType, PqAssumption
  <2>3. cq' \in Seq(RespType) BY <2>1, <2>2
  <2>. QED BY <1>3, <2>1, <2>3 DEF KernelAnswer
<1>4. ASSUME ClientPoll PROVE TypeInv'
  <2>1. cq' \in Seq(RespType) BY <1>4 DEF ClientPoll
  <2>. QED BY <1>4, <2>1 DEF ClientPoll
<1>5. ASSUME NEW s \in KeySlots, NEW m \in Modes, NEW ok \in BOOLEAN, NEW started \in BOOLEAN,
             LoadMldsaKey(s, m, ok, started)
      PROVE  TypeInv'
  <2>1. PICK k : k = IF ok THEN [valid |-> TRUE, mode |-> m, load |-> loads + 1]
                     ELSE [mlKey[s] EXCEPT !.valid = FALSE]
    OBVIOUS
  <2>2. k \in MlKeyType
    <3>1. mlKey[s] \in MlKeyType OBVIOUS
    <3>2. [mlKey[s] EXCEPT !.valid = FALSE] \in MlKeyType BY <3>1 DEF MlKeyType
    <3>3. [valid |-> TRUE, mode |-> m, load |-> loads + 1] \in MlKeyType BY DEF MlKeyType
    <3>. QED BY <2>1, <3>2, <3>3
  <2>3. mlKey' = [mlKey EXCEPT ![s] = k] BY <1>5, <2>1 DEF LoadMldsaKey
  <2>4. mlKey' \in [KeySlots -> MlKeyType] BY <2>2, <2>3
  <2>5. ring' \subseteq Nat /\ cq' \in Seq(RespType) BY <1>5, EmptySeq DEF LoadMldsaKey
  <2>. QED BY <1>5, <2>4, <2>5 DEF LoadMldsaKey, Restarted
<1>6. ASSUME NEW s \in KeySlots, NEW ok \in BOOLEAN, LoadSlhKey(s, ok) PROVE TypeInv'
  <2>1. PICK k : k = IF ok THEN [loaded |-> TRUE, intact |-> TRUE, load |-> loads + 1]
                     ELSE [slhKey[s] EXCEPT !.loaded = FALSE]
    OBVIOUS
  <2>2. k \in SlhType
    <3>1. slhKey[s] \in SlhType OBVIOUS
    <3>2. [slhKey[s] EXCEPT !.loaded = FALSE] \in SlhType BY <3>1 DEF SlhType
    <3>3. [loaded |-> TRUE, intact |-> TRUE, load |-> loads + 1] \in SlhType BY DEF SlhType
    <3>. QED BY <2>1, <3>2, <3>3
  <2>3. slhKey' = [slhKey EXCEPT ![s] = k] BY <1>6, <2>1 DEF LoadSlhKey
  <2>4. slhKey' \in [KeySlots -> SlhType] BY <2>2, <2>3
  <2>. QED BY <1>6, <2>4 DEF LoadSlhKey
<1>7. ASSUME NEW s \in KeySlots, CorruptMirror(s) PROVE TypeInv'
  <2>1. [slhKey[s] EXCEPT !.intact = FALSE] \in SlhType BY DEF SlhType
  <2>2. slhKey' \in [KeySlots -> SlhType] BY <1>7, <2>1 DEF CorruptMirror
  <2>. QED BY <1>7, <2>2 DEF CorruptMirror
<1>8. \A a \in Algs : StartFlush(a) \in JobType
  BY EmptySeq DEF StartFlush, NoJob, JobType
<1>9. NoJob \in JobType BY EmptySeq DEF NoJob, JobType
<1>10. NoCall \in CallType BY EmptySeq DEF NoCall, CallType
<1>11. ASSUME Enqueue PROVE TypeInv'
  <2>1. pending[1] \in ReqType /\ pending[1].alg \in Algs 
    <3>1. pending \in Seq(ReqType) /\ pending # <<>> BY <1>11 DEF Enqueue
    <3>2. pending[1] \in ReqType BY <3>1, NonEmpty
    <3>. QED BY <3>2 DEF ReqType
  <2>. DEFINE q == Append(queue[pending[1].alg], pending[1])
  <2>2. q \in Seq(ReqType) BY <2>1
  <2>3. queue' = [queue EXCEPT ![pending[1].alg] = q] BY <1>11 DEF Enqueue
  <2>4. queue' \in [Algs -> Seq(ReqType)] BY <2>1, <2>2, <2>3
  <2>5. job' = NoJob \/ job' = [NoJob EXCEPT !.alg = pending[1].alg, !.at = "begin", !.batch = q]
    BY <1>11 DEF Enqueue
  <2>. HIDE DEF q
  <2>6. job' \in JobType BY <1>9, <2>1, <2>2, <2>5 DEF JobType
  <2>. QED BY <1>11, <2>4, <2>6, EmptySeq DEF Enqueue
<1>12. ASSUME NEW n \in Nat, FlushDone(n), job.alg \in Algs
       PROVE  queue' \in [Algs -> Seq(ReqType)] /\ job' \in JobType /\ call' \in CallType
  BY <1>12, <1>9, EmptySeq DEF FlushDone, CallType
<1>13. job.at # "idle" => job.alg \in Algs
  BY DEF ThreadInv, AlgOf, Algs
<1>14. ASSUME FlushRefuse PROVE TypeInv'
  <2>1. FlushDone(0) /\ job.alg \in Algs BY <1>13, <1>14 DEF FlushRefuse
  <2>. QED BY <1>12, <1>14, <2>1 DEF FlushRefuse
<1>15. ASSUME FlushStop PROVE TypeInv'
  <2>1. job' \in JobType BY <1>15 DEF FlushStop, JobType
  <2>. QED BY <1>15, <2>1 DEF FlushStop
<1>16. ASSUME SignMldsa PROVE TypeInv'
  <2>1. PICK lanes \in [DOMAIN job.batch -> BOOLEAN] \cup {<<>>} :
          job' = [job EXCEPT !.at = "signed", !.lanes = lanes]
    BY <1>16 DEF SignMldsa
  <2>2. job.batch \in Seq(ReqType) BY DEF JobType
  <2>3. lanes \in Seq(BOOLEAN)
    <3>1. DOMAIN job.batch = 1 .. Len(job.batch) /\ Len(job.batch) \in Nat BY <2>2, SeqFun
    <3>2. CASE lanes = <<>> BY <3>2, EmptySeq
    <3>3. CASE lanes \in [1 .. Len(job.batch) -> BOOLEAN] BY <3>1, <3>3, FunSeq
    <3>. QED BY <2>1, <3>1, <3>2, <3>3
  <2>4. job' \in JobType BY <2>1, <2>3 DEF JobType
  <2>. QED BY <1>16, <2>4 DEF SignMldsa
<1>17. ASSUME NEW batch \in Seq(ReqType), NEW lanes, NEW det \in BOOLEAN
       PROVE  WithSignatures(batch, lanes, det) \in [0 .. SigSlots - 1 -> SigType]
  <2>. SUFFICES ASSUME NEW o \in 0 .. SigSlots - 1
                PROVE  WithSignatures(batch, lanes, det)[o] \in SigType
    BY DEF WithSignatures
  <2>. DEFINE here == {k \in DOMAIN batch : batch[k].off = o /\ lanes[k]}
              top  == CHOOSE k \in here : \A j \in here : j <= k
  <2>1. WithSignatures(batch, lanes, det)[o] =
          IF here = {} THEN sigs[o] ELSE Signature(batch[top], det)
    BY DEF WithSignatures
  <2>2. here # {} => top \in here
    <3>. SUFFICES ASSUME here # {} PROVE top \in here OBVIOUS
    <3>1. here \subseteq 1 .. Len(batch) /\ Len(batch) \in Nat BY SeqFun
    <3>. HIDE DEF here
    <3>. QED BY <3>1, GreatestOf
  <2>. HIDE DEF top
  <2>3. ASSUME here # {} PROVE Signature(batch[top], det) \in SigType
    <3>1. batch[top] \in ReqType BY <2>2, <2>3, SeqFun
    <3>2. batch[top].rid \in Nat /\ batch[top].slot \in KeySlots BY <3>1 DEF ReqType
    <3>3. mlKey[batch[top].slot] \in MlKeyType /\ slhKey[batch[top].slot] \in SlhType BY <3>2
    <3>4. mlKey[batch[top].slot].load \in Nat /\ slhKey[batch[top].slot].load \in Nat
      BY <3>3 DEF MlKeyType, SlhType
    <3>. QED BY <3>2, <3>4 DEF Signature, SigType
  <2>. QED BY <2>1, <2>3
<1>18. ASSUME SignSlh PROVE TypeInv'
  <2>. DEFINE s == job.batch[1].slot  lanes == SlhLanes(job.batch)
  <2>1. job.batch \in Seq(ReqType) /\ job.batch # <<>> BY <1>18 DEF JobType, FlushInv, SignSlh
  <2>2. s \in KeySlots
    <3>1. job.batch[1] \in ReqType BY <2>1, NonEmpty
    <3>. QED BY <3>1 DEF ReqType
  <2>3. lanes \in Seq(BOOLEAN)
    <3>1. slhKey[s].intact \in BOOLEAN
      <4>1. slhKey[s] \in SlhType BY <2>2
      <4>. QED BY <4>1 DEF SlhType
    <3>2. DOMAIN job.batch = 1 .. Len(job.batch) /\ Len(job.batch) \in Nat BY <2>1, SeqFun
    <3>3. lanes \in [1 .. Len(job.batch) -> BOOLEAN] BY <3>1, <3>2 DEF SlhLanes
    <3>. QED BY <3>2, <3>3, FunSeq
  <2>. HIDE DEF lanes
  <2>4. job' = [job EXCEPT !.at = "signed", !.lanes = lanes] \/ job' = [job EXCEPT !.at = "signed"]
    BY <1>18 DEF SignSlh, lanes
  <2>5. job' \in JobType BY <2>3, <2>4 DEF JobType
  <2>6. sigs' = sigs \/ \E copied : sigs' = WithSignatures(job.batch, copied, FALSE)
    BY <1>18 DEF SignSlh, lanes
  <2>7. sigs' \in [0 .. SigSlots - 1 -> SigType]
    <3>1. FALSE \in BOOLEAN OBVIOUS
    <3>2. \A copied : WithSignatures(job.batch, copied, FALSE) \in [0 .. SigSlots - 1 -> SigType]
      BY <1>17, <2>1, <3>1
    <3>. QED BY <2>6, <3>2
  <2>8. slhKey' \in [KeySlots -> SlhType]
    <3>1. PICK b : b = (slhKey[s].loaded /\ \A k \in DOMAIN lanes : lanes[k]) OBVIOUS
    <3>2. b \in BOOLEAN BY <3>1, <2>2 DEF SlhType
    <3>3. [slhKey[s] EXCEPT !.loaded = b] \in SlhType
      <4>1. slhKey[s] \in SlhType BY <2>2
      <4>. QED BY <3>2, <4>1 DEF SlhType
    <3>4. slhKey' = [slhKey EXCEPT ![s] = [slhKey[s] EXCEPT !.loaded = b]] \/ slhKey' = slhKey
      BY <1>18, <3>1, <2>2 DEF SignSlh, lanes
    <3>. QED BY <3>3, <3>4
  <2>. QED BY <1>18, <2>5, <2>7, <2>8 DEF SignSlh
<1>19. ASSUME FlushRestart PROVE TypeInv'
  <2>1. job' \in JobType BY <1>19 DEF FlushRestart, JobType
  <2>2. ring' \subseteq Nat /\ cq' \in Seq(RespType) BY <1>19, EmptySeq DEF FlushRestart
  <2>3. running' \in BOOLEAN /\ startFailed' \in BOOLEAN
    BY <1>19 DEF FlushRestart, Restarted, RestartsKernel, JobType
  <2>. QED BY <1>19, <2>1, <2>2, <2>3 DEF FlushRestart
<1>20. ASSUME FlushPost PROVE TypeInv'
  <2>1. /\ job.batch \in Seq(ReqType) /\ job.batch # <<>> /\ job.lanes \in Seq(BOOLEAN)
        /\ job.alg \in Algs /\ DOMAIN job.lanes = DOMAIN job.batch
    BY <1>13, <1>20 DEF JobType, FlushInv, FlushPost
  <2>2. Responses \in Seq(RespType)
    <3>1. DOMAIN job.batch = 1 .. Len(job.batch) /\ Len(job.batch) \in Nat BY <2>1, SeqFun
    <3>2. ASSUME NEW k \in DOMAIN job.batch PROVE Responses[k] \in RespType
      <4>1. job.batch[k] \in ReqType BY <2>1, SeqFun
      <4>. QED BY <4>1 DEF Responses, Response, RespType, ReqType, FailStatus
    <3>3. DOMAIN Responses = DOMAIN job.batch BY DEF Responses
    <3>4. Responses \in [1 .. Len(job.batch) -> RespType] BY <3>1, <3>2, <3>3 DEF Responses
    <3>. QED BY <3>1, <3>4, FunSeq
  <2>3. cq' \in Seq(RespType) BY <1>20, <2>2 DEF FlushPost
  <2>4. Deterministic(job.batch) \in BOOLEAN
    <3>1. job.batch[1] \in ReqType BY <2>1, NonEmpty
    <3>. QED BY <3>1 DEF Deterministic, ReqType
  <2>5. WithSignatures(job.batch, job.lanes, Deterministic(job.batch)) \in [0 .. SigSlots - 1 -> SigType]
    BY <1>17, <2>1, <2>4
  <2>6. sigs' \in [0 .. SigSlots - 1 -> SigType] BY <1>20, <2>5 DEF FlushPost
  <2>7. Successes \in Nat
    <3>1. job.batch \in Seq(ReqType) BY <2>1
    <3>2. {k \in DOMAIN job.batch : job.lanes[k]} \in SUBSET DOMAIN job.batch OBVIOUS
    <3>. QED BY <3>1, <3>2, FinitePlaces DEF Successes
  <2>8. queue' \in [Algs -> Seq(ReqType)] /\ job' \in JobType /\ call' \in CallType
    BY <1>12, <1>20, <2>1, <2>7 DEF FlushPost
  <2>. QED BY <1>20, <2>3, <2>6, <2>8 DEF FlushPost
<1>21. ASSUME FlushFails PROVE TypeInv'
  <2>1. FlushDone(0) /\ job.alg \in Algs BY <1>13, <1>21 DEF FlushFails
  <2>. QED BY <1>12, <1>21, <2>1 DEF FlushFails
<1>22. ASSUME NEW c \in Calls, NEW m \in Modes, NEW s \in KeySlots, CallBegin(c, m, s)
       PROVE  TypeInv'
  <2>1. c.msgs \in Seq(BOOLEAN) BY DEF PqAssumption, ClientCalls
  <2>2. DOMAIN c.msgs = 1 .. Len(c.msgs) /\ Len(c.msgs) \in Nat BY <2>1, SeqFun
  <2>3. [k \in DOMAIN c.msgs |-> 0] \in Seq(Nat)
    <3>1. [k \in DOMAIN c.msgs |-> 0] \in [1 .. Len(c.msgs) -> Nat] BY <2>2
    <3>. QED BY <2>2, <3>1, FunSeq
  <2>4. [k \in DOMAIN c.msgs |-> NoSig] \in Seq(SigType)
    <3>1. NoSig \in SigType BY DEF NoSig, SigType
    <3>2. [k \in DOMAIN c.msgs |-> NoSig] \in [1 .. Len(c.msgs) -> SigType] BY <2>2, <3>1
    <3>. QED BY <2>2, <3>2, FunSeq
  <2>5. PICK ids \in Seq(Nat), out \in Seq(SigType) :
          call' = [NoCall EXCEPT !.at = "submit", !.what = c, !.mode = m, !.slot = s,
                                 !.i = 1, !.ids = ids, !.out = out]
    BY <1>22, <2>3, <2>4 DEF CallBegin
  <2>6. call' \in CallType BY <1>10, <2>5 DEF CallType
  <2>. QED BY <1>22, <2>6 DEF CallBegin
<1>23. ASSUME CallSubmit PROVE TypeInv'
  <2>1. PICK a, det : a = AlgOf(call.what) /\ det = call.what.det OBVIOUS
  <2>2. a \in Algs BY <2>1 DEF AlgOf, Algs
  <2>3. call.at = "submit" /\ call.what \in Calls /\ call.slot \in KeySlots /\ call.mode \in Modes
    BY <1>23 DEF CallSubmit, InCall, ThreadInv
  <2>4. det \in BOOLEAN BY <2>1, <2>3 DEF PqAssumption, ClientCalls
  <2>5. nextSlot % SigSlots \in 0 .. SigSlots - 1 BY DEF PqAssumption
  <2>6. PICK r : r = [rid |-> nextId, alg |-> a, mode |-> call.mode, slot |-> call.slot,
                      det |-> det, off |-> nextSlot % SigSlots]
    OBVIOUS
  <2>7. r \in ReqType BY <2>2, <2>3, <2>4, <2>5, <2>6 DEF ReqType
  <2>8. pending' = <<r>> /\ (job' = NoJob \/ job' = StartFlush(a))
        /\ nextId' = nextId + 1 /\ nextSlot' = nextSlot + 1
    BY <1>23, <2>1, <2>6 DEF CallSubmit, Submit
  <2>9. job' \in JobType BY <1>8, <1>9, <2>2, <2>8
  <2>10. call' \in CallType
    <3>1. call.ids \in Seq(Nat) BY DEF CallType
    <3>2. [call.ids EXCEPT ![call.i] = nextId] \in Seq(Nat)
      <4>1. DOMAIN call.ids = 1 .. Len(call.ids) /\ Len(call.ids) \in Nat
            /\ \A k \in DOMAIN call.ids : call.ids[k] \in Nat
        BY <3>1, SeqFun
      <4>2. [call.ids EXCEPT ![call.i] = nextId] \in [1 .. Len(call.ids) -> Nat] BY <3>1, <4>1
      <4>. QED BY <4>1, <4>2, FunSeq
    <3>3. call' = [call EXCEPT !.i = call.i + 1, !.ids = [call.ids EXCEPT ![call.i] = nextId]]
      BY <1>23 DEF CallSubmit, CallType
    <3>4. PICK ids : ids = [call.ids EXCEPT ![call.i] = nextId] OBVIOUS
    <3>5. call.i + 1 \in Nat /\ call \in CallType BY DEF CallType
    <3>6. PICK j \in Nat : j = call.i + 1 BY <3>5
    <3>. HIDE DEF TypeInv
    <3>7. [call EXCEPT !.i = j, !.ids = ids] \in CallType BY <3>2, <3>4, <3>5 DEF CallType
    <3>. QED BY <3>3, <3>4, <3>6, <3>7
  <2>. QED BY <1>23, <2>7, <2>8, <2>9, <2>10 DEF CallSubmit
<1>24. ASSUME CallStopped \/ CallSkip \/ CallRefused PROVE TypeInv'
  <2>1. call.at = "submit" /\ Len(Msgs) \in Nat
    <3>1. call.at = "submit" BY <1>24 DEF CallStopped, CallSkip, CallRefused, InCall
    <3>2. Msgs \in Seq(BOOLEAN) BY <3>1 DEF ThreadInv, PqAssumption, ClientCalls, Msgs
    <3>. QED BY <3>1, <3>2
  <2>2. \A n \in Nat : [call EXCEPT !.i = n] \in CallType BY DEF CallType
  <2>3. call.i + 1 \in Nat BY DEF CallType
  <2>4. call' \in {NoCall, [call EXCEPT !.i = Len(Msgs) + 1], [call EXCEPT !.i = call.i + 1]}
    BY <1>24 DEF CallStopped, CallSkip, CallRefused
  <2>5. call' \in CallType
    <3>1. Len(Msgs) + 1 \in Nat BY <2>1
    <3>. QED BY <1>10, <2>2, <2>3, <2>4, <3>1
  <2>. QED BY <1>24, <2>5 DEF CallStopped, CallSkip, CallRefused
<1>25. ASSUME CallFlush PROVE TypeInv'
  <2>1. AlgOf(call.what) \in Algs BY DEF AlgOf, Algs
  <2>2. job' \in JobType BY <1>8, <1>25, <2>1 DEF CallFlush
  <2>3. call' \in CallType BY <1>25 DEF CallFlush, CallType
  <2>. QED BY <1>25, <2>2, <2>3 DEF CallFlush
<1>26. ASSUME CallPoll PROVE TypeInv'
  <2>1. cq \in Seq(RespType) /\ cq # <<>> BY <1>26 DEF CallPoll
  <2>2. cq' \in Seq(RespType) BY <1>26, <2>1, NonEmpty DEF CallPoll
  <2>3. Head(cq) \in RespType BY <2>1, NonEmpty
  <2>4. PICK p : p = Pointed(Head(cq)) OBVIOUS
  <2>5. p \in SigType
    <3>1. [NoSig EXCEPT !.rid = Head(cq).rid] \in SigType BY <2>3 DEF NoSig, SigType, RespType
    <3>2. sigs[Head(cq).off] \in SigType BY <2>3 DEF RespType
    <3>. QED BY <2>4, <3>1, <3>2 DEF Pointed
  <2>6. PICK W : call' = [call EXCEPT !.polls = @ + 1,
                             !.out = [k \in DOMAIN @ |-> IF k \in W THEN p ELSE @[k]]]
    <3>. DEFINE r == Head(cq)
                to == IF call.what.kind = "slh" THEN Destination(r) ELSE MldsaDestination
                good == r.status = "OK" /\ (call.what.kind = "slh" => r.alg = "slh")
                V == {k \in to : good}
    <3>1. call' = [call EXCEPT !.polls = @ + 1,
                     !.out = [k \in DOMAIN @ |-> IF k \in to /\ good THEN Pointed(r) ELSE @[k]]]
      BY <1>26 DEF CallPoll
    <3>2. \A k : k \in V <=> k \in to /\ good OBVIOUS
    <3>. HIDE DEF to, good, V
    <3>3. call' = [call EXCEPT !.polls = @ + 1,
                     !.out = [k \in DOMAIN @ |-> IF k \in V THEN p ELSE @[k]]]
      BY <2>4, <3>1, <3>2
    <3>. QED BY <3>3
  <2>7. PICK out : out = [k \in DOMAIN call.out |-> IF k \in W THEN p ELSE call.out[k]] OBVIOUS
  <2>8. out \in Seq(SigType)
    <3>1. call.out \in Seq(SigType) BY DEF CallType
    <3>2. DOMAIN call.out = 1 .. Len(call.out) /\ Len(call.out) \in Nat
          /\ \A k \in DOMAIN call.out : call.out[k] \in SigType
      BY <3>1, SeqFun
    <3>3. out \in [1 .. Len(call.out) -> SigType] BY <2>5, <2>7, <3>2
    <3>. QED BY <3>2, <3>3, FunSeq
  <2>9. call' = [call EXCEPT !.polls = call.polls + 1, !.out = out] BY <2>6, <2>7 DEF CallType
  <2>10. call' \in CallType
    <3>1. call.polls + 1 \in Nat /\ call \in CallType BY DEF CallType
    <3>2. PICK j \in Nat : j = call.polls + 1 BY <3>1
    <3>. HIDE DEF TypeInv
    <3>3. [call EXCEPT !.polls = j, !.out = out] \in CallType BY <2>8, <3>1 DEF CallType
    <3>. QED BY <2>9, <3>2, <3>3
  <2>. QED BY <1>26, <2>2, <2>10 DEF CallPoll
<1>27. ASSUME CallReturn PROVE TypeInv'
  <2>1. NoSig \in SigType BY DEF NoSig, SigType
  <2>2. call.out \in Seq(SigType) BY DEF CallType
  <2>3. [k \in DOMAIN call.out |-> NoSig] \in Seq(SigType)
    <3>1. [k \in DOMAIN call.out |-> NoSig] \in [1 .. Len(call.out) -> SigType] /\ Len(call.out) \in Nat
      BY <2>1, <2>2, SeqFun
    <3>. QED BY <3>1, FunSeq
  <2>4. PICK out \in Seq(SigType), ok \in BOOLEAN :
          call' = [call EXCEPT !.at = "done", !.ok = ok, !.out = out]
    BY <1>27, <2>2, <2>3 DEF CallReturn, Returned, CallType
  <2>5. call' \in CallType BY <2>4 DEF CallType
  <2>. QED BY <1>27, <2>5 DEF CallReturn
<1>28. ASSUME CallEnd PROVE TypeInv' BY <1>10, <1>28 DEF CallEnd
<1>. QED BY <1>1, <1>2, <1>3, <1>4, <1>5, <1>6, <1>7, <1>11, <1>14, <1>15, <1>16, <1>18, <1>19,
            <1>20, <1>21, <1>22, <1>23, <1>24, <1>25, <1>26, <1>27, <1>28
     DEF Next
-----------------------------------------------------------------------------
\* The steps that leave queues, flush and call alone.
Outside ==
  \/ ClientStop \/ ClientStart \/ RingSubmit \/ KernelAnswer \/ ClientPoll
  \/ \E s \in KeySlots, m \in Modes, ok, started \in BOOLEAN : LoadMldsaKey(s, m, ok, started)
  \/ \E s \in KeySlots, ok \in BOOLEAN : LoadSlhKey(s, ok)
  \/ \E s \in KeySlots : CorruptMirror(s)

\* The end of a flush.
Ends == \E n \in Nat : FlushDone(n) /\ job.at \in {"begin", "restarted"}
                      /\ UNCHANGED <<running, wanted, startFailed, nextSlot, pending>>

\* What is not a step of a call or a flush leaves both alone.
LEMMA OutsideKeeps ==
  ASSUME Outside
  PROVE  UNCHANGED <<nextSlot, queue, pending, job, call>>
  BY DEF Outside, ClientStop, ClientStart, RingSubmit, KernelAnswer, ClientPoll, LoadMldsaKey,
         LoadSlhKey, CorruptMirror

\* A flush ends by a refusal, a failure or its answers, and then is no more.
LEMMA FlushesEnd ==
  ASSUME TypeInv, FlushRefuse \/ FlushPost \/ FlushFails
  PROVE  Ends
<1>1. ASSUME FlushPost PROVE Ends
  <2>1. job.batch \in Seq(ReqType) BY DEF TypeInv, JobType
  <2>2. {k \in DOMAIN job.batch : job.lanes[k]} \in SUBSET DOMAIN job.batch OBVIOUS
  <2>3. Successes \in Nat BY <2>1, <2>2, FinitePlaces DEF Successes
  <2>. QED BY <1>1, <2>3 DEF Ends, FlushPost
<1>2. ASSUME FlushRefuse \/ FlushFails PROVE Ends
  BY <1>2 DEF Ends, FlushRefuse, FlushFails
<1>. QED BY <1>1, <1>2

\* Every step is one of these.
LEMMA PqSteps ==
  ASSUME Next
  PROVE  \/ Outside \/ Enqueue
         \/ FlushRefuse \/ FlushStop \/ SignMldsa \/ SignSlh
         \/ FlushRestart \/ FlushPost \/ FlushFails
         \/ \E c \in Calls, m \in Modes, s \in KeySlots : CallBegin(c, m, s)
         \/ CallSubmit \/ CallStopped \/ CallSkip \/ CallRefused \/ CallFlush
         \/ CallPoll \/ CallReturn \/ CallEnd
  BY DEF Next, Outside

\* The fields of a call or a flush in which EXCEPT changed others.
LEMMA CallFields ==
  ASSUME TypeInv
  PROVE  /\ call = [at |-> call.at, what |-> call.what, mode |-> call.mode, slot |-> call.slot,
                    i |-> call.i, ids |-> call.ids, flushed |-> call.flushed,
                    polls |-> call.polls, out |-> call.out, ok |-> call.ok]
         /\ job = [alg |-> job.alg, at |-> job.at, batch |-> job.batch, was |-> job.was,
                   lanes |-> job.lanes]
  BY DEF TypeInv, CallType, JobType

\* No flush, as its fields.
LEMMA JobNone == NoJob.at = "idle" /\ NoJob.lanes = <<>> /\ NoJob.alg = "none"
  BY DEF NoJob

\* Calls, pending submits and flushes stay in step.
LEMMA ThreadNext ==
  ASSUME PqAssumption, TypeInv, ThreadInv, FlushInv, Next
  PROVE  ThreadInv'
<1>. USE DEF Msgs
<1>1. ASSUME Outside PROVE ThreadInv'
  BY <1>1, OutsideKeeps DEF ThreadInv
<1>2. ASSUME Enqueue PROVE ThreadInv'
  <2>. DEFINE r == pending[1]  q == Append(queue[r.alg], r)
  <2>1. /\ pending # <<>> /\ pending' = <<>> /\ call' = call
        /\ queue' = [queue EXCEPT ![r.alg] = q]
        /\ job' = NoJob \/ job' = [NoJob EXCEPT !.alg = r.alg, !.at = "begin", !.batch = q]
    BY <1>2 DEF Enqueue
  <2>2. r.alg = AlgOf(call.what) /\ call.at = "submit" /\ r.alg \in Algs
    BY <2>1 DEF ThreadInv, AlgOf, Algs
  <2>3. queue'[r.alg] = q /\ \A a \in Algs : a # r.alg => queue'[a] = queue[a]
    BY <2>1, <2>2 DEF TypeInv
  <2>4. job'.at # "idle" => job'.alg = r.alg /\ job'.batch = q
    <3>. HIDE DEF q, r
    <3>1. CASE job' = NoJob BY <3>1, JobNone
    <3>2. CASE job' = [NoJob EXCEPT !.alg = r.alg, !.at = "begin", !.batch = q] BY <3>2 DEF NoJob
    <3>. QED BY <2>1, <3>1, <3>2
  <2>5. \A k \in DOMAIN q : q[k].alg = r.alg
    <3>1. queue[r.alg] \in Seq(ReqType) BY <2>2 DEF TypeInv
    <3>2. \A k \in DOMAIN queue[r.alg] : queue[r.alg][k].alg = r.alg BY <2>2 DEF ThreadInv
    <3>3. r \in ReqType BY <2>1, NonEmpty DEF TypeInv
    <3>. QED BY <3>1, <3>2, <3>3, Appended
  <2>6. \A a \in Algs : \A k \in DOMAIN queue'[a] : queue'[a][k].alg = a
    <3>. SUFFICES ASSUME NEW a \in Algs PROVE \A k \in DOMAIN queue'[a] : queue'[a][k].alg = a
      OBVIOUS
    <3>. HIDE DEF q, r
    <3>1. CASE a = r.alg BY <2>3, <2>5, <3>1
    <3>2. CASE a # r.alg BY <2>3, <3>2 DEF ThreadInv
    <3>. QED BY <3>1, <3>2
  <2>. HIDE DEF q, r
  <2>. QED BY <2>1, <2>2, <2>3, <2>4, <2>6 DEF ThreadInv
<1>3. ASSUME FlushRefuse \/ FlushPost \/ FlushFails PROVE ThreadInv'
  <2>1. /\ queue' = [queue EXCEPT ![job.alg] = <<>>] /\ job' = NoJob /\ pending' = pending
        /\ \E n \in Nat : call' = call \/ call' = [call EXCEPT !.flushed = n]
    BY <1>3, FlushesEnd DEF Ends, FlushDone
  <2>2. /\ call'.at = call.at /\ call'.what = call.what /\ call'.slot = call.slot
        /\ call'.mode = call.mode /\ call'.i = call.i /\ call'.ids = call.ids
        /\ call'.out = call.out
    BY <2>1, CallFields
  <2>3. job'.at = "idle" BY <2>1 DEF NoJob
  <2>4. \A a \in Algs : queue'[a] = queue[a] \/ queue'[a] = <<>> BY <2>1 DEF TypeInv
  <2>. QED BY <2>1, <2>2, <2>3, <2>4 DEF ThreadInv
<1>4. ASSUME FlushStop \/ SignMldsa \/ SignSlh \/ FlushRestart PROVE ThreadInv'
  <2>1. UNCHANGED <<queue, pending, call>> /\ job.at # "idle"
    BY <1>4 DEF FlushStop, SignMldsa, SignSlh, FlushRestart
  <2>2. job'.alg = job.alg /\ job'.batch = job.batch
    BY <1>4, CallFields DEF FlushStop, SignMldsa, SignSlh, FlushRestart
  <2>. QED BY <2>1, <2>2 DEF ThreadInv
<1>5. ASSUME NEW c \in Calls, NEW m \in Modes, NEW s \in KeySlots, CallBegin(c, m, s)
      PROVE  ThreadInv'
  <2>1. UNCHANGED <<queue, pending, job>> /\ pending = <<>> /\ job.at = "idle"
    BY <1>5 DEF CallBegin, Quiet, HostFree
  <2>2. /\ call'.at = "submit" /\ call'.what = c /\ call'.slot = s /\ call'.mode = m
        /\ call'.i = 1 /\ DOMAIN call'.ids = DOMAIN c.msgs /\ DOMAIN call'.out = DOMAIN c.msgs
    BY <1>5 DEF CallBegin, NoCall
  <2>. QED BY <2>1, <2>2 DEF ThreadInv
<1>6. ASSUME CallSubmit PROVE ThreadInv'
  <2>1. /\ UNCHANGED queue /\ call.at = "submit" /\ call.what \in Calls
        /\ call.slot \in KeySlots /\ call.mode \in Modes /\ call.i >= 1 /\ call.i \in Nat
        /\ DOMAIN call.ids = DOMAIN Msgs /\ DOMAIN call.out = DOMAIN Msgs
    BY <1>6 DEF CallSubmit, InCall, ThreadInv, TypeInv, CallType
  <2>2. call' = [call EXCEPT !.i = call.i + 1, !.ids = [call.ids EXCEPT ![call.i] = nextId]]
    BY <1>6, CallFields DEF CallSubmit
  <2>3. /\ call'.at = call.at /\ call'.what = call.what /\ call'.slot = call.slot
        /\ call'.mode = call.mode /\ call'.i = call.i + 1 /\ DOMAIN call'.ids = DOMAIN call.ids
        /\ call'.out = call.out
    BY <2>2, CallFields
  <2>4. PICK r : /\ r = [rid |-> nextId, alg |-> AlgOf(call.what), mode |-> call.mode,
                         slot |-> call.slot, det |-> call.what.det, off |-> nextSlot % SigSlots]
                 /\ pending' = <<r>>
                 /\ job' = NoJob \/ job' = StartFlush(AlgOf(call.what))
    BY <1>6 DEF CallSubmit, Submit
  <2>5. job'.at # "idle" => job'.alg = AlgOf(call.what) /\ job'.batch = queue[AlgOf(call.what)]
    <3>1. CASE job' = NoJob BY <3>1, JobNone
    <3>2. CASE job' = StartFlush(AlgOf(call.what)) BY <3>2 DEF NoJob, StartFlush
    <3>. QED BY <2>4, <3>1, <3>2
  <2>6. /\ Len(pending') = 1 /\ pending'[1] = r /\ r.alg = AlgOf(call.what)
        /\ r.det = call.what.det /\ r.mode = call.mode /\ r.slot = call.slot
    BY <2>4
  <2>. QED BY <2>1, <2>3, <2>5, <2>6 DEF ThreadInv
<1>7. ASSUME CallStopped \/ CallSkip \/ CallRefused \/ CallPoll \/ CallReturn \/ CallEnd
      PROVE  ThreadInv'
  <2>1. UNCHANGED <<queue, pending, job>> /\ job.at = "idle" /\ pending = <<>>
    BY <1>7 DEF CallStopped, CallSkip, CallRefused, CallPoll, CallReturn, CallEnd, InCall, HostFree,
                ThreadInv
  <2>2. \/ call' = NoCall
        \/ /\ call.at # "none" /\ call'.what = call.what /\ call'.slot = call.slot
           /\ call'.mode = call.mode /\ call'.ids = call.ids
           /\ DOMAIN call'.out = DOMAIN call.out
           /\ \/ /\ call'.at = "submit" /\ call.at = "submit"
                 /\ call'.i >= call.i /\ call'.i \in Nat
              \/ call'.at = "poll" /\ call.at = "poll"
              \/ call'.at = "done"
    <3>1. CASE CallStopped \/ CallSkip \/ CallRefused
      <4>1. /\ call.at = "submit" /\ call.i <= Len(Msgs)
            /\ \/ call' = NoCall \/ call' = [call EXCEPT !.i = Len(Msgs) + 1]
               \/ call' = [call EXCEPT !.i = call.i + 1]
        BY <3>1, CallFields DEF CallStopped, CallSkip, CallRefused, InCall
      <4>2. call.i \in Nat /\ Len(Msgs) \in Nat
        <5>1. Msgs \in Seq(BOOLEAN) BY <4>1 DEF ThreadInv, PqAssumption, ClientCalls
        <5>. QED BY <5>1 DEF TypeInv, CallType
      <4>. QED BY <4>1, <4>2, CallFields
    <3>2. CASE CallPoll
      BY <3>2, CallFields DEF CallPoll, InCall
    <3>3. CASE CallReturn
      BY <3>3, CallFields DEF CallReturn, InCall, Returned
    <3>. QED BY <1>7, <3>1, <3>2, <3>3 DEF CallEnd
  <2>3. call'.at = "submit" /\ call' # NoCall => call'.i >= 1
    <3>. SUFFICES ASSUME call'.at = "submit", call' # NoCall PROVE call'.i >= 1 OBVIOUS
    <3>1. call.at = "submit" /\ call'.i >= call.i /\ call'.i \in Nat BY <2>2
    <3>2. call.i \in Nat /\ call.i >= 1 BY <3>1 DEF TypeInv, CallType, ThreadInv
    <3>. QED BY <3>1, <3>2
  <2>4. CASE call' = NoCall
    <3>1. call'.at = "none" BY <2>4 DEF NoCall
    <3>. QED BY <2>1, <3>1 DEF ThreadInv
  <2>5. CASE call' # NoCall BY <2>1, <2>2, <2>3, <2>5 DEF ThreadInv
  <2>. QED BY <2>4, <2>5
<1>8. ASSUME CallFlush PROVE ThreadInv'
  <2>1. UNCHANGED <<queue, pending>> /\ pending = <<>> /\ call.at = "submit"
        /\ job' = StartFlush(AlgOf(call.what)) /\ call' = [call EXCEPT !.at = "poll"]
    BY <1>8 DEF CallFlush, InCall, HostFree
  <2>2. call'.at = "poll" /\ call'.what = call.what /\ call'.ids = call.ids /\ call'.out = call.out
    BY <2>1, CallFields
  <2>3. job'.alg = AlgOf(call.what) /\ job'.batch = queue[job'.alg] BY <2>1 DEF StartFlush, NoJob
  <2>. QED BY <2>1, <2>2, <2>3 DEF ThreadInv
<1>. QED BY <1>1, <1>2, <1>3, <1>4, <1>5, <1>6, <1>7, <1>8, PqSteps

\* The steps of a thread that flushes nothing: some of them start a flush.
Idles ==
  \/ Enqueue \/ CallSubmit \/ CallStopped \/ CallSkip \/ CallRefused \/ CallFlush
  \/ CallPoll \/ CallReturn \/ CallEnd
  \/ \E c \in Calls, m \in Modes, s \in KeySlots : CallBegin(c, m, s)

\* Where a step leaves the flush idle.
LEMMA IdleSteps ==
  ASSUME ThreadInv, FlushInv, Idles
  PROVE  /\ job.at = "idle" /\ UNCHANGED <<running, wanted, startFailed>>
         /\ job'.at \in {"idle", "begin"} /\ job'.lanes = <<>>
<1>1. job.at = "idle" /\ UNCHANGED <<running, wanted, startFailed>>
  BY DEF Idles, Enqueue, CallSubmit, CallStopped, CallSkip, CallRefused, CallFlush, CallPoll,
         CallReturn, CallEnd, CallBegin, InCall, Quiet, HostFree, ThreadInv
<1>2. ASSUME NEW a, NEW q
      PROVE  /\ [NoJob EXCEPT !.alg = a, !.at = "begin", !.batch = q].at = "begin"
             /\ [NoJob EXCEPT !.alg = a, !.at = "begin", !.batch = q].lanes = <<>>
  BY DEF NoJob
<1>3. CASE Enqueue BY <1>1, <1>2, <1>3, JobNone DEF Enqueue
<1>4. CASE CallSubmit BY <1>1, <1>2, <1>4, JobNone DEF CallSubmit, Submit, StartFlush
<1>5. CASE CallFlush BY <1>1, <1>2, <1>5 DEF CallFlush, StartFlush
<1>6. CASE job' = job BY <1>1, <1>6 DEF FlushInv
<1>. QED BY <1>3, <1>4, <1>5, <1>6 DEF Idles, CallStopped, CallSkip, CallRefused, CallPoll,
            CallReturn, CallEnd, CallBegin

\* A call begins, ends, or goes on from its submits to its polls.
Goes ==
  /\ call'.what = call.what /\ call'.slot = call.slot /\ call'.mode = call.mode
  /\ call'.at = "submit" => call.at = "submit"
  /\ call'.at = "poll" => call.at \in {"submit", "poll"}
  /\ call'.ids = call.ids \/ CallSubmit
  /\ call'.i = call.i \/ CallSubmit \/ CallStopped \/ CallSkip
  /\ call'.at = "done" => call.at \in {"poll", "done"}
  /\ call'.at = "done" => CallReturn \/ (call.at = "done" /\ call'.ok = call.ok)
  /\ call'.out = call.out \/ CallPoll \/ CallReturn
  /\ call'.flushed = call.flushed \/ FlushRefuse \/ FlushPost \/ FlushFails

\* What a step can do to the call: begin or end it, or go on with the same one.
LEMMA CallSteps ==
  ASSUME TypeInv, Next
  PROVE  \/ \E c \in Calls, m \in Modes, s \in KeySlots : CallBegin(c, m, s)
         \/ call' = NoCall \/ Goes
<1>1. CASE Outside BY <1>1, OutsideKeeps DEF Goes
<1>2. CASE FlushRefuse \/ FlushPost \/ FlushFails
  <2>1. \E n \in Nat : call' = call \/ call' = [call EXCEPT !.flushed = n]
    BY <1>2, FlushesEnd DEF Ends, FlushDone
  <2>. QED BY <1>2, <2>1, CallFields DEF Goes
<1>3. CASE Enqueue \/ FlushStop \/ SignMldsa \/ SignSlh \/ FlushRestart
  BY <1>3 DEF Goes, Enqueue, FlushStop, SignMldsa, SignSlh, FlushRestart
<1>4. CASE CallSubmit
  <2>1. call' = [call EXCEPT !.i = call.i + 1, !.ids = [call.ids EXCEPT ![call.i] = nextId]]
    BY <1>4, CallFields DEF CallSubmit
  <2>. QED BY <1>4, <2>1, CallFields DEF Goes
<1>5. CASE CallStopped \/ CallSkip \/ CallRefused
  <2>1. \/ call' = NoCall
        \/ /\ CallStopped \/ CallSkip
           /\ \/ call' = [call EXCEPT !.i = Len(Msgs) + 1]
              \/ call' = [call EXCEPT !.i = call.i + 1]
    BY <1>5, CallFields DEF CallStopped, CallSkip, CallRefused
  <2>. QED BY <2>1, CallFields DEF Goes
<1>6. CASE CallFlush BY <1>6, CallFields DEF Goes, CallFlush, InCall
<1>7. CASE CallPoll BY <1>7, CallFields DEF Goes, CallPoll, InCall
<1>8. CASE CallReturn BY <1>8, CallFields DEF Goes, CallReturn, Returned, InCall
<1>9. CASE CallEnd BY <1>9 DEF CallEnd
<1>. QED BY <1>1, <1>2, <1>3, <1>4, <1>5, <1>6, <1>7, <1>8, <1>9, PqSteps

\* An SLH-DSA call in progress has been before the step, or begins with it.
LEMMA SlhCallSteps ==
  ASSUME TypeInv, Next, InSlhCall'
  PROVE  \/ InSlhCall /\ Goes
         \/ \E c \in Calls, m \in Modes, s \in KeySlots : c.kind = "slh" /\ CallBegin(c, m, s)
<1>1. NoCall.at = "none" BY DEF NoCall
<1>2. CASE Goes BY <1>2 DEF Goes, InSlhCall
<1>3. ASSUME NEW c \in Calls, NEW m \in Modes, NEW s \in KeySlots, CallBegin(c, m, s)
      PROVE  c.kind = "slh"
  <2>1. call'.what = c BY <1>3 DEF CallBegin, NoCall
  <2>. QED BY <2>1 DEF InSlhCall, AlgOf
<1>. QED BY <1>1, <1>2, <1>3, CallSteps DEF InSlhCall

\* The kernel is stopped for two steps of a flush and runs again after it,
\* unless its start fails.
LEMMA RunNext ==
  ASSUME TypeInv, ThreadInv, RunInv, FlushInv, Next
  PROVE  RunInv'
<1>0. job.at \in {"idle", "begin", "stopped", "signed", "restarted"} BY DEF TypeInv, JobType
<1>1. wanted' = wanted \/ wanted' = TRUE \/ (call.at = "none" /\ call' = call)
  BY DEF Next, ClientStop, ClientStart, RingSubmit, KernelAnswer, ClientPoll, LoadMldsaKey,
         LoadSlhKey, CorruptMirror, Enqueue, FlushRefuse, FlushStop, SignMldsa, SignSlh,
         FlushRestart, FlushPost, FlushFails, CallBegin, CallSubmit, CallStopped, CallSkip,
         CallRefused, CallFlush, CallPoll, CallReturn, CallEnd, Quiet
<1>7. ASSUME InSlhCall' PROVE wanted'
  <2>1. ASSUME NEW c \in Calls, NEW m \in Modes, NEW s \in KeySlots, c.kind = "slh",
               CallBegin(c, m, s)
        PROVE  wanted'
    BY <2>1 DEF CallBegin
  <2>. QED BY <1>1, <1>7, <2>1, SlhCallSteps DEF RunInv, InSlhCall
<1>8. ASSUME Outside PROVE RunInv'
  <2>1. UNCHANGED job BY <1>8, OutsideKeeps
  <2>2. ASSUME NEW s \in KeySlots, NEW m \in Modes, NEW ok \in BOOLEAN, NEW started \in BOOLEAN,
               LoadMldsaKey(s, m, ok, started)
        PROVE  job.at = "idle" /\ running' = Up' /\ (startFailed' => wanted')
    <3>1. job.at = "idle" /\ wanted' = wanted /\ Restarted(running, started)
      BY <2>2 DEF LoadMldsaKey, Quiet, HostFree
    <3>2. running = (wanted /\ ~startFailed) BY <3>1 DEF RunInv, Up
    <3>3. running \in BOOLEAN /\ wanted \in BOOLEAN /\ startFailed \in BOOLEAN BY DEF TypeInv
    <3>4. startFailed => wanted BY DEF RunInv
    <3>. QED BY <3>1, <3>2, <3>3, <3>4 DEF Restarted, Up
  <2>3. ASSUME ClientStart
        PROVE  job.at = "idle" /\ running' = Up' /\ (startFailed' => wanted')
    <3>1. PICK started \in BOOLEAN : running' = started /\ wanted' = started
      BY <2>3 DEF ClientStart
    <3>2. job.at = "idle" /\ ~wanted /\ startFailed' = startFailed
      BY <2>3 DEF ClientStart, Quiet, HostFree
    <3>3. ~startFailed BY <3>2 DEF RunInv
    <3>. QED BY <3>1, <3>2, <3>3 DEF Up
  <2>4. ASSUME ClientStop PROVE job.at = "idle" /\ running' = Up' /\ (startFailed' => wanted')
    BY <2>4 DEF ClientStop, Up, Quiet, HostFree
  <2>5. \/ UNCHANGED <<running, wanted, startFailed>>
        \/ job.at = "idle" /\ running' = Up' /\ (startFailed' => wanted')
    BY <1>8, <2>2, <2>3, <2>4 DEF Outside, RingSubmit, KernelAnswer, ClientPoll, LoadSlhKey,
                                 CorruptMirror
  <2>. QED BY <1>7, <2>1, <2>5 DEF RunInv, Up
<1>2. ASSUME FlushRefuse \/ FlushPost \/ FlushFails PROVE RunInv'
  <2>1. UNCHANGED <<running, wanted, startFailed>> /\ job' = NoJob
        /\ job.at \in {"begin", "restarted"}
    BY <1>2, FlushesEnd DEF Ends, FlushDone
  <2>. QED BY <1>7, <2>1, JobNone DEF RunInv, Up
<1>3. ASSUME FlushStop PROVE RunInv'
  <2>1. /\ job'.at = "stopped" /\ job'.was = running /\ running' = FALSE
        /\ UNCHANGED <<wanted, startFailed>> /\ job.at = "begin"
    BY <1>3, CallFields DEF FlushStop
  <2>. QED BY <1>7, <2>1 DEF RunInv, Up
<1>4. ASSUME SignMldsa \/ SignSlh PROVE RunInv'
  <2>1. job'.at = "signed" /\ job'.was = job.was /\ UNCHANGED <<running, wanted, startFailed>>
        /\ job.at = "stopped"
    BY <1>4, CallFields DEF SignMldsa, SignSlh
  <2>. QED BY <1>7, <2>1 DEF RunInv, Up
<1>5. ASSUME FlushRestart PROVE RunInv'
  <2>1. job'.at = "restarted" /\ job'.was = job.was /\ wanted' = wanted /\ job.at = "signed"
    BY <1>5, CallFields DEF FlushRestart
  <2>2. PICK started \in BOOLEAN : Restarted(job.was, started)
    BY <1>5 DEF FlushRestart, RestartsKernel
  <2>3. job.was = (wanted /\ ~startFailed) BY <2>1 DEF RunInv, Up
  <2>4. job.was \in BOOLEAN /\ wanted \in BOOLEAN /\ startFailed \in BOOLEAN BY DEF TypeInv, JobType
  <2>5. startFailed => wanted BY DEF RunInv
  <2>6. running' = Up' /\ (Up' => job.was) /\ (startFailed' => wanted')
    BY <2>1, <2>2, <2>3, <2>4, <2>5 DEF Restarted, Up
  <2>. QED BY <1>7, <2>1, <2>6 DEF RunInv
<1>6. ASSUME Idles PROVE RunInv' BY <1>6, <1>7, IdleSteps DEF RunInv, Up
<1>. QED BY <1>2, <1>8, <1>3, <1>4, <1>5, <1>6, PqSteps DEF Idles

\* A flush has a batch until it ends, and results for each of its lanes.
LEMMA FlushNext ==
  ASSUME TypeInv, ThreadInv, RunInv, FlushInv, QueueInv, Next
  PROVE  FlushInv'
<1>1. ASSUME Outside PROVE FlushInv'
  <2>1. UNCHANGED job BY <1>1, OutsideKeeps
  <2>2. ASSUME job.at = "restarted", job.was PROVE \A k \in DOMAIN cq' : cq'[k].alg = "ring"
    <3>1. \A k \in DOMAIN cq : cq[k].alg = "ring" BY <2>2 DEF FlushInv
    <3>2. CASE cq' = cq BY <3>1, <3>2
    <3>3. CASE KernelAnswer
      <4>1. PICK rid \in ring : cq' = Append(cq, Response([rid |-> rid, alg |-> "ring"], "OK", 0))
        BY <3>3 DEF KernelAnswer
      <4>2. PICK e : e = Response([rid |-> rid, alg |-> "ring"], "OK", 0) OBVIOUS
      <4>3. e.alg = "ring" BY <4>2 DEF Response
      <4>4. cq \in Seq(RespType) BY DEF TypeInv
      <4>5. \A k \in DOMAIN cq' : (k \in DOMAIN cq /\ cq'[k] = cq[k]) \/ cq'[k] = e
        BY <4>1, <4>2, <4>4
      <4>. QED BY <3>1, <4>3, <4>5
    <3>. QED BY <1>1, <2>2, <3>2, <3>3 DEF Outside, ClientStop, ClientStart, RingSubmit, ClientPoll,
                LoadMldsaKey, LoadSlhKey, CorruptMirror, Quiet, HostFree
  <2>. QED BY <2>1, <2>2 DEF FlushInv
<1>2. ASSUME FlushRefuse \/ FlushPost \/ FlushFails PROVE FlushInv'
  <2>1. job' = NoJob BY <1>2, FlushesEnd DEF Ends, FlushDone
  <2>. QED BY <2>1, JobNone DEF FlushInv
<1>3. ASSUME FlushStop PROVE FlushInv'
  <2>1. /\ job'.at = "stopped" /\ job'.batch = job.batch /\ job'.lanes = job.lanes
        /\ job.batch # <<>> /\ job.at = "begin" /\ job'.alg = job.alg /\ job'.was = running
    BY <1>3, CallFields DEF FlushStop, Signable
  <2>2. job.alg = "ml" => running BY <2>1 DEF ThreadInv, QueueInv
  <2>. QED BY <2>1, <2>2 DEF FlushInv
<1>4. ASSUME SignMldsa \/ SignSlh PROVE FlushInv'
  <2>1. /\ job'.at = "signed" /\ job'.batch = job.batch /\ job.at = "stopped"
        /\ job'.alg = job.alg /\ job'.was = job.was
    BY <1>4, CallFields DEF SignMldsa, SignSlh
  <2>2. job'.lanes # <<>> => DOMAIN job'.lanes = DOMAIN job.batch
    <3>1. ASSUME NEW lanes PROVE [job EXCEPT !.at = "signed", !.lanes = lanes].lanes = lanes
      BY CallFields
    <3>2. [job EXCEPT !.at = "signed"].lanes = <<>>
      <4>1. job.lanes = <<>> BY <2>1 DEF FlushInv
      <4>. QED BY <4>1, CallFields
    <3>3. ASSUME SignMldsa PROVE job'.lanes = <<>> \/ DOMAIN job'.lanes = DOMAIN job.batch
      <4>1. PICK lanes \in [DOMAIN job.batch -> BOOLEAN] \cup {<<>>} :
              job' = [job EXCEPT !.at = "signed", !.lanes = lanes]
        BY <3>3 DEF SignMldsa
      <4>. QED BY <3>1, <4>1
    <3>4. ASSUME SignSlh PROVE job'.lanes = <<>> \/ DOMAIN job'.lanes = DOMAIN job.batch
      <4>1. PICK lanes : DOMAIN lanes = DOMAIN job.batch /\ lanes = SlhLanes(job.batch)
        BY DEF SlhLanes
      <4>2. \/ job' = [job EXCEPT !.at = "signed", !.lanes = lanes]
            \/ job' = [job EXCEPT !.at = "signed"]
        BY <3>4, <4>1 DEF SignSlh
      <4>. QED BY <3>1, <3>2, <4>1, <4>2
    <3>. QED BY <1>4, <3>3, <3>4
  <2>. QED BY <2>1, <2>2 DEF FlushInv
<1>5. ASSUME FlushRestart PROVE FlushInv'
  <2>1. /\ job'.at = "restarted" /\ job'.batch = job.batch /\ job'.lanes = job.lanes
        /\ job.at = "signed" /\ (job.was => cq' = <<>>)
        /\ job'.alg = job.alg /\ job'.was = job.was
    BY <1>5, CallFields DEF FlushRestart, RestartsKernel
  <2>. QED BY <2>1 DEF FlushInv
<1>6. ASSUME Idles PROVE FlushInv' BY <1>6, IdleSteps DEF FlushInv
<1>. QED BY <1>1, <1>2, <1>3, <1>4, <1>5, <1>6, PqSteps DEF Idles

\* The ML-DSA queue holds requests of one call, and none when it is over.
LEMMA QueueNext ==
  ASSUME PqAssumption, TypeInv, ThreadInv, RunInv, FlushInv, QueueInv, Next
  PROVE  QueueInv'
<1>. DEFINE ml == queue["ml"]
<1>0. /\ "ml" \in Algs /\ ml \in Seq(ReqType)
      /\ (ml = <<>> => DOMAIN ml = {})
  BY DEF Algs, TypeInv
<1>1. ASSUME Outside PROVE QueueInv'
  <2>1. UNCHANGED <<queue, pending, job, call>> BY <1>1, OutsideKeeps
  <2>2. running' = running \/ (call.at = "none" /\ pending = <<>>)
    BY <1>1 DEF Outside, ClientStop, ClientStart, RingSubmit, KernelAnswer, ClientPoll, LoadMldsaKey,
                LoadSlhKey, CorruptMirror, Quiet, HostFree
  <2>. QED BY <2>1, <2>2 DEF QueueInv
<1>2. ASSUME Enqueue PROVE QueueInv'
  <2>1. PICK r : r = pending[1] OBVIOUS
  <2>2. PICK q : q = Append(queue[r.alg], r) OBVIOUS
  <2>3. /\ pending # <<>> /\ pending' = <<>> /\ call' = call
        /\ queue' = [queue EXCEPT ![r.alg] = q] /\ job.at = "idle"
    BY <1>2, <2>1, <2>2 DEF Enqueue
  <2>4. /\ r.alg = AlgOf(call.what) /\ call.at = "submit" /\ r.alg \in Algs
        /\ r.det = call.what.det /\ r.mode = call.mode /\ r.slot = call.slot /\ r \in ReqType
    BY <2>1, <2>3, NonEmpty DEF ThreadInv, AlgOf, Algs, TypeInv
  <2>5. (r.alg = "ml" => running) /\ running' = running /\ call.i # 1
    BY <1>2, <2>1, <2>3, <2>4 DEF QueueInv, Enqueue
  <2>6. CASE r.alg = "slh"
    <3>1. queue'["ml"] = ml BY <1>0, <2>3, <2>6 DEF TypeInv
    <3>2. ml = <<>> BY <2>4, <2>6 DEF QueueInv
    <3>. QED BY <1>0, <2>3, <2>4, <2>5, <2>6, <3>1, <3>2 DEF QueueInv
  <2>7. CASE r.alg = "ml"
    <3>1. queue'["ml"] = Append(ml, r) BY <1>0, <2>2, <2>3, <2>7 DEF TypeInv
    <3>2. \A k \in DOMAIN ml : ml[k].det = call.what.det
                               /\ ml[k].mode = call.mode /\ ml[k].slot = call.slot
      BY DEF QueueInv
    <3>3. \A k \in DOMAIN Append(ml, r) :
            /\ Append(ml, r)[k].det = call.what.det
            /\ Append(ml, r)[k].mode = call.mode /\ Append(ml, r)[k].slot = call.slot
      <4>. HIDE DEF ml
      <4>. QED BY <1>0, <2>4, <3>2, Appended
    <3>. HIDE DEF ml
    <3>. QED BY <2>3, <2>4, <2>5, <2>7, <3>1, <3>3 DEF QueueInv
  <2>. QED BY <2>4, <2>6, <2>7 DEF Algs
<1>3. ASSUME FlushRefuse \/ FlushPost \/ FlushFails PROVE QueueInv'
  <2>1. /\ queue' = [queue EXCEPT ![job.alg] = <<>>] /\ pending' = pending /\ running' = running
        /\ job.at # "idle" /\ \E n \in Nat : call' = call \/ call' = [call EXCEPT !.flushed = n]
    BY <1>3, FlushesEnd DEF Ends, FlushDone
  <2>2. call'.at = call.at /\ call'.what = call.what /\ call'.i = call.i BY <2>1, CallFields
  <2>5. pending # <<>> => pending[1].alg # "ml" BY <2>1 DEF QueueInv
  <2>3. job.alg = AlgOf(call.what) /\ call.at \in {"submit", "poll"} BY <2>1 DEF ThreadInv
  <2>4. queue'["ml"] = <<>>
    <3>1. CASE job.alg = "ml" BY <1>0, <2>1, <3>1 DEF TypeInv
    <3>2. CASE job.alg = "slh"
      <4>1. ml = <<>> BY <2>3, <3>2 DEF QueueInv
      <4>. QED BY <1>0, <2>1, <3>2, <4>1 DEF TypeInv
    <3>. QED BY <2>3, <3>1, <3>2 DEF AlgOf
  <2>. QED BY <1>0, <2>1, <2>2, <2>4, <2>5 DEF QueueInv
<1>4. ASSUME FlushStop \/ SignMldsa \/ SignSlh \/ FlushRestart PROVE QueueInv'
  <2>1. UNCHANGED <<queue, pending, call>> /\ job.at # "idle"
    BY <1>4 DEF FlushStop, SignMldsa, SignSlh, FlushRestart
  <2>2. job'.at \notin {"idle", "begin"}
    BY <1>4, CallFields DEF FlushStop, SignMldsa, SignSlh, FlushRestart
  <2>. QED BY <2>1, <2>2 DEF QueueInv
<1>5. ASSUME NEW c \in Calls, NEW m \in Modes, NEW s \in KeySlots, CallBegin(c, m, s)
      PROVE  QueueInv'
  <2>1. UNCHANGED <<queue, pending, running>> /\ pending = <<>> /\ call.at = "none"
    BY <1>5 DEF CallBegin, Quiet, HostFree
  <2>. QED BY <2>1, <1>0 DEF QueueInv
<1>6. ASSUME CallSubmit PROVE QueueInv'
  <2>1. UNCHANGED <<queue, running>> /\ call.at = "submit" /\ running /\ job.at = "idle"
        /\ call.i \in Nat /\ call.i >= 1
    BY <1>6 DEF CallSubmit, InCall, HostFree, ThreadInv, TypeInv, CallType
  <2>2. call' = [call EXCEPT !.i = call.i + 1, !.ids = [call.ids EXCEPT ![call.i] = nextId]]
    BY <1>6, CallFields DEF CallSubmit
  <2>3. /\ call'.at = "submit" /\ call'.what = call.what /\ call'.i # 1
        /\ call'.mode = call.mode /\ call'.slot = call.slot
    BY <2>1, <2>2, CallFields
  <2>4. PICK r : /\ r.alg = AlgOf(call.what) /\ r.mode = call.mode /\ r.slot = call.slot
                 /\ pending' = <<r>>
                 /\ job' = IF SameBatch(r.alg, r) THEN NoJob ELSE StartFlush(r.alg)
    BY <1>6 DEF CallSubmit, Submit
  <2>5. r.alg = "ml" => job' = NoJob
    <3>1. r.alg = "ml" => SameBatch(r.alg, r) BY <2>4 DEF SameBatch, QueueInv
    <3>. QED BY <2>4, <3>1
  <2>6. pending'[1] = r /\ (r.alg = "ml" => job'.at = "idle") BY <2>4, <2>5, JobNone
  <2>. QED BY <2>1, <2>3, <2>4, <2>6 DEF QueueInv
<1>7. ASSUME CallStopped \/ CallSkip \/ CallRefused PROVE QueueInv'
  <2>1. /\ UNCHANGED <<queue, pending, job, running>> /\ pending = <<>> /\ call.at = "submit"
        /\ call.what \in Calls /\ call.i <= Len(Msgs) /\ call.i \in Nat /\ call.i >= 1
    BY <1>7 DEF CallStopped, CallSkip, CallRefused, InCall, HostFree, ThreadInv, TypeInv, CallType
  <2>2. Len(Msgs) \in Nat /\ (call.what.kind = "one" => Len(Msgs) = 1)
    BY <2>1 DEF Msgs, PqAssumption, ClientCalls
  <2>3. CASE call' = NoCall
    <3>1. call.what.kind \in {"one", "slh"} \/ AlgOf(call.what) = "slh"
      <4>1. \A x : [call EXCEPT !.i = x].at = "submit" BY <2>1, CallFields
      <4>2. NoCall.at = "none" BY DEF NoCall
      <4>3. CASE CallStopped BY <2>1, <2>3, <4>1, <4>2, <4>3 DEF CallStopped, PqAssumption, ClientCalls
      <4>4. CASE CallSkip
        <5>1. call' = IF AlgOf(call.what) = "slh" THEN NoCall ELSE [call EXCEPT !.i = call.i + 1]
          BY <4>4, CallFields DEF CallSkip
        <5>. QED BY <2>3, <4>1, <4>2, <5>1
      <4>5. CASE CallRefused BY <4>5 DEF CallRefused
      <4>. QED BY <1>7, <4>3, <4>4, <4>5
    <3>2. ASSUME call.what.kind = "one" PROVE call.i = 1
      <4>1. Len(Msgs) = 1 BY <2>2, <3>2
      <4>. QED BY <2>1, <4>1
    <3>3. ml = <<>> BY <2>1, <3>1, <3>2 DEF QueueInv, AlgOf
    <3>4. call'.at = "none" BY <2>3 DEF NoCall
    <3>. QED BY <1>0, <2>1, <3>3, <3>4 DEF QueueInv
  <2>4. CASE call' # NoCall
    <3>1. \/ call' = [call EXCEPT !.i = Len(Msgs) + 1] \/ call' = [call EXCEPT !.i = call.i + 1]
      BY <1>7, <2>4, CallFields DEF CallStopped, CallSkip, CallRefused
    <3>2. /\ call'.at = "submit" /\ call'.what = call.what /\ call'.i # 1
          /\ call'.mode = call.mode /\ call'.slot = call.slot
      <4>1. Len(Msgs) + 1 # 1 /\ call.i + 1 # 1 BY <2>1, <2>2
      <4>. QED BY <2>1, <3>1, <4>1, CallFields
    <3>. QED BY <2>1, <3>2 DEF QueueInv
  <2>. QED BY <2>3, <2>4
<1>8. ASSUME CallFlush PROVE QueueInv'
  <2>1. /\ UNCHANGED <<queue, pending, running>> /\ pending = <<>> /\ call.at = "submit"
        /\ job.at = "idle"
        /\ job' = StartFlush(AlgOf(call.what)) /\ call' = [call EXCEPT !.at = "poll"]
    BY <1>8 DEF CallFlush, InCall, HostFree
  <2>2. /\ call'.at = "poll" /\ call'.what = call.what
        /\ call'.mode = call.mode /\ call'.slot = call.slot
    BY <2>1, CallFields
  <2>3. job'.at = "begin" BY <2>1 DEF StartFlush, NoJob
  <2>. QED BY <2>1, <2>2, <2>3 DEF QueueInv
<1>9. ASSUME CallPoll \/ CallReturn \/ CallEnd PROVE QueueInv'
  <2>1. UNCHANGED <<queue, pending, job, running>> /\ pending = <<>> /\ job.at = "idle"
        /\ call.at \in {"poll", "done"}
    BY <1>9 DEF CallPoll, CallReturn, CallEnd, InCall, HostFree, ThreadInv
  <2>2. ml = <<>> BY <2>1 DEF QueueInv
  <2>3. call'.at # "submit"
    <3>1. CASE CallPoll BY <3>1, CallFields DEF CallPoll, InCall
    <3>2. CASE CallReturn BY <3>2, CallFields DEF CallReturn, InCall, Returned
    <3>3. CASE CallEnd BY <3>3 DEF CallEnd, NoCall
    <3>. QED BY <1>9, <3>1, <3>2, <3>3
  <2>. QED BY <1>0, <2>1, <2>2, <2>3 DEF QueueInv
<1>. QED BY <1>1, <1>2, <1>3, <1>4, <1>5, <1>6, <1>7, <1>8, <1>9, PqSteps

-----------------------------------------------------------------------------
(* What a step does to the completion queue, the slab and a poll's call. *)

\* Only the kernel and the end of a flush post answers.
LEMMA CqSteps ==
  ASSUME TypeInv, Next, ~FlushPost
  PROVE  \A k \in DOMAIN cq' : \/ cq'[k].alg = "ring" /\ cq'[k].rid \in ring
                               \/ \E j \in DOMAIN cq : cq'[k] = cq[j]
<1>0. cq \in Seq(RespType) BY DEF TypeInv
<1>1. CASE cq' = cq BY <1>1
<1>2. CASE cq' = <<>> BY <1>2
<1>3. CASE cq # <<>> /\ cq' = Tail(cq)
  <2>1. \A k \in DOMAIN cq' : k + 1 \in DOMAIN cq /\ cq'[k] = cq[k + 1] BY <1>0, <1>3, TailOf
  <2>. QED BY <2>1
<1>4. CASE KernelAnswer
  <2>1. PICK rid \in ring : cq' = Append(cq, Response([rid |-> rid, alg |-> "ring"], "OK", 0))
    BY <1>4 DEF KernelAnswer
  <2>2. PICK e : e = Response([rid |-> rid, alg |-> "ring"], "OK", 0) OBVIOUS
  <2>3. e.alg = "ring" /\ e.rid = rid BY <2>2 DEF Response
  <2>4. \A k \in DOMAIN cq' : (k \in DOMAIN cq /\ cq'[k] = cq[k]) \/ cq'[k] = e
    BY <1>0, <2>1, <2>2
  <2>. QED BY <2>3, <2>4
<1>. QED
  BY <1>1, <1>2, <1>3, <1>4
  DEF Next, ClientStop, ClientStart, RingSubmit, ClientPoll, LoadMldsaKey,
      LoadSlhKey, CorruptMirror, Enqueue, FlushRefuse, FlushStop, SignMldsa, SignSlh,
      FlushRestart, FlushFails, CallBegin, CallSubmit, CallStopped, CallSkip,
      CallRefused, CallFlush, CallPoll, CallReturn, CallEnd

\* The batch of a flush that has lanes is a queue.
LEMMA Batch ==
  ASSUME TypeInv, ThreadInv, job.at # "idle"
  PROVE  /\ job.batch \in Seq(ReqType) /\ job.batch = queue[job.alg]
         /\ job.alg \in Algs /\ job.alg = AlgOf(call.what)
  BY DEF TypeInv, ThreadInv, JobType, AlgOf, Algs

\* The answers after a step: what was there, or the responses of the batch.
LEMMA PostSteps ==
  ASSUME TypeInv, ThreadInv, FlushInv, FlushPost
  PROVE  \A k \in DOMAIN cq' :
           \/ \E j \in DOMAIN cq : cq'[k] = cq[j]
           \/ \E j \in DOMAIN job.batch :
                /\ cq'[k].rid = job.batch[j].rid /\ cq'[k].alg = job.batch[j].alg
                /\ cq'[k].off = job.batch[j].off
                /\ cq'[k].status = "OK" => job.lanes[j]
<1>1. /\ cq' = cq \o Responses /\ job.batch \in Seq(ReqType) /\ cq \in Seq(RespType)
  BY Batch DEF FlushPost, TypeInv
<1>2. DOMAIN job.batch = 1 .. Len(job.batch) /\ Len(job.batch) \in Nat BY <1>1, SeqFun
<1>3. ASSUME NEW j \in DOMAIN job.batch
      PROVE  /\ Responses[j].rid = job.batch[j].rid /\ Responses[j].alg = job.batch[j].alg
             /\ Responses[j].off = job.batch[j].off
             /\ Responses[j].status = "OK" => job.lanes[j]
             /\ Responses[j] \in RespType
  <2>1. job.batch[j] \in ReqType BY <1>1, SeqFun
  <2>. QED BY <2>1 DEF Responses, Response, FailStatus, RespType, ReqType
<1>4. DOMAIN Responses = DOMAIN job.batch BY DEF Responses
<1>5. Responses \in Seq(RespType)
  <2>1. Responses \in [1 .. Len(job.batch) -> RespType] BY <1>2, <1>3, <1>4 DEF Responses
  <2>. QED BY <1>2, <2>1, FunSeq
<1>6. \A k \in DOMAIN cq' : \/ k \in DOMAIN cq /\ cq'[k] = cq[k]
                            \/ k - Len(cq) \in DOMAIN job.batch /\ cq'[k] = Responses[k - Len(cq)]
  BY <1>1, <1>4, <1>5, Joined
<1>. QED BY <1>3, <1>6

\* The slab changes only when SLH-DSA signs or ML-DSA posts.
LEMMA SigSteps ==
  ASSUME Next, ~FlushPost, ~SignSlh
  PROVE  sigs' = sigs
  BY DEF Next, ClientStop, ClientStart, RingSubmit, KernelAnswer, ClientPoll, LoadMldsaKey,
      LoadSlhKey, CorruptMirror, Enqueue, FlushRefuse, FlushStop, SignMldsa,
      FlushRestart, FlushFails, CallBegin, CallSubmit, CallStopped, CallSkip,
      CallRefused, CallFlush, CallPoll, CallReturn, CallEnd

\* A slot holds what it held or the signature of a request that names it; and a
\* lane that signs leaves its own or that of a later one.
LEMMA Signed ==
  ASSUME TypeInv, NEW batch \in Seq(ReqType), NEW lanes, NEW det \in BOOLEAN
  PROVE  LET ws == WithSignatures(batch, lanes, det)
         IN  /\ \A o \in DOMAIN sigs :
                  ws[o] = sigs[o] \/ \E t \in DOMAIN batch :
                                      batch[t].off = o /\ ws[o] = Signature(batch[t], det)
             /\ \A k \in DOMAIN batch : lanes[k] =>
                  \E t \in DOMAIN batch : /\ t >= k /\ batch[t].off = batch[k].off
                                          /\ ws[batch[k].off] = Signature(batch[t], det)
<1>. DEFINE ws == WithSignatures(batch, lanes, det)
<1>1. ASSUME NEW o \in DOMAIN sigs
      PROVE  LET here == {k \in DOMAIN batch : batch[k].off = o /\ lanes[k]}
             IN  IF here = {} THEN ws[o] = sigs[o]
                 ELSE \E t \in here : (\A j \in here : j <= t) /\ ws[o] = Signature(batch[t], det)
  <2>. DEFINE here == {k \in DOMAIN batch : batch[k].off = o /\ lanes[k]}
              top  == CHOOSE k \in here : \A j \in here : j <= k
  <2>1. ws[o] = IF here = {} THEN sigs[o] ELSE Signature(batch[top], det) BY DEF WithSignatures
  <2>2. here # {} => \E t \in here : \A j \in here : j <= t
    <3>. SUFFICES ASSUME here # {} PROVE \E t \in here : \A j \in here : j <= t OBVIOUS
    <3>1. here \subseteq 1 .. Len(batch) /\ Len(batch) \in Nat BY SeqFun
    <3>. HIDE DEF here
    <3>2. PICK t : t = (CHOOSE k \in here : \A j \in here : j <= k) OBVIOUS
    <3>. QED BY <3>1, GreatestExists
  <2>3. here # {} => top \in here /\ \A j \in here : j <= top BY <2>2
  <2>. HIDE DEF top, here
  <2>4. IF here = {} THEN ws[o] = sigs[o]
        ELSE \E t \in here : (\A j \in here : j <= t) /\ ws[o] = Signature(batch[t], det)
    BY <2>1, <2>3
  <2>. QED BY <2>4 DEF here
<1>2. DOMAIN sigs = 0 .. SigSlots - 1 BY DEF TypeInv
<1>3. ASSUME NEW k \in DOMAIN batch PROVE batch[k].off \in DOMAIN sigs
  <2>1. batch[k] \in ReqType BY SeqFun
  <2>. QED BY <1>2, <2>1 DEF ReqType
<1>. HIDE DEF ws
<1>4. \A o \in DOMAIN sigs : ws[o] = sigs[o] \/ \E t \in DOMAIN batch :
                                      batch[t].off = o /\ ws[o] = Signature(batch[t], det)
  BY <1>1
<1>5. ASSUME NEW k \in DOMAIN batch, lanes[k]
      PROVE  \E t \in DOMAIN batch : /\ t >= k /\ batch[t].off = batch[k].off
                                     /\ ws[batch[k].off] = Signature(batch[t], det)
  BY <1>1, <1>3, <1>5
<1>. QED BY <1>4, <1>5 DEF ws
-----------------------------------------------------------------------------

\* No queue outgrows a batch: the submit that fills it starts the flush.
LEMMA LengthNext ==
  ASSUME PqAssumption, TypeInv, ThreadInv, LengthInv, Next
  PROVE  LengthInv'
<1>0. \A a \in Algs : Len(queue[a]) \in Nat BY DEF TypeInv
<1>1. CASE queue' = queue /\ (job.at = "idle" \/ (job'.at # "idle" /\ job'.alg = job.alg))
  BY <1>1 DEF LengthInv
<1>2. CASE Enqueue
  <2>1. PICK r : r = pending[1] OBVIOUS
  <2>2. PICK q : q = Append(queue[r.alg], r) OBVIOUS
  <2>3. /\ pending # <<>> /\ queue' = [queue EXCEPT ![r.alg] = q] /\ job.at = "idle"
        /\ job' = IF Len(q) >= BatchMax
                   THEN [NoJob EXCEPT !.alg = r.alg, !.at = "begin", !.batch = q] ELSE NoJob
    BY <1>2, <2>1, <2>2 DEF Enqueue
  <2>4. r.alg \in Algs /\ r \in ReqType
    <3>1. r \in ReqType BY <2>1, <2>3, NonEmpty DEF TypeInv
    <3>. QED BY <3>1 DEF ReqType
  <2>5. queue'[r.alg] = q /\ \A a \in Algs : a # r.alg => queue'[a] = queue[a]
    BY <2>3, <2>4 DEF TypeInv
  <2>6. Len(q) = Len(queue[r.alg]) + 1 BY <2>2, <2>4 DEF TypeInv
  <2>7. \A a \in Algs : Len(queue[a]) < BatchMax BY <1>0, <2>3 DEF LengthInv, PqAssumption
  <2>8. Len(q) >= BatchMax => job'.at # "idle" /\ job'.alg = r.alg
    <3>. SUFFICES ASSUME Len(q) >= BatchMax PROVE job'.at # "idle" /\ job'.alg = r.alg OBVIOUS
    <3>1. job' = [NoJob EXCEPT !.alg = r.alg, !.at = "begin", !.batch = q] BY <2>3
    <3>. QED BY <3>1 DEF NoJob
  <2>9. Len(q) <= BatchMax /\ (Len(q) = BatchMax => Len(q) >= BatchMax)
    <3>1. Len(queue[r.alg]) \in Nat /\ Len(queue[r.alg]) < BatchMax BY <1>0, <2>4, <2>7
    <3>. QED BY <2>6, <3>1 DEF PqAssumption
  <2>. QED BY <2>5, <2>7, <2>8, <2>9, <1>0 DEF LengthInv, PqAssumption
<1>3. CASE FlushRefuse \/ FlushPost \/ FlushFails
  <2>1. queue' = [queue EXCEPT ![job.alg] = <<>>] /\ job.at # "idle"
    BY <1>3, FlushesEnd DEF Ends, FlushDone
  <2>2. job.alg \in Algs BY <2>1, Batch
  <2>3. queue'[job.alg] = <<>> /\ \A a \in Algs : a # job.alg => queue'[a] = queue[a]
    BY <2>1, <2>2 DEF TypeInv
  <2>4. Len(<<>>) = 0 OBVIOUS
  <2>. QED BY <1>0, <2>3, <2>4 DEF LengthInv, PqAssumption
<1>4. CASE Outside
  <2>1. queue' = queue /\ job' = job BY <1>4, OutsideKeeps
  <2>. QED BY <1>1, <2>1
<1>5. CASE FlushStop \/ SignMldsa \/ SignSlh \/ FlushRestart
  <2>1. queue' = queue /\ job'.at # "idle" /\ job'.alg = job.alg
    BY <1>5, CallFields DEF FlushStop, SignMldsa, SignSlh, FlushRestart
  <2>. QED BY <1>1, <2>1
<1>6. CASE Idles /\ ~Enqueue
  <2>1. queue' = queue /\ job.at = "idle"
    BY <1>6 DEF Idles, CallSubmit, CallStopped, CallSkip, CallRefused, CallFlush, CallPoll,
         CallReturn, CallEnd, CallBegin, InCall, Quiet, HostFree, ThreadInv
  <2>. QED BY <1>1, <2>1
<1>. QED BY <1>2, <1>3, <1>4, <1>5, <1>6, PqSteps DEF Idles

\* Ids stay below the next one, wherever a request or its answer is.
LEMMA IdNext ==
  ASSUME TypeInv, ThreadInv, FlushInv, IdInv, Next
  PROVE  IdInv'
<1>. DEFINE After(r) == r >= 1 /\ r < nextId'
<1>0. nextId \in Nat /\ nextId >= 1 BY DEF TypeInv, IdInv
<1>1. nextId' \in {nextId, nextId + 1} /\ (nextId' = nextId \/ RingSubmit \/ CallSubmit)
  BY DEF Next, ClientStop, ClientStart, RingSubmit, KernelAnswer, ClientPoll, LoadMldsaKey,
      LoadSlhKey, CorruptMirror, Enqueue, FlushRefuse, FlushStop, SignMldsa, SignSlh,
      FlushRestart, FlushPost, FlushFails, CallBegin, CallSubmit, Submit, CallStopped, CallSkip,
      CallRefused, CallFlush, CallPoll, CallReturn, CallEnd
<1>2. \A r \in Int : Given(r) => After(r) BY <1>0, <1>1 DEF Given
<1>3. \A r \in ring' : After(r)
  <2>1. \A r \in ring' : r \in ring \/ (r = nextId /\ nextId' = nextId + 1)
    BY DEF Next, ClientStop, ClientStart, RingSubmit, KernelAnswer, ClientPoll, LoadMldsaKey,
      LoadSlhKey, CorruptMirror, Enqueue, FlushRefuse, FlushStop, SignMldsa, SignSlh,
      FlushRestart, FlushPost, FlushFails, CallBegin, CallSubmit, CallStopped, CallSkip,
      CallRefused, CallFlush, CallPoll, CallReturn, CallEnd
  <2>2. \A r \in ring : r \in Int /\ Given(r) BY DEF TypeInv, IdInv
  <2>. QED BY <1>0, <1>2, <2>1, <2>2 DEF Given
<1>4. \A a \in Algs : \A k \in DOMAIN queue[a] : queue[a][k].rid \in Int /\ Given(queue[a][k].rid)
  <2>. SUFFICES ASSUME NEW a \in Algs, NEW k \in DOMAIN queue[a] PROVE queue[a][k].rid \in Int
    BY DEF IdInv
  <2>1. queue[a] \in Seq(ReqType) BY DEF TypeInv
  <2>2. queue[a][k] \in ReqType BY <2>1, SeqFun
  <2>. QED BY <2>2 DEF ReqType
<1>5. \A k \in DOMAIN cq : cq[k].rid \in Int /\ Given(cq[k].rid)
  <2>1. cq \in Seq(RespType) BY DEF TypeInv
  <2>2. \A k \in DOMAIN cq : cq[k] \in RespType BY <2>1, SeqFun
  <2>. QED BY <2>2 DEF RespType, IdInv
<1>6. \A k \in DOMAIN pending : pending[k].rid \in Int /\ Given(pending[k].rid)
  <2>1. pending \in Seq(ReqType) BY DEF TypeInv
  <2>2. \A k \in DOMAIN pending : pending[k] \in ReqType BY <2>1, SeqFun
  <2>. QED BY <2>2 DEF ReqType, IdInv
<1>7. \A k \in DOMAIN cq' : After(cq'[k].rid)
  <2>1. CASE FlushPost
    <3>1. \A k \in DOMAIN cq' : \/ \E j \in DOMAIN cq : cq'[k] = cq[j]
                               \/ \E j \in DOMAIN job.batch : cq'[k].rid = job.batch[j].rid
      BY <2>1, PostSteps
    <3>2. job.batch = queue[job.alg] /\ job.alg \in Algs BY <2>1, Batch DEF FlushPost
    <3>. QED BY <1>2, <1>4, <1>5, <3>1, <3>2
  <2>2. CASE ~FlushPost
    <3>1. \A k \in DOMAIN cq' : cq'[k].rid \in ring \/ \E j \in DOMAIN cq : cq'[k] = cq[j]
      BY <2>2, CqSteps
    <3>2. \A r \in ring : r \in Int /\ Given(r) BY DEF TypeInv, IdInv
    <3>. QED BY <1>2, <1>5, <3>1, <3>2
  <2>. QED BY <2>1, <2>2
<1>8. \A a \in Algs : \A k \in DOMAIN queue'[a] : After(queue'[a][k].rid)
  <2>. SUFFICES ASSUME NEW a \in Algs, NEW k \in DOMAIN queue'[a] PROVE After(queue'[a][k].rid)
    OBVIOUS
  <2>1. CASE queue' = queue BY <1>2, <1>4, <2>1
  <2>2. CASE FlushRefuse \/ FlushPost \/ FlushFails
    <3>1. queue' = [queue EXCEPT ![job.alg] = <<>>] BY <2>2, FlushesEnd DEF Ends, FlushDone
    <3>2. queue'[a] = queue[a] \/ queue'[a] = <<>> BY <3>1 DEF TypeInv
    <3>. QED BY <1>2, <1>4, <3>2
  <2>3. CASE Enqueue
    <3>1. PICK r : r = pending[1] OBVIOUS
    <3>2. queue' = [queue EXCEPT ![r.alg] = Append(queue[r.alg], r)] /\ pending # <<>>
      BY <2>3, <3>1 DEF Enqueue
    <3>3. 1 \in DOMAIN pending /\ r \in ReqType BY <3>1, <3>2, NonEmpty DEF TypeInv
    <3>4. CASE a # r.alg
      <4>1. queue'[a] = queue[a] BY <3>2, <3>4 DEF TypeInv
      <4>. QED BY <1>2, <1>4, <4>1
    <3>5. CASE a = r.alg
      <4>1. queue'[a] = Append(queue[a], r) BY <3>2, <3>5 DEF TypeInv
      <4>2. queue[a] \in Seq(ReqType) BY DEF TypeInv
      <4>3. (k \in DOMAIN queue[a] /\ queue'[a][k] = queue[a][k]) \/ queue'[a][k] = r
        BY <3>3, <4>1, <4>2, Appended
      <4>. QED BY <1>2, <1>4, <1>6, <3>1, <3>3, <4>3
    <3>. QED BY <3>4, <3>5
  <2>. QED BY <2>1, <2>2, <2>3
     DEF Next, ClientStop, ClientStart, RingSubmit, KernelAnswer, ClientPoll, LoadMldsaKey,
      LoadSlhKey, CorruptMirror, FlushStop, SignMldsa, SignSlh, FlushRestart, CallBegin,
      CallSubmit, CallStopped, CallSkip, CallRefused, CallFlush, CallPoll, CallReturn, CallEnd
<1>9. \A k \in DOMAIN pending' : After(pending'[k].rid)
  <2>1. CASE pending' = pending BY <1>2, <1>6, <2>1
  <2>2. CASE pending' = <<>> BY <2>2
  <2>3. CASE CallSubmit
    <3>1. PICK r : r.rid = nextId /\ pending' = <<r>> /\ nextId' = nextId + 1
      BY <2>3 DEF CallSubmit, Submit
    <3>. QED BY <1>0, <3>1 DEF Given
  <2>. QED BY <2>1, <2>2, <2>3
     DEF Next, ClientStop, ClientStart, RingSubmit, KernelAnswer, ClientPoll, LoadMldsaKey,
      LoadSlhKey, CorruptMirror, Enqueue, FlushRefuse, FlushStop, SignMldsa, SignSlh, FlushRestart,
      FlushPost, FlushFails, CallBegin, CallStopped, CallSkip, CallRefused, CallFlush, CallPoll,
      CallReturn, CallEnd
<1>10. \A m \in DOMAIN call'.ids : call'.ids[m] < nextId'
  <2>0. /\ call.ids \in Seq(Nat) BY DEF TypeInv, CallType
  <2>5. \A m \in DOMAIN call.ids : call.ids[m] \in Nat /\ call.ids[m] < nextId
    BY <2>0, SeqFun DEF IdInv
  <2>1. CASE call'.ids = call.ids BY <1>0, <1>1, <2>1, <2>5
  <2>2. CASE call' = NoCall
    <3>1. DOMAIN call'.ids = {} BY <2>2 DEF NoCall
    <3>. QED BY <3>1
  <2>3. ASSUME NEW c \in Calls, NEW m \in Modes, NEW s \in KeySlots, CallBegin(c, m, s)
        PROVE  \A n \in DOMAIN call'.ids : call'.ids[n] < nextId'
    <3>1. \A n \in DOMAIN call'.ids : call'.ids[n] = 0 BY <2>3 DEF CallBegin, NoCall
    <3>. QED BY <1>0, <1>1, <3>1
  <2>4. CASE CallSubmit
    <3>1. call' = [call EXCEPT !.i = call.i + 1, !.ids = [call.ids EXCEPT ![call.i] = nextId]]
          /\ nextId' = nextId + 1
      BY <2>4, CallFields DEF CallSubmit, Submit
    <3>2. call'.ids = [call.ids EXCEPT ![call.i] = nextId] BY <3>1, CallFields
    <3>3. \A n \in DOMAIN call'.ids : n \in DOMAIN call.ids
                                     /\ (call'.ids[n] = nextId \/ call'.ids[n] = call.ids[n])
      BY <3>2
    <3>. QED BY <1>0, <2>5, <3>1, <3>3
  <2>6. CASE Goes BY <2>1, <2>4, <2>6 DEF Goes
  <2>. QED BY <2>2, <2>3, <2>4, <2>6, CallSteps
<1>. QED BY <1>0, <1>1, <1>3, <1>7, <1>8, <1>9, <1>10 DEF IdInv, Given

\* A poll writes what the response points at, if it is good, and an SLH-DSA call
\* writes it for the message with the response's id.
LEMMA PollSteps ==
  ASSUME TypeInv, ThreadInv, CallPoll
  PROVE  /\ call.at = "poll" /\ job.at = "idle" /\ pending = <<>> /\ MorePolls
         /\ call'.at = "poll" /\ call'.what = call.what /\ call'.ids = call.ids
         /\ 1 \in DOMAIN cq /\ cq[1] \in RespType
         /\ DOMAIN call'.out = DOMAIN call.out
         /\ \A k \in DOMAIN call.out :
              \/ call'.out[k] = call.out[k]
              \/ /\ call'.out[k] = Pointed(cq[1]) /\ cq[1].status = "OK"
                 /\ call.what.kind = "slh" => cq[1].alg = "slh" /\ cq[1].rid = call.ids[k]
<1>1. cq \in Seq(RespType) /\ cq # <<>> BY DEF CallPoll, TypeInv
<1>2. 1 \in DOMAIN cq /\ Head(cq) = cq[1] /\ cq[1] \in RespType BY <1>1, NonEmpty
<1>. DEFINE r == Head(cq)
            to == IF call.what.kind = "slh" THEN Destination(r) ELSE MldsaDestination
            good == r.status = "OK" /\ (call.what.kind = "slh" => r.alg = "slh")
            W == {k \in to : good}
<1>3. call' = [call EXCEPT !.polls = @ + 1,
                 !.out = [k \in DOMAIN @ |-> IF k \in to /\ good THEN Pointed(r) ELSE @[k]]]
  BY DEF CallPoll
<1>4. \A k : k \in W <=> k \in to /\ good OBVIOUS
<1>5. PICK p : p = Pointed(r) OBVIOUS
<1>6. \A k \in W : r.status = "OK" /\ (call.what.kind = "slh" => r.alg = "slh" /\ r.rid = call.ids[k])
  BY DEF Destination
<1>. HIDE DEF r, to, good, W
<1>7. PICK out : out = [k \in DOMAIN call.out |-> IF k \in W THEN p ELSE call.out[k]] OBVIOUS
<1>8. call' = [call EXCEPT !.polls = @ + 1, !.out = out] BY <1>3, <1>4, <1>5, <1>7
<1>9. call'.at = call.at /\ call'.what = call.what /\ call'.ids = call.ids /\ call'.out = out
  BY <1>8, CallFields
<1>10. DOMAIN call'.out = DOMAIN call.out
       /\ \A k \in DOMAIN call.out : call'.out[k] = IF k \in W THEN p ELSE call.out[k]
  BY <1>7, <1>9
<1>11. call.at = "poll" /\ job.at = "idle" /\ pending = <<>> /\ MorePolls
  BY DEF CallPoll, InCall, HostFree
<1>12. r = cq[1] BY <1>2 DEF r
<1>. QED BY <1>2, <1>5, <1>6, <1>9, <1>10, <1>11, <1>12

\* A deterministic call meets deterministic signatures only.
LEMMA DetNext ==
  ASSUME PqAssumption, TypeInv, ThreadInv, FlushInv, QueueInv, DetInv, Next
  PROVE  DetInv'
<1>0. NoCall.at = "none" /\ NoSig.load = 0 BY DEF NoCall, NoSig
<1>1. ASSUME NEW c \in Calls, NEW m \in Modes, NEW s \in KeySlots, CallBegin(c, m, s)
      PROVE  call'.at = "submit" /\ \A k \in DOMAIN call'.out : call'.out[k] = NoSig
  BY <1>1 DEF CallBegin, NoCall
<1>2. ASSUME call'.at = "submit", NEW k \in DOMAIN call'.out PROVE call'.out[k] = NoSig
  <2>1. CASE Goes
    <3>1. call.at = "submit" BY <1>2, <2>1 DEF Goes
    <3>2. call'.out = call.out BY <2>1, <3>1 DEF Goes, CallPoll, CallReturn, InCall
    <3>. QED BY <1>2, <3>1, <3>2 DEF DetInv
  <2>. QED BY <1>0, <1>1, <1>2, <2>1, CallSteps
<1>3. ASSUME call'.at \in {"poll", "done"}, call'.what.det
      PROVE  Goes /\ call.what.det /\ call.what.kind = "batch" /\ AlgOf(call.what) = "ml"
  <2>1. Goes BY <1>0, <1>1, <1>3, CallSteps
  <2>2. call.what.det /\ call.at \in {"submit", "poll", "done"} BY <1>3, <2>1 DEF Goes
  <2>3. call.what \in Calls
    <3>1. call.what \in Calls \/ call.what = NoCall.what BY DEF TypeInv, CallType
    <3>2. ~NoCall.what.det BY DEF NoCall
    <3>. QED BY <2>2, <3>1, <3>2
  <2>4. call.what.kind = "batch" BY <2>2, <2>3 DEF PqAssumption, ClientCalls
  <2>. QED BY <2>1, <2>2, <2>4 DEF AlgOf
<1>4. ASSUME call'.at = "poll", job'.at = "idle", call'.what.det, call'.flushed > 0,
             NEW k \in DOMAIN cq', cq'[k].alg # "ring"
      PROVE  cq'[k].alg = "ml" /\ (cq'[k].status = "OK" => sigs'[cq'[k].off].det)
  <2>1. Goes /\ call.what.det /\ call.what.kind = "batch" /\ AlgOf(call.what) = "ml"
    BY <1>3, <1>4
  <2>2. CASE FlushPost
    <3>1. job.at = "restarted" /\ job.alg = "ml" /\ job.batch = queue["ml"]
          /\ job.batch \in Seq(ReqType) /\ job.batch # <<>> /\ job.was
      BY <2>1, <2>2, Batch DEF FlushPost, FlushInv
    <3>2. \A j \in DOMAIN cq : cq[j].alg = "ring" BY <3>1 DEF FlushInv
    <3>3. PICK j \in DOMAIN job.batch :
            /\ cq'[k].alg = job.batch[j].alg /\ cq'[k].off = job.batch[j].off
            /\ cq'[k].status = "OK" => job.lanes[j]
      BY <1>4, <2>2, <3>2, PostSteps
    <3>4. \A t \in DOMAIN job.batch : job.batch[t].alg = "ml" /\ job.batch[t].det
      BY <2>1, <3>1 DEF ThreadInv, QueueInv, Algs
    <3>5. ASSUME cq'[k].status = "OK" PROVE sigs'[cq'[k].off].det
      <4>1. PICK det \in BOOLEAN : det = Deterministic(job.batch) /\ det
        <5>1. 1 \in DOMAIN job.batch /\ job.batch[1] \in ReqType BY <3>1, NonEmpty
        <5>2. job.batch[1].det \in BOOLEAN BY <5>1 DEF ReqType
        <5>. QED BY <3>4, <5>1, <5>2 DEF Deterministic
      <4>2. PICK batch \in Seq(ReqType) : batch = job.batch BY <3>1
      <4>6. PICK lanes : lanes = job.lanes OBVIOUS
      <4>3. sigs' = WithSignatures(batch, lanes, det) BY <2>2, <3>1, <4>1, <4>2, <4>6 DEF FlushPost
      <4>4. \A i \in DOMAIN batch : lanes[i] =>
              \E t \in DOMAIN batch :
                WithSignatures(batch, lanes, det)[batch[i].off] = Signature(batch[t], det)
        BY Signed
      <4>5. PICK t \in DOMAIN batch : sigs'[cq'[k].off] = Signature(batch[t], det)
        BY <3>3, <3>5, <4>2, <4>3, <4>4, <4>6
      <4>. QED BY <3>4, <4>1, <4>2, <4>5 DEF Signature
    <3>. QED BY <3>3, <3>4, <3>5
  <2>3. CASE FlushRefuse \/ FlushFails
    <3>1. FlushDone(0) /\ job.at # "idle" BY <2>3 DEF FlushRefuse, FlushFails
    <3>2. pending = <<>>
      <4>1. pending # <<>> => call.at = "submit" /\ call' = call BY <3>1 DEF FlushDone, ThreadInv
      <4>. QED BY <1>4, <4>1
    <3>3. call'.flushed = 0 BY <3>1, <3>2, CallFields DEF FlushDone
    <3>. QED BY <1>4, <3>3
  <2>4. CASE ~ (FlushPost \/ FlushRefuse \/ FlushFails)
    <3>1. job.at = "idle"
      <4>1. CASE job' = job BY <1>4, <4>1
      <4>2. CASE Idles BY <4>2, IdleSteps
      <4>3. CASE Outside BY <1>4, <4>3, OutsideKeeps
      <4>4. CASE FlushStop \/ SignMldsa \/ SignSlh \/ FlushRestart
        BY <1>4, <4>4, CallFields DEF FlushStop, SignMldsa, SignSlh, FlushRestart
      <4>. QED BY <2>4, <4>2, <4>3, <4>4, PqSteps DEF Idles
    <3>2. call.at = "poll"
      <4>1. call.at = "submit" \/ call.at = "poll" BY <1>4, <2>1 DEF Goes
      <4>2. ASSUME call.at = "submit" PROVE FALSE
        <5>1. CASE CallFlush
          <6>1. job'.at = "begin" BY <5>1 DEF CallFlush, StartFlush, NoJob
          <6>. QED BY <1>4, <6>1
        <5>2. CASE ~CallFlush
          <6>1. CASE call' = call BY <1>4, <4>2, <6>1
          <6>2. CASE CallSubmit
            <7>1. call' = [call EXCEPT !.i = call.i + 1, !.ids = [call.ids EXCEPT ![call.i] = nextId]]
              BY <6>2, CallFields DEF CallSubmit
            <7>2. call'.at = call.at BY <7>1, CallFields
            <7>. QED BY <1>4, <4>2, <7>2
          <6>3. CASE CallStopped \/ CallSkip \/ CallRefused
            <7>1. \/ call' = NoCall \/ call' = [call EXCEPT !.i = Len(Msgs) + 1]
                  \/ call' = [call EXCEPT !.i = call.i + 1]
              BY <6>3, CallFields DEF CallStopped, CallSkip, CallRefused
            <7>2. call'.at \in {"none", "submit"} BY <1>0, <4>2, <7>1, CallFields
            <7>. QED BY <1>4, <7>2
          <6>4. CASE CallPoll \/ CallReturn \/ CallEnd
            BY <4>2, <6>4 DEF CallPoll, CallReturn, CallEnd, InCall
          <6>5. CASE \E c \in Calls, m \in Modes, s \in KeySlots : CallBegin(c, m, s)
            BY <1>1, <1>4, <6>5
          <6>. QED BY <2>4, <5>2, <6>1, <6>2, <6>3, <6>4, <6>5, PqSteps, OutsideKeeps
               DEF Enqueue, FlushStop, SignMldsa, SignSlh, FlushRestart
        <5>. QED BY <5>1, <5>2
      <4>. QED BY <4>1, <4>2
    <3>3. ~SignSlh BY <3>1 DEF SignSlh
    <3>4. sigs' = sigs /\ \E j \in DOMAIN cq : cq'[k] = cq[j] BY <1>4, <2>4, <3>3, CqSteps, SigSteps
    <3>5. call.flushed > 0 BY <1>4, <2>1, <2>4 DEF Goes
    <3>. QED BY <1>4, <2>1, <3>1, <3>2, <3>4, <3>5 DEF DetInv
  <2>. QED BY <2>2, <2>3, <2>4
<1>5. ASSUME call'.at \in {"poll", "done"}, call'.what.det, NEW k \in DOMAIN call'.out,
             call'.out[k].load # 0
      PROVE  call'.out[k].det
  <2>1. Goes /\ call.what.det /\ call.what.kind = "batch" /\ AlgOf(call.what) = "ml"
    BY <1>3, <1>5
  <2>2. CASE call'.out = call.out
    <3>1. call.at \in {"submit", "poll", "done"} BY <1>5, <2>1 DEF Goes
    <3>. QED BY <1>0, <1>5, <2>1, <2>2, <3>1 DEF DetInv
  <2>3. CASE CallPoll
    <3>1. /\ call.at = "poll" /\ job.at = "idle" /\ MorePolls /\ 1 \in DOMAIN cq
          /\ k \in DOMAIN call.out
          /\ call'.out[k] = call.out[k] \/ (call'.out[k] = Pointed(cq[1]) /\ cq[1].status = "OK")
      BY <1>5, <2>3, PollSteps
    <3>2. call.flushed > 0
      <4>1. call.polls < call.flushed BY <2>1, <3>1 DEF MorePolls
      <4>. QED BY <4>1 DEF TypeInv, CallType
    <3>3. CASE call'.out[k] = call.out[k] BY <1>5, <2>1, <3>1, <3>3 DEF DetInv
    <3>4. CASE call'.out[k] = Pointed(cq[1]) /\ cq[1].status = "OK"
      <4>1. CASE cq[1].alg = "ring"
        <5>1. Pointed(cq[1]).load = 0 BY <4>1 DEF Pointed, NoSig
        <5>. QED BY <1>5, <3>4, <5>1
      <4>2. CASE cq[1].alg # "ring"
        <5>1. sigs[cq[1].off].det BY <2>1, <3>1, <3>2, <3>4, <4>2 DEF DetInv
        <5>. QED BY <3>4, <4>2, <5>1 DEF Pointed
      <4>. QED BY <4>1, <4>2
    <3>. QED BY <3>1, <3>3, <3>4
  <2>4. CASE CallReturn
    <3>1. call'.out = call.out BY <2>1, <2>4, CallFields DEF CallReturn, Returned
    <3>. QED BY <2>2, <3>1
  <2>. QED BY <2>1, <2>2, <2>3, <2>4 DEF Goes
<1>. QED BY <1>2, <1>4, <1>5 DEF DetInv

\* Requests of an SLH-DSA call stay the last of their queue, in order.
LEMMA OrderNext ==
  ASSUME PqAssumption, TypeInv, ThreadInv, IdInv, OrderInv, Next
  PROVE  OrderInv'
<1>. DEFINE q == queue["slh"]
<1>0. /\ q \in Seq(ReqType) /\ pending \in Seq(ReqType) /\ call.ids \in Seq(Nat) /\ call.i \in Nat
      /\ nextSlot \in Nat /\ nextId \in Nat /\ "slh" \in Algs /\ queue \in [Algs -> Seq(ReqType)]
  BY DEF TypeInv, CallType, Algs
<1>. SUFFICES ASSUME InSlhCall' PROVE OrderInv' BY DEF OrderInv
<1>1. ASSUME NEW c \in Calls, NEW m \in Modes, NEW s \in KeySlots, CallBegin(c, m, s)
      PROVE  OrderInv'
  <2>1. /\ queue' = queue /\ pending' = <<>> /\ \A n \in DOMAIN call'.ids : call'.ids[n] = 0
    BY <1>1 DEF CallBegin, NoCall, Quiet, HostFree
  <2>2. \A k \in DOMAIN q : q[k].rid # 0 BY <1>0 DEF IdInv, Given
  <2>3. \A k \in DOMAIN q : q[k].rid \notin CallIds' BY <2>1, <2>2 DEF CallIds
  <2>. QED BY <2>1, <2>3 DEF OrderInv
<1>2. ASSUME InSlhCall, Goes PROVE OrderInv'
  <2>1. CASE queue' = queue /\ pending' = pending /\ nextSlot' = nextSlot /\ call'.ids = call.ids
             /\ call'.i = call.i
    BY <1>2, <2>1 DEF OrderInv, CallIds, Ago
  <2>2. CASE Enqueue
    <3>1. PICK r : r = pending[1] OBVIOUS
    <3>2. /\ pending # <<>> /\ pending' = <<>> /\ call' = call /\ nextSlot' = nextSlot
          /\ queue' = [queue EXCEPT ![r.alg] = Append(queue[r.alg], r)]
      BY <2>2, <3>1 DEF Enqueue
    <3>3. r.alg = "slh" /\ r \in ReqType /\ Len(pending) = 1
      <4>1. r.alg = "slh" /\ Len(pending) <= 1 BY <1>2, <3>1, <3>2 DEF ThreadInv, InSlhCall
      <4>2. r \in ReqType BY <1>0, <3>1, <3>2, NonEmpty
      <4>3. Len(pending) >= 1 BY <1>0, <3>2, NonEmpty
      <4>4. Len(pending) \in Nat /\ Len(pending) <= 1 BY <1>0, <4>1
      <4>5. \A n \in Nat : n <= 1 /\ n >= 1 => n = 1 OBVIOUS
      <4>6. Len(pending) = 1 BY <4>3, <4>4, <4>5
      <4>. QED BY <4>1, <4>2, <4>6
    <3>4. queue'["slh"] = Append(q, r) BY <1>0, <3>2, <3>3
    <3>5. /\ call.i - 1 \in DOMAIN call.ids /\ r.rid = call.ids[call.i - 1]
          /\ r.off = (nextSlot - 1) % SigSlots
      BY <1>2, <3>1, <3>2 DEF OrderInv
    <3>6. Len(Append(q, r)) = Len(q) + 1 /\ Len(q) \in Nat /\ Len(pending') = 0
          /\ DOMAIN q = 1 .. Len(q) /\ DOMAIN Append(q, r) = 1 .. Len(q) + 1
      BY <1>0, <3>2, <3>3
    <3>7. \A k \in DOMAIN Append(q, r) : \/ k \in DOMAIN q /\ Append(q, r)[k] = q[k]
                                         \/ k = Len(q) + 1 /\ Append(q, r)[k] = r
      BY <1>0, <3>3, Appended
    <3>8. ASSUME NEW k \in DOMAIN Append(q, r), Append(q, r)[k].rid \in CallIds,
                 NEW j \in k .. Len(q) + 1
          PROVE  LET d == Len(q) + 1 - j + 1
                 IN  /\ call.i - d \in DOMAIN call.ids
                     /\ Append(q, r)[j].rid = call.ids[call.i - d]
                     /\ Append(q, r)[j].off = (nextSlot - d) % SigSlots
      <4>1. CASE j = Len(q) + 1
        <5>1. Append(q, r)[j] = r /\ Len(q) + 1 - j + 1 = 1 BY <3>6, <3>7, <4>1
        <5>. QED BY <3>5, <5>1
      <4>2. CASE j # Len(q) + 1
        <5>1. k \in DOMAIN q /\ j \in k .. Len(q) /\ j \in DOMAIN q BY <3>6, <4>2
        <5>2. Append(q, r)[k] = q[k] /\ Append(q, r)[j] = q[j]
          <6>1. j \in DOMAIN Append(q, r) /\ k # Len(q) + 1 BY <3>6, <5>1
          <6>. QED BY <3>7, <4>2, <6>1
        <5>3. Ago(j) = Len(q) + 1 - j + 1 BY <3>3, <3>6, <5>1 DEF Ago
        <5>4. /\ call.i - Ago(j) \in DOMAIN call.ids /\ q[j].rid = call.ids[call.i - Ago(j)]
              /\ q[j].off = (nextSlot - Ago(j)) % SigSlots
          BY <1>2, <3>8, <5>1, <5>2 DEF OrderInv
        <5>. QED BY <5>2, <5>3, <5>4
      <4>. QED BY <4>1, <4>2
    <3>9. CallIds' = CallIds BY <3>2 DEF CallIds
    <3>10. \A j \in 1 .. Len(q) + 1 : Ago(j)' = Len(q) + 1 - j + 1 BY <3>4, <3>6 DEF Ago
    <3>11. PICK s : s = Append(q, r) OBVIOUS
    <3>12. queue'["slh"] = s /\ DOMAIN s = 1 .. Len(q) + 1 /\ Len(s) = Len(q) + 1 /\ Len(q) \in Nat
      BY <3>4, <3>6, <3>11
    <3>. HIDE DEF q
    <3>13. ASSUME NEW k \in DOMAIN s, s[k].rid \in CallIds', NEW j \in k .. Len(s)
           PROVE  /\ call'.i - Ago(j)' \in DOMAIN call'.ids
                  /\ s[j].rid = call'.ids[call'.i - Ago(j)']
                  /\ s[j].off = (nextSlot' - Ago(j)') % SigSlots
      <4>1. j \in k .. Len(q) + 1 /\ j \in 1 .. Len(q) + 1 BY <3>12, <3>13
      <4>2. PICK d : d = Ago(j)' /\ d = Len(q) + 1 - j + 1 BY <3>10, <4>1
      <4>. QED BY <3>2, <3>8, <3>9, <3>11, <3>13, <4>1, <4>2
    <3>. QED BY <3>2, <3>12, <3>13 DEF OrderInv
  <2>3. CASE FlushRefuse \/ FlushPost \/ FlushFails
    <3>1. /\ queue' = [queue EXCEPT ![job.alg] = <<>>] /\ job.at # "idle"
          /\ pending' = pending /\ nextSlot' = nextSlot
          /\ \E n \in Nat : call' = call \/ call' = [call EXCEPT !.flushed = n]
      BY <2>3, FlushesEnd DEF Ends, FlushDone
    <3>2. job.alg = "slh" BY <1>2, <3>1 DEF ThreadInv, InSlhCall
    <3>3. queue'["slh"] = <<>> BY <1>0, <3>1, <3>2
    <3>4. call'.ids = call.ids /\ call'.i = call.i BY <3>1, CallFields
    <3>. QED BY <1>2, <3>1, <3>3, <3>4 DEF OrderInv
  <2>4. CASE CallSubmit
    <3>1. PICK r : r.rid = nextId /\ pending' = <<r>> /\ r.off = nextSlot % SigSlots
      BY <2>4 DEF CallSubmit, Submit
    <3>2. /\ queue' = queue /\ pending = <<>> /\ nextSlot' = nextSlot + 1
          /\ call' = [call EXCEPT !.i = call.i + 1, !.ids = [call.ids EXCEPT ![call.i] = nextId]]
          /\ call.i <= Len(Msgs) /\ call.at = "submit"
      BY <2>4, CallFields DEF CallSubmit, Submit, InCall, HostFree
    <3>3. call'.i = call.i + 1 /\ call'.ids = [call.ids EXCEPT ![call.i] = nextId]
      BY <3>2, CallFields
    <3>4. call.i \in DOMAIN call.ids
      <4>1. call.what \in Calls /\ call.i >= 1 /\ DOMAIN call.ids = DOMAIN Msgs
        BY <3>2 DEF ThreadInv
      <4>2. Msgs \in Seq(BOOLEAN) BY <4>1 DEF PqAssumption, ClientCalls, Msgs
      <4>3. DOMAIN Msgs = 1 .. Len(Msgs) BY <4>2
      <4>. QED BY <1>0, <3>2, <4>1, <4>3
    <3>5. Len(pending') = 1 /\ pending'[1] = r /\ Len(pending) = 0 /\ pending' # <<>>
      BY <3>1, <3>2
    <3>6. ASSUME NEW k \in DOMAIN q, q[k].rid \in CallIds', NEW j \in k .. Len(q)
          PROVE  /\ call'.i - Ago(j)' \in DOMAIN call'.ids
                 /\ q[j].rid = call'.ids[call'.i - Ago(j)']
                 /\ q[j].off = (nextSlot' - Ago(j)') % SigSlots
      <4>1. q[k].rid < nextId /\ q[k].rid \in Nat
        <5>1. q[k] \in ReqType BY <1>0, SeqFun
        <5>. QED BY <1>0, <5>1 DEF IdInv, Given, ReqType
      <4>2. q[k].rid \in CallIds
        <5>1. PICK n \in DOMAIN call'.ids : q[k].rid = call'.ids[n] BY <3>6 DEF CallIds
        <5>2. n # call.i BY <1>0, <3>3, <3>4, <4>1, <5>1
        <5>. QED BY <3>3, <5>1, <5>2 DEF CallIds
      <4>3. /\ call.i - Ago(j) \in DOMAIN call.ids /\ q[j].rid = call.ids[call.i - Ago(j)]
            /\ q[j].off = (nextSlot - Ago(j)) % SigSlots
        BY <1>2, <3>6, <4>2 DEF OrderInv
      <4>4. k \in Int /\ Len(q) \in Nat BY <1>0, SeqFun
      <4>5. Ago(j)' = Ago(j) + 1 /\ Ago(j) \in Int /\ Ago(j) >= 1
        BY <3>2, <3>5, <4>4 DEF Ago
      <4>6. call'.i - Ago(j)' = call.i - Ago(j) /\ nextSlot' - Ago(j)' = nextSlot - Ago(j)
            /\ call.i - Ago(j) # call.i
        <5>1. \A d \in Int, n \in Nat : (n + 1) - (d + 1) = n - d /\ (d >= 1 => n - d # n)
          OBVIOUS
        <5>2. call'.i = call.i + 1 /\ nextSlot' = nextSlot + 1 BY <3>2, <3>3
        <5>3. PICK d \in Int : d = Ago(j) /\ Ago(j)' = d + 1 /\ d >= 1 BY <4>5
        <5>4. call'.i - Ago(j)' = (call.i + 1) - (d + 1) BY <5>2, <5>3
        <5>5. nextSlot' - Ago(j)' = (nextSlot + 1) - (d + 1) BY <5>2, <5>3
        <5>. QED BY <1>0, <5>1, <5>3, <5>4, <5>5
      <4>. QED BY <3>3, <4>3, <4>6
    <3>7. /\ call'.i - 1 \in DOMAIN call'.ids /\ pending'[1].rid = call'.ids[call'.i - 1]
          /\ pending'[1].off = (nextSlot' - 1) % SigSlots
      <4>1. call'.i - 1 = call.i /\ nextSlot' - 1 = nextSlot BY <1>0, <3>2, <3>3
      <4>. QED BY <3>1, <3>3, <3>4, <3>5, <4>1
    <3>. HIDE DEF q
    <3>8. queue'["slh"] = q BY <3>2 DEF q
    <3>. QED BY <3>6, <3>7, <3>8 DEF OrderInv
  <2>5. CASE CallStopped \/ CallSkip \/ CallRefused
    <3>1. AlgOf(call.what) = "slh" BY <1>2 DEF InSlhCall
    <3>2. call.what.kind # "batch" BY <3>1 DEF AlgOf
    <3>3. call' = NoCall BY <2>5, <3>1, <3>2 DEF CallStopped, CallSkip, CallRefused
    <3>4. call'.at = "none" BY <3>3 DEF NoCall
    <3>. QED BY <3>4 DEF InSlhCall
  <2>6. CASE ~CallSubmit /\ ~CallStopped /\ ~CallSkip /\ ~CallRefused /\ ~Enqueue
             /\ ~ (FlushRefuse \/ FlushPost \/ FlushFails)
    <3>1. queue' = queue /\ pending' = pending /\ nextSlot' = nextSlot
      BY <2>6 DEF Next, ClientStop, ClientStart, RingSubmit, KernelAnswer, ClientPoll, LoadMldsaKey,
        LoadSlhKey, CorruptMirror, FlushStop, SignMldsa, SignSlh, FlushRestart, CallBegin, CallFlush,
        CallPoll, CallReturn, CallEnd
    <3>. QED BY <1>2, <2>1, <2>6, <3>1 DEF Goes
  <2>. QED BY <2>2, <2>3, <2>4, <2>5, <2>6
<1>. QED BY <1>1, <1>2, SlhCallSteps

\* Two requests of one SLH-DSA call in the queue have different slots, however
\* often the slot counter has gone round: a queue is shorter than the slab.
LEMMA OwnSlots ==
  ASSUME PqAssumption, TypeInv, LengthInv, OrderInv, InSlhCall,
         NEW k \in DOMAIN queue["slh"], queue["slh"][k].rid \in CallIds,
         NEW t \in DOMAIN queue["slh"], t >= k, queue["slh"][t].off = queue["slh"][k].off
  PROVE  t = k
<1>. DEFINE q == queue["slh"]
<1>1. q \in Seq(ReqType) /\ pending \in Seq(ReqType) /\ "slh" \in Algs BY DEF TypeInv, Algs
<1>2. DOMAIN q = 1 .. Len(q) /\ Len(q) \in Nat /\ Len(pending) \in Nat BY <1>1
<1>3. Len(q) <= BatchMax BY <1>1 DEF LengthInv
<1>4. k \in Nat /\ t \in Nat /\ k >= 1 /\ k <= Len(q) /\ t <= Len(q) BY <1>2
<1>5. q[k].off = (nextSlot - Ago(k)) % SigSlots /\ q[t].off = (nextSlot - Ago(t)) % SigSlots
  <2>1. k \in k .. Len(q) /\ t \in k .. Len(q) BY <1>2, <1>4
  <2>. QED BY <2>1 DEF OrderInv
<1>6. PICK a, b : a = nextSlot - Ago(k) /\ b = nextSlot - Ago(t) OBVIOUS
<1>7. a \in Int /\ b \in Int /\ b - a = t - k
  BY <1>2, <1>4, <1>6 DEF Ago, TypeInv
<1>8. t - k < SigSlots BY <1>2, <1>3, <1>4 DEF PqAssumption
<1>9. ASSUME t > k PROVE FALSE
  <2>1. a < b /\ b - a < SigSlots BY <1>4, <1>7, <1>8, <1>9
  <2>2. a % SigSlots # b % SigSlots BY <1>7, <2>1, ModInj DEF PqAssumption
  <2>. QED BY <1>5, <1>6, <2>2
<1>. QED BY <1>4, <1>9

\* The lanes of an SLH-DSA flush that have signed, after the step.
LEMMA LanesNext ==
  ASSUME PqAssumption, TypeInv, ThreadInv, FlushInv, LengthInv, OrderInv, RouteInv, Next,
         job'.alg = "slh", job'.lanes # <<>>,
         NEW k \in DOMAIN job'.batch, job'.lanes[k], job'.batch[k].rid \in CallIds'
  PROVE  sigs'[job'.batch[k].off].rid = job'.batch[k].rid
<1>1. CASE SignSlh
  <2>1. job.at = "stopped" /\ job.alg = "slh" /\ call' = call BY <1>1 DEF SignSlh
  <2>2. job.lanes = <<>> BY <2>1 DEF FlushInv
  <2>3. PICK lanes : lanes = SlhLanes(job.batch) OBVIOUS
  <2>4. [job EXCEPT !.at = "signed"].lanes = <<>> BY <2>2, CallFields
  <2>5. job' = [job EXCEPT !.at = "signed", !.lanes = lanes]
        /\ sigs' = WithSignatures(job.batch, lanes, FALSE)
    BY <1>1, <2>3, <2>4 DEF SignSlh
  <2>6. job'.batch = job.batch /\ job'.lanes = lanes BY <2>5, CallFields
  <2>7. job.batch \in Seq(ReqType) /\ job.batch = queue["slh"] /\ InSlhCall
    BY <2>1, Batch DEF ThreadInv, InSlhCall
  <2>8. PICK det \in BOOLEAN : det = FALSE OBVIOUS
  <2>9. PICK batch \in Seq(ReqType) : batch = job.batch BY <2>7
  <2>10. sigs' = WithSignatures(batch, lanes, det) BY <2>5, <2>8, <2>9
  <2>11. \A i \in DOMAIN batch : lanes[i] =>
           \E t \in DOMAIN batch : /\ t >= i /\ batch[t].off = batch[i].off
                                   /\ WithSignatures(batch, lanes, det)[batch[i].off]
                                        = Signature(batch[t], det)
    BY Signed
  <2>12. k \in DOMAIN batch /\ lanes[k] BY <2>6, <2>9
  <2>13. PICK t \in DOMAIN batch : /\ t >= k /\ batch[t].off = batch[k].off
                                   /\ sigs'[batch[k].off] = Signature(batch[t], det)
    BY <2>10, <2>11, <2>12
  <2>14. CallIds' = CallIds BY <2>1 DEF CallIds
  <2>15. t = k BY <2>6, <2>7, <2>9, <2>12, <2>13, <2>14, OwnSlots
  <2>16. Signature(batch[k], det).rid = batch[k].rid BY DEF Signature
  <2>. QED BY <2>6, <2>9, <2>13, <2>15, <2>16
<1>2. CASE job' = job /\ sigs' = sigs /\ CallIds' = CallIds BY <1>2 DEF RouteInv
<1>3. CASE Outside
  <2>1. UNCHANGED <<job, call>> BY <1>3, OutsideKeeps
  <2>2. sigs' = sigs
    BY <1>3 DEF Outside, ClientStop, ClientStart, RingSubmit, KernelAnswer, ClientPoll, LoadMldsaKey,
                LoadSlhKey, CorruptMirror
  <2>. QED BY <1>2, <2>1, <2>2 DEF CallIds
<1>4. CASE FlushRefuse \/ FlushPost \/ FlushFails
  <2>1. job' = NoJob BY <1>4, FlushesEnd DEF Ends, FlushDone
  <2>. QED BY <2>1, JobNone
<1>5. CASE Idles
  <2>1. job'.lanes = <<>> BY <1>5, IdleSteps
  <2>. QED BY <2>1
<1>6. CASE FlushStop \/ FlushRestart
  <2>1. /\ job'.alg = job.alg /\ job'.batch = job.batch /\ job'.lanes = job.lanes
        /\ sigs' = sigs /\ call' = call
    BY <1>6, CallFields DEF FlushStop, FlushRestart
  <2>. QED BY <2>1 DEF RouteInv, CallIds
<1>7. CASE SignMldsa
  <2>1. job'.alg = "ml" BY <1>7, CallFields DEF SignMldsa
  <2>. QED BY <2>1
<1>. QED BY <1>1, <1>3, <1>4, <1>5, <1>6, <1>7, PqSteps DEF Idles

\* A submit adds an id that no request or answer has, so those that are the
\* call's after it were before.
LEMMA OwnIds ==
  ASSUME TypeInv, IdInv, Goes, NEW rid \in Nat, Given(rid), rid \in CallIds'
  PROVE  rid \in CallIds
<1>1. CASE call'.ids = call.ids BY <1>1 DEF CallIds
<1>2. CASE CallSubmit
  <2>1. call' = [call EXCEPT !.i = call.i + 1, !.ids = [call.ids EXCEPT ![call.i] = nextId]]
    BY <1>2, CallFields DEF CallSubmit
  <2>2. call'.ids = [call.ids EXCEPT ![call.i] = nextId] BY <2>1, CallFields
  <2>3. PICK n \in DOMAIN call'.ids : call'.ids[n] = rid BY DEF CallIds
  <2>4. rid < nextId /\ nextId \in Nat BY DEF Given, TypeInv
  <2>5. rid # nextId BY <2>4
  <2>6. n \in DOMAIN call.ids /\ call'.ids[n] = call.ids[n] BY <2>2, <2>3, <2>5
  <2>. QED BY <2>3, <2>6 DEF CallIds
<1>. QED BY <1>1, <1>2 DEF Goes

\* An id in the SLH-DSA queue or in the completion queue has been given.
LEMMA GivenIds ==
  ASSUME TypeInv, IdInv
  PROVE  /\ \A k \in DOMAIN queue["slh"] :
              queue["slh"][k].rid \in Nat /\ Given(queue["slh"][k].rid)
         /\ \A k \in DOMAIN cq : cq[k].rid \in Nat /\ Given(cq[k].rid)
<1>1. cq \in Seq(RespType) /\ queue["slh"] \in Seq(ReqType) /\ "slh" \in Algs BY DEF TypeInv, Algs
<1>2. \A k \in DOMAIN cq : cq[k] \in RespType BY <1>1, SeqFun
<1>3. \A k \in DOMAIN queue["slh"] : queue["slh"][k] \in ReqType BY <1>1, SeqFun
<1>. QED BY <1>1, <1>2, <1>3 DEF IdInv, RespType, ReqType

\* A call that begins has no id yet.
LEMMA NoIdsYet ==
  ASSUME NEW c \in Calls, NEW m \in Modes, NEW s \in KeySlots, CallBegin(c, m, s)
  PROVE  /\ UNCHANGED <<queue, cq>> /\ pending' = <<>>
         /\ \A rid \in Nat : Given(rid) => rid \notin CallIds'
<1>1. UNCHANGED <<queue, cq>> /\ pending' = <<>> /\ \A n \in DOMAIN call'.ids : call'.ids[n] = 0
  BY DEF CallBegin, NoCall, Quiet, HostFree
<1>. QED BY <1>1 DEF CallIds, Given

\* A request of the call in progress is queued behind requests of its own key.
LEMMA BatchNext ==
  ASSUME PqAssumption, TypeInv, ThreadInv, RunInv, FlushInv, QueueInv, IdInv, BatchInv, Next
  PROVE  BatchInv'
<1>. DEFINE q == queue["slh"]
<1>0. q \in Seq(ReqType) /\ "slh" \in Algs /\ queue \in [Algs -> Seq(ReqType)] BY DEF TypeInv, Algs
<1>1. ASSUME NEW c \in Calls, NEW m \in Modes, NEW s \in KeySlots, CallBegin(c, m, s)
      PROVE  BatchInv'
  <2>1. UNCHANGED queue /\ pending' = <<>> /\ \A rid \in Nat : Given(rid) => rid \notin CallIds'
    BY <1>1, NoIdsYet
  <2>2. ~OwnQueued' BY <2>1, GivenIds DEF OwnQueued
  <2>. QED BY <2>1, <2>2 DEF BatchInv
<1>2. CASE UNCHANGED <<queue, pending, job>> /\ (pending = <<>> \/ UNCHANGED running)
           /\ (InSlhCall' => InSlhCall /\ UNCHANGED <<call.ids, call.slot, call.mode>>)
           /\ (pending = <<>> \/ UNCHANGED call.ids)
  <2>1. InSlhCall' \/ pending # <<>> => OwnQueued' = OwnQueued BY <1>2 DEF OwnQueued, CallIds
  <2>2. pending # <<>> => UNCHANGED <<SameBatch(pending[1].alg, pending[1])>>
    BY <1>2 DEF SameBatch
  <2>. QED BY <1>2, <2>1, <2>2 DEF BatchInv
<1>3. CASE Outside
  <2>1. UNCHANGED <<queue, pending, job, call>> BY <1>3, OutsideKeeps
  <2>2. pending = <<>> \/ UNCHANGED running
    BY <1>3 DEF Outside, ClientStop, ClientStart, RingSubmit, KernelAnswer, ClientPoll,
         LoadMldsaKey, LoadSlhKey, CorruptMirror, Quiet, HostFree
  <2>. QED BY <1>2, <2>1, <2>2 DEF InSlhCall
<1>4. CASE Enqueue
  <2>1. PICK r : r = pending[1] OBVIOUS
  <2>2. /\ pending # <<>> /\ pending' = <<>> /\ call' = call /\ job.at = "idle"
        /\ queue' = [queue EXCEPT ![r.alg] = Append(queue[r.alg], r)]
    BY <1>4, <2>1 DEF Enqueue
  <2>3. /\ r.alg = AlgOf(call.what) /\ r.mode = call.mode /\ r.slot = call.slot
        /\ SameBatch(r.alg, r) /\ r \in ReqType
    BY <2>1, <2>2, NonEmpty DEF ThreadInv, BatchInv, TypeInv
  <2>4. ASSUME InSlhCall
        PROVE  queue'["slh"][1].slot = call.slot /\ queue'["slh"][1].mode = call.mode
    <3>1. r.alg = "slh" BY <2>3, <2>4 DEF InSlhCall
    <3>2. queue'["slh"] = Append(q, r) BY <1>0, <2>2, <3>1
    <3>3. CASE q = <<>>
      <4>1. queue'["slh"][1] = r BY <3>2, <3>3
      <4>. QED BY <2>3, <4>1
    <3>4. CASE q # <<>>
      <4>1. 1 \in DOMAIN q BY <1>0, <3>4, NonEmpty
      <4>2. queue'["slh"][1] = q[1] BY <1>0, <2>3, <3>2, <4>1
      <4>3. q[1].slot = r.slot /\ q[1].mode = r.mode BY <2>3, <3>1, <4>1 DEF SameBatch
      <4>. QED BY <2>3, <4>2, <4>3
    <3>. QED BY <3>3, <3>4
  <2>. QED BY <2>2, <2>4 DEF BatchInv, InSlhCall
<1>5. CASE FlushRefuse \/ FlushPost \/ FlushFails
  <2>1. /\ queue' = [queue EXCEPT ![job.alg] = <<>>] /\ pending' = pending /\ job' = NoJob
        /\ job.at # "idle" /\ \E n \in Nat : call' = call \/ call' = [call EXCEPT !.flushed = n]
    BY <1>5, FlushesEnd DEF Ends, FlushDone
  <2>2. /\ call'.at = call.at /\ call'.what = call.what /\ call'.ids = call.ids
        /\ call'.slot = call.slot /\ call'.mode = call.mode
    BY <2>1, CallFields
  <2>3. job.alg \in Algs /\ job.alg = AlgOf(call.what) BY <2>1, Batch
  <2>4. queue'[job.alg] = <<>> BY <1>0, <2>1, <2>3
  <2>5. pending # <<>> => SameBatch(pending[1].alg, pending[1])'
    <3>1. pending # <<>> => pending'[1].alg = job.alg BY <2>1, <2>3 DEF ThreadInv
    <3>. QED BY <2>4, <3>1 DEF SameBatch
  <2>6. InSlhCall' => ~OwnQueued'
    <3>1. InSlhCall' => job.alg = "slh" BY <2>2, <2>3 DEF InSlhCall
    <3>. QED BY <2>4, <3>1 DEF OwnQueued
  <2>7. job'.at = "idle" BY <2>1, JobNone
  <2>. QED BY <2>1, <2>5, <2>6, <2>7 DEF BatchInv
<1>6. CASE FlushStop \/ SignMldsa \/ SignSlh \/ FlushRestart
  <2>1. UNCHANGED <<queue, pending, call>> /\ job.at # "idle"
    BY <1>6 DEF FlushStop, SignMldsa, SignSlh, FlushRestart
  <2>2. /\ job'.at \in {"stopped", "signed", "restarted"}
        /\ \/ job.at = "begin" /\ job'.was = running
           \/ job.at \in {"stopped", "signed", "restarted"} /\ job'.was = job.was
    BY <1>6, CallFields DEF FlushStop, SignMldsa, SignSlh, FlushRestart
  <2>3. InSlhCall' = InSlhCall /\ OwnQueued' = OwnQueued BY <2>1 DEF InSlhCall, OwnQueued, CallIds
  <2>. QED BY <2>1, <2>2, <2>3 DEF BatchInv
<1>7. CASE CallSubmit
  <2>1. PICK r : /\ r.alg = AlgOf(call.what) /\ r.mode = call.mode /\ r.slot = call.slot
                 /\ pending' = <<r>>
                 /\ job' = IF SameBatch(r.alg, r) THEN NoJob ELSE StartFlush(r.alg)
    BY <1>7 DEF CallSubmit, Submit
  <2>2. /\ UNCHANGED <<queue, running>> /\ running /\ call.at = "submit"
        /\ call' = [call EXCEPT !.i = call.i + 1, !.ids = [call.ids EXCEPT ![call.i] = nextId]]
    BY <1>7, CallFields DEF CallSubmit, Submit, InCall
  <2>3. /\ call'.at = call.at /\ call'.what = call.what
        /\ call'.slot = call.slot /\ call'.mode = call.mode
    BY <2>2, CallFields
  <2>4. Goes
    <3>1. call'.flushed = call.flushed /\ call'.out = call.out BY <2>2, CallFields
    <3>. QED BY <1>7, <2>2, <2>3, <3>1 DEF Goes
  <2>5. OwnQueued' => OwnQueued BY <2>2, <2>4, GivenIds, OwnIds DEF OwnQueued
  <2>6. InSlhCall' => InSlhCall BY <2>3 DEF InSlhCall
  <2>7. pending'[1] = r BY <2>1
  <2>9. CASE SameBatch(r.alg, r)
    <3>1. job'.at = "idle" BY <2>1, <2>9, JobNone
    <3>2. SameBatch(pending[1].alg, pending[1])'
      BY <2>2, <2>7, <2>9 DEF SameBatch
    <3>. QED BY <2>2, <2>3, <2>5, <2>6, <3>1, <3>2 DEF BatchInv
  <2>10. CASE ~SameBatch(r.alg, r)
    <3>1. job'.at = "begin" BY <2>1, <2>10 DEF StartFlush, NoJob
    <3>2. r.alg = "slh"
      <4>1. r.alg = "ml" => SameBatch(r.alg, r) BY <2>1 DEF SameBatch, QueueInv
      <4>. QED BY <2>1, <2>10, <4>1 DEF AlgOf
    <3>3. ~OwnQueued
      <4>1. InSlhCall BY <2>1, <2>2, <3>2 DEF InSlhCall
      <4>2. OwnQueued => SameBatch(r.alg, r) BY <2>1, <3>2, <4>1 DEF BatchInv, SameBatch
      <4>. QED BY <2>10, <4>2
    <3>. QED BY <2>2, <2>5, <2>7, <3>1, <3>2, <3>3 DEF BatchInv
  <2>. QED BY <2>9, <2>10
<1>8. CASE CallStopped \/ CallSkip \/ CallRefused \/ CallPoll \/ CallReturn \/ CallEnd
  <2>1. UNCHANGED <<queue, pending, job>> /\ pending = <<>>
    BY <1>8 DEF CallStopped, CallSkip, CallRefused, CallPoll, CallReturn, CallEnd, InCall, HostFree,
                ThreadInv
  <2>2. CASE call' = NoCall
    <3>1. ~InSlhCall' BY <2>2 DEF InSlhCall, NoCall
    <3>. QED BY <1>2, <2>1, <3>1
  <2>3. CASE Goes
    <3>1. call'.ids = call.ids /\ UNCHANGED <<call.slot, call.mode>>
      BY <1>8, <2>1, <2>3 DEF Goes, CallSubmit, Submit
    <3>2. InSlhCall' => InSlhCall BY <2>3 DEF Goes, InSlhCall
    <3>. QED BY <1>2, <2>1, <3>1, <3>2
  <2>. QED BY <1>1, <2>2, <2>3, CallSteps
<1>9. CASE CallFlush
  <2>1. UNCHANGED <<queue, pending>> /\ pending = <<>> /\ call.at = "submit"
        /\ call' = [call EXCEPT !.at = "poll"]
    BY <1>9 DEF CallFlush, InCall, HostFree
  <2>2. /\ call'.at = "poll" /\ call'.what = call.what /\ call'.ids = call.ids
        /\ call'.slot = call.slot /\ call'.mode = call.mode
    BY <2>1, CallFields
  <2>3. InSlhCall' = InSlhCall /\ OwnQueued' = OwnQueued
    BY <2>1, <2>2 DEF InSlhCall, OwnQueued, CallIds
  <2>. QED BY <2>1, <2>2, <2>3 DEF BatchInv
<1>. QED BY <1>1, <1>3, <1>4, <1>5, <1>6, <1>7, <1>8, <1>9, PqSteps

\* When the kernel goes down for good, the restart that failed has emptied the
\* completion queue, and nothing of the call is answered before its flush ends.
LEMMA DownNext ==
  ASSUME PqAssumption, TypeInv, ThreadInv, RunInv, FlushInv, IdInv, BatchInv, DownInv, Next
  PROVE  DownInv'
<1>. SUFFICES ASSUME InSlhCall', ~Up', queue'["slh"] # <<>> \/ pending' # <<>>, NEW k \in DOMAIN cq'
              PROVE  cq'[k].rid \notin CallIds'
  BY DEF DownInv
<1>1. ASSUME NEW c \in Calls, NEW m \in Modes, NEW s \in KeySlots, CallBegin(c, m, s)
      PROVE  cq'[k].rid \notin CallIds'
  BY <1>1, NoIdsYet, GivenIds
<1>2. CASE ~ (\E c \in Calls, m \in Modes, s \in KeySlots : CallBegin(c, m, s))
  <2>1. InSlhCall /\ Goes BY <1>2, SlhCallSteps
  <2>2. ASSUME \A j \in DOMAIN cq : cq[j].rid \notin CallIds, NEW j \in DOMAIN cq, cq'[k] = cq[j]
        PROVE  cq'[k].rid \notin CallIds'
    BY <2>1, <2>2, GivenIds, OwnIds
  <2>3. CASE FlushRestart
    <3>1. job.at = "signed" /\ UNCHANGED <<queue, pending, call>>
          /\ cq' = IF job.was THEN <<>> ELSE cq
      BY <2>3 DEF FlushRestart, RestartsKernel
    <3>2. ~job.was /\ cq' = cq BY <3>1
    <3>3. ~Up BY <3>1, <3>2 DEF RunInv
    <3>. QED BY <2>1, <2>2, <3>1, <3>2, <3>3 DEF DownInv
  <2>4. CASE ~FlushRestart
    <3>1. UNCHANGED Up
      <4>1. call.at # "none" BY <2>1 DEF InSlhCall
      <4>2. UNCHANGED <<wanted, startFailed>>
        BY <1>2, <2>4, <4>1 DEF Next, ClientStop, ClientStart, RingSubmit, KernelAnswer, ClientPoll,
           LoadMldsaKey, LoadSlhKey, CorruptMirror, Enqueue, FlushRefuse, FlushStop, SignMldsa,
           SignSlh, FlushPost, FlushFails, CallSubmit, CallStopped, CallSkip, CallRefused, CallFlush,
           CallPoll, CallReturn, CallEnd, Quiet
      <4>. QED BY <4>2 DEF Up
    <3>2. ~running
      <4>1. job.at \in {"idle", "begin", "stopped", "signed", "restarted"} BY DEF TypeInv, JobType
      <4>. QED BY <3>1, <4>1 DEF RunInv
    <3>3. ~KernelAnswer /\ ~CallSubmit BY <3>2 DEF KernelAnswer, CallSubmit
    <3>4. queue["slh"] # <<>> \/ pending # <<>>
      <4>1. CASE Enqueue BY <4>1 DEF Enqueue
      <4>2. CASE FlushRefuse \/ FlushPost \/ FlushFails
        <5>1. queue' = [queue EXCEPT ![job.alg] = <<>>] /\ pending' = pending
          BY <4>2, FlushesEnd DEF Ends, FlushDone
        <5>2. queue'["slh"] = queue["slh"] \/ queue'["slh"] = <<>> BY <5>1 DEF TypeInv, Algs
        <5>. QED BY <5>1, <5>2
      <4>. QED BY <1>2, <3>3, <4>1, <4>2 DEF Next, ClientStop, ClientStart, RingSubmit, ClientPoll,
                  LoadMldsaKey, LoadSlhKey, CorruptMirror, FlushStop, SignMldsa, SignSlh,
                  FlushRestart, CallStopped, CallSkip, CallRefused, CallFlush, CallPoll,
                  CallReturn, CallEnd
    <3>5. \A j \in DOMAIN cq : cq[j].rid \notin CallIds BY <2>1, <3>1, <3>4 DEF DownInv
    <3>6. CASE FlushPost
      <4>1. job.at = "restarted" /\ job.alg = "slh" /\ job.batch = queue["slh"]
        BY <2>1, <3>6, Batch DEF FlushPost, InSlhCall
      <4>2. pending # <<>>
        <5>1. queue'["slh"] = <<>> /\ pending' = pending
          <6>1. queue' = [queue EXCEPT ![job.alg] = <<>>] BY <3>6 DEF FlushPost, FlushDone
          <6>. QED BY <3>6, <4>1, <6>1 DEF FlushPost, TypeInv, Algs
        <5>. QED BY <5>1
      <4>3. ~OwnQueued BY <4>1, <4>2 DEF BatchInv
      <4>4. CallIds' = CallIds
        BY <2>1, <3>3 DEF Goes, CallIds
      <4>5. ASSUME NEW j \in DOMAIN job.batch, cq'[k].rid = job.batch[j].rid
            PROVE  cq'[k].rid \notin CallIds'
        BY <4>1, <4>3, <4>4, <4>5 DEF OwnQueued
      <4>. QED BY <2>2, <3>5, <3>6, <4>5, PostSteps
    <3>7. CASE ~FlushPost
      <4>1. (\E j \in DOMAIN cq : cq'[k] = cq[j]) \/ cq' = <<>>
        <5>1. cq \in Seq(RespType) BY DEF TypeInv
        <5>2. CASE cq # <<>> /\ cq' = Tail(cq)
          <6>1. \A n \in DOMAIN cq' : n + 1 \in DOMAIN cq /\ cq'[n] = cq[n + 1] BY <5>1, <5>2, TailOf
          <6>. QED BY <6>1
        <5>. QED BY <1>2, <2>4, <3>3, <3>7, <5>2
             DEF Next, ClientStop, ClientStart, RingSubmit, ClientPoll, LoadMldsaKey, LoadSlhKey,
                 CorruptMirror, Enqueue, FlushRefuse, FlushStop, SignMldsa, SignSlh, FlushFails,
                 CallStopped, CallSkip, CallRefused, CallFlush, CallPoll, CallReturn, CallEnd
      <4>. QED BY <2>2, <3>5, <4>1
    <3>. QED BY <3>6, <3>7
  <2>. QED BY <2>3, <2>4
<1>. QED BY <1>1, <1>2

\* What an SLH-DSA call finds in the completion queue after the step.
LEMMA FoundNext ==
  ASSUME PqAssumption, TypeInv, ThreadInv, RunInv, FlushInv, IdInv, DownInv, RouteInv, Next,
         InSlhCall', job'.at \in {"idle", "begin"},
         NEW k \in DOMAIN cq', cq'[k].alg = "slh", cq'[k].status = "OK", cq'[k].rid \in CallIds'
  PROVE  sigs'[cq'[k].off].rid = cq'[k].rid
<1>0. \A j \in DOMAIN cq : Given(cq[j].rid) /\ cq[j].rid \in Nat
  <2>1. cq \in Seq(RespType) BY DEF TypeInv
  <2>2. \A j \in DOMAIN cq : cq[j] \in RespType BY <2>1, SeqFun
  <2>. QED BY <2>2 DEF IdInv, RespType
<1>1. ASSUME NEW c \in Calls, NEW m \in Modes, NEW s \in KeySlots, CallBegin(c, m, s)
      PROVE  FALSE
  <2>1. cq' = cq /\ \A n \in DOMAIN call'.ids : call'.ids[n] = 0 BY <1>1 DEF CallBegin, NoCall
  <2>2. cq'[k].rid = 0 BY <2>1 DEF CallIds
  <2>. QED BY <1>0, <2>1, <2>2 DEF Given
<1>2. InSlhCall /\ Goes BY <1>1, SlhCallSteps
<1>10. ASSUME job.at = "restarted"
       PROVE  \A j \in DOMAIN cq : cq[j].alg = "ring" \/ cq[j].rid \notin CallIds
  <2>1. CASE job.was BY <1>10, <2>1 DEF FlushInv
  <2>2. CASE ~job.was
    <3>1. ~Up BY <1>10, <2>2 DEF RunInv
    <3>2. queue["slh"] # <<>> BY <1>2, <1>10, Batch DEF FlushInv, InSlhCall
    <3>. QED BY <1>2, <3>1, <3>2 DEF DownInv
  <2>. QED BY <2>1, <2>2
<1>3. CASE FlushPost
  <2>1. job.at = "restarted" /\ job.alg = "slh" /\ sigs' = sigs /\ job.lanes # <<>>
    BY <1>2, <1>3, Batch DEF FlushPost, InSlhCall
  <2>4. CallIds' = CallIds BY <1>2, <1>3 DEF Goes, FlushPost, CallSubmit, InCall, HostFree, CallIds
  <2>2. \A j \in DOMAIN cq : cq[j].alg = "ring" \/ cq[j].rid \notin CallIds BY <1>10, <2>1
  <2>3. PICK j \in DOMAIN job.batch :
          /\ cq'[k].rid = job.batch[j].rid /\ cq'[k].off = job.batch[j].off
          /\ cq'[k].status = "OK" => job.lanes[j]
    BY <1>3, <2>2, <2>4, PostSteps
  <2>. QED BY <2>1, <2>3, <2>4 DEF RouteInv
<1>4. CASE ~FlushPost /\ job.at \in {"idle", "begin"} /\ sigs' = sigs
  <2>1. PICK j \in DOMAIN cq : cq'[k] = cq[j] BY <1>4, CqSteps
  <2>2. cq[j].rid \in CallIds
    <3>1. CASE call'.ids = call.ids BY <2>1, <3>1 DEF CallIds
    <3>2. CASE CallSubmit
      <4>1. call' = [call EXCEPT !.i = call.i + 1, !.ids = [call.ids EXCEPT ![call.i] = nextId]]
        BY <3>2, CallFields DEF CallSubmit
      <4>2. call'.ids = [call.ids EXCEPT ![call.i] = nextId] BY <4>1, CallFields
      <4>3. PICK n \in DOMAIN call'.ids : call'.ids[n] = cq[j].rid BY <2>1 DEF CallIds
      <4>4. cq[j].rid < nextId /\ cq[j].rid \in Nat /\ nextId \in Nat BY <1>0 DEF Given, TypeInv
      <4>5. cq[j].rid # nextId BY <4>4
      <4>6. n \in DOMAIN call.ids /\ call'.ids[n] = call.ids[n] BY <4>2, <4>3, <4>5
      <4>. QED BY <4>3, <4>6 DEF CallIds
    <3>. QED BY <1>2, <3>1, <3>2 DEF Goes
  <2>. QED BY <1>2, <1>4, <2>1, <2>2 DEF RouteInv
<1>5. CASE Outside
  <2>1. UNCHANGED <<job, call>> BY <1>5, OutsideKeeps
  <2>2. sigs' = sigs /\ ~FlushPost
    BY <1>5, <2>1 DEF Outside, ClientStop, ClientStart, RingSubmit, KernelAnswer, ClientPoll,
         LoadMldsaKey, LoadSlhKey, CorruptMirror, FlushPost, FlushDone, NoJob
  <2>. QED BY <1>4, <2>1, <2>2
<1>6. CASE Idles
  <2>1. job.at = "idle" BY <1>6, IdleSteps
  <2>2. ~FlushPost /\ ~SignSlh BY <2>1 DEF FlushPost, SignSlh
  <2>. QED BY <1>4, <2>1, <2>2, SigSteps
<1>7. CASE FlushRefuse
  <2>1. job.at = "begin" BY <1>7 DEF FlushRefuse
  <2>2. ~FlushPost /\ ~SignSlh BY <2>1 DEF FlushPost, SignSlh
  <2>. QED BY <1>4, <2>1, <2>2, SigSteps
<1>8. CASE FlushFails
  <2>1. job.at = "restarted" /\ cq' = cq BY <1>8 DEF FlushFails
  <2>2. CallIds' = CallIds BY <1>2, <1>8 DEF Goes, FlushFails, CallSubmit, InCall, HostFree, CallIds
  <2>. QED BY <1>10, <2>1, <2>2
<1>9. CASE FlushStop \/ SignMldsa \/ SignSlh \/ FlushRestart
  <2>1. job'.at \notin {"idle", "begin"}
    BY <1>9, CallFields DEF FlushStop, SignMldsa, SignSlh, FlushRestart
  <2>. QED BY <2>1
<1>. QED BY <1>3, <1>5, <1>6, <1>7, <1>8, <1>9, PqSteps DEF Idles

\* An SLH-DSA call has read its own signatures only.
LEMMA RouteNext ==
  ASSUME PqAssumption, TypeInv, ThreadInv, RunInv, FlushInv, LengthInv, DetInv, IdInv, OrderInv,
         DownInv, RouteInv, Next
  PROVE  RouteInv'
<1>0. NoCall.at = "none" BY DEF NoCall
<1>1. ASSUME NEW c \in Calls, NEW m \in Modes, NEW s \in KeySlots, CallBegin(c, m, s)
      PROVE  call'.at = "submit"
  BY <1>1 DEF CallBegin, NoCall
<1>2. ASSUME call'.at = "poll", call'.what.kind = "slh", NEW k \in DOMAIN call'.out,
             call'.out[k] # NoSig
      PROVE  call'.out[k].rid = call'.ids[k]
  <2>1. Goes BY <1>0, <1>1, <1>2, CallSteps
  <2>2. call.what.kind = "slh" /\ call.at \in {"submit", "poll"} BY <1>2, <2>1 DEF Goes
  <2>3. ~CallReturn
    <3>1. ASSUME CallReturn PROVE call'.at = "done"
      BY <3>1, CallFields DEF CallReturn, Returned
    <3>. QED BY <1>2, <3>1
  <2>4. ~CallSubmit
    <3>1. ASSUME CallSubmit PROVE call'.at = "submit"
      <4>1. call' = [call EXCEPT !.i = call.i + 1, !.ids = [call.ids EXCEPT ![call.i] = nextId]]
            /\ call.at = "submit"
        BY <3>1, CallFields DEF CallSubmit, InCall
      <4>. QED BY <4>1, CallFields
    <3>. QED BY <1>2, <3>1
  <2>5. call'.ids = call.ids BY <2>1, <2>4 DEF Goes
  <2>6. CASE call'.out = call.out
    <3>1. call.at = "poll" BY <1>2, <2>2, <2>6 DEF DetInv
    <3>. QED BY <1>2, <2>2, <2>5, <2>6, <3>1 DEF RouteInv
  <2>7. CASE CallPoll
    <3>1. /\ call.at = "poll" /\ job.at = "idle" /\ 1 \in DOMAIN cq /\ k \in DOMAIN call.out
          /\ \/ call'.out[k] = call.out[k]
             \/ /\ call'.out[k] = Pointed(cq[1]) /\ cq[1].status = "OK"
                /\ cq[1].alg = "slh" /\ cq[1].rid = call.ids[k]
      BY <1>2, <2>2, <2>7, PollSteps
    <3>2. CASE call'.out[k] = call.out[k] BY <1>2, <2>2, <2>5, <3>1, <3>2 DEF RouteInv
    <3>3. CASE /\ call'.out[k] = Pointed(cq[1]) /\ cq[1].status = "OK"
               /\ cq[1].alg = "slh" /\ cq[1].rid = call.ids[k]
      <4>1. k \in DOMAIN call.ids BY <3>1 DEF ThreadInv
      <4>2. InSlhCall /\ cq[1].rid \in CallIds BY <2>2, <3>1, <3>3, <4>1 DEF InSlhCall, AlgOf, CallIds
      <4>3. sigs[cq[1].off].rid = cq[1].rid BY <3>1, <3>3, <4>2 DEF RouteInv
      <4>. QED BY <2>5, <3>3, <4>3 DEF Pointed
    <3>. QED BY <3>1, <3>2, <3>3
  <2>. QED BY <2>1, <2>3, <2>6, <2>7 DEF Goes
<1>3. SlhRouted'
  <2>. SUFFICES ASSUME call'.at = "done", call'.what.kind = "slh", call'.ok,
                       NEW k \in DOMAIN call'.what.msgs
                PROVE  call'.out[k].rid = call'.ids[k]
    BY DEF SlhRouted, Msgs
  <2>1. Goes BY <1>0, <1>1, CallSteps
  <2>2. call'.what = call.what /\ call.at \in {"poll", "done"} BY <2>1 DEF Goes
  <2>3. call'.ids = call.ids BY <2>1, <2>2 DEF Goes, CallSubmit, InCall
  <2>4. CASE CallReturn
    <3>1. call.at = "poll" BY <2>4 DEF CallReturn, InCall
    <3>2. DOMAIN call.out = DOMAIN call.what.msgs BY <3>1 DEF ThreadInv, Msgs
    <3>3. PICK all : all = (\A n \in DOMAIN Msgs : call.out[n] # NoSig) OBVIOUS
    <3>4. call' = [call EXCEPT !.at = "done", !.ok = all,
                     !.out = IF all THEN @ ELSE [n \in DOMAIN @ |-> NoSig]]
      BY <2>2, <2>4, <3>3 DEF CallReturn, Returned
    <3>5. all BY <3>4, CallFields
    <3>6. call'.out = call.out BY <3>4, <3>5, CallFields
    <3>7. k \in DOMAIN call.out /\ call.out[k] # NoSig BY <2>2, <3>2, <3>3, <3>5 DEF Msgs
    <3>. QED BY <2>2, <2>3, <3>1, <3>6, <3>7 DEF RouteInv
  <2>5. CASE call.at = "done" /\ call'.ok = call.ok
    <3>1. call'.out = call.out BY <2>1, <2>5 DEF Goes, CallPoll, CallReturn, InCall
    <3>. QED BY <2>2, <2>3, <2>5, <3>1 DEF RouteInv, SlhRouted, Msgs
  <2>. QED BY <2>1, <2>4, <2>5 DEF Goes
<1>4. ASSUME job'.alg = "slh", job'.lanes # <<>>,
             NEW k \in DOMAIN job'.batch, job'.lanes[k], job'.batch[k].rid \in CallIds'
      PROVE  sigs'[job'.batch[k].off].rid = job'.batch[k].rid
  BY <1>4, LanesNext
<1>5. ASSUME InSlhCall', job'.at \in {"idle", "begin"},
             NEW k \in DOMAIN cq', cq'[k].alg = "slh", cq'[k].status = "OK", cq'[k].rid \in CallIds'
      PROVE  sigs'[cq'[k].off].rid = cq'[k].rid
  BY <1>5, FoundNext
<1>. QED BY <1>2, <1>3, <1>4, <1>5 DEF RouteInv
-----------------------------------------------------------------------------
(* Who owns a slot. *)

\* A request, and an answer that is not the ring's, names its slot.
LEMMA PlaceOf ==
  ASSUME NEW s, NEW k \in DOMAIN s
  PROVE  <<s[k].off, s[k].rid>> \in PlacesOf(s)
  BY DEF PlacesOf

LEMMA AnswerOf ==
  ASSUME NEW s, NEW k \in DOMAIN s, s[k].alg # "ring"
  PROVE  <<s[k].off, s[k].rid>> \in AnswersOf(s)
  BY DEF AnswersOf

\* The queues after a step hold what they held or what was pending.
LEMMA QueuePlaces ==
  ASSUME TypeInv, ThreadInv, Next, NEW a \in Algs
  PROVE  PlacesOf(queue'[a]) \subseteq PlacesOf(queue[a]) \cup PlacesOf(pending)
<1>1. CASE queue' = queue BY <1>1
<1>2. CASE FlushRefuse \/ FlushPost \/ FlushFails
  <2>1. queue' = [queue EXCEPT ![job.alg] = <<>>] BY <1>2, FlushesEnd DEF Ends, FlushDone
  <2>2. queue'[a] = queue[a] \/ queue'[a] = <<>> BY <2>1 DEF TypeInv
  <2>3. PlacesOf(<<>>) = {} BY DEF PlacesOf
  <2>. QED BY <2>2, <2>3
<1>3. CASE Enqueue
  <2>1. PICK r : r = pending[1] OBVIOUS
  <2>2. queue' = [queue EXCEPT ![r.alg] = Append(queue[r.alg], r)] /\ pending # <<>>
    BY <1>3, <2>1 DEF Enqueue
  <2>3. 1 \in DOMAIN pending /\ r \in ReqType BY <2>1, <2>2, NonEmpty DEF TypeInv
  <2>4. CASE a # r.alg
    <3>1. queue'[a] = queue[a] BY <2>2, <2>4 DEF TypeInv
    <3>. QED BY <3>1
  <2>5. CASE a = r.alg
    <3>1. queue'[a] = Append(queue[a], r) /\ queue[a] \in Seq(ReqType) BY <2>2, <2>5 DEF TypeInv
    <3>2. PICK s : s = queue'[a] OBVIOUS
    <3>3. \A k \in DOMAIN s : (k \in DOMAIN queue[a] /\ s[k] = queue[a][k]) \/ s[k] = pending[1]
      BY <2>1, <2>3, <3>1, <3>2, Appended
    <3>4. ASSUME NEW x \in PlacesOf(s) PROVE x \in PlacesOf(queue[a]) \cup PlacesOf(pending)
      <4>1. PICK k \in DOMAIN s : x = <<s[k].off, s[k].rid>> BY DEF PlacesOf
      <4>. QED BY <2>3, <3>3, <4>1, PlaceOf
    <3>. QED BY <3>2, <3>4
  <2>. QED BY <2>4, <2>5
<1>. QED BY <1>1, <1>2, <1>3
     DEF Next, ClientStop, ClientStart, RingSubmit, KernelAnswer, ClientPoll, LoadMldsaKey,
      LoadSlhKey, CorruptMirror, FlushStop, SignMldsa, SignSlh, FlushRestart, CallBegin,
      CallSubmit, CallStopped, CallSkip, CallRefused, CallFlush, CallPoll, CallReturn, CallEnd

\* The one step that names a slot anew.
NewPlace == <<nextSlot % SigSlots, nextId>>

\* A submit that waits for a flush names the slot it has just been given.
LEMMA PendingPlaces ==
  ASSUME Next
  PROVE  \/ PlacesOf(pending') \subseteq PlacesOf(pending)
         \/ CallSubmit /\ PlacesOf(pending') = {NewPlace}
<1>0. PlacesOf(<<>>) = {} BY DEF PlacesOf
<1>1. CASE pending' = pending \/ pending' = <<>> BY <1>0, <1>1
<1>2. CASE CallSubmit
  <2>1. PICK r : r.rid = nextId /\ pending' = <<r>> /\ r.off = nextSlot % SigSlots
    BY <1>2 DEF CallSubmit, Submit
  <2>2. DOMAIN pending' = {1} /\ pending'[1] = r BY <2>1
  <2>3. PICK s : s = pending' OBVIOUS
  <2>4. PlacesOf(s) = {<<s[1].off, s[1].rid>>} BY <2>2, <2>3 DEF PlacesOf
  <2>. QED BY <1>2, <2>1, <2>2, <2>3, <2>4 DEF NewPlace
<1>. QED BY <1>1, <1>2
     DEF Next, ClientStop, ClientStart, RingSubmit, KernelAnswer, ClientPoll, LoadMldsaKey,
      LoadSlhKey, CorruptMirror, Enqueue, FlushRefuse, FlushStop, SignMldsa, SignSlh, FlushRestart,
      FlushPost, FlushFails, CallBegin, CallStopped, CallSkip, CallRefused, CallFlush, CallPoll,
      CallReturn, CallEnd

\* The answers after a step name what was named by answers or by the batch.
LEMMA AnswerPlaces ==
  ASSUME TypeInv, ThreadInv, FlushInv, Next
  PROVE  AnswersOf(cq') \subseteq Places
<1>0. \A a \in Algs : PlacesOf(queue[a]) \subseteq Places BY DEF Places, Algs
<1>1. PICK s : s = cq' OBVIOUS
<1>. SUFFICES ASSUME NEW x \in AnswersOf(s) PROVE x \in Places BY <1>1
<1>2. PICK k \in DOMAIN s : s[k].alg # "ring" /\ x = <<s[k].off, s[k].rid>> BY DEF AnswersOf
<1>3. \/ \E j \in DOMAIN cq : s[k] = cq[j]
      \/ FlushPost /\ \E j \in DOMAIN job.batch :
                        s[k].rid = job.batch[j].rid /\ s[k].off = job.batch[j].off
  BY <1>1, <1>2, CqSteps, PostSteps
<1>4. ASSUME NEW j \in DOMAIN cq, s[k] = cq[j] PROVE x \in Places
  <2>1. <<cq[j].off, cq[j].rid>> \in AnswersOf(cq) BY <1>2, <1>4, AnswerOf
  <2>. QED BY <1>2, <1>4, <2>1 DEF Places
<1>5. ASSUME FlushPost, NEW j \in DOMAIN job.batch,
             s[k].rid = job.batch[j].rid, s[k].off = job.batch[j].off
      PROVE  x \in Places
  <2>1. job.batch = queue[job.alg] /\ job.alg \in Algs BY <1>5, Batch DEF FlushPost
  <2>2. <<job.batch[j].off, job.batch[j].rid>> \in PlacesOf(job.batch) BY <1>5, PlaceOf
  <2>. QED BY <1>0, <1>2, <1>5, <2>1, <2>2
<1>. QED BY <1>3, <1>4, <1>5

\* A step names no slot that was not named, but for a submit.
LEMMA PlacesNext ==
  ASSUME TypeInv, ThreadInv, FlushInv, Next
  PROVE  \/ Places' \subseteq Places
         \/ CallSubmit /\ Places' \subseteq Places \cup {NewPlace}
<1>1. /\ PlacesOf(queue'["ml"]) \subseteq Places /\ PlacesOf(queue'["slh"]) \subseteq Places
  <2>1. "ml" \in Algs /\ "slh" \in Algs BY DEF Algs
  <2>2. /\ PlacesOf(queue'["ml"]) \subseteq PlacesOf(queue["ml"]) \cup PlacesOf(pending)
        /\ PlacesOf(queue'["slh"]) \subseteq PlacesOf(queue["slh"]) \cup PlacesOf(pending)
    BY <2>1, QueuePlaces
  <2>. QED BY <2>2 DEF Places
<1>2. AnswersOf(cq') \subseteq Places BY AnswerPlaces
<1>3. \/ PlacesOf(pending') \subseteq Places
      \/ CallSubmit /\ PlacesOf(pending') = {NewPlace}
  <2>1. PlacesOf(pending) \subseteq Places BY DEF Places
  <2>. QED BY <2>1, PendingPlaces
<1>4. Places' = PlacesOf(queue'["ml"]) \cup PlacesOf(queue'["slh"]) \cup PlacesOf(pending')
                \cup AnswersOf(cq')
  BY DEF Places, PlacesOf, AnswersOf
<1>. QED BY <1>1, <1>2, <1>3, <1>4

\* The batch of a flush is named, each request at its slot.
LEMMA BatchPlaces ==
  ASSUME TypeInv, ThreadInv, job.at # "idle", NEW k \in DOMAIN job.batch
  PROVE  <<job.batch[k].off, job.batch[k].rid>> \in Places
<1>1. job.batch = queue[job.alg] /\ job.alg \in Algs BY Batch
<1>2. <<job.batch[k].off, job.batch[k].rid>> \in PlacesOf(job.batch) BY PlaceOf
<1>. QED BY <1>1, <1>2 DEF Places, Algs

\* A lane that signs leaves its own signature in its slot, and no other touches
\* the slot of an answer that is waiting.
LEMMA OwnerSigned ==
  ASSUME TypeInv, ThreadInv, OneOwner(Places), job.at # "idle", NEW lanes, NEW det \in BOOLEAN
  PROVE  LET ws == WithSignatures(job.batch, lanes, det)
         IN  /\ \A k \in DOMAIN job.batch : lanes[k] =>
                  ws[job.batch[k].off].rid = job.batch[k].rid
             /\ \A p \in Places :
                  sigs[p[1]].rid = p[2] /\ p[1] \in DOMAIN sigs => ws[p[1]].rid = p[2]
<1>1. PICK batch \in Seq(ReqType) : batch = job.batch BY Batch
<1>2. PICK ws : ws = WithSignatures(batch, lanes, det) OBVIOUS
<1>3. /\ \A o \in DOMAIN sigs :
           ws[o] = sigs[o] \/ \E t \in DOMAIN batch :
                                batch[t].off = o /\ ws[o] = Signature(batch[t], det)
      /\ \A k \in DOMAIN batch : lanes[k] =>
           \E t \in DOMAIN batch : /\ t >= k /\ batch[t].off = batch[k].off
                                   /\ ws[batch[k].off] = Signature(batch[t], det)
  BY <1>2, Signed
<1>4. \A t \in DOMAIN batch : Signature(batch[t], det).rid = batch[t].rid BY DEF Signature
<1>5. \A t \in DOMAIN batch : <<batch[t].off, batch[t].rid>> \in Places BY <1>1, BatchPlaces
<1>6. ASSUME NEW k \in DOMAIN batch, lanes[k] PROVE ws[batch[k].off].rid = batch[k].rid
  <2>1. PICK t \in DOMAIN batch :
          batch[t].off = batch[k].off /\ ws[batch[k].off] = Signature(batch[t], det)
    BY <1>3, <1>6
  <2>2. batch[t].rid = batch[k].rid BY <1>5, <2>1 DEF OneOwner
  <2>. QED BY <1>4, <2>1, <2>2
<1>7. ASSUME NEW p \in Places, sigs[p[1]].rid = p[2], p[1] \in DOMAIN sigs
      PROVE  ws[p[1]].rid = p[2]
  <2>1. CASE ws[p[1]] = sigs[p[1]] BY <1>7, <2>1
  <2>2. ASSUME NEW t \in DOMAIN batch, batch[t].off = p[1], ws[p[1]] = Signature(batch[t], det)
        PROVE  ws[p[1]].rid = p[2]
    <3>1. batch[t].rid = p[2] BY <1>5, <2>2 DEF OneOwner
    <3>. QED BY <1>4, <2>2, <3>1
  <2>. QED BY <1>3, <1>7, <2>1, <2>2
<1>. QED BY <1>1, <1>2, <1>6, <1>7

\* What two steps do to the slots that are named: a submit takes one that is
\* free, a flush signs into those of its batch.
LEMMA SlotNext ==
  ASSUME PqAssumption, TypeInv, ThreadInv, FlushInv, SlotInv, Next, CallSubmit => NextSlotFree
  PROVE  SlotInv'
<1>1. OneOwner(Places')
  <2>1. CASE Places' \subseteq Places BY <2>1 DEF OneOwner, SlotInv
  <2>2. CASE CallSubmit /\ Places' \subseteq Places \cup {NewPlace}
    <3>1. \A p \in Places : p[1] # NewPlace[1] BY <2>2 DEF NextSlotFree, NewPlace
    <3>2. \A p, q \in Places \cup {NewPlace} : p[1] = q[1] => p[2] = q[2]
      BY <3>1 DEF OneOwner, SlotInv
    <3>. QED BY <2>2, <3>2 DEF OneOwner
  <2>. QED BY <2>1, <2>2, PlacesNext
<1>2. ASSUME NEW k \in DOMAIN cq', cq'[k].alg # "ring", cq'[k].status = "OK"
      PROVE  sigs'[cq'[k].off].rid = cq'[k].rid
  <2>0. cq \in Seq(RespType) /\ sigs \in [0 .. SigSlots - 1 -> SigType] BY DEF TypeInv
  <2>1. CASE FlushPost
    <3>1. job.at = "restarted" /\ job.lanes # <<>> BY <2>1 DEF FlushPost
    <3>2. \/ \E j \in DOMAIN cq : cq'[k] = cq[j]
          \/ \E j \in DOMAIN job.batch :
               /\ cq'[k].rid = job.batch[j].rid /\ cq'[k].off = job.batch[j].off
               /\ cq'[k].status = "OK" => job.lanes[j]
      BY <2>1, PostSteps
    <3>4. CASE job.alg = "slh"
      <4>1. sigs' = sigs BY <2>1, <3>4 DEF FlushPost
      <4>. QED BY <1>2, <3>1, <3>2, <3>4, <4>1 DEF SlotInv, PostedIsOwn
    <3>5. CASE job.alg # "slh"
      <4>5. job.alg = "ml" BY <3>1, <3>5, Batch DEF Algs
      <4>6. \A j \in DOMAIN cq : cq[j].alg = "ring" BY <3>1, <4>5 DEF FlushInv
      <4>7. PICK j \in DOMAIN job.batch :
              /\ cq'[k].rid = job.batch[j].rid /\ cq'[k].off = job.batch[j].off
              /\ cq'[k].status = "OK" => job.lanes[j]
        BY <1>2, <3>2, <4>6
      <4>1. PICK det \in BOOLEAN : det = Deterministic(job.batch)
        <5>1. job.batch \in Seq(ReqType) /\ job.batch # <<>> BY <3>1, Batch DEF FlushInv
        <5>2. job.batch[1] \in ReqType BY <5>1, NonEmpty
        <5>. QED BY <5>2 DEF Deterministic, ReqType
      <4>2. PICK lanes : lanes = job.lanes OBVIOUS
      <4>3. sigs' = WithSignatures(job.batch, lanes, det) BY <2>1, <3>5, <4>1, <4>2 DEF FlushPost
      <4>4. \A i \in DOMAIN job.batch : lanes[i] =>
              WithSignatures(job.batch, lanes, det)[job.batch[i].off].rid = job.batch[i].rid
        BY <3>1, OwnerSigned DEF SlotInv
      <4>. QED BY <1>2, <4>2, <4>3, <4>4, <4>7
    <3>. QED BY <3>4, <3>5
  <2>2. CASE ~FlushPost
    <3>1. PICK j \in DOMAIN cq : cq'[k] = cq[j] BY <1>2, <2>2, CqSteps
    <3>2. sigs[cq[j].off].rid = cq[j].rid BY <1>2, <3>1 DEF SlotInv, PostedIsOwn
    <3>3. CASE sigs' = sigs BY <3>1, <3>2, <3>3
    <3>4. CASE SignSlh
      <4>1. job.at = "stopped" BY <3>4 DEF SignSlh
      <4>5. PICK det \in BOOLEAN : det = FALSE OBVIOUS
      <4>3. ASSUME NEW lanes, sigs' = WithSignatures(job.batch, lanes, det)
            PROVE  sigs'[cq'[k].off].rid = cq'[k].rid
        <5>1. <<cq[j].off, cq[j].rid>> \in Places BY <1>2, <3>1, AnswerOf DEF Places
        <5>2. PICK p \in Places : p[1] = cq[j].off /\ p[2] = cq[j].rid BY <5>1
        <5>3. p[1] \in DOMAIN sigs
          <6>1. cq[j] \in RespType BY <2>0, SeqFun
          <6>. QED BY <2>0, <5>2, <6>1 DEF RespType
        <5>4. \A q \in Places : sigs[q[1]].rid = q[2] /\ q[1] \in DOMAIN sigs =>
                WithSignatures(job.batch, lanes, det)[q[1]].rid = q[2]
          BY <4>1, OwnerSigned DEF SlotInv
        <5>. QED BY <3>1, <3>2, <4>3, <5>2, <5>3, <5>4
      <4>6. sigs' = sigs \/ \E copied : sigs' = WithSignatures(job.batch, copied, det)
        BY <3>4, <4>5 DEF SignSlh
      <4>. QED BY <3>3, <4>3, <4>6
    <3>. QED BY <2>2, <3>3, <3>4, SigSteps
  <2>. QED BY <2>1, <2>2
<1>3. ASSUME job'.alg = "slh", job'.lanes # <<>>, NEW k \in DOMAIN job'.batch, job'.lanes[k]
      PROVE  sigs'[job'.batch[k].off].rid = job'.batch[k].rid
  <2>1. CASE SignSlh
    <3>1. job.at = "stopped" BY <2>1 DEF SignSlh
    <3>2. job.lanes = <<>> BY <3>1 DEF FlushInv
    <3>3. PICK lanes : lanes = SlhLanes(job.batch) OBVIOUS
    <3>4. [job EXCEPT !.at = "signed"].lanes = <<>> BY <3>2, CallFields
    <3>5. PICK det \in BOOLEAN : det = FALSE OBVIOUS
    <3>6. job' = [job EXCEPT !.at = "signed", !.lanes = lanes]
          /\ sigs' = WithSignatures(job.batch, lanes, det)
      BY <1>3, <2>1, <3>3, <3>4, <3>5 DEF SignSlh
    <3>7. job'.batch = job.batch /\ job'.lanes = lanes BY <3>6, CallFields
    <3>8. \A i \in DOMAIN job.batch : lanes[i] =>
            WithSignatures(job.batch, lanes, det)[job.batch[i].off].rid = job.batch[i].rid
      BY <3>1, OwnerSigned DEF SlotInv
    <3>. QED BY <1>3, <3>6, <3>7, <3>8
  <2>2. CASE FlushRefuse \/ FlushPost \/ FlushFails
    <3>1. job' = NoJob BY <2>2, FlushesEnd DEF Ends, FlushDone
    <3>. QED BY <1>3, <3>1, JobNone
  <2>3. CASE Idles
    <3>1. job'.lanes = <<>> BY <2>3, IdleSteps
    <3>. QED BY <1>3, <3>1
  <2>4. CASE FlushStop \/ FlushRestart
    <3>1. /\ job'.alg = job.alg /\ job'.batch = job.batch /\ job'.lanes = job.lanes
          /\ sigs' = sigs
      BY <2>4, CallFields DEF FlushStop, FlushRestart
    <3>. QED BY <1>3, <3>1 DEF SlotInv
  <2>5. CASE SignMldsa
    <3>1. job'.alg = job.alg /\ job.alg = "ml" BY <2>5, CallFields DEF SignMldsa
    <3>. QED BY <1>3, <3>1
  <2>6. CASE Outside
    <3>1. job' = job BY <2>6, OutsideKeeps
    <3>2. sigs' = sigs
      BY <2>6 DEF Outside, ClientStop, ClientStart, RingSubmit, KernelAnswer, ClientPoll,
           LoadMldsaKey, LoadSlhKey, CorruptMirror
    <3>. QED BY <1>3, <3>1, <3>2 DEF SlotInv
  <2>. QED BY <2>1, <2>2, <2>3, <2>4, <2>5, <2>6, PqSteps DEF Idles
<1>. QED BY <1>1, <1>2, <1>3 DEF SlotInv, PostedIsOwn

\* A slot is taken by a submit and by nothing else.
LEMMA NextSlotSteps ==
  ASSUME Next
  PROVE  nextSlot' = nextSlot \/ (CallSubmit /\ nextSlot' = nextSlot + 1)
  BY DEF Next, ClientStop, ClientStart, RingSubmit, KernelAnswer, ClientPoll, LoadMldsaKey,
      LoadSlhKey, CorruptMirror, Enqueue, FlushRefuse, FlushStop, SignMldsa, SignSlh, FlushRestart,
      FlushPost, FlushFails, CallBegin, CallSubmit, Submit, CallStopped, CallSkip, CallRefused,
      CallFlush, CallPoll, CallReturn, CallEnd

\* In the first lap the counter is at a slot that no one has had.
LEMMA LapNext ==
  ASSUME PqAssumption, TypeInv, ThreadInv, FlushInv, LapInv, Next
  PROVE  LapInv'
<1>. SUFFICES ASSUME nextSlot' <= SigSlots
              PROVE  SlotInv' /\ \A p \in Places' : p[1] < nextSlot'
  BY DEF LapInv, FirstLap
<1>0. nextSlot \in Nat /\ SigSlots \in Nat \ {0} BY DEF TypeInv, PqAssumption
<1>1. nextSlot <= SigSlots BY <1>0, NextSlotSteps
<1>2. SlotInv /\ \A p \in Places : p[1] < nextSlot BY <1>1 DEF LapInv, FirstLap
<1>3. ASSUME CallSubmit PROVE nextSlot' = nextSlot + 1 /\ nextSlot % SigSlots = nextSlot
  <2>1. nextSlot' = nextSlot + 1 BY <1>3 DEF CallSubmit, Submit
  <2>. QED BY <1>0, <2>1
<1>4. ASSUME CallSubmit PROVE NextSlotFree
  <2>1. \A p \in Places : p[1] # nextSlot
    <3>. SUFFICES ASSUME NEW p \in Places, p[1] = nextSlot PROVE FALSE OBVIOUS
    <3>1. nextSlot < nextSlot BY <1>2
    <3>. QED BY <1>0, <3>1
  <2>. QED BY <1>3, <1>4, <2>1 DEF NextSlotFree
<1>5. SlotInv' BY <1>2, <1>4, SlotNext
<1>6. ASSUME NEW p \in Places' PROVE p[1] < nextSlot'
  <2>1. CASE p \in Places
    <3>1. p[1] < nextSlot BY <1>2, <2>1
    <3>2. p[1] \in Nat
      <4>1. \A s : s \in Seq(ReqType) => \A k \in DOMAIN s : s[k].off \in Nat
        <5>. SUFFICES ASSUME NEW s \in Seq(ReqType), NEW k \in DOMAIN s PROVE s[k].off \in Nat
          OBVIOUS
        <5>1. s[k] \in ReqType BY SeqFun
        <5>. QED BY <1>0, <5>1 DEF ReqType
      <4>2. \A k \in DOMAIN cq : cq[k].off \in Nat
        <5>1. cq \in Seq(RespType) BY DEF TypeInv
        <5>2. \A k \in DOMAIN cq : cq[k] \in RespType BY <5>1, SeqFun
        <5>. QED BY <1>0, <5>2 DEF RespType
      <4>3. /\ queue["ml"] \in Seq(ReqType) /\ queue["slh"] \in Seq(ReqType)
            /\ pending \in Seq(ReqType)
        BY DEF TypeInv, Algs
      <4>4. \A s \in Seq(ReqType) : \A x \in PlacesOf(s) : x[1] \in Nat BY <4>1 DEF PlacesOf
      <4>5. \A x \in AnswersOf(cq) : x[1] \in Nat BY <4>2 DEF AnswersOf
      <4>. QED BY <2>1, <4>3, <4>4, <4>5 DEF Places
    <3>3. PICK n \in Nat : n = p[1] BY <3>2
    <3>. QED BY <1>0, <3>1, <3>3, NextSlotSteps
  <2>2. CASE CallSubmit /\ p = NewPlace
    <3>1. p[1] = nextSlot BY <1>3, <2>2 DEF NewPlace
    <3>. QED BY <1>0, <1>3, <2>2, <3>1
  <2>. QED BY <1>6, <2>1, <2>2, PlacesNext
<1>. QED BY <1>5, <1>6

\* The submits a call has left are a number.
LEMMA LeftNat ==
  ASSUME PqAssumption, TypeInv, ThreadInv, NEW most, CountInv(most)
  PROVE  Left \in Nat
<1>0. call.i \in Nat BY DEF TypeInv, CallType
<1>1. CASE call.at = "submit"
  <2>1. Msgs \in Seq(BOOLEAN) BY <1>1 DEF ThreadInv, PqAssumption, ClientCalls, Msgs
  <2>2. Len(Msgs) \in Nat BY <2>1
  <2>. QED BY <1>0, <1>1, <2>2 DEF CountInv, Left
<1>2. CASE call.at # "submit" BY <1>2 DEF Left
<1>. QED BY <1>1, <1>2

\* The slots taken are bounded by the calls made.
LEMMA CountNext ==
  ASSUME PqAssumption, TypeInv, ThreadInv, NEW most \in Nat, \A c \in Calls : Len(c.msgs) <= most,
         MaxCalls \in Nat, CountInv(most), Next
  PROVE  CountInv(most)'
<1>0. calls \in Nat /\ nextSlot \in Nat /\ call.i \in Nat BY DEF CountInv, TypeInv, CallType
<1>1. PICK T \in Nat : T = calls * most BY <1>0
<1>2. ASSUME call.at = "submit" PROVE Len(Msgs) \in Nat /\ Len(Msgs) + 1 - call.i >= 0
  <2>1. Msgs \in Seq(BOOLEAN) BY <1>2 DEF ThreadInv, PqAssumption, ClientCalls, Msgs
  <2>2. Len(Msgs) \in Nat BY <2>1
  <2>. QED BY <1>0, <1>2, <2>2 DEF CountInv
<1>3. Left \in Nat /\ nextSlot + Left <= T BY <1>0, <1>1, <1>2 DEF Left, CountInv
<1>4. CASE /\ calls' = calls /\ nextSlot' = nextSlot /\ call'.what = call.what /\ call'.i = call.i
           /\ call'.at = "submit" => call.at = "submit"
  <2>1. Msgs' = Msgs BY <1>4 DEF Msgs
  <2>2. Left' \in {Left, 0}
    <3>1. CASE call'.at = "submit" BY <1>4, <2>1, <3>1 DEF Left
    <3>2. CASE call'.at # "submit" BY <3>2 DEF Left
    <3>. QED BY <3>1, <3>2
  <2>3. PICK n \in Nat : n = Left BY <1>3
  <2>4. nextSlot' + Left' <= T BY <1>0, <1>3, <1>4, <2>2, <2>3
  <2>. QED BY <1>1, <1>4, <2>1, <2>4 DEF CountInv
<1>5. ASSUME NEW c \in Calls, NEW m \in Modes, NEW s \in KeySlots, CallBegin(c, m, s)
      PROVE  CountInv(most)'
  <2>1. /\ calls' = calls + 1 /\ calls < MaxCalls /\ nextSlot' = nextSlot /\ call.at = "none"
    BY <1>5 DEF CallBegin, Quiet
  <2>2. call'.at = "submit" /\ call'.what = c /\ call'.i = 1 BY <1>5 DEF CallBegin, NoCall
  <2>3. Len(c.msgs) \in Nat /\ Len(c.msgs) <= most BY DEF PqAssumption, ClientCalls
  <2>4. Msgs' = c.msgs BY <2>2 DEF Msgs
  <2>5. Left' = Len(c.msgs) BY <2>2, <2>3, <2>4 DEF Left
  <2>6. Left = 0 BY <2>1 DEF Left
  <2>7. calls' * most = T + most BY <1>0, <1>1, <2>1
  <2>8. nextSlot' + Left' <= T + most BY <1>0, <1>3, <2>1, <2>3, <2>5, <2>6
  <2>. QED BY <1>0, <2>1, <2>2, <2>3, <2>4, <2>7, <2>8 DEF CountInv
<1>6. CASE call' = NoCall /\ calls' = calls /\ nextSlot' = nextSlot
  <2>1. call'.at = "none" BY <1>6 DEF NoCall
  <2>2. Left' = 0 BY <2>1 DEF Left
  <2>. QED BY <1>0, <1>1, <1>3, <1>6, <2>1, <2>2 DEF CountInv
<1>7. CASE CallSubmit
  <2>1. /\ calls' = calls /\ nextSlot' = nextSlot + 1 /\ call.at = "submit" /\ call.i <= Len(Msgs)
        /\ call' = [call EXCEPT !.i = call.i + 1, !.ids = [call.ids EXCEPT ![call.i] = nextId]]
    BY <1>7, CallFields DEF CallSubmit, Submit, InCall
  <2>2. call'.at = "submit" /\ call'.what = call.what /\ call'.i = call.i + 1
    BY <2>1, CallFields
  <2>3. Msgs' = Msgs BY <2>2 DEF Msgs
  <2>4. PICK n \in Nat : n = Len(Msgs) BY <1>2, <2>1
  <2>5. Left = n + 1 - call.i /\ Left' = n + 1 - (call.i + 1) BY <2>1, <2>2, <2>3, <2>4 DEF Left
  <2>6. nextSlot' + Left' <= T BY <1>0, <1>3, <2>1, <2>4, <2>5
  <2>7. call'.i <= n + 1 BY <1>0, <2>1, <2>2, <2>4
  <2>. QED BY <1>1, <2>1, <2>3, <2>4, <2>6, <2>7 DEF CountInv
<1>8. CASE CallStopped \/ CallSkip \/ CallRefused
  <2>1. /\ calls' = calls /\ nextSlot' = nextSlot /\ call.at = "submit" /\ call.i <= Len(Msgs)
        /\ \/ call' = NoCall \/ call' = [call EXCEPT !.i = Len(Msgs) + 1]
           \/ call' = [call EXCEPT !.i = call.i + 1]
    BY <1>8, CallFields DEF CallStopped, CallSkip, CallRefused, InCall
  <2>2. PICK n \in Nat : n = Len(Msgs) BY <1>2, <2>1
  <2>3. CASE call' # NoCall
    <3>1. /\ call'.at = "submit" /\ call'.what = call.what
          /\ call'.i = n + 1 \/ call'.i = call.i + 1
      BY <2>1, <2>2, <2>3, CallFields
    <3>2. Msgs' = Msgs BY <3>1 DEF Msgs
    <3>3. Left = n + 1 - call.i /\ Left' = n + 1 - call'.i BY <2>1, <2>2, <3>1, <3>2 DEF Left
    <3>4. call'.i <= n + 1 /\ call'.i >= call.i /\ call'.i \in Nat BY <1>0, <2>1, <2>2, <3>1
    <3>5. nextSlot' + Left' <= T BY <1>0, <1>3, <2>1, <2>2, <3>3, <3>4
    <3>. QED BY <1>1, <2>1, <2>2, <3>2, <3>4, <3>5 DEF CountInv
  <2>. QED BY <1>6, <2>1, <2>3
<1>9. CASE ~CallSubmit /\ ~ (CallStopped \/ CallSkip \/ CallRefused)
           /\ ~ (\E c \in Calls, m \in Modes, s \in KeySlots : CallBegin(c, m, s))
  <2>1. calls' = calls /\ nextSlot' = nextSlot
    BY <1>9 DEF Next, ClientStop, ClientStart, RingSubmit, KernelAnswer, ClientPoll, LoadMldsaKey,
      LoadSlhKey, CorruptMirror, Enqueue, FlushRefuse, FlushStop, SignMldsa, SignSlh, FlushRestart,
      FlushPost, FlushFails, CallFlush, CallPoll, CallReturn, CallEnd
  <2>2. call' = NoCall \/ Goes BY <1>9, CallSteps
  <2>3. CASE Goes BY <1>4, <1>9, <2>1, <2>3 DEF Goes
  <2>. QED BY <1>6, <2>1, <2>2, <2>3
<1>. QED BY <1>5, <1>7, <1>8, <1>9
-----------------------------------------------------------------------------

\* The initial state has the invariants; every step keeps them.
LEMMA HostInit == PqAssumption /\ Init => HostInv /\ LapInv
<1>. SUFFICES ASSUME PqAssumption, Init PROVE HostInv /\ LapInv OBVIOUS
<1>1. HostInv BY InitTypes, InitRest DEF HostInv
<1>2. LapInv BY InitRest DEF LapInv
<1>. QED BY <1>1, <1>2

LEMMA HostNext ==
  ASSUME PqAssumption, HostInv, [Next]_vars
  PROVE  HostInv'
<1>1. CASE Next
  <2>1. /\ TypeInv /\ ThreadInv /\ RunInv /\ FlushInv /\ QueueInv /\ LengthInv /\ DetInv /\ IdInv
        /\ OrderInv /\ BatchInv /\ DownInv /\ RouteInv
    BY DEF HostInv
  <2>2. TypeInv' BY <1>1, <2>1, NextTypes
  <2>3. ThreadInv' BY <1>1, <2>1, ThreadNext
  <2>4. RunInv' BY <1>1, <2>1, RunNext
  <2>5. FlushInv' BY <1>1, <2>1, FlushNext
  <2>6. QueueInv' BY <1>1, <2>1, QueueNext
  <2>7. LengthInv' BY <1>1, <2>1, LengthNext
  <2>8. DetInv' BY <1>1, <2>1, DetNext
  <2>9. IdInv' BY <1>1, <2>1, IdNext
  <2>10. OrderInv' BY <1>1, <2>1, OrderNext
  <2>11. RouteInv' BY <1>1, <2>1, RouteNext
  <2>12. BatchInv' BY <1>1, <2>1, BatchNext
  <2>13. DownInv' BY <1>1, <2>1, DownNext
  <2>. QED BY <2>2, <2>3, <2>4, <2>5, <2>6, <2>7, <2>8, <2>9, <2>10, <2>11, <2>12, <2>13 DEF HostInv
<1>2. CASE UNCHANGED vars
  <2>. USE <1>2 DEF HostInv, vars
  <2>1. TypeInv' BY DEF TypeInv
  <2>2. ThreadInv' BY DEF ThreadInv, Msgs
  <2>3. RunInv' BY DEF RunInv, Up, InSlhCall
  <2>4. FlushInv' /\ QueueInv' /\ LengthInv' BY DEF FlushInv, QueueInv, LengthInv
  <2>5. DetInv' BY DEF DetInv
  <2>6. IdInv' BY DEF IdInv, Given
  <2>7. OrderInv' BY DEF OrderInv, InSlhCall, CallIds, Ago
  <2>8. RouteInv' BY DEF RouteInv, InSlhCall, CallIds, SlhRouted, Msgs
  <2>9. BatchInv' BY DEF BatchInv, InSlhCall, OwnQueued, CallIds, SameBatch
  <2>10. DownInv' BY DEF DownInv, Up, InSlhCall, CallIds
  <2>. QED BY <2>1, <2>2, <2>3, <2>4, <2>5, <2>6, <2>7, <2>8, <2>9, <2>10
<1>. QED BY <1>1, <1>2

\* A stutter changes no slot and no count.
LEMMA SlotsStutter ==
  ASSUME UNCHANGED vars
  PROVE  /\ SlotInv => SlotInv'
         /\ LapInv => LapInv'
         /\ \A most : CountInv(most) => CountInv(most)'
BY DEF vars, SlotInv, LapInv, FirstLap, Places, PlacesOf, AnswersOf, OneOwner, PostedIsOwn,
       CountInv, Left, Msgs

\* What follows of the invariant.
LEMMA HostFollows ==
  ASSUME HostInv
  PROVE  SlhRouted /\ RunningAsWanted /\ DeterministicKept
<1>1. SlhRouted BY DEF HostInv, RouteInv
<1>2. RunningAsWanted BY DEF HostInv, RunInv, Up, RunningAsWanted
<1>3. ASSUME call.at = "done", call.what.det, NEW k \in DOMAIN Msgs, call.out[k].load # 0
      PROVE  call.out[k].det
  <2>1. k \in DOMAIN call.out BY <1>3 DEF HostInv, ThreadInv
  <2>. QED BY <1>3, <2>1 DEF HostInv, DetInv
<1>. QED BY <1>1, <1>2, <1>3 DEF DeterministicKept

\* The inductive invariant, however often the slots of the slab are reused.
THEOREM PqInvariant == PqAssumption => (Spec => []HostInv)
<1>. SUFFICES ASSUME PqAssumption PROVE Spec => []HostInv OBVIOUS
<1>1. Init => HostInv BY HostInit
<1>2. HostInv /\ [Next]_vars => HostInv' BY HostNext
<1>. QED BY <1>1, <1>2, PTL DEF Spec

\* An SLH-DSA call that succeeds has its own signatures; the kernel runs between
\* dispatches exactly if the client wants it to and no start of it has failed; a
\* deterministic call gets no other signatures.
THEOREM PqSafe ==
  PqAssumption => (Spec => [](SlhRouted /\ RunningAsWanted /\ DeterministicKept))
<1>. SUFFICES ASSUME PqAssumption
              PROVE  Spec => [](SlhRouted /\ RunningAsWanted /\ DeterministicKept)
  OBVIOUS
<1>1. HostInv => SlhRouted /\ RunningAsWanted /\ DeterministicKept BY HostFollows
<1>. QED BY <1>1, PqInvariant, PTL

\* Every successful answer points at its own signature as long as no request is
\* given a slot that another still names.
THEOREM OwnWhileFree ==
  PqAssumption => (Spec /\ [][CallSubmit => NextSlotFree]_vars => []PostedIsOwn)
<1>. SUFFICES ASSUME PqAssumption
              PROVE  Spec /\ [][CallSubmit => NextSlotFree]_vars => []PostedIsOwn
  OBVIOUS
<1>1. Init => SlotInv BY InitRest
<1>2. HostInv /\ SlotInv /\ [Next]_vars /\ [CallSubmit => NextSlotFree]_vars => SlotInv'
  <2>1. CASE UNCHANGED vars BY <2>1, SlotsStutter
  <2>2. ASSUME HostInv, SlotInv, Next, CallSubmit => NextSlotFree PROVE SlotInv'
    BY <2>2, SlotNext DEF HostInv
  <2>. QED BY <2>1, <2>2
<1>3. SlotInv => PostedIsOwn BY DEF SlotInv
<1>. QED BY <1>1, <1>2, <1>3, PqInvariant, PTL DEF Spec

\* So it is until the slot counter has gone round once.
THEOREM OwnInFirstLap == PqAssumption => (Spec => [](FirstLap => PostedIsOwn))
<1>. SUFFICES ASSUME PqAssumption PROVE Spec => [](FirstLap => PostedIsOwn) OBVIOUS
<1>1. Init => LapInv BY HostInit
<1>2. HostInv /\ LapInv /\ [Next]_vars => LapInv'
  <2>1. CASE UNCHANGED vars BY <2>1, SlotsStutter
  <2>2. ASSUME HostInv, LapInv, Next PROVE LapInv' BY <2>2, LapNext DEF HostInv
  <2>. QED BY <2>1, <2>2
<1>3. LapInv => (FirstLap => PostedIsOwn) BY DEF LapInv, SlotInv
<1>. QED BY <1>1, <1>2, <1>3, PqInvariant, PTL DEF Spec
=============================================================================

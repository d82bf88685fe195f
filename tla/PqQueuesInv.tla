----------------------------- MODULE PqQueuesInv -----------------------------
(* The inductive invariant of the post-quantum queues, and what the theorems *)
(* ask of the constants.                                                     *)
(*                                                                           *)
(* A request is queued, waits for a flush, is signed and answered in a queue *)
(* that others share.  Two things keep the answers apart.  The requests of   *)
(* an SLH-DSA call that is not over are the last of their queue, in order,   *)
(* so that their slots of the slab differ however often the slot counter has *)
(* gone round.  And as long as no request is given a slot that another still *)
(* names, every slot has one owner.                                          *)
EXTENDS PqQueues

\* What the entry points of the ABI allow: only the batch call has a
\* deterministic form, and a single signature has one message.
ClientCalls ==
  \A c \in Calls :
    /\ c \in [kind : {"batch", "one", "slh"}, msgs : Seq(BOOLEAN), det : BOOLEAN]
    /\ c.det => c.kind = "batch"
    /\ c.kind = "one" => Len(c.msgs) = 1

PqAssumption ==
  /\ SigSlots \in Nat \ {0} /\ BatchMax \in Nat \ {0} /\ BatchMax <= SigSlots
  /\ ClientCalls

-----------------------------------------------------------------------------
Kinds     == {"batch", "one", "slh"}
ReqType   == [rid : Nat, alg : Algs, mode : Modes, slot : KeySlots, det : BOOLEAN,
              off : 0 .. SigSlots - 1]
RespType  == [rid : Nat, alg : Algs \cup {"ring"},
              status : {"OK", "CRYPTO_ERROR", "KEY_NOT_LOADED"}, off : 0 .. SigSlots - 1]
SigType   == [rid : Nat, load : Nat, det : BOOLEAN]
MlKeyType == [valid : BOOLEAN, mode : Modes \cup {0}, load : Nat]
SlhType   == [loaded : BOOLEAN, intact : BOOLEAN, load : Nat]
JobType   == [alg : Algs \cup {"none"},
              at : {"idle", "begin", "stopped", "signed", "restarted"},
              batch : Seq(ReqType), was : BOOLEAN, lanes : Seq(BOOLEAN)]
CallType  == [at : {"none", "submit", "poll", "done"}, what : Calls \cup {NoCall.what},
              mode : Modes \cup {0}, slot : KeySlots \cup {0}, i : Nat, ids : Seq(Nat),
              flushed : Nat, polls : Nat, out : Seq(SigType), ok : BOOLEAN]

TypeInv ==
  /\ running \in BOOLEAN /\ wanted \in BOOLEAN /\ startFailed \in BOOLEAN
  /\ ring \subseteq Nat /\ cq \in Seq(RespType)
  /\ sigs \in [0 .. SigSlots - 1 -> SigType]
  /\ nextId \in Nat /\ nextSlot \in Nat /\ loads \in Nat
  /\ mlKey \in [KeySlots -> MlKeyType] /\ slhKey \in [KeySlots -> SlhType]
  /\ queue \in [Algs -> Seq(ReqType)] /\ pending \in Seq(ReqType)
  /\ job \in JobType /\ call \in CallType

\* Where the thread is: what is pending or being flushed belongs to a call that
\* still submits, or has submitted and waits for its flush.
ThreadInv ==
  /\ Len(pending) <= 1
  /\ pending # <<>> => call.at = "submit" /\ pending[1].alg = AlgOf(call.what)
                       /\ pending[1].det = call.what.det
                       /\ pending[1].mode = call.mode /\ pending[1].slot = call.slot
  /\ job.at # "idle" => /\ call.at \in {"submit", "poll"}
                        /\ job.alg = AlgOf(call.what) /\ job.batch = queue[job.alg]
  /\ call.at \in {"submit", "poll"} => call.what \in Calls
  /\ call.at = "submit" => call.slot \in KeySlots /\ call.mode \in Modes /\ call.i >= 1
  /\ call.at # "none" => DOMAIN call.ids = DOMAIN Msgs /\ DOMAIN call.out = DOMAIN Msgs
  /\ \A a \in Algs : \A k \in DOMAIN queue[a] : queue[a][k].alg = a

InSlhCall == call.at \in {"submit", "poll"} /\ AlgOf(call.what) = "slh"

\* The kernel: outside the two steps of a flush that stops it, it runs if the
\* client wants the engine to run and no start of it has failed.
Up == wanted /\ ~startFailed
RunInv ==
  /\ job.at \in {"idle", "begin", "restarted"} => running = Up
  /\ job.at \in {"stopped", "signed"} => ~running /\ job.was = Up
  /\ job.at = "restarted" /\ Up => job.was
  /\ InSlhCall \/ startFailed => wanted

\* The flush: a batch that is signed is not empty, each of its lanes has a
\* result, and a restart has emptied the completion queue.  The kernel ran
\* before the batch of an ML-DSA call, which was queued while it did.
FlushInv ==
  /\ job.at \in {"stopped", "signed", "restarted"} => job.batch # <<>>
  /\ job.lanes # <<>> => job.at \in {"signed", "restarted"}
                         /\ DOMAIN job.lanes = DOMAIN job.batch
  /\ job.at = "restarted" /\ job.was => \A k \in DOMAIN cq : cq[k].alg = "ring"
  /\ job.at \in {"stopped", "signed", "restarted"} /\ job.alg = "ml" => job.was

\* The ML-DSA queue holds requests of the call in progress only, which the
\* client made, with the call's key, while the kernel ran.
QueueInv ==
  /\ \/ call.at \in {"none", "done"} \/ AlgOf(call.what) = "slh"
     \/ call.at = "poll" /\ job.at = "idle"
     => queue["ml"] = <<>>
  /\ call.at = "submit" /\ call.i = 1 => queue["ml"] = <<>> /\ pending = <<>>
  /\ /\ job.at \in {"idle", "begin"}
     /\ queue["ml"] # <<>> \/ (pending # <<>> /\ pending[1].alg = "ml")
     => running
  /\ \A k \in DOMAIN queue["ml"] :
       /\ queue["ml"][k].det = call.what.det
       /\ queue["ml"][k].mode = call.mode /\ queue["ml"][k].slot = call.slot
  /\ pending # <<>> /\ pending[1].alg = "ml" => job.at = "idle"

\* A queue is flushed when it is full.
LengthInv ==
  \A a \in Algs : /\ Len(queue[a]) <= BatchMax
                  /\ Len(queue[a]) = BatchMax => job.at # "idle" /\ job.alg = a

\* A deterministic call that polls finds deterministic answers or ring ones.
DetInv ==
  /\ call.at = "submit" => \A k \in DOMAIN call.out : call.out[k] = NoSig
  /\ call.at = "poll" /\ job.at = "idle" /\ call.what.det /\ call.flushed > 0 =>
       \A k \in DOMAIN cq :
         cq[k].alg # "ring" =>
           cq[k].alg = "ml" /\ (cq[k].status = "OK" => sigs[cq[k].off].det)
  /\ call.at \in {"poll", "done"} /\ call.what.det =>
       \A k \in DOMAIN call.out : call.out[k].load # 0 => call.out[k].det

\* An id is given once.
Given(r) == r >= 1 /\ r < nextId
IdInv ==
  /\ nextId >= 1
  /\ \A r \in ring : Given(r)
  /\ \A k \in DOMAIN cq : Given(cq[k].rid)
  /\ \A a \in Algs : \A k \in DOMAIN queue[a] : Given(queue[a][k].rid)
  /\ \A k \in DOMAIN pending : Given(pending[k].rid)
  /\ \A m \in DOMAIN call.ids : call.ids[m] < nextId

CallIds == {call.ids[m] : m \in DOMAIN call.ids}

\* How many submits ago the request at a place of the SLH-DSA queue was made, if
\* all the requests behind it are the call's.
Ago(j) == Len(queue["slh"]) - j + 1 + Len(pending)

\* From the first request of the call that is in the queue on, all are the
\* call's, in the order of its messages and of the slots it was given.
OrderInv ==
  InSlhCall =>
    /\ \A k \in DOMAIN queue["slh"] : queue["slh"][k].rid \in CallIds =>
         \A j \in k .. Len(queue["slh"]) :
           /\ call.i - Ago(j) \in DOMAIN call.ids
           /\ queue["slh"][j].rid = call.ids[call.i - Ago(j)]
           /\ queue["slh"][j].off = (nextSlot - Ago(j)) % SigSlots
    /\ pending # <<>> =>
         /\ call.i - 1 \in DOMAIN call.ids
         /\ pending[1].rid = call.ids[call.i - 1]
         /\ pending[1].off = (nextSlot - 1) % SigSlots

\* The SLH-DSA queue may hold requests of calls that are over; once one of the
\* call in progress is in it, all have the call's key.  A submit flushes first
\* only what has another key, so nothing of its own call.
OwnQueued == \E k \in DOMAIN queue["slh"] : queue["slh"][k].rid \in CallIds
BatchInv ==
  /\ pending # <<>> /\ job.at = "idle" => SameBatch(pending[1].alg, pending[1])
  /\ InSlhCall /\ OwnQueued => queue["slh"][1].slot = call.slot /\ queue["slh"][1].mode = call.mode
  /\ pending # <<>> /\ job.at # "idle" =>
       /\ pending[1].alg = "slh" /\ ~OwnQueued
       /\ job.at = "begin" => running
       /\ job.at \in {"stopped", "signed", "restarted"} => job.was

\* Once the kernel is down, a call that still has requests to come has no
\* answer in the completion queue, which no restart will clear.
DownInv ==
  InSlhCall /\ ~Up /\ (queue["slh"] # <<>> \/ pending # <<>>) =>
    \A k \in DOMAIN cq : cq[k].rid \notin CallIds

\* What an SLH-DSA call will find, and has put into its buffers so far.
RouteInv ==
  /\ job.alg = "slh" /\ job.lanes # <<>> =>
       \A k \in DOMAIN job.batch : job.lanes[k] /\ job.batch[k].rid \in CallIds =>
         sigs[job.batch[k].off].rid = job.batch[k].rid
  /\ InSlhCall /\ job.at \in {"idle", "begin"} =>
       \A k \in DOMAIN cq : cq[k].alg = "slh" /\ cq[k].status = "OK" /\ cq[k].rid \in CallIds =>
         sigs[cq[k].off].rid = cq[k].rid
  /\ call.at = "poll" /\ call.what.kind = "slh" =>
       \A k \in DOMAIN call.out : call.out[k] # NoSig => call.out[k].rid = call.ids[k]
  /\ SlhRouted

\* What holds however the slots are reused.
HostInv == /\ TypeInv /\ ThreadInv /\ RunInv /\ FlushInv /\ QueueInv /\ LengthInv
           /\ DetInv /\ IdInv /\ OrderInv /\ BatchInv /\ DownInv /\ RouteInv
-----------------------------------------------------------------------------
\* The requests and answers that name a slot of the slab, as slot and id.
PlacesOf(s)  == {<<s[k].off, s[k].rid>> : k \in DOMAIN s}
AnswersOf(s) == {<<s[k].off, s[k].rid>> : k \in {j \in DOMAIN s : s[j].alg # "ring"}}
Places == PlacesOf(queue["ml"]) \cup PlacesOf(queue["slh"]) \cup PlacesOf(pending)
          \cup AnswersOf(cq)

\* The slot that the next submit takes is named by no one.
NextSlotFree == \A p \in Places : p[1] # nextSlot % SigSlots

\* A slot is named by one request only.
OneOwner(ps) == \A p, q \in ps : p[1] = q[1] => p[2] = q[2]

\* An answer points at its own signature, and so will those of the lanes that
\* have signed into the slab before their answers are posted.
SlotInv ==
  /\ OneOwner(Places)
  /\ PostedIsOwn
  /\ job.alg = "slh" /\ job.lanes # <<>> =>
       \A k \in DOMAIN job.batch :
         job.lanes[k] => sigs[job.batch[k].off].rid = job.batch[k].rid

\* The first lap of the slot counter: every slot named is behind it.
FirstLap == nextSlot <= SigSlots
LapInv   == FirstLap => SlotInv /\ \A p \in Places : p[1] < nextSlot

\* How many slots can have been taken, when no call has more than most messages.
Left == IF call.at = "submit" THEN Len(Msgs) + 1 - call.i ELSE 0
CountInv(most) ==
  /\ calls \in 0 .. MaxCalls
  /\ call.at = "submit" => call.i <= Len(Msgs) + 1
  /\ nextSlot + Left <= calls * most
=============================================================================

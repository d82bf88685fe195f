------------------------------- MODULE PqQueues -------------------------------
(* The post-quantum signatures, which the persistent kernel does not make:  *)
(* the host queues the requests, stops the kernel, signs the batch, starts  *)
(* the kernel again and posts the responses itself on shard 0.  Starting    *)
(* clears the rings and the completion queues.                              *)
(*                                                                          *)
(* The host side is one thread (the ABI has no locks): a client call is a   *)
(* sequence of its steps, between which only the kernel moves.  "ml" is     *)
(* ML-DSA, "slh" SLH-DSA.  A signature is the request it signs, the load of *)
(* the key that made it, and whether it is deterministic.                   *)
EXTENDS Integers, Sequences, FiniteSets, SequencesExt

CONSTANTS
  Modes,         \* ML-DSA parameter sets
  KeySlots,      \* MLDSA_MAX_KEYSLOTS and SLH_MAX_KEYSLOTS
  BatchMax,      \* MLDSA_BATCH_MAX_SIZE and SLH_BATCH_MAX_SIZE
  SigSlots,      \* FAST_PATH_PQ_SIG_OUTPUT_SEGMENTS
  Calls,         \* the calls a client makes: [kind, msgs, det], where msgs
                 \* says of each message whether it is there
  MaxCalls, MaxLoads, MaxRing   \* model bounds: calls, key loads, ring requests

VARIABLES
  running,    \* handle->running
  wanted,     \* engine->fast_path_running: started by the client, not stopped
  startFailed,  \* since then a dispatch or a key load failed to restart it (history)
  ring,       \* ids of the ring requests the kernel has not answered
  ringSent,   \* ring requests so far
  cq,         \* shard 0: responses posted and not polled
  sigs,       \* the PQ region of the output slab, by slot
  nextId, nextSlot,   \* next_request_id, next_pq_sig_slot
  mlKey,      \* mldsa_precomputed[]: [valid, mode, load]
  slhKey,     \* slh_key_loaded[] and the device key: [loaded, intact, load]
  loads,      \* key loads so far
  queue,      \* mldsa_batch_queue and slh_batch_queue
  pending,    \* a submit that flushes before it queues
  job,        \* the flush in progress
  call,       \* the client call in progress
  calls,      \* calls so far
  taken       \* ids of the responses polled (history)

vars == <<running, wanted, startFailed, ring, ringSent, cq, sigs, nextId, nextSlot, mlKey, slhKey,
          loads, queue, pending, job, call, calls, taken>>

Algs == {"ml", "slh"}
AlgOf(c) == IF c.kind = "slh" THEN "slh" ELSE "ml"
NoSig  == [rid |-> 0, load |-> 0, det |-> FALSE]
NoJob  == [alg |-> "none", at |-> "idle", batch |-> <<>>, was |-> FALSE,
           lanes |-> <<>>]
NoCall == [at |-> "none",
           what |-> [kind |-> "batch", msgs |-> <<>>, det |-> FALSE], mode |-> 0, slot |-> 0, i |-> 0, ids |-> <<>>, flushed |-> 0,
           polls |-> 0, out |-> <<>>, ok |-> FALSE]

Init ==
  /\ running = TRUE /\ wanted = TRUE /\ startFailed = FALSE /\ ring = {} /\ ringSent = 0 /\ cq = <<>>
  /\ sigs = [o \in 0 .. SigSlots - 1 |-> NoSig]
  /\ nextId = 1 /\ nextSlot = 0
  /\ mlKey  = [s \in KeySlots |-> [valid |-> FALSE, mode |-> 0, load |-> 0]]
  /\ slhKey = [s \in KeySlots |-> [loaded |-> FALSE, intact |-> TRUE, load |-> 0]]
  /\ loads = 0
  /\ queue = [a \in Algs |-> <<>>]
  /\ pending = <<>> /\ job = NoJob /\ call = NoCall /\ calls = 0 /\ taken = {}

HostFree == job.at = "idle" /\ pending = <<>>
Quiet    == HostFree /\ call.at = "none"
-----------------------------------------------------------------------------
(* smoke_fast_path_stop and _start.  A start that fails has cleared the     *)
(* rings and the completion queues; one of an engine that is wanted already *)
(* is answered OK and does nothing, whether its kernel runs or not.         *)

ClientStop ==
  /\ Quiet /\ wanted
  /\ running' = FALSE /\ wanted' = FALSE /\ startFailed' = FALSE
  /\ UNCHANGED <<ring, ringSent, cq, sigs, nextId, nextSlot, mlKey, slhKey,
                 loads, queue, pending, job, call, calls, taken>>

ClientStart ==
  /\ Quiet /\ ~wanted
  /\ \E started \in BOOLEAN : running' = started /\ wanted' = started
  /\ ring' = {} /\ cq' = <<>>
  /\ UNCHANGED <<startFailed, ringSent, sigs, nextId, nextSlot, mlKey, slhKey, loads,
                 queue, pending, job, call, calls, taken>>
-----------------------------------------------------------------------------
(* The kernel and its clients: any opcode it serves itself. *)

RingSubmit ==
  /\ wanted /\ ringSent < MaxRing
  /\ ringSent' = ringSent + 1
  /\ ring' = ring \cup {nextId} /\ nextId' = nextId + 1
  /\ UNCHANGED <<running, wanted, startFailed, cq, sigs, nextSlot, mlKey, slhKey, loads,
                 queue, pending, job, call, calls, taken>>

Response(r, st, off) == [rid |-> r.rid, alg |-> r.alg, status |-> st, off |-> off]

KernelAnswer ==
  /\ running /\ ring # {}
  /\ \E rid \in ring :
       /\ ring' = ring \ {rid}
       /\ cq' = Append(cq, Response([rid |-> rid, alg |-> "ring"], "OK", 0))
  /\ UNCHANGED <<wanted, startFailed, ringSent, running, sigs, nextId, nextSlot, mlKey,
                 slhKey, loads, queue, pending, job, call, calls, taken>>

\* fast_path_poll of one response.
ClientPoll ==
  /\ Quiet /\ cq # <<>>
  /\ taken' = taken \cup {Head(cq).rid} /\ cq' = Tail(cq)
  /\ UNCHANGED <<running, wanted, startFailed, ring, ringSent, sigs, nextId, nextSlot,
                 mlKey, slhKey, loads, queue, pending, job, call, calls>>
-----------------------------------------------------------------------------
(* Keys *)

\* A kernel that was stopped for a while is started again: was says whether
\* it ran before, started whether the start succeeds.
Restarted(was, started) ==
  /\ running' = (was /\ started)
  /\ startFailed' = (startFailed \/ (was /\ ~started))

\* Stop, precompute, start: the start clears rings and CQs, and may fail.  A
\* failure after the old precomputation is freed leaves the slot invalid.
LoadMldsaKey(s, m, ok, started) ==
  /\ Quiet /\ loads < MaxLoads
  /\ loads' = loads + 1
  /\ mlKey' = [mlKey EXCEPT ![s] =
       IF ok THEN [valid |-> TRUE, mode |-> m, load |-> loads + 1]
             ELSE [@ EXCEPT !.valid = FALSE]]
  /\ IF running THEN ring' = {} /\ cq' = <<>> ELSE UNCHANGED <<ring, cq>>
  /\ Restarted(running, started)
  /\ UNCHANGED <<wanted, ringSent, sigs, nextId, nextSlot, slhKey,
                 queue, pending, job, call, calls, taken>>

\* Uploaded beside the running kernel; not loaded until the upload is done.
LoadSlhKey(s, ok) ==
  /\ Quiet /\ loads < MaxLoads
  /\ loads' = loads + 1
  /\ slhKey' = [slhKey EXCEPT ![s] =
       IF ok THEN [loaded |-> TRUE, intact |-> TRUE, load |-> loads + 1]
             ELSE [@ EXCEPT !.loaded = FALSE]]
  /\ UNCHANGED <<running, wanted, startFailed, ring, ringSent, cq, sigs, nextId, nextSlot,
                 mlKey, queue, pending, job, call, calls, taken>>

\* A bit flip in the device key block or its mirror.
CorruptMirror(s) ==
  /\ Quiet /\ slhKey[s].loaded
  /\ slhKey' = [slhKey EXCEPT ![s].intact = FALSE]
  /\ UNCHANGED <<running, wanted, startFailed, ring, ringSent, cq, sigs, nextId, nextSlot,
                 mlKey, loads, queue, pending, job, call, calls, taken>>
-----------------------------------------------------------------------------
(* Submits *)

SameBatch(a, r) ==
  \A k \in DOMAIN queue[a] : k = 1 =>
    queue[a][k].slot = r.slot /\ queue[a][k].mode = r.mode

StartFlush(a) == [NoJob EXCEPT !.alg = a, !.at = "begin", !.batch = queue[a]]

\* The submit of the call's next message: the id and the output slot are
\* taken, and a batch of another key is flushed first.
Submit(a, det) ==
  LET r == [rid |-> nextId, alg |-> a, mode |-> call.mode, slot |-> call.slot,
            det |-> det, off |-> nextSlot % SigSlots]
  IN  /\ nextId' = nextId + 1 /\ nextSlot' = nextSlot + 1
      /\ pending' = <<r>>
      /\ job' = IF SameBatch(a, r) THEN NoJob ELSE StartFlush(a)

Enqueue ==
  /\ pending # <<>> /\ job.at = "idle"
  /\ LET r == pending[1]
         q == Append(queue[r.alg], r)
     IN  /\ queue' = [queue EXCEPT ![r.alg] = q]
         /\ job' = IF Len(q) >= BatchMax
                   THEN [NoJob EXCEPT !.alg = r.alg, !.at = "begin", !.batch = q]
                   ELSE NoJob
  /\ pending' = <<>>
  /\ UNCHANGED <<running, wanted, startFailed, ring, ringSent, cq, sigs, nextId, nextSlot,
                 mlKey, slhKey, loads, call, calls, taken>>
-----------------------------------------------------------------------------
(* Flushes *)

FlushDone(n) ==
  /\ queue' = [queue EXCEPT ![job.alg] = <<>>]
  /\ job' = NoJob
  /\ call' = IF pending = <<>> THEN [call EXCEPT !.flushed = n] ELSE call

KeyReady(a, s) == IF a = "ml" THEN mlKey[s].valid ELSE slhKey[s].loaded
Signable(j) == IF j.batch = <<>> THEN FALSE ELSE KeyReady(j.alg, j.batch[1].slot)

\* Nothing queued, the key is gone, or the ML-DSA key slot cannot be read:
\* the batch is dropped unanswered.
FlushRefuse ==
  /\ job.at = "begin"
  /\ ~Signable(job) \/ job.alg = "ml"
  /\ FlushDone(0)
  /\ UNCHANGED <<running, wanted, startFailed, ring, ringSent, cq, sigs, nextId, nextSlot,
                 mlKey, slhKey, loads, pending, calls, taken>>

FlushStop ==
  /\ job.at = "begin" /\ Signable(job)
  /\ running' = FALSE
  /\ job' = [job EXCEPT !.at = "stopped", !.was = running]
  /\ UNCHANGED <<wanted, startFailed, ring, ringSent, cq, sigs, nextId, nextSlot, mlKey,
                 slhKey, loads, queue, pending, call, calls, taken>>

\* Mutant of Deterministic: the slot's stored rhoprime, whatever the flag.
StoredRhoprime(batch) == FALSE

\* The first request decides for the whole batch.
Deterministic(batch) == batch[1].det

Signature(r, det) ==
  IF r.alg = "ml"
  THEN [rid |-> r.rid, load |-> mlKey[r.slot].load, det |-> det]
  ELSE [rid |-> r.rid, load |-> slhKey[r.slot].load, det |-> FALSE]

\* The slab once the lanes that signed have been copied into their slots.
WithSignatures(batch, lanes, det) ==
  [o \in DOMAIN sigs |->
     LET here == {k \in DOMAIN batch : batch[k].off = o /\ lanes[k]}
     IN  IF here = {} THEN sigs[o]
         ELSE Signature(batch[CHOOSE k \in here : \A j \in here : j <= k], det)]

\* Every lane checks the key block against its mirror.
SlhLanes(batch) == [k \in DOMAIN batch |-> slhKey[batch[1].slot].intact]

\* Workspace, upload and the signing kernel; lanes = <<>> if one fails.
SignMldsa ==
  /\ job.at = "stopped" /\ job.alg = "ml"
  /\ \E lanes \in [DOMAIN job.batch -> BOOLEAN] \cup {<<>>} :
       job' = [job EXCEPT !.at = "signed", !.lanes = lanes]
  /\ UNCHANGED <<running, wanted, startFailed, ring, ringSent, cq, sigs, nextId, nextSlot,
                 mlKey, slhKey, loads, queue, pending, call, calls, taken>>

\* It fails before the lanes' status is read; or a key fault unloads the slot
\* and the signatures are copied to the slab, or some of them.
SignSlh ==
  /\ job.at = "stopped" /\ job.alg = "slh"
  /\ LET lanes == SlhLanes(job.batch)
         s     == job.batch[1].slot
     IN  \/ /\ job' = [job EXCEPT !.at = "signed"]
            /\ UNCHANGED <<sigs, slhKey>>
         \/ /\ slhKey' = [slhKey EXCEPT ![s].loaded =
                             @ /\ \A k \in DOMAIN lanes : lanes[k]]
            /\ \E copied \in [DOMAIN lanes -> BOOLEAN] :
                 /\ \A k \in DOMAIN lanes : copied[k] => lanes[k]
                 /\ sigs' = WithSignatures(job.batch, copied, FALSE)
                 /\ \/ job' = [job EXCEPT !.at = "signed"]
                    \/ /\ copied = lanes
                       /\ job' = [job EXCEPT !.at = "signed", !.lanes = lanes]
  /\ UNCHANGED <<running, wanted, startFailed, ring, ringSent, cq, nextId, nextSlot, mlKey,
                 loads, queue, pending, call, calls, taken>>

\* Mutant of RestartsKernel: only a batch that signed restarts the kernel.
RestartsIfSigned(j) == j.was /\ j.lanes # <<>>

\* Every way out of a dispatch tries to restart the kernel it stopped.  The
\* start may fail, which is only warned about; it has cleared rings and CQs.
RestartsKernel(j) == j.was

FlushRestart ==
  /\ job.at = "signed"
  /\ \E started \in BOOLEAN : Restarted(RestartsKernel(job), started)
  /\ ring' = IF RestartsKernel(job) THEN {} ELSE ring
  /\ cq'   = IF RestartsKernel(job) THEN <<>> ELSE cq
  /\ job' = [job EXCEPT !.at = "restarted"]
  /\ UNCHANGED <<wanted, ringSent, sigs, nextId, nextSlot, mlKey, slhKey,
                 loads, queue, pending, call, calls, taken>>

FailStatus(a) == IF a = "ml" THEN "CRYPTO_ERROR" ELSE "KEY_NOT_LOADED"

\* Mutant of Responses: output slots counted by success, not by lane.
ResponsesCompacted ==
  [k \in DOMAIN job.batch |->
     LET r == job.batch[k]
         n == Cardinality({j \in 1 .. k - 1 : job.lanes[j]}) + 1
     IN  Response(r, IF job.lanes[k] THEN "OK" ELSE FailStatus(r.alg), job.batch[n].off)]


Responses ==
  [k \in DOMAIN job.batch |->
     LET r == job.batch[k]
     IN  Response(r, IF job.lanes[k] THEN "OK" ELSE FailStatus(r.alg), r.off)]

Successes == Cardinality({k \in DOMAIN job.batch : job.lanes[k]})

\* ML-DSA downloads its lanes after the restart; the download may fail.
FlushPost ==
  /\ job.at = "restarted" /\ job.lanes # <<>>
  /\ cq' = cq \o Responses
  /\ sigs' = IF job.alg = "slh" THEN sigs
             ELSE WithSignatures(job.batch, job.lanes, Deterministic(job.batch))
  /\ FlushDone(Successes)
  /\ UNCHANGED <<running, wanted, startFailed, ring, ringSent, nextId, nextSlot, mlKey,
                 slhKey, loads, pending, calls, taken>>

FlushFails ==
  /\ job.at = "restarted" /\ (job.lanes = <<>> \/ job.alg = "ml")
  /\ FlushDone(0)
  /\ UNCHANGED <<running, wanted, startFailed, ring, ringSent, cq, sigs, nextId, nextSlot,
                 mlKey, slhKey, loads, pending, calls, taken>>
-----------------------------------------------------------------------------
(* The calls of the ABI: smoke_mldsa_sign_batch ("batch", deterministic or  *)
(* not), smoke_mldsa_sign ("one"), smoke_engine_submit_slh_dsa_sign.        *)

CallBegin(c, m, s) ==
  /\ Quiet /\ calls < MaxCalls
  /\ c.kind = "slh" => wanted /\ m = 0
  /\ calls' = calls + 1
  /\ call' = [NoCall EXCEPT !.at = "submit", !.what = c, !.mode = m, !.slot = s,
                !.i = 1, !.ids = [k \in DOMAIN c.msgs |-> 0],
                !.out = [k \in DOMAIN c.msgs |-> NoSig]]
  /\ UNCHANGED <<running, wanted, startFailed, ring, ringSent, cq, sigs, nextId, nextSlot,
                 mlKey, slhKey, loads, queue, pending, job, taken>>

InCall(at) == HostFree /\ call.at = at
Msgs == call.what.msgs

CallSubmit ==
  /\ InCall("submit") /\ call.i <= Len(Msgs) /\ Msgs[call.i] /\ running
  /\ AlgOf(call.what) = "slh" => slhKey[call.slot].loaded
  /\ Submit(AlgOf(call.what), call.what.det)
  /\ call' = [call EXCEPT !.i = @ + 1, !.ids[call.i] = nextId]
  /\ UNCHANGED <<running, wanted, startFailed, ring, ringSent, cq, sigs, mlKey, slhKey,
                 loads, queue, calls, taken>>

\* A submit to a stopped engine is refused: a batch is what was queued so
\* far, any other call fails.
CallStopped ==
  /\ InCall("submit") /\ call.i <= Len(Msgs) /\ Msgs[call.i] /\ ~running
  /\ call' = IF call.what.kind = "batch" THEN [call EXCEPT !.i = Len(Msgs) + 1]
             ELSE NoCall
  /\ UNCHANGED <<running, wanted, startFailed, ring, ringSent, cq, sigs, nextId, nextSlot,
                 mlKey, slhKey, loads, queue, pending, job, calls, taken>>

\* ML-DSA batches skip a missing message; SLH-DSA refuses the call, and a
\* refused submit (an unloaded slot) ends it too.  What was queued stays.
CallSkip ==
  /\ InCall("submit") /\ call.i <= Len(Msgs) /\ ~Msgs[call.i]
  /\ call' = IF AlgOf(call.what) = "slh" THEN NoCall ELSE [call EXCEPT !.i = @ + 1]
  /\ UNCHANGED <<running, wanted, startFailed, ring, ringSent, cq, sigs, nextId, nextSlot,
                 mlKey, slhKey, loads, queue, pending, job, calls, taken>>

CallRefused ==
  /\ InCall("submit") /\ call.i <= Len(Msgs) /\ Msgs[call.i]
  /\ AlgOf(call.what) = "slh" /\ ~slhKey[call.slot].loaded
  /\ call' = NoCall
  /\ UNCHANGED <<running, wanted, startFailed, ring, ringSent, cq, sigs, nextId, nextSlot,
                 mlKey, slhKey, loads, queue, pending, job, calls, taken>>

CallFlush ==
  /\ InCall("submit") /\ call.i > Len(Msgs)
  /\ job' = StartFlush(AlgOf(call.what))
  /\ call' = [call EXCEPT !.at = "poll"]
  /\ UNCHANGED <<running, wanted, startFailed, ring, ringSent, cq, sigs, nextId, nextSlot,
                 mlKey, slhKey, loads, queue, pending, calls, taken>>

\* Mutant of Destination: responses routed in the order they arrive.
DestinationByArrival(r) == {call.polls + 1} \cap DOMAIN Msgs

\* Where an SLH response goes: to the message whose request id it carries.
Destination(r) == {k \in DOMAIN Msgs : call.ids[k] = r.rid}

\* ML-DSA: the i-th response goes to the i-th buffer.
MldsaDestination == {call.polls + 1} \cap DOMAIN Msgs

\* SLH-DSA polls until it has seen every answer of its own, or none is left.
MorePolls ==
  CASE call.what.kind = "slh"   -> \E k \in DOMAIN Msgs : call.ids[k] \notin taken
    [] call.what.kind = "one"   -> call.polls = 0
    [] call.what.kind = "batch" -> call.polls < call.flushed

\* What the response points at: anything, for an answer of the kernel.
Pointed(r) == IF r.alg = "ring" THEN [NoSig EXCEPT !.rid = r.rid] ELSE sigs[r.off]

CallPoll ==
  /\ InCall("poll") /\ cq # <<>> /\ MorePolls
  /\ LET r  == Head(cq)
         to == IF call.what.kind = "slh" THEN Destination(r) ELSE MldsaDestination
         good == r.status = "OK" /\ (call.what.kind = "slh" => r.alg = "slh")
     IN  /\ call' = [call EXCEPT !.polls = @ + 1,
                      !.out = [k \in DOMAIN @ |->
                                 IF k \in to /\ good THEN Pointed(r) ELSE @[k]]]
         /\ taken' = taken \cup {r.rid}
  /\ cq' = Tail(cq)
  /\ UNCHANGED <<running, wanted, startFailed, ring, ringSent, sigs, nextId, nextSlot,
                 mlKey, slhKey, loads, queue, pending, job, calls>>

\* SLH-DSA succeeds as a whole or zeroes the caller's buffer.
Returned ==
  IF call.what.kind # "slh" THEN [call EXCEPT !.at = "done", !.ok = TRUE]
  ELSE LET all == \A k \in DOMAIN Msgs : call.out[k] # NoSig
       IN  [call EXCEPT !.at = "done", !.ok = all,
                        !.out = IF all THEN @ ELSE [k \in DOMAIN @ |-> NoSig]]

CallReturn ==
  /\ InCall("poll") /\ (cq = <<>> \/ ~MorePolls)
  /\ call' = Returned
  /\ UNCHANGED <<running, wanted, startFailed, ring, ringSent, cq, sigs, nextId, nextSlot,
                 mlKey, slhKey, loads, queue, pending, job, calls, taken>>

CallEnd ==
  /\ call.at = "done" /\ call' = NoCall
  /\ UNCHANGED <<running, wanted, startFailed, ring, ringSent, cq, sigs, nextId, nextSlot,
                 mlKey, slhKey, loads, queue, pending, job, calls, taken>>
-----------------------------------------------------------------------------
Next ==
  \/ ClientStop \/ ClientStart
  \/ RingSubmit \/ KernelAnswer \/ ClientPoll
  \/ \E s \in KeySlots, m \in Modes, ok, started \in BOOLEAN :
       LoadMldsaKey(s, m, ok, started)
  \/ \E s \in KeySlots, ok \in BOOLEAN : LoadSlhKey(s, ok)
  \/ \E s \in KeySlots : CorruptMirror(s)
  \/ Enqueue
  \/ FlushRefuse \/ FlushStop \/ SignMldsa \/ SignSlh
  \/ FlushRestart \/ FlushPost \/ FlushFails
  \/ \E c \in Calls, m \in Modes, s \in KeySlots : CallBegin(c, m, s)
  \/ CallSubmit \/ CallStopped \/ CallSkip \/ CallRefused \/ CallFlush
  \/ CallPoll \/ CallReturn \/ CallEnd

Spec == Init /\ [][Next]_vars
-----------------------------------------------------------------------------
\* An SLH-DSA call that succeeds returns for each message its own signature,
\* made by the load of the slot's key (smoke_engine_submit_slh_dsa_sign
\* routes by request id; B-321).
SlhRouted ==
  call.at = "done" /\ call.what.kind = "slh" /\ call.ok =>
    \A k \in DOMAIN Msgs : call.out[k].rid = call.ids[k]

\* Between dispatches the kernel runs exactly if the client wants it to and
\* no start of it has failed: a dispatch that fails on its way, wherever,
\* does not leave it stopped.
RunningAsWanted == job.at = "idle" => running = (wanted /\ ~startFailed)

\* An ML-DSA or SLH-DSA response that reports success points at the
\* signature of its own request.
PostedIsOwn ==
  \A k \in DOMAIN cq :
    cq[k].alg # "ring" /\ cq[k].status = "OK" => sigs[cq[k].off].rid = cq[k].rid

\* smoke_mldsa_sign_batch "Returns the number of successfully signed messages"
\* (smoke_engine_abi.cpp:3397): it does not return while a signature of one of
\* its messages waits uncounted in the completion queue.
BatchCounted ==
  call.at = "done" /\ call.what.kind = "batch" =>
    \A k \in DOMAIN cq : cq[k].status = "OK" => cq[k].rid \notin ToSet(call.ids)


\* A call that asks for deterministic signatures gets no other.
DeterministicKept ==
  call.at = "done" /\ call.what.det =>
    \A k \in DOMAIN Msgs : call.out[k].load # 0 => call.out[k].det

\* Every request is in the ring, in a queue or a flush, answered or taken.
Accounted ==
  \A rid \in 1 .. nextId - 1 :
    \/ rid \in ring \cup taken
    \/ \E k \in DOMAIN cq : cq[k].rid = rid
    \/ \E a \in Algs : \E r \in ToSet(queue[a] \o pending) : r.rid = rid
=============================================================================

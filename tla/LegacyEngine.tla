----------------------------- MODULE LegacyEngine -----------------------------
(* The legacy P-256 engine of core/persistent_engine: the host calls of      *)
(* engine_host.cpp over one EngineState in device memory, and the kernel     *)
(* p256_engine_loop of engine_loop.cu that consumes its queue.               *)
(*                                                                           *)
(* The client chooses a request's slot from its id, the kernel the next slot *)
(* from its own counter: the two agree only while ids and counter march      *)
(* together.  A request is its id; a slot the host only zeroed holds NoReq.  *)
(* The copies of one CUDA stream take effect in order; two streams           *)
(* interleave.  Keys and their integrity are module KeyIntegrity.            *)
EXTENDS Integers, Sequences

CONSTANTS
  QueueSize,     \* ENGINE_QUEUE_SIZE
  CounterMod,    \* width of request_id, req_head and req_tail (2^32)
  Callers,       \* the host threads that submit, each with its stream
  BatchMax,      \* most requests one call submits (bound)
  Tunings,       \* the values set_tuning may install: <<min, max, low, high>>
  MaxIds,        \* bound on the ids handed out
  MaxStarts,     \* bound on engine_start
  GiveUps        \* bound on the calls that time out

VARIABLES
  running,       \* handle->running
  counter,       \* handle->host_req_counter
  nextId,        \* SmokeEngine.next_request_id
  head, tail,    \* d_state->req_head, req_tail
  requests,      \* d_state->requests
  responses,     \* d_state->responses
  ready,         \* d_state->response_ready
  shutdownFlag,  \* d_state->shutdown_flag
  tuning,        \* d_state->tuning, the microbatch part
  kernel,        \* "off" or "on", and the batch it is working on
  batch,         \* [from, size, done]: the kernel's current batch
  call,          \* what each caller is doing
  starts, giveUps

host   == <<running, counter, nextId>>
device == <<head, tail, requests, responses, ready, shutdownFlag, tuning>>
vars   == <<host, device, kernel, batch, call, starts, giveUps>>

Slots     == 0 .. QueueSize - 1
NoReq     == -1
NoBatch   == [from |-> 0, size |-> 0, done |-> 0]
Idle      == [pc |-> "idle", ids |-> << >>, base |-> 0, flags |-> {}, got |-> {}]
SlotOf(c) == c % QueueSize
Plus(a, n) == (a + n) % CounterMod

(* engine_compute_microbatch_size *)
MicroBatch(available, t) ==
  LET low    == t[3]
      high   == t[4]
      span   == IF high > low THEN high - low ELSE 1
      scaled == t[1] + ((t[2] - t[1]) * (available - low)) \div span
  IN  IF available = 0        THEN 0
      ELSE IF available <= low  THEN IF available < t[1] THEN available ELSE t[1]
      ELSE IF available >= high THEN t[2]
      ELSE IF scaled < t[1]     THEN t[1]
      ELSE IF scaled > t[2]     THEN t[2] ELSE scaled

(* The image h_init that engine_start copies over the whole device state. *)
BlankQueue ==
  /\ head' = 0 /\ tail' = 0
  /\ requests'  = [s \in Slots |-> NoReq]
  /\ responses' = [s \in Slots |-> NoReq]
  /\ ready'     = [s \in Slots |-> FALSE]
  /\ shutdownFlag' = FALSE

Init ==
  /\ running = FALSE /\ counter = 0 /\ nextId = 0
  /\ head = 0 /\ tail = 0
  /\ requests  = [s \in Slots |-> NoReq]
  /\ responses = [s \in Slots |-> NoReq]
  /\ ready     = [s \in Slots |-> FALSE]
  /\ shutdownFlag = FALSE
  /\ tuning \in Tunings
  /\ kernel = "off" /\ batch = NoBatch
  /\ call = [c \in Callers |-> Idle]
  /\ starts = 0 /\ giveUps = 0

(* engine_start: the device state is overwritten, the host counter is not. *)
Start ==
  /\ ~running /\ kernel = "off" /\ starts < MaxStarts
  /\ BlankQueue
  /\ running' = TRUE /\ kernel' = "on" /\ batch' = NoBatch
  /\ starts' = starts + 1
  /\ UNCHANGED <<counter, nextId, tuning, call, giveUps>>

(* engine_shutdown sets the flag and then watches the stream for a second. *)
ShutdownBegin ==
  /\ running /\ ~shutdownFlag
  /\ shutdownFlag' = TRUE
  /\ UNCHANGED <<host, head, tail, requests, responses, ready, tuning, kernel,
                 batch, call, starts, giveUps>>

ShutdownEnd ==
  /\ running /\ shutdownFlag /\ kernel = "off"
  /\ running' = FALSE
  /\ UNCHANGED <<counter, nextId, device, kernel, batch, call, starts, giveUps>>

(* engine_set_tuning takes any values, set_profile one of three. *)
SetTuning(t) ==
  /\ tuning' = t
  /\ UNCHANGED <<host, head, tail, requests, responses, ready, shutdownFlag,
                 kernel, batch, call, starts, giveUps>>

(* ---- Submitting: ids first, then the copies, req_head, the counter ---- *)
Ids(n) == [i \in 1 .. n |-> Plus(nextId, i - 1)]

SubmitCopy(c, n) ==
  /\ running /\ call[c].pc = "idle" /\ nextId + n <= MaxIds
  /\ LET ids == Ids(n)
     IN  /\ requests' = [s \in Slots |->
                IF \E i \in 1 .. n : SlotOf(ids[i]) = s
                THEN ids[CHOOSE i \in 1 .. n : /\ SlotOf(ids[i]) = s
                                               /\ \A j \in i + 1 .. n : SlotOf(ids[j]) # s]
                ELSE requests[s]]
         /\ call' = [call EXCEPT ![c] = [Idle EXCEPT !.pc = "head", !.ids = ids,
                                                     !.base = counter]]
  /\ nextId' = Plus(nextId, n)
  /\ UNCHANGED <<running, counter, head, tail, responses, ready, shutdownFlag,
                 tuning, kernel, batch, starts, giveUps>>

(* Mutant of NewHead: the head goes one request too far.                       *)
HeadBeyond(c) == Plus(call[c].base, Len(call[c].ids) + 1)

NewHead(c) == Plus(call[c].base, Len(call[c].ids))

SubmitHead(c) ==
  /\ call[c].pc = "head"
  /\ head' = NewHead(c)
  /\ call' = [call EXCEPT ![c].pc = "sync"]
  /\ UNCHANGED <<host, tail, requests, responses, ready, shutdownFlag, tuning,
                 kernel, batch, starts, giveUps>>

SubmitDone(c) ==
  /\ call[c].pc = "sync"
  /\ counter' = NewHead(c)
  /\ call' = [call EXCEPT ![c].pc = "wait"]
  /\ UNCHANGED <<running, nextId, device, kernel, batch, starts, giveUps>>

(* ---- The kernel: one snapshot of head and tail, then a whole batch ---- *)
Available == IF head > tail THEN head - tail ELSE 0

KernelTake ==
  /\ kernel = "on" /\ batch = NoBatch /\ ~shutdownFlag
  /\ LET wanted == MicroBatch(Available, tuning)
         size   == IF wanted > Available THEN Available ELSE wanted
     IN  /\ size > 0
         /\ batch' = [from |-> tail, size |-> size, done |-> 0]
  /\ UNCHANGED <<host, device, kernel, call, starts, giveUps>>

KernelAnswer ==
  /\ batch.done < batch.size
  /\ LET s == SlotOf(batch.from + batch.done)
     IN  /\ responses' = [responses EXCEPT ![s] = requests[s]]
         /\ ready' = [ready EXCEPT ![s] = TRUE]
  /\ batch' = [batch EXCEPT !.done = @ + 1]
  /\ UNCHANGED <<host, head, tail, requests, shutdownFlag, tuning, kernel, call,
                 starts, giveUps>>

KernelAdvance ==
  /\ batch.size > 0 /\ batch.done = batch.size
  /\ tail' = Plus(batch.from, batch.size)
  /\ batch' = NoBatch
  /\ UNCHANGED <<host, head, requests, responses, ready, shutdownFlag, tuning,
                 kernel, call, starts, giveUps>>

KernelExit ==
  /\ kernel = "on" /\ batch = NoBatch /\ shutdownFlag
  /\ kernel' = "off"
  /\ UNCHANGED <<host, device, batch, call, starts, giveUps>>

(* ---- Polling: the ready flags, then the responses, then the clears ---- *)
Ids2Slots(c) == {SlotOf(call[c].ids[i]) : i \in DOMAIN call[c].ids}
Answered(c)  == {g[1] : g \in call[c].got}

PollFlags(c) ==
  /\ call[c].pc = "wait"
  /\ LET hot == {s \in Ids2Slots(c) : ready[s]}
     IN  /\ hot # {}
         /\ call' = [call EXCEPT ![c].flags = hot, ![c].pc = "fetch"]
  /\ UNCHANGED <<host, device, kernel, batch, starts, giveUps>>

(* Each response is filed under the id that was asked for. *)
Fetched(c) ==
  {<<call[c].ids[i], responses[SlotOf(call[c].ids[i])]>> :
     i \in {j \in DOMAIN call[c].ids : /\ SlotOf(call[c].ids[j]) \in call[c].flags
                                       /\ call[c].ids[j] \notin Answered(c)}}

(* Mutants of ClearReady: the flags are left set, or cleared for every id.    *)
ReadyKept(c) == ready
ReadyCleared(c) == [s \in Slots |-> ready[s] /\ s \notin Ids2Slots(c)]

ClearReady(c) == [s \in Slots |-> ready[s] /\ s \notin call[c].flags]

PollFetch(c) ==
  /\ call[c].pc = "fetch"
  /\ ready' = ClearReady(c)
  /\ LET got  == call[c].got \union Fetched(c)
         done == {g[1] : g \in got} = {call[c].ids[i] : i \in DOMAIN call[c].ids}
     IN  call' = [call EXCEPT ![c].got = got, ![c].flags = {},
                              ![c].pc = IF done THEN "done" ELSE "wait"]
  /\ UNCHANGED <<host, head, tail, requests, responses, shutdownFlag, tuning,
                 kernel, batch, starts, giveUps>>

(* The caller returns to its own caller, with all answers or after 5 s. *)
Return(c) ==
  /\ call[c].pc = "done"
  /\ call' = [call EXCEPT ![c] = Idle]
  /\ UNCHANGED <<host, device, kernel, batch, starts, giveUps>>

GiveUp(c) ==
  /\ call[c].pc = "wait" /\ giveUps < GiveUps
  /\ giveUps' = giveUps + 1
  /\ call' = [call EXCEPT ![c] = Idle]
  /\ UNCHANGED <<host, device, kernel, batch, starts>>

Engine == KernelTake \/ KernelAnswer \/ KernelAdvance \/ KernelExit

Submit(c) == (\E n \in 1 .. BatchMax : SubmitCopy(c, n)) \/ SubmitHead(c) \/ SubmitDone(c)
Poll(c)   == PollFlags(c) \/ PollFetch(c) \/ Return(c) \/ GiveUp(c)

Next ==
  \/ Engine
  \/ Start \/ ShutdownBegin \/ ShutdownEnd
  \/ \E t \in Tunings : SetTuning(t)
  \/ \E c \in Callers : Submit(c) \/ Poll(c)

Spec == Init /\ [][Next]_vars

-------------------------------------------------------------------------------
(* The response handed back for an id is the response to that id: "Poll for  *)
(* a response to a specific request" (engine_host.cpp:791).                  *)
ResponseIsForId == \A c \in Callers : \A g \in call[c].got : g[2] = g[1]

(* What the kernel is about to sign: every position it has not answered yet, *)
(* up to the head, holds the request with that number, so no zeroed or older slot is    *)
(* signed and none is passed over.                                           *)
QueueInStep ==
  \A p \in tail + batch.done .. head - 1 : requests[SlotOf(p)] = p

(* A submitted request that nobody has answered is still ahead of the kernel *)
(* or flagged ready: the engine never forgets a request it accepted.         *)
NothingForgotten ==
  \A c \in Callers : call[c].pc = "wait" =>
    \A i \in DOMAIN call[c].ids :
      LET id == call[c].ids[i]
      IN  \/ id \in Answered(c)
          \/ id \in tail .. head - 1
          \/ ready[SlotOf(id)]
          \/ shutdownFlag \/ ~running
===============================================================================

------------------------------- MODULE FastPath -------------------------------
(***************************************************************************)
(* The FAST PATH of the persistent engine: a host thread submits requests  *)
(* into per-shard rings in mapped memory, one CTA of the persistent kernel *)
(* per shard copies a batch out of its ring, reserves a range of its       *)
(* completion queue (CQ), computes and commits the responses slot by slot, *)
(* and a host thread polls the CQs.  Nothing but the order of the reads    *)
(* and writes of shared words protects a slot from being overwritten while *)
(* it is live.  The kernel can be stopped and started again.               *)
(*                                                                         *)
(* Indices (head, tail, wr, rd) are uint32_t that only ever grow by        *)
(* additions, so each is kept as the number it would be without wrapping   *)
(* and every place that computes with one applies U32.                     *)
(*                                                                         *)
(* log and out are history variables: what this run of the kernel was      *)
(* given, and what the host took out of its CQs, shard by shard.           *)
(***************************************************************************)
EXTENDS Integers, Sequences, FiniteSetsExt

CONSTANTS
  NumShards,       \* handle->num_shards; one CTA each
  RingSize,        \* FAST_PATH_RING_SIZE (8192)
  CqCap,           \* FAST_PATH_RESPONSE_BUFFER, the default cq_capacity_active
  BatchMax,        \* FAST_PATH_BATCH_MAX (128)
  Quantum,         \* POLL_QUANTUM (512)
  StallRounds,     \* kStalledRoundsBeforePollExit (1024)
  IdxMod,          \* 2^32: the width of the indices
  Opcodes,         \* the opcodes clients submit
  SubmitPolicy,    \* "SHARD_LOCAL" or "RR_PER_REQ" (submit_policy 1 or 0)
  ShardsPerBatch,  \* handle->shards_per_batch
  SubmitVias,      \* "inline": submit_batch, "slab": submit_generic
  SubmitSizes,     \* values of count clients pass to a submit
  PollSizes,       \* values of max_out clients pass to a poll
  PollKinds,       \* "poll": fast_path_poll, "count": ..._poll_count_only
  StopMayTimeout,  \* TRUE: the kernel may outlive the 1 s wait of a stop
  MaxRequests,     \* model bound: requests ever submitted
  MaxStarts        \* model bound: fast_path_start calls

ASSUME FastPathAssumption ==
  /\ NumShards \in Nat /\ NumShards >= 2
  /\ RingSize \in Nat /\ RingSize >= 2
  /\ CqCap \in Nat \ {0}
  /\ BatchMax \in Nat \ {0}
  /\ Quantum \in Nat \ {0}
  /\ StallRounds \in Nat \ {0}
  /\ IdxMod \in Nat /\ IdxMod > RingSize /\ IdxMod > CqCap
  /\ IdxMod % RingSize = 0 /\ IdxMod % CqCap = 0
  /\ Opcodes \subseteq Nat
  /\ SubmitPolicy \in {"SHARD_LOCAL", "RR_PER_REQ"}
  /\ ShardsPerBatch \in Nat \ {0}
  /\ SubmitVias \subseteq {"inline", "slab"}
  /\ SubmitSizes \subseteq Nat \ {0}
  /\ PollSizes \subseteq Nat \ {0}
  /\ PollKinds \subseteq {"poll", "count"}
  /\ StopMayTimeout \in BOOLEAN
  /\ MaxRequests \in Nat
  /\ MaxStarts \in Nat

VARIABLES
  running,   \* handle->running: set by start, cleared at the end of stop
  shutdown,  \* *d_shutdown, read by every CTA at the top of its loop
  grids,     \* kernel launches enqueued on kernel_stream, not yet begun
  starts,    \* number of starts so far (bounds the model)
  nextId,    \* handle->next_request_id
  rr,        \* handle->submit_rr_counter, modulo NumShards
  sub,       \* the submit call in progress
  ring,      \* FastPathRing.requests, per shard
  head,      \* FastPathRing.head: the kernel takes requests here
  tail,      \* FastPathRing.tail: the host puts requests here
  cq,        \* FastPathResponseBuffer.responses, per shard
  wr,        \* FastPathResponseBuffer.write_idx: the kernel reserves here
  rd,        \* FastPathResponseBuffer.read_idx: the host drains here
  kpc,       \* where each CTA is in its loop
  space,     \* resp_space: room a CTA has seen in its CQ
  batch,     \* s_batch, the requests a CTA has copied to shared memory
  origin,    \* the head it read, then s_base_write_idx
  phase,     \* how far the thread of each batch entry is with its response
  poll,      \* the poll call in progress
  log,       \* history: requests published to each shard in this run
  out        \* history: responses taken from each shard in this run

hostVars   == <<running, shutdown, grids, starts>>
submitVars == <<nextId, rr, sub>>
ringVars   == <<ring, head, tail>>
cqVars     == <<cq, wr, rd>>
ctaVars    == <<kpc, space, batch, origin, phase>>
vars == <<hostVars, submitVars, ringVars, cqVars, ctaVars, poll, log, out>>

Shards  == 0 .. NumShards - 1
Entries == 1 .. BatchMax

U32(x)      == x % IdxMod
RingSlot(x) == U32(x) % RingSize
CqSlot(x)   == U32(x) % CqCap
CeilDiv(a, b) == (a + b - 1) \div b

\* A request, and a response slot: rid is the commit signal of cache line 0
\* (0: not committed), pay the line-1 and line-2 fields, abstracted to the
\* request they answer and the algorithm that produced them.
Request(id, op) == [id |-> id, op |-> op]
Zeroed          == [rid |-> 0, pay |-> Request(0, 0)]

EmptyRing == [p \in 0 .. RingSize - 1 |-> Request(0, 0)]
EmptyCq   == [p \in 0 .. CqCap - 1 |-> Zeroed]
NoPhase   == [i \in Entries |-> "todo"]
NoSubmit  == [pc |-> "idle", via |-> "inline", op |-> 0, count |-> 0,
              left |-> 0, k |-> 0, n |-> 0]
NoPoll    == [pc |-> "idle", max |-> 0, snap |-> [s \in Shards |-> 0], s |-> 0,
              i |-> 0, got |-> 0, any |-> FALSE, prog |-> FALSE, stalled |-> 0]

PerShard(v) == [s \in Shards |-> v]

\* The handle as fast_path_create and fast_path_set_num_shards leave it.
Init ==
  /\ running = FALSE /\ shutdown \in BOOLEAN /\ grids = 0 /\ starts = 0
  /\ nextId = 1 /\ rr = 0 /\ sub = NoSubmit
  /\ ring = PerShard(EmptyRing) /\ head = PerShard(0) /\ tail = PerShard(0)
  /\ cq = PerShard(EmptyCq) /\ wr = PerShard(0) /\ rd = PerShard(0)
  /\ kpc = PerShard("exit") /\ space = PerShard(0) /\ batch = PerShard(<<>>)
  /\ origin = PerShard(0) /\ phase = PerShard(NoPhase)
  /\ poll = NoPoll
  /\ log = PerShard(<<>>) /\ out = PerShard(<<>>)
-----------------------------------------------------------------------------
(* Submit: one call walks a fixed list of shards and gives each a segment. *)

Used(s) == U32(tail[s] - head[s])

Segments ==
  IF sub.via = "slab" THEN 1
  ELSE IF SubmitPolicy = "SHARD_LOCAL" THEN ShardsPerBatch ELSE NumShards

SegmentShard ==
  IF sub.via = "slab" THEN 0
  ELSE IF SubmitPolicy = "SHARD_LOCAL" THEN (rr + sub.k) % NumShards ELSE sub.k

\* How many requests the call has for the current segment.
SegmentWant ==
  IF sub.via = "slab" THEN 1
  ELSE IF SubmitPolicy = "SHARD_LOCAL"
    THEN Min({sub.left, CeilDiv(sub.count, ShardsPerBatch)})
    ELSE Cardinality({i \in 0 .. sub.count - 1 : (rr + i) % NumShards = sub.k})

\* Mutant of SegmentRoom: submit_generic without the slot it keeps free.
RoomWithoutGap ==
  IF sub.via = "slab"
    THEN IF Used(SegmentShard) % RingSize >= RingSize THEN 0 ELSE 1
    ELSE U32((RingSize - 1) - Used(SegmentShard))

\* The room it sees in the ring; submit_generic masks the difference.
SegmentRoom ==
  IF sub.via = "slab"
    THEN IF Used(SegmentShard) % RingSize >= RingSize - 1 THEN 0 ELSE 1
    ELSE U32((RingSize - 1) - Used(SegmentShard))

SegmentLen == Min({SegmentWant, SegmentRoom})

InSegment == sub.pc = "segment" /\ sub.k < Segments /\ sub.left > 0

SubmitBegin(n, op, via) ==
  /\ running
  /\ sub.pc = "idle"
  /\ nextId + n - 1 <= MaxRequests
  /\ via = "slab" => n = 1
  /\ sub' = [NoSubmit EXCEPT !.pc = "segment", !.via = via, !.op = op,
                             !.count = n, !.left = n]
  /\ UNCHANGED <<hostVars, nextId, rr, ringVars, cqVars, ctaVars, poll, log, out>>

SkipSegment ==
  /\ InSegment
  /\ SegmentLen = 0
  /\ sub' = [sub EXCEPT !.k = @ + 1]
  /\ UNCHANGED <<hostVars, nextId, rr, ringVars, cqVars, ctaVars, poll, log, out>>

\* Writes the requests behind tail, where the kernel does not look yet.
WriteSegment ==
  LET s == SegmentShard
      n == SegmentLen
      holds(p) == {j \in 0 .. n - 1 : RingSlot(tail[s] + j) = p}
  IN /\ InSegment
     /\ n > 0
     /\ ring' = [ring EXCEPT ![s] = [p \in 0 .. RingSize - 1 |->
                   IF holds(p) = {} THEN ring[s][p]
                   ELSE Request(nextId + (CHOOSE j \in holds(p) : TRUE), sub.op)]]
     /\ nextId' = nextId + n
     /\ sub' = [sub EXCEPT !.pc = "publish", !.n = n]
     /\ UNCHANGED <<hostVars, rr, head, tail, cqVars, ctaVars, poll, log, out>>

\* The requests written by WriteSegment, in the order of their slots.
Written == [j \in 1 .. sub.n |-> Request(nextId - sub.n + j - 1, sub.op)]

PublishSegment ==
  LET s == SegmentShard
  IN /\ sub.pc = "publish"
     /\ tail' = [tail EXCEPT ![s] = @ + sub.n]
     /\ log' = [log EXCEPT ![s] = @ \o Written]
     /\ sub' = [sub EXCEPT !.pc = "segment", !.left = @ - sub.n,
                           !.k = @ + 1, !.n = 0]
     /\ UNCHANGED <<hostVars, nextId, rr, ring, head, cqVars, ctaVars, poll, out>>

\* Mutant of SubmitReturn: the cursor is stored without its modulus.
ReturnUnreduced ==
  /\ sub.pc = "segment"
  /\ ~InSegment
  /\ rr' = rr + (IF sub.via = "slab" THEN 0 ELSE ShardsPerBatch)
  /\ sub' = NoSubmit
  /\ UNCHANGED <<hostVars, nextId, ringVars, cqVars, ctaVars, poll, log, out>>

SubmitReturn ==
  /\ sub.pc = "segment"
  /\ ~InSegment
  /\ rr' = IF sub.via = "slab" THEN rr
           ELSE IF SubmitPolicy = "SHARD_LOCAL"
             THEN (rr + ShardsPerBatch) % NumShards
             ELSE (rr + sub.count - sub.left) % NumShards
  /\ sub' = NoSubmit
  /\ UNCHANGED <<hostVars, nextId, ringVars, cqVars, ctaVars, poll, log, out>>
-----------------------------------------------------------------------------
(* The persistent kernel: CTA s owns ring s and CQ s.                      *)

Available(s) == U32(tail[s] - head[s])
\* Mutant of Space: the responses the host has not drained are not counted.
SpaceIgnoringUse(s) == CqCap
Space(s)     == U32(CqCap - U32(wr[s] - rd[s]))
BatchLen(s)  == Min({Available(s), BatchMax, space[s]})

\* The top of the loop: goes on if the CQ has room, which can only grow.
LookAtCq(s) ==
  /\ kpc[s] = "top"
  /\ ~shutdown
  /\ Space(s) > 0
  /\ space' = [space EXCEPT ![s] = Space(s)]
  /\ kpc' = [kpc EXCEPT ![s] = "fetch"]
  /\ UNCHANGED <<hostVars, submitVars, ringVars, cqVars, batch, origin, phase, poll, log, out>>

\* An empty ring, read again after a fence, sends the CTA back to the top.
FindEmpty(s) ==
  /\ kpc[s] = "fetch"
  /\ Available(s) = 0
  /\ space' = [space EXCEPT ![s] = 0]
  /\ kpc' = [kpc EXCEPT ![s] = "top"]
  /\ UNCHANGED <<hostVars, submitVars, ringVars, cqVars, batch, origin, phase, poll, log, out>>

\* The requests at head, copied to shared memory before head moves.
Fetch(s) ==
  /\ kpc[s] = "fetch"
  /\ Available(s) > 0
  /\ batch' = [batch EXCEPT ![s] =
                 [i \in 1 .. BatchLen(s) |-> ring[s][RingSlot(head[s] + i - 1)]]]
  /\ origin' = [origin EXCEPT ![s] = head[s]]
  /\ space' = [space EXCEPT ![s] = 0]
  /\ kpc' = [kpc EXCEPT ![s] = "advance"]
  /\ UNCHANGED <<hostVars, submitVars, ringVars, cqVars, phase, poll, log, out>>

\* Mutant of AdvanceHead: moves by the batch limit, not by the batch.
AdvanceByLimit(s) ==
  /\ kpc[s] = "advance"
  /\ head' = [head EXCEPT ![s] = origin[s] + BatchMax]
  /\ kpc' = [kpc EXCEPT ![s] = "reserve"]
  /\ UNCHANGED <<hostVars, submitVars, ring, tail, cqVars, space, batch, origin, phase, poll, log, out>>

AdvanceHead(s) ==
  /\ kpc[s] = "advance"
  /\ head' = [head EXCEPT ![s] = origin[s] + Len(batch[s])]
  /\ kpc' = [kpc EXCEPT ![s] = "reserve"]
  /\ UNCHANGED <<hostVars, submitVars, ring, tail, cqVars, space, batch, origin, phase, poll, log, out>>

\* write_idx moves before anything is written: the host sees reserved slots.
Reserve(s) ==
  /\ kpc[s] = "reserve"
  /\ wr' = [wr EXCEPT ![s] = @ + Len(batch[s])]
  /\ origin' = [origin EXCEPT ![s] = wr[s]]
  /\ kpc' = [kpc EXCEPT ![s] = "write"]
  /\ UNCHANGED <<hostVars, submitVars, ringVars, cq, rd, space, batch, phase, poll, log, out>>

\* The CQ slot of batch entry i: s_base_write_idx + i, entries from 1.
EntrySlot(s, i) == CqSlot(origin[s] + i - 1)

\* The whole batch is dispatched on the opcode of its first request.
Answer(s, i) == Request(batch[s][i].id, batch[s][1].op)

\* A thread writes every field of its response except request_id ...
WriteBody(s, i) ==
  /\ kpc[s] = "write" /\ i \in 1 .. Len(batch[s]) /\ phase[s][i] = "todo"
  /\ cq' = [cq EXCEPT ![s][EntrySlot(s, i)].pay = Answer(s, i)]
  /\ phase' = [phase EXCEPT ![s][i] = "body"]
  /\ UNCHANGED <<hostVars, submitVars, ringVars, wr, rd, kpc, space, batch, origin, poll, log, out>>

\* ... and, after a system fence, request_id: the commit signal.
Commit(s, i) ==
  /\ kpc[s] = "write" /\ i \in 1 .. Len(batch[s]) /\ phase[s][i] = "body"
  /\ cq' = [cq EXCEPT ![s][EntrySlot(s, i)].rid = batch[s][i].id]
  /\ phase' = [phase EXCEPT ![s][i] = "done"]
  /\ UNCHANGED <<hostVars, submitVars, ringVars, wr, rd, kpc, space, batch, origin, poll, log, out>>

\* Mutant of BatchEnd: no barrier, the CTA goes on when one thread is done.
EndWithoutBarrier(s) ==
  /\ kpc[s] = "write"
  /\ \E i \in 1 .. Len(batch[s]) : phase[s][i] = "done"
  /\ kpc' = [kpc EXCEPT ![s] = "top"]
  /\ batch' = [batch EXCEPT ![s] = <<>>]
  /\ origin' = [origin EXCEPT ![s] = 0]
  /\ phase' = [phase EXCEPT ![s] = NoPhase]
  /\ UNCHANGED <<hostVars, submitVars, ringVars, cqVars, space, poll, log, out>>

BatchEnd(s) ==
  /\ kpc[s] = "write"
  /\ \A i \in 1 .. Len(batch[s]) : phase[s][i] = "done"
  /\ kpc' = [kpc EXCEPT ![s] = "top"]
  /\ batch' = [batch EXCEPT ![s] = <<>>]
  /\ origin' = [origin EXCEPT ![s] = 0]
  /\ phase' = [phase EXCEPT ![s] = NoPhase]
  /\ UNCHANGED <<hostVars, submitVars, ringVars, cqVars, space, poll, log, out>>

\* A CTA leaves only from the top of its loop.
CtaExit(s) ==
  /\ kpc[s] = "top"
  /\ shutdown
  /\ kpc' = [kpc EXCEPT ![s] = "exit"]
  /\ UNCHANGED <<hostVars, submitVars, ringVars, cqVars, space, batch, origin, phase, poll, log, out>>

CtaStep(s) ==
  \/ LookAtCq(s) \/ FindEmpty(s) \/ Fetch(s) \/ AdvanceHead(s) \/ Reserve(s)
  \/ \E i \in Entries : WriteBody(s, i) \/ Commit(s, i)
  \/ BatchEnd(s) \/ CtaExit(s)
-----------------------------------------------------------------------------
(* Poll: rounds over the shards, each from one snapshot of every write_idx. *)

ReadSlot(s)   == cq[s][CqSlot(rd[s] + poll.i)]
PollAvail(s)  == U32(poll.snap[s] - rd[s])
PollTarget(s) == Min({PollAvail(s), Quantum, poll.max - poll.got})
Draining      == /\ poll.pc = "drain"
                 /\ poll.s < NumShards
                 /\ poll.got < poll.max

PollBegin(m) ==
  /\ running
  /\ poll.pc = "idle"
  /\ poll' = [NoPoll EXCEPT !.pc = "round", !.max = m]
  /\ UNCHANGED <<hostVars, submitVars, ringVars, cqVars, ctaVars, log, out>>

PollRound ==
  /\ poll.pc = "round"
  /\ poll' = [poll EXCEPT !.pc = "drain", !.snap = wr, !.s = 0, !.i = 0,
                          !.any = FALSE, !.prog = FALSE]
  /\ UNCHANGED <<hostVars, submitVars, ringVars, cqVars, ctaVars, log, out>>

PollSkipShard ==
  /\ Draining
  /\ PollAvail(poll.s) = 0
  /\ poll' = [poll EXCEPT !.s = @ + 1]
  /\ UNCHANGED <<hostVars, submitVars, ringVars, cqVars, ctaVars, log, out>>

\* Mutant of PollTake: the poll before B-322, which left request_id set.
TakeWithoutClear ==
  /\ Draining
  /\ poll.i < PollTarget(poll.s)
  /\ ReadSlot(poll.s).rid # 0
  /\ out' = [out EXCEPT ![poll.s] = Append(@, ReadSlot(poll.s))]
  /\ poll' = [poll EXCEPT !.i = @ + 1]
  /\ UNCHANGED <<hostVars, submitVars, ringVars, cqVars, ctaVars, log>>

\* Takes a committed response and invalidates its slot (B-322).
PollTake ==
  /\ Draining
  /\ poll.i < PollTarget(poll.s)
  /\ ReadSlot(poll.s).rid # 0
  /\ out' = [out EXCEPT ![poll.s] = Append(@, ReadSlot(poll.s))]
  /\ cq' = [cq EXCEPT ![poll.s][CqSlot(rd[poll.s] + poll.i)].rid = 0]
  /\ poll' = [poll EXCEPT !.i = @ + 1]
  /\ UNCHANGED <<hostVars, submitVars, ringVars, wr, rd, ctaVars, log>>

\* Mutant of PollAdvance: read_idx is not stored back.
AdvanceWithoutStore ==
  /\ Draining
  /\ PollAvail(poll.s) > 0
  /\ poll.i = PollTarget(poll.s) \/ ReadSlot(poll.s).rid = 0
  /\ poll' = [poll EXCEPT !.s = @ + 1, !.i = 0, !.got = @ + poll.i,
                          !.any = TRUE, !.prog = @ \/ poll.i > 0]
  /\ UNCHANGED <<hostVars, submitVars, ringVars, cqVars, ctaVars, log, out>>

\* The shard is finished with, or its next response is not committed yet.
PollAdvance ==
  /\ Draining
  /\ PollAvail(poll.s) > 0
  /\ poll.i = PollTarget(poll.s) \/ ReadSlot(poll.s).rid = 0
  /\ rd' = [rd EXCEPT ![poll.s] = @ + poll.i]
  /\ poll' = [poll EXCEPT !.s = @ + 1, !.i = 0, !.got = @ + poll.i,
                          !.any = TRUE, !.prog = @ \/ poll.i > 0]
  /\ UNCHANGED <<hostVars, submitVars, ringVars, cq, wr, ctaVars, log, out>>

\* A round that took nothing is repeated StallRounds times at most.
PollGivesUp ==
  \/ ~poll.any
  \/ IF poll.prog THEN poll.got >= poll.max ELSE poll.stalled + 1 >= StallRounds

\* Mutant of PollRoundEnd: visible data resets the count, not progress.
EndResetsOnVisible ==
  /\ poll.pc = "drain"
  /\ ~Draining
  /\ poll' = IF PollGivesUp THEN NoPoll
             ELSE [poll EXCEPT !.pc = "round", !.s = 0,
                               !.stalled = IF poll.any THEN 0 ELSE @ + 1]
  /\ UNCHANGED <<hostVars, submitVars, ringVars, cqVars, ctaVars, log, out>>

PollRoundEnd ==
  /\ poll.pc = "drain"
  /\ ~Draining
  /\ poll' = IF PollGivesUp THEN NoPoll
             ELSE [poll EXCEPT !.pc = "round", !.s = 0,
                               !.stalled = IF poll.prog THEN 0 ELSE @ + 1]
  /\ UNCHANGED <<hostVars, submitVars, ringVars, cqVars, ctaVars, log, out>>

(* fast_path_poll_count_only: one pass, no copy and no invalidation.       *)

CountBegin(m) ==
  /\ running
  /\ poll.pc = "idle"
  /\ poll' = [NoPoll EXCEPT !.pc = "count", !.max = m]
  /\ UNCHANGED <<hostVars, submitVars, ringVars, cqVars, ctaVars, log, out>>

Counting == poll.pc = "count" /\ poll.s < NumShards /\ poll.got < poll.max

\* n responses, up to the target or the first slot that is not committed.
CountShard ==
  LET s == poll.s
      target == Min({U32(wr[s] - rd[s]), Quantum, poll.max - poll.got})
      slot(i) == cq[s][CqSlot(rd[s] + i)]
  IN /\ Counting
     /\ \E n \in 0 .. target :
          /\ \A i \in 0 .. n - 1 : slot(i).rid # 0
          /\ n = target \/ slot(n).rid = 0
          /\ rd' = [rd EXCEPT ![s] = @ + n]
          /\ out' = [out EXCEPT ![s] = @ \o [i \in 1 .. n |-> slot(i - 1)]]
          /\ poll' = [poll EXCEPT !.s = @ + 1, !.got = @ + n]
     /\ UNCHANGED <<hostVars, submitVars, ringVars, cq, wr, ctaVars, log>>

CountReturn ==
  /\ poll.pc = "count"
  /\ ~Counting
  /\ poll' = NoPoll
  /\ UNCHANGED <<hostVars, submitVars, ringVars, cqVars, ctaVars, log, out>>
-----------------------------------------------------------------------------
(* Lifecycle: smoke_fast_path_start and smoke_fast_path_stop, called while  *)
(* no submit or poll is in progress (start) or at any time (stop).          *)

AllExited == \A s \in Shards : kpc[s] = "exit"

\* Mutant of Start: the response slots are not cleared.
StartKeepingSlots ==
  /\ ~running
  /\ starts < MaxStarts
  /\ sub.pc = "idle" /\ poll.pc = "idle"
  /\ wr' = PerShard(0) /\ rd' = PerShard(0)
  /\ head' = PerShard(0) /\ tail' = PerShard(0)
  /\ shutdown' = FALSE
  /\ grids' = grids + 1
  /\ running' = TRUE
  /\ starts' = starts + 1
  /\ log' = PerShard(<<>>) /\ out' = PerShard(<<>>)
  /\ UNCHANGED <<submitVars, ring, cq, ctaVars, poll>>

\* Resets both queues of every shard and the flag, then launches the grid.
Start ==
  /\ ~running
  /\ starts < MaxStarts
  /\ sub.pc = "idle" /\ poll.pc = "idle"
  /\ wr' = PerShard(0) /\ rd' = PerShard(0)
  /\ cq' = PerShard(EmptyCq)
  /\ head' = PerShard(0) /\ tail' = PerShard(0)
  /\ shutdown' = FALSE
  /\ grids' = grids + 1
  /\ running' = TRUE
  /\ starts' = starts + 1
  /\ log' = PerShard(<<>>) /\ out' = PerShard(<<>>)
  /\ UNCHANGED <<submitVars, ring, ctaVars, poll>>

\* kernel_stream runs one grid at a time.
GridLaunch ==
  /\ grids > 0
  /\ AllExited
  /\ grids' = grids - 1
  /\ kpc' = PerShard("top")
  /\ UNCHANGED <<running, shutdown, starts, submitVars, ringVars, cqVars, space,
                 batch, origin, phase, poll, log, out>>

StopRequest ==
  /\ running
  /\ ~shutdown
  /\ shutdown' = TRUE
  /\ UNCHANGED <<running, grids, starts, submitVars, ringVars, cqVars, ctaVars,
                 poll, log, out>>

\* The wait for kernel_stream ends when the stream is empty, or after 1 s.
StopReturn ==
  /\ running
  /\ shutdown
  /\ (AllExited /\ grids = 0) \/ StopMayTimeout
  /\ running' = FALSE
  /\ UNCHANGED <<shutdown, grids, starts, submitVars, ringVars, cqVars, ctaVars,
                 poll, log, out>>
-----------------------------------------------------------------------------
ClientStep ==
  \/ \E n \in SubmitSizes, op \in Opcodes, via \in SubmitVias :
       SubmitBegin(n, op, via)
  \/ "count" \in PollKinds /\ \E m \in PollSizes : CountBegin(m)
  \/ "poll" \in PollKinds /\ \E m \in PollSizes : PollBegin(m)
  \/ Start \/ StopRequest

SubmitStep == SkipSegment \/ WriteSegment \/ PublishSegment \/ SubmitReturn

PollStep ==
  \/ PollRound \/ PollSkipShard \/ PollTake \/ PollAdvance \/ PollRoundEnd
  \/ CountShard \/ CountReturn

Next ==
  \/ ClientStep \/ SubmitStep \/ PollStep \/ StopReturn \/ GridLaunch
  \/ \E s \in Shards : CtaStep(s)

Spec == Init /\ [][Next]_vars

(* Fairness: the GPU schedules every CTA (start refuses more CTAs than SMs), *)
(* a call that was made runs to its end, and the client polls again and      *)
(* again, as every caller in the repository does.                            *)

FairSpec ==
  /\ Spec
  /\ WF_vars(SubmitStep) /\ WF_vars(PollStep) /\ WF_vars(GridLaunch)
  /\ \A s \in Shards : WF_vars(CtaStep(s))
  /\ WF_vars(\E m \in PollSizes : PollBegin(m))

\* Only the polling thread is sure to run: the kernel may hang anywhere.
PollerSpec == Spec /\ WF_vars(PollStep)
-----------------------------------------------------------------------------
Requests  == [id : Nat, op : Nat]
Responses == [rid : Nat, pay : Requests]

SubmitCalls ==
  [pc : {"idle", "segment", "publish"}, via : {"inline", "slab"},
   op : Nat, count : Nat, left : Int, k : Nat, n : Nat]

PollCalls ==
  [pc : {"idle", "round", "drain", "count"}, max : Nat, snap : [Shards -> Nat],
   s : Nat, i : Nat, got : Nat, any : BOOLEAN, prog : BOOLEAN, stalled : Nat]

TypeOK ==
  /\ running \in BOOLEAN /\ shutdown \in BOOLEAN
  /\ grids \in Nat /\ starts \in Nat
  /\ nextId \in Nat \ {0} /\ rr \in Shards
  /\ sub \in SubmitCalls
  /\ ring \in [Shards -> [0 .. RingSize - 1 -> Requests]]
  /\ head \in [Shards -> Nat] /\ tail \in [Shards -> Nat]
  /\ cq \in [Shards -> [0 .. CqCap - 1 -> Responses]]
  /\ wr \in [Shards -> Nat] /\ rd \in [Shards -> Nat]
  /\ kpc \in [Shards -> {"top", "fetch", "advance", "reserve", "write", "exit"}]
  /\ space \in [Shards -> Nat]
  /\ batch \in [Shards -> Seq(Requests)]
  /\ origin \in [Shards -> Nat]
  /\ phase \in [Shards -> [Entries -> {"todo", "body", "done"}]]
  /\ poll \in PollCalls
  /\ log \in [Shards -> Seq(Requests)]
  /\ out \in [Shards -> Seq(Responses)]

\* Responses of shard s already taken by the poll that has not moved rd yet.
Taken(s) == IF poll.pc = "drain" /\ poll.s = s THEN poll.i ELSE 0

\* The k-th response the host takes from a shard is the answer to the k-th
\* request published to it in this run: none lost, none twice, none out of
\* order, none of an earlier run or an earlier lap of the CQ, and none whose
\* payload was not yet, or is no longer, its own.
AnsweredRight(s) ==
  \A k \in 1 .. Len(out[s]) :
    /\ k <= Len(log[s])
    /\ out[s][k].rid = log[s][k].id
    /\ out[s][k].pay.id = log[s][k].id

OwnAnswer == \A s \in Shards : AnsweredRight(s)

\* Until the kernel has moved head past it, a published request is still in
\* its ring slot as it was published: no submit wraps onto it.
LiveRequestsIntact ==
  \A s \in Shards : \A q \in head[s] .. tail[s] - 1 :
    ring[s][RingSlot(q)] = log[s][q + 1]

\* The kernel never reserves a CQ slot the host has not drained, and never
\* more slots than the requests it has taken.
CqNeverOverrun ==
  \A s \in Shards :
    /\ rd[s] + Taken(s) <= wr[s] /\ wr[s] - rd[s] <= CqCap
    /\ wr[s] <= head[s] /\ head[s] <= tail[s]

\* A CTA between batches, or gone, leaves no reserved slot uncommitted: the
\* head of the CQ cannot be a slot nobody will ever write (RRP-A06b).
NothingAbandoned ==
  \A s \in Shards : kpc[s] \in {"top", "fetch", "exit"} =>
    \A q \in rd[s] + Taken(s) .. wr[s] - 1 : cq[s][CqSlot(q)].rid # 0

\* Between its commit and the host's taking it, a response does not change,
\* unless a start wipes the CQ.
CommittedStable ==
  [][starts' = starts =>
       \A s \in Shards, p \in 0 .. CqCap - 1 :
         cq[s][p].rid # 0 =>
           /\ cq'[s][p].pay = cq[s][p].pay
           /\ cq'[s][p].rid \in {cq[s][p].rid, 0}]_vars

\* What a client that mixes opcodes counts on: a response was computed with
\* the opcode of the request it answers.
OwnOpcode ==
  \A s \in Shards : \A k \in 1 .. Len(out[s]) :
    k <= Len(log[s]) => out[s][k].pay.op = log[s][k].op

\* Unless the engine is stopped, every published request is answered.
EveryRequestAnswered ==
  \A s \in Shards, n \in 1 .. MaxRequests :
    (running /\ ~shutdown /\ Len(log[s]) >= n)
      ~> (Len(out[s]) >= n \/ shutdown)

\* A poll call returns, whatever the kernel does or fails to do (RRP-A06b).
PollReturns == poll.pc # "idle" ~> poll.pc = "idle"

\* The FAST PATH implements the abstract service: an id is accepted when its
\* segment is published and answered when its response is taken.
Service == INSTANCE AnswerService WITH
  Lanes    <- Shards,
  MaxSegment <- MaxRequests,
  accepted <- [s \in Shards |-> [k \in 1 .. Len(log[s]) |-> log[s][k].id]],
  answered <- [s \in Shards |-> [k \in 1 .. Len(out[s]) |-> out[s][k].pay.id]],
  lastId   <- nextId - 1 - sub.n

ServiceSpec == Service!Spec
=============================================================================

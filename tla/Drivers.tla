------------------------------ MODULE Drivers -------------------------------
(***************************************************************************)
(* The loops that drive the fast path from C++: the hash feeder, which     *)
(* packs messages into the shared input slab in waves and scatters the     *)
(* digests it polls by request id, and the counting loops (the bench, the  *)
(* continuous feeder, submit-and-drain), which only compare how many       *)
(* requests went in with how many responses came out.  All of them poll    *)
(* whatever the engine answers, what earlier calls left behind included.   *)
(***************************************************************************)
EXTENDS Integers, Sequences, FiniteSets, SequencesExt

CONSTANTS Shards,       \* 1 .. n
          RingRoom,     \* FAST_PATH_RING_SIZE - 1
          SlabCells,    \* messages the input slab holds
          HashCounts,   \* messages a hash call brings
          DrainCounts,  \* hashes a submit-and-drain call brings
          BatchCap, HighWater, LowWater,
          MaxCalls, MaxRid,
          MayGiveUp     \* whether a deadline may pass

Kinds == {"bench", "feeder"}

VARIABLES
  ring,   \* per shard, the requests not answered: id and slab cell
  done,   \* per shard, the responses not polled: id and digest
  slab,   \* the input slab: the id of the message whose bytes a cell holds
  rid,    \* next_request_id
  rr,     \* submit_rr_counter, as the shard it points at
  drv,    \* the call in progress
  out,    \* out_digests of the hash call
  report, \* what the last call reported, and whether one before it left requests
  calls,
  late    \* whether a call ever left requests behind

dvars == <<ring, done, slab, rid, rr, drv, out, report, calls, late>>

None == -1
Inline == 0
NoReport == [kind |-> "none", ok |-> FALSE, late |-> FALSE]
NoCall == [op |-> "idle", kind |-> "none", base |-> 0, n |-> 0, next |-> 0, last |-> 0,
           it |-> 0, wsub |-> 0, wrecv |-> 0, sub |-> 0, recv |-> 0, err |-> 0,
           comp |-> 0, on |-> FALSE, quiet |-> FALSE]

DriversInit ==
  /\ ring = [s \in Shards |-> <<>>] /\ done = [s \in Shards |-> <<>>]
  /\ slab = [c \in 1 .. SlabCells |-> None]
  /\ rid = 1 /\ rr = 0 /\ drv = NoCall /\ out = <<>>
  /\ report = NoReport /\ calls = 0 /\ late = FALSE

\* The shard of the k-th request from here.
Turn(k) == 1 + ((rr + k) % Cardinality(Shards))
Full(s) == Len(ring[s]) = RingRoom
Polled == FlattenSeq([s \in 1 .. Cardinality(Shards) |-> done[s]])
PollAll == done' = [s \in Shards |-> <<>>]
Outstanding == UNION {ToSet(ring[s]) : s \in Shards}
               \cup UNION {ToSet(done[s]) : s \in Shards}

\* The kernel reads the message where the request points, when it gets to it.
EngineAnswer(s) ==
  /\ ring[s] # <<>>
  /\ LET r == Head(ring[s])
     IN done' = [done EXCEPT ![s] = Append(@,
                   [id |-> r.id, sum |-> IF r.cell = Inline THEN Inline ELSE slab[r.cell]])]
  /\ ring' = [ring EXCEPT ![s] = Tail(@)]
  /\ UNCHANGED <<slab, rid, rr, drv, out, report, calls, late>>

-----------------------------------------------------------------------------
(* The hash feeder. *)

HashBegin(n) ==
  /\ drv.op = "idle" /\ calls < MaxCalls /\ rid + n <= MaxRid
  /\ drv' = [NoCall EXCEPT !.op = "pack", !.kind = "hash", !.base = rid, !.n = n]
  /\ out' = [i \in 1 .. n |-> 0] /\ report' = NoReport /\ calls' = calls + 1
  /\ UNCHANGED <<ring, done, slab, rid, rr, late>>

\* A wave: as many messages as the slab holds, from its start.
WaveEnd == IF drv.n < drv.next + SlabCells THEN drv.n ELSE drv.next + SlabCells
Pack ==
  /\ drv.op = "pack" /\ drv.next < drv.n
  /\ slab' = [c \in 1 .. SlabCells |-> IF drv.next + c <= WaveEnd
                                       THEN drv.base + drv.next + c - 1 ELSE slab[c]]
  /\ drv' = [drv EXCEPT !.op = "submit", !.last = WaveEnd, !.it = drv.next,
               !.wsub = 0, !.wrecv = 0]
  /\ UNCHANGED <<ring, done, rid, rr, out, report, calls, late>>

HashSubmit ==
  /\ drv.op = "submit" /\ drv.it < drv.last /\ ~Full(Turn(0))
  /\ ring' = [ring EXCEPT ![Turn(0)] = Append(@, [id |-> rid, cell |-> drv.it - drv.next + 1])]
  /\ rid' = rid + 1 /\ rr' = Turn(0) % Cardinality(Shards)
  /\ drv' = [drv EXCEPT !.it = @ + 1, !.wsub = @ + 1]
  /\ UNCHANGED <<done, slab, out, report, calls, late>>

\* drain_once: a response is the caller's if its id falls in the call's range.
InCall(p) == p.id - drv.base < drv.n
Own(p) == drv.base <= p.id /\ p.id - drv.base < drv.n
Scattered(got) ==
  [i \in DOMAIN out |-> IF \E k \in DOMAIN got : Own(got[k]) /\ got[k].id - drv.base + 1 = i
                        THEN (CHOOSE p \in ToSet(got) : Own(p) /\ p.id - drv.base + 1 = i).sum
                        ELSE out[i]]
DrainOnce(after) ==
  /\ PollAll
  /\ out' = Scattered(Polled)
  /\ drv' = [drv EXCEPT !.op = after, !.wrecv = @ + Len(Polled),
               !.err = @ + Len(SelectSeq(Polled, LAMBDA p : ~Own(p))),
               !.comp = @ + Len(SelectSeq(Polled, Own))]
  /\ UNCHANGED <<ring, slab, rid, report, calls, late>>

HashFull(late30s) ==
  /\ drv.op = "submit" /\ drv.it < drv.last /\ Full(Turn(0))
  /\ DrainOnce(IF late30s THEN "timeout" ELSE "submit") /\ rr' = Turn(0) % Cardinality(Shards)

WaveSubmitted ==
  /\ drv.op = "submit" /\ drv.it = drv.last
  /\ drv' = [drv EXCEPT !.op = "drain", !.sub = @ + drv.wsub]
  /\ UNCHANGED <<ring, done, slab, rid, rr, out, report, calls, late>>

WaveSentNotDrained == TRUE
WaveDone == drv.wrecv >= drv.wsub
WaveDrain(late30s) ==
  /\ drv.op = "drain" /\ ~WaveDone
  /\ late30s => Polled = <<>>
  /\ DrainOnce(IF late30s THEN "timeout" ELSE "drain") /\ UNCHANGED rr
WaveDrained ==
  /\ drv.op = "drain" /\ WaveDone
  /\ drv' = [drv EXCEPT !.op = "pack", !.recv = @ + drv.wrecv, !.next = @ + drv.wsub]
  /\ UNCHANGED <<ring, done, slab, rid, rr, out, report, calls, late>>

SentAndReceived(d) == d.sub = d.n /\ d.recv = d.sub
AccountingOk(d) == d.sub = d.n /\ d.recv = d.sub /\ d.err = 0 /\ d.comp = d.n
Return(ok) ==
  /\ report' = [kind |-> drv.kind, ok |-> ok, late |-> late]
  /\ late' = (late \/ Outstanding # {})
  /\ drv' = [NoCall EXCEPT !.base = drv.base]
  /\ UNCHANGED <<ring, done, slab, rid, rr, out, calls>>
HashReturn == drv.op = "pack" /\ drv.next >= drv.n /\ Return(AccountingOk(drv))
HashTimeout == drv.op = "timeout" /\ Return(FALSE)

-----------------------------------------------------------------------------
(* The counting loops. *)

\* The requests of a batch of n: shards in turn, each taking what it has room for.
Share(s, n) == Cardinality({k \in 0 .. n - 1 : Turn(k) = s})
Fit(s, n) == LET room == RingRoom - Len(ring[s])
             IN IF Share(s, n) < room THEN Share(s, n) ELSE room
Accepted(n) == FoldFunction(+, 0, [s \in Shards |-> Fit(s, n)])
FirstId(s, n) == rid + FoldFunction(+, 0, [t \in 1 .. s - 1 |-> Fit(t, n)])
SubmitBatch(n) ==
  /\ ring' = [s \in Shards |-> ring[s] \o
                [k \in 1 .. Fit(s, n) |-> [id |-> FirstId(s, n) + k - 1, cell |-> Inline]]]
  /\ rid' = rid + Accepted(n) /\ rr' = Turn(Accepted(n)) - 1

CountBegin(kind) ==
  /\ drv.op = "idle" /\ calls < MaxCalls
  /\ drv' = [NoCall EXCEPT !.op = "head", !.kind = kind, !.on = TRUE, !.base = rid]
  /\ calls' = calls + 1 /\ report' = NoReport /\ out' = <<>>
  /\ UNCHANGED <<ring, done, slab, rid, rr, late>>

\* The unsigned difference, in batches: a call that has polled more than it
\* submitted sees an enormous one.
Inflight == IF drv.recv > drv.sub THEN HighWater ELSE (drv.sub - drv.recv) \div BatchCap

\* The bench keeps quiet from quiesce_time on; the feeder only in the
\* iteration that notices it.
LoopHead(quiesce) ==
  /\ drv.op = "head"
  /\ drv.quiet => quiesce
  /\ drv' = [drv EXCEPT !.op = "feed", !.quiet = quiesce,
               !.on = /\ @ \/ Inflight < LowWater
                      /\ ~(quiesce /\ (drv.kind = "bench" \/ ~drv.quiet))]
  /\ UNCHANGED <<ring, done, slab, rid, rr, out, report, calls, late>>

LoopSubmit ==
  /\ drv.op = "feed" /\ drv.on /\ Inflight < HighWater /\ rid + BatchCap <= MaxRid
  /\ SubmitBatch(BatchCap)
  /\ drv' = [drv EXCEPT !.sub = @ + Accepted(BatchCap), !.on = Accepted(BatchCap) > 0]
  /\ UNCHANGED <<done, slab, out, report, calls, late>>

LoopSubmitted ==
  /\ drv.op = "feed" /\ (drv.on => Inflight >= HighWater \/ rid + BatchCap > MaxRid)
  /\ drv' = [drv EXCEPT !.op = "sweep"]
  /\ UNCHANGED <<ring, done, slab, rid, rr, out, report, calls, late>>

\* A burst of polls, over when one is empty or the burst used up.
LoopPoll(last) ==
  /\ drv.op = "sweep" /\ (Polled = <<>> => last)
  /\ PollAll
  /\ drv' = [drv EXCEPT !.recv = @ + Len(Polled), !.op = IF last THEN "head" ELSE "sweep"]
  /\ UNCHANGED <<ring, slab, rid, rr, out, report, calls, late>>

\* The end of the run: patience with the engine, within a limit.
LoopOver ==
  /\ drv.op = "head"
  /\ drv' = [drv EXCEPT !.op = "patience"]
  /\ UNCHANGED <<ring, done, slab, rid, rr, out, report, calls, late>>
PatientPoll ==
  /\ drv.op = "patience" /\ drv.recv < drv.sub /\ Polled # <<>>
  /\ PollAll
  /\ drv' = [drv EXCEPT !.recv = @ + Len(Polled)]
  /\ UNCHANGED <<ring, slab, rid, rr, out, report, calls, late>>
AllSubmitted(d) == d.sub > 0
AccountingValid(d) == d.sub = d.recv
LoopReturn ==
  /\ drv.op = "patience"
  /\ drv.recv >= drv.sub \/ (MayGiveUp /\ Polled = <<>>)
  /\ Return(AccountingValid(drv))

\* submit-and-drain: a chunk and a poll in turn, with no deadline.
DrainBegin(n) ==
  /\ drv.op = "idle" /\ calls < MaxCalls /\ rid + n <= MaxRid
  /\ drv' = [NoCall EXCEPT !.op = "chunk", !.kind = "drain", !.base = rid, !.n = n]
  /\ calls' = calls + 1 /\ report' = NoReport /\ out' = <<>>
  /\ UNCHANGED <<ring, done, slab, rid, rr, late>>
Remaining == drv.n - drv.sub
ChunkOf == IF Remaining < BatchCap THEN Remaining ELSE BatchCap
DrainChunk ==
  /\ drv.op = "chunk" /\ (Remaining > 0 \/ drv.recv < drv.sub)
  /\ SubmitBatch(ChunkOf)
  /\ drv' = [drv EXCEPT !.sub = @ + Accepted(ChunkOf), !.op = "chunkpoll"]
  /\ UNCHANGED <<done, slab, out, report, calls, late>>
DrainPoll ==
  /\ drv.op = "chunkpoll"
  /\ PollAll
  /\ drv' = [drv EXCEPT !.recv = @ + Len(Polled), !.op = "chunk"]
  /\ UNCHANGED <<ring, slab, rid, rr, out, report, calls, late>>
DrainReturn ==
  /\ drv.op = "chunk" /\ Remaining = 0 /\ drv.recv >= drv.sub
  /\ Return(drv.sub = drv.recv)

DriversNext ==
  \/ \E s \in Shards : EngineAnswer(s)
  \/ \E n \in HashCounts : HashBegin(n)
  \/ Pack \/ HashSubmit \/ WaveSubmitted \/ WaveDrained
  \/ \E late30s \in {FALSE, MayGiveUp} : HashFull(late30s) \/ WaveDrain(late30s)
  \/ HashReturn \/ HashTimeout
  \/ \E k \in Kinds : CountBegin(k)
  \/ \E quiesce \in BOOLEAN : LoopHead(quiesce)
  \/ LoopSubmit \/ LoopSubmitted \/ (\E last \in BOOLEAN : LoopPoll(last)) \/ LoopOver \/ PatientPoll \/ LoopReturn
  \/ \E n \in DrainCounts : DrainBegin(n)
  \/ DrainChunk \/ DrainPoll \/ DrainReturn

DriversSpec == DriversInit /\ [][DriversNext]_dvars

-----------------------------------------------------------------------------
(* Properties. *)

\* A hash call that reports its accounting good returns, for every message,
\* the digest of that message, whatever earlier calls left in the rings.
HonestAccounting ==
  report.kind = "hash" /\ report.ok => \A i \in DOMAIN out : out[i] = drv.base + i - 1

\* A digest is the digest of its own message or zero, as long as no call has
\* left requests behind: the slab is not packed again under a request.
DigestIsOwn ==
  ~late => \A i \in DOMAIN out : out[i] \in {0, drv.base + i - 1}

\* A counting loop that reports its accounting valid leaves nothing in the
\* engine, as long as the calls before it left nothing.
ValidMeansAnswered ==
  report.kind \in Kinds \cup {"drain"} /\ report.ok /\ ~report.late => Outstanding = {}

=============================================================================

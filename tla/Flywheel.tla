------------------------------ MODULE Flywheel ------------------------------
(***************************************************************************)
(* The engine dispatcher (the one thread that polls the engine and routes  *)
(* each completion to the queue of its client) and the flywheel schedulers *)
(* (the clients: they keep work pending, submit it in chunks and match the *)
(* completions they pop with the request ids in flight, first in, first    *)
(* out).  Calls to flywheels come from Python one at a time; the           *)
(* dispatcher thread interleaves with every step of theirs.  The engine is *)
(* a ring per shard, answered in order (FastPath models it).               *)
(***************************************************************************)
EXTENDS Integers, Sequences, FiniteSets, SequencesExt, TLC

CONSTANTS Shards,         \* the rings, 1 .. n
          RingRoom,       \* requests a ring takes (submitted, not yet polled)
          ClientIds,      \* 1 .. n, the client ids (255 in the code)
          QueueCapacity,  \* DISPATCH_QUEUE_CAPACITY
          RawMax,         \* DISPATCH_RAW_POLL_MAX
          Burst,          \* DISPATCH_POLL_BURST
          Target, Refill, Quantum, SubmitRounds, DrainRounds, PollMax,
          OutMaxes,       \* completions a caller of a tick has room for
          Batches,        \* how many payloads one submission brings
          MaxItems,       \* payloads submitted altogether
          MaxIds,         \* request ids a flywheel draws
          MaxFlywheels,   \* flywheels created altogether
          MaxRuns         \* continuous runs

Flywheels == 1 .. MaxFlywheels
NoRoute == [cid |-> 0, items |-> <<>>, tail |-> 0]

VARIABLES
  ring,    \* per shard, the requests the engine has not answered
  done,    \* per shard, the answers nobody has polled
  rr,      \* submit_rr_counter
  disp,    \* the poll thread: on, pc, bursts left, raw_buf, the run being routed
  queues,  \* CompletionQueue per client: head, tail, buf
  clients, \* client_registered
  next,    \* g_next_client_id
  fws,     \* the FlywheelStates
  call,    \* the flywheel call in progress
  lost,    \* payloads whose answer no flywheel will see
  items,   \* payloads so far
  runs     \* continuous runs so far

engvars == <<ring, done, rr>>
fvars == <<ring, done, rr, disp, queues, clients, next, fws, call, lost, items, runs>>

Idle == [op |-> "none", f |-> 0, room |-> 0, rounds |-> 0]
NewQueue == [head |-> 0, tail |-> 0, buf |-> [i \in 0 .. QueueCapacity - 1 |-> 0]]
Size(q) == q.tail - q.head
At(q, i) == q.buf[i % QueueCapacity]
Unborn == [cid |-> 0, pending |-> <<>>, ids |-> <<>>, count |-> 0, next |-> 0,
           promised |-> <<>>, drawn |-> <<>>, written |-> {}]

FlywheelInit ==
  /\ ring = [s \in Shards |-> <<>>] /\ done = [s \in Shards |-> <<>>] /\ rr = 0
  /\ disp = [on |-> FALSE, pc |-> "off", left |-> 0, raw |-> <<>>, run |-> NoRoute]
  /\ queues = [c \in ClientIds |-> NewQueue]
  /\ clients = {} /\ next = 1
  /\ fws = [f \in Flywheels |-> Unborn]
  /\ call = Idle /\ lost = {} /\ items = 0 /\ runs = 0

-----------------------------------------------------------------------------
(* The engine. *)

\* The requests a batch of payloads becomes: shards in turn from the cursor,
\* each shard taking as many of its share as it has room for.
Share(s, n) == {i \in 1 .. n : 1 + ((rr + i - 1) % Cardinality(Shards)) = s}
Taken(s, n) == LET room == RingRoom - Len(ring[s]) - Len(done[s])
               IN {i \in Share(s, n) : Cardinality({j \in Share(s, n) : j < i}) < room}
WholeBatch(n) == 1 .. n
Accepted(n) == UNION {Taken(s, n) : s \in Shards}
SubmitBatch(cid, payloads) ==
  LET n == Len(payloads)
  IN /\ ring' = [s \in Shards |-> ring[s] \o
           [k \in 1 .. Cardinality(Taken(s, n)) |->
              [cid |-> cid, item |-> payloads[SetToSortSeq(Taken(s, n), <)[k]]]]]
     /\ rr' = rr + Cardinality(Accepted(n))
     /\ UNCHANGED done

EngineAnswer(s) ==
  /\ ring[s] # <<>>
  /\ ring' = [ring EXCEPT ![s] = Tail(@)]
  /\ done' = [done EXCEPT ![s] = Append(@, Head(ring[s]))]
  /\ UNCHANGED <<rr, disp, queues, clients, next, fws, call, lost, items, runs>>

\* fast_path_poll: shard after shard, up to max responses.
Before(s, max) == LET k == FoldFunction(+, 0, [t \in 1 .. s - 1 |-> Len(done[t])])
                  IN IF k < max THEN k ELSE max
TakenFrom(s, max) == Before(s + 1, max) - Before(s, max)
Polled(max) == FlattenSeq([s \in 1 .. Cardinality(Shards) |->
                             SubSeq(done[s], 1, TakenFrom(s, max))])
Poll(max) == done' = [s \in Shards |-> SubSeq(done[s], TakenFrom(s, max) + 1, Len(done[s]))]

-----------------------------------------------------------------------------
(* The dispatcher thread. *)

DispatchPoll ==
  /\ disp.on /\ disp.pc = "poll"
  /\ LET got == Polled(RawMax - Len(disp.raw))
         raw == disp.raw \o got
         more == got # <<>> /\ disp.left > 1 /\ Len(raw) < RawMax
     IN disp' = [disp EXCEPT !.raw = raw,
                   !.left = IF more THEN @ - 1 ELSE Burst,
                   !.pc = IF more \/ raw = <<>> THEN "poll" ELSE "route"]
  /\ Poll(RawMax - Len(disp.raw))
  /\ UNCHANGED <<ring, rr, queues, clients, next, fws, call, lost, items, runs>>

\* The next run of completions of one client: dropped when the client is not
\* registered, cut to the room push_bulk sees in the queue otherwise.
RunLength == CHOOSE n \in 1 .. Len(disp.raw) :
               /\ \A i \in 1 .. n : disp.raw[i].cid = disp.raw[1].cid
               /\ n < Len(disp.raw) => disp.raw[n + 1].cid # disp.raw[1].cid
Payloads(s) == [i \in DOMAIN s |-> s[i].item]
Room(q) == QueueCapacity - Size(q)

DispatchRun ==
  /\ disp.pc = "route" /\ disp.run.items = <<>> /\ disp.raw # <<>>
  /\ LET cid == disp.raw[1].cid
         part == SubSeq(disp.raw, 1, RunLength)
         fit == IF cid \notin clients THEN 0
                ELSE IF RunLength < Room(queues[cid]) THEN RunLength ELSE Room(queues[cid])
         rest == SubSeq(disp.raw, RunLength + 1, Len(disp.raw))
     IN /\ disp' = [disp EXCEPT !.raw = rest,
                      !.run = IF fit = 0 THEN NoRoute
                              ELSE [cid |-> cid, items |-> Payloads(SubSeq(part, 1, fit)),
                                    tail |-> queues[cid].tail],
                      !.pc = IF fit = 0 /\ rest = <<>> THEN "poll" ELSE "route"]
        /\ lost' = lost \cup {part[i].item : i \in fit + 1 .. RunLength}
  /\ UNCHANGED <<engvars, queues, clients, next, fws, call, items, runs>>

\* push_bulk stores the responses and the new tail, from the tail it read.
DispatchPush ==
  /\ disp.pc = "route" /\ disp.run.items # <<>>
  /\ LET r == disp.run
     IN queues' = [queues EXCEPT ![r.cid].tail = r.tail + Len(r.items),
                     ![r.cid].buf = [i \in DOMAIN @ |->
                        IF \E k \in DOMAIN r.items : (r.tail + k - 1) % QueueCapacity = i
                        THEN r.items[CHOOSE k \in DOMAIN r.items :
                                       (r.tail + k - 1) % QueueCapacity = i]
                        ELSE @[i]]]
  /\ disp' = [disp EXCEPT !.run = NoRoute, !.pc = IF disp.raw = <<>> THEN "poll" ELSE "route"]
  /\ lost' = IF disp.run.cid \in clients THEN lost ELSE lost \cup ToSet(disp.run.items)
  /\ UNCHANGED <<engvars, clients, next, fws, call, items, runs>>

-----------------------------------------------------------------------------
(* The flywheels. *)

Alive(f) == fws[f].cid > 0
FreeToCall == call.op = "none"

\* The ids 1 .. 255 in turn, 0 skipped; the first flywheel of the engine
\* starts its dispatcher.
Create(f) ==
  /\ FreeToCall /\ fws[f].cid = 0 /\ \A g \in 1 .. f - 1 : fws[g].cid # 0
  /\ fws' = [fws EXCEPT ![f].cid = next]
  /\ next' = (next % Cardinality(ClientIds)) + 1
  /\ disp' = IF disp.on THEN disp ELSE [disp EXCEPT !.on = TRUE, !.pc = "poll", !.left = Burst]
  /\ queues' = [queues EXCEPT ![next].head = 0, ![next].tail = 0]
  /\ clients' = clients \cup {next}
  /\ UNCHANGED <<engvars, call, lost, items, runs>>

\* What the flywheel still owned goes with it.
Destroy(f) ==
  /\ FreeToCall /\ Alive(f)
  /\ LET c == fws[f].cid
     IN /\ clients' = clients \ {c}
        /\ queues' = [queues EXCEPT ![c].head = 0, ![c].tail = 0]
        /\ lost' = lost \cup {At(queues[c], i) : i \in queues[c].head .. queues[c].tail - 1}
                        \cup ToSet(fws[f].pending)
  /\ fws' = [fws EXCEPT ![f].cid = -1, ![f].pending = <<>>]
  /\ UNCHANGED <<engvars, disp, next, call, items, runs>>

\* submit_ids reserves the ids it returns; submit and submit_raw take none.
SubmitIds(f, n, named) ==
  /\ FreeToCall /\ Alive(f) /\ items + n <= MaxItems
  /\ fws' = [fws EXCEPT ![f].pending = @ \o [i \in 1 .. n |-> items + i],
       ![f].next = IF named THEN @ + n ELSE @,
       ![f].promised = IF named THEN @ @@ [i \in items + 1 .. items + n |->
                                             fws[f].next + i - items - 1] ELSE @]
  /\ items' = items + n
  /\ UNCHANGED <<engvars, disp, queues, clients, next, call, lost, runs>>

TickBegin(f, room) ==
  /\ FreeToCall /\ Alive(f)
  /\ call' = [Idle EXCEPT !.op = "drain", !.f = f, !.room = room, !.rounds = DrainRounds]
  /\ UNCHANGED <<engvars, disp, queues, clients, next, fws, lost, items, runs>>

\* One drain round: what is popped beyond the caller's room is dropped.
Smaller(a, b) == IF a < b THEN a ELSE b
Popped(c) == LET q == queues[c]
             IN [i \in 1 .. Smaller(Size(q), PollMax) |-> At(q, q.head + i - 1)]
LatestId(ids, i) == IF i <= Len(ids) THEN ids[Len(ids) - i + 1] ELSE -1
IdOf(ids, i) == IF i <= Len(ids) THEN ids[i] ELSE -1    \* UINT64_MAX
TickDrain ==
  /\ call.op = "drain"
  /\ LET f == call.f
         c == fws[f].cid
         got == IF c \in clients THEN Popped(c) ELSE <<>>
         n == Smaller(Len(got), call.room)
     IN /\ queues' = [queues EXCEPT ![c].head = @ + Len(got)]
        /\ fws' = [fws EXCEPT ![f].count = @ - n,
             ![f].ids = SubSeq(@, n + 1, Len(@)),
             ![f].written = @ \cup {[id |-> IdOf(fws[f].ids, i), item |-> got[i]] : i \in 1 .. n}]
        /\ lost' = lost \cup {got[i] : i \in n + 1 .. Len(got)}
        /\ IF got = <<>> \/ call.rounds = 1
           THEN IF fws[f].count - n < Refill
                THEN call' = [call EXCEPT !.op = "refill", !.rounds = SubmitRounds]
                ELSE call' = Idle
           ELSE call' = [call EXCEPT !.room = @ - n, !.rounds = @ - 1]
  /\ UNCHANGED <<engvars, disp, clients, next, items, runs>>

\* One refill round: a chunk is drawn from pending with fresh ids, submitted,
\* and the tail of it that was not accepted put back, last one foremost.
MoreToRefill(f) == fws[f].count < Target /\ fws[f].pending # <<>>
Chunk(f) == SubSeq(fws[f].pending, 1, Smaller(Len(fws[f].pending), Quantum))
PutBackAFew(chunk, n) == Reverse(SubSeq(chunk, n + 2, Len(chunk)))
PutBack(chunk, n) == Reverse(SubSeq(chunk, n + 1, Len(chunk)))
TickRefill ==
  /\ call.op = "refill" /\ call.rounds > 0 /\ MoreToRefill(call.f)
  /\ fws[call.f].next + Len(Chunk(call.f)) <= MaxIds
  /\ LET f == call.f
         chunk == Chunk(f)
         n == Cardinality(Accepted(Len(chunk)))
         id(i) == fws[f].next + i - 1
     IN /\ SubmitBatch(fws[f].cid, chunk)
        /\ fws' = [fws EXCEPT ![f].next = @ + Len(chunk),
             ![f].ids = @ \o [i \in 1 .. n |-> id(i)],
             ![f].drawn = [i \in {chunk[k] : k \in 1 .. n} |->
                             id(CHOOSE k \in 1 .. n : chunk[k] = i)] @@ @,
             ![f].count = @ + n,
             ![f].pending = PutBack(chunk, n) \o SubSeq(@, Len(chunk) + 1, Len(@))]
        /\ call' = IF n = 0 THEN Idle ELSE [call EXCEPT !.rounds = @ - 1]
  /\ UNCHANGED <<disp, queues, clients, next, lost, items, runs>>

TickEnd ==
  /\ call.op = "refill" /\ (call.rounds = 0 \/ ~MoreToRefill(call.f))
  /\ call' = Idle
  /\ UNCHANGED <<engvars, disp, queues, clients, next, fws, lost, items, runs>>

-----------------------------------------------------------------------------
(* run_continuous stops the dispatcher, throws away whatever the engine    *)
(* still answers to anybody, drives its own load and starts the dispatcher *)
(* again.                                                                  *)

RunBegin(f) ==
  /\ FreeToCall /\ Alive(f) /\ runs < MaxRuns
  /\ disp.pc = "poll" /\ disp.raw = <<>> /\ disp.left = Burst   \* stop() joins the thread
  /\ disp' = [disp EXCEPT !.on = FALSE]
  /\ call' = [Idle EXCEPT !.op = "run", !.f = f] /\ runs' = runs + 1
  /\ UNCHANGED <<engvars, queues, clients, next, fws, lost, items>>

RunCount ==
  /\ call.op = "run" /\ \E s \in Shards : done[s] # <<>>
  /\ lost' = lost \cup UNION {ToSet(Payloads(done[s])) : s \in Shards}
  /\ done' = [s \in Shards |-> <<>>]
  /\ UNCHANGED <<ring, rr, disp, queues, clients, next, fws, call, items, runs>>

RunEnd ==
  /\ call.op = "run" /\ \A s \in Shards : done[s] = <<>>
  /\ disp' = [disp EXCEPT !.on = TRUE, !.pc = "poll"]
  /\ call' = Idle
  /\ UNCHANGED <<engvars, queues, clients, next, fws, lost, items, runs>>

FlywheelNext ==
  \/ \E s \in Shards : EngineAnswer(s)
  \/ DispatchPoll \/ DispatchRun \/ DispatchPush
  \/ \E f \in Flywheels :
       \/ Create(f) \/ Destroy(f) \/ RunBegin(f)
       \/ \E n \in Batches, named \in BOOLEAN : SubmitIds(f, n, named)
       \/ \E room \in OutMaxes : TickBegin(f, room)
  \/ TickDrain \/ TickRefill \/ TickEnd \/ RunCount \/ RunEnd

FlywheelSpec == FlywheelInit /\ [][FlywheelNext]_fvars

-----------------------------------------------------------------------------
(* Properties. *)

\* Where a payload is.
InPending(i) == \E f \in Flywheels : i \in ToSet(fws[f].pending)
InEngine(i) == \E s \in Shards : i \in ToSet(Payloads(ring[s] \o done[s]))
InDispatcher(i) == i \in ToSet(Payloads(disp.raw)) \cup ToSet(disp.run.items)
InQueue(i) == \E c \in clients : i \in {At(queues[c], k) : k \in queues[c].head .. queues[c].tail - 1}
Written(i) == \E f \in Flywheels : \E w \in fws[f].written : w.item = i

\* No payload is signed twice or forgotten: it is pending, in the engine, with
\* the dispatcher, in a queue, answered or thrown away, and only one of those.
OnePlace ==
  \A i \in 1 .. items :
    Cardinality({p \in 1 .. 6 : <<InPending(i), InEngine(i), InDispatcher(i),
                                  InQueue(i), Written(i), i \in lost>>[p]}) = 1

\* A completion goes to the caller under the id the flywheel drew for that
\* payload when it submitted it, as long as no completion was thrown away.
CompletionIsOwn ==
  lost = {} => \A f \in Flywheels : \A w \in fws[f].written :
                 w.item \in DOMAIN fws[f].drawn /\ w.id = fws[f].drawn[w.item]

\* The number in flight is what the engine, the dispatcher and the queues
\* hold for the flywheel, as long as no completion was thrown away.
InFlightCounted ==
  lost = {} => \A f \in Flywheels : Alive(f) =>
    fws[f].count = Cardinality({i \in DOMAIN fws[f].drawn :
                                  InEngine(i) \/ InDispatcher(i) \/ InQueue(i)})

\* submit_ids: the id a completion carries is the one the caller was given.
IdsAsPromised ==
  lost = {} => \A f \in Flywheels : \A w \in fws[f].written :
                 w.item \in DOMAIN fws[f].promised => w.id = fws[f].promised[w.item]
=============================================================================

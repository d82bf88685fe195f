------------------------------ MODULE BridgeInv ------------------------------
(* The inductive invariants of the single-queue engine and of the ABI bridge *)
(* over it, and what the theorems ask of the constants.                      *)
EXTENDS AbiBridge

-----------------------------------------------------------------------------
(* The engine.  Client and kernel never say which slot they mean: each       *)
(* derives it from a number of its own.  Used by one caller who waits for    *)
(* his answers, the numbers march together: everything before the kernel's   *)
(* position is answered, what is after it belongs to the call in progress,   *)
(* and a flag that is set is one of its answers, not fetched yet.            *)

\* One caller, who submits no more than the queue holds; one start; and ids that
\* do not wrap.
OneClient ==
  /\ QueueSize \in Nat \ {0} /\ CounterMod \in Nat \ {0}
  /\ BatchMax \in Nat /\ BatchMax <= QueueSize
  /\ MaxIds \in Nat /\ MaxIds < CounterMod
  /\ Tunings \subseteq [1 .. 4 -> Int]
  /\ \A c, d \in Callers : c = d
  /\ MaxStarts \in Nat /\ MaxStarts <= 1

-----------------------------------------------------------------------------
CallType ==
  [pc : {"idle", "head", "sync", "wait", "fetch", "done"}, ids : Seq(Nat), base : Nat,
   flags : SUBSET Slots, got : SUBSET (Nat \X Int)]

LegacyTypes ==
  /\ running \in BOOLEAN /\ shutdownFlag \in BOOLEAN /\ kernel \in {"off", "on"}
  /\ counter \in Nat /\ nextId \in Nat /\ head \in Nat /\ tail \in Nat
  /\ requests \in [Slots -> Int] /\ responses \in [Slots -> Int]
  /\ ready \in [Slots -> BOOLEAN]
  /\ tuning \in Tunings
  /\ batch \in [from : Nat, size : Nat, done : Nat]
  /\ call \in [Callers -> CallType]
  /\ starts \in Nat /\ giveUps = 0

\* The first position the kernel has not answered.
KernelAt == tail + batch.done

\* The kernel's batch starts at its tail and ends before the head.
BatchInv ==
  /\ nextId <= MaxIds /\ head <= nextId
  /\ batch.done <= batch.size
  /\ batch # NoBatch => batch.from = tail
  /\ tail + batch.size <= head

\* Before the only start, nothing has happened.
StartInv ==
  starts < 1 => /\ nextId = 0 /\ counter = 0 /\ ~running
                /\ \A s \in Slots : ~ready[s]

\* The ids of a call are consecutive, the last ones given, and what the kernel
\* has not answered is among them.
Behind(c) ==
  CASE call[c].pc = "idle" -> /\ counter = nextId /\ head = nextId /\ KernelAt = nextId
                              /\ call[c].ids = <<>> /\ call[c].got = {}
    [] call[c].pc = "head" -> counter = call[c].base /\ head = call[c].base
                              /\ KernelAt = call[c].base
    [] call[c].pc = "sync" -> counter = call[c].base /\ head = nextId
    [] OTHER               -> counter = nextId /\ head = nextId

IdsInv(c) ==
  /\ call[c].pc # "idle" => /\ \A i \in DOMAIN call[c].ids : call[c].ids[i] = call[c].base + (i - 1)
                            /\ Len(call[c].ids) <= QueueSize
                            /\ nextId = call[c].base + Len(call[c].ids)
                            /\ call[c].base <= KernelAt
  /\ call[c].pc \in {"head", "sync"} => call[c].got = {}
  /\ call[c].pc # "fetch" => call[c].flags = {}

\* Every position from there on holds the request with that number.
HeldInv == \A p \in KernelAt .. nextId - 1 : requests[SlotOf(p)] = p

\* The flags that are set are answers of the call, which it has not fetched.
FlagInv(c) ==
  /\ \A s \in Slots : ready[s] =>
       \E i \in DOMAIN call[c].ids :
         /\ SlotOf(call[c].ids[i]) = s /\ call[c].ids[i] < KernelAt
         /\ responses[s] = call[c].ids[i] /\ call[c].ids[i] \notin Answered(c)
  /\ \A i \in DOMAIN call[c].ids :
       call[c].ids[i] < KernelAt /\ call[c].ids[i] \notin Answered(c) => ready[SlotOf(call[c].ids[i])]
  /\ \A s \in call[c].flags : ready[s]

\* What the call has fetched are its own answers, and all when it is done.
GotInv(c) ==
  /\ \A g \in call[c].got :
       g[2] = g[1] /\ g[1] < KernelAt /\ \E i \in DOMAIN call[c].ids : g[1] = call[c].ids[i]
  /\ call[c].pc = "done" => \A i \in DOMAIN call[c].ids : call[c].ids[i] \in Answered(c)

LegacyInvariant ==
  /\ LegacyTypes /\ BatchInv /\ StartInv /\ HeldInv
  /\ \A c \in Callers : Behind(c) /\ IdsInv(c) /\ FlagInv(c) /\ GotInv(c)
-----------------------------------------------------------------------------
(* The bridge.  What a client asked is cut into four stretches: what it has  *)
(* read, what is visible in its response ring, what the worker has taken     *)
(* into its batch, with a response slot reserved for each, and what is still *)
(* in its request ring.  The engine's invariant says that the answer to each *)
(* id of a batch is its own; here each id of the engine is tied to the       *)
(* request it signs.                                                         *)

\* The multi-client worker is the one caller of the engine, with batches the
\* engine takes whole; a client sends other operations than SIGN only when it
\* has all its answers; and no worker follows one that gave up.
OneWorker ==
  /\ OneClient /\ Callers = {W} /\ Kind = "multi" /\ Alone
  /\ Clients \subseteq Nat /\ RingSize \in Nat \ {0}
  /\ BatchLimit \in Nat /\ BatchLimit <= BatchMax
  /\ MaxBridges \in Nat /\ (MaxBridges <= 1 \/ GiveUps = 0)

-----------------------------------------------------------------------------
AskIds      == Nat \X Nat \X Nat
ReplyType   == [id : AskIds, sig : AskIds, status : {"OK", "ERR"}]
FlightType  == [client : Clients, id : AskIds, slot : 0 .. RingSize - 1]
WorkerType  ==
  [pc : {"gone", "init", "top", "drain", "submit", "poll"}, at : Int, n : Nat,
   flight : Seq(FlightType), start : [Clients -> Nat], count : [Clients -> Nat]]

BridgeTypes ==
  /\ state \in {"STOPPED", "RUNNING", "FAULTED"} /\ stopping \in BOOLEAN
  /\ shmFlag \in BOOLEAN /\ bridges \in Nat
  /\ worker \in WorkerType
  /\ reqs \in [Clients -> Seq([id : AskIds, op : Ops])]
  /\ rhead \in [Clients -> 0 .. RingSize - 1] /\ rtail \in [Clients -> 0 .. RingSize - 1]
  /\ slots \in [Clients -> [0 .. RingSize - 1 -> ReplyType]]
  /\ asks \in [Clients -> Seq(AskIds)] /\ got \in [Clients -> Seq(ReplyType)]
  /\ hashes \in Seq(AskIds)

Batching == worker.pc \in {"drain", "submit", "poll"}

\* How many slots of the client's ring the batch in progress has reserved, and
\* where they stand in what the client asked.
Reserved(c) == IF Batching THEN worker.count[c] ELSE 0
Stand(c)    == Len(got[c]) + Visible(c)

\* A response is the answer to a request, signed or not.
Answers(reply, id) == reply.id = id /\ reply.sig \in {Nothing, id}

\* What the client has read and can read are the answers to its first requests.
ReadInv(c) ==
  /\ Stand(c) <= Len(asks[c])
  /\ \A i \in 1 .. Len(got[c]) : Answers(got[c][i], asks[c][i])
  /\ \A k \in 0 .. Visible(c) - 1 :
       Answers(slots[c][(rtail[c] + k) % RingSize], asks[c][Len(got[c]) + k + 1])

\* The rest is with the worker or in the request ring, in order; an operation
\* other than SIGN is alone.
OwedInv(c) ==
  worker.pc # "gone" =>
    /\ Len(asks[c]) = Stand(c) + Reserved(c) + Len(reqs[c])
    /\ \A k \in 1 .. Len(reqs[c]) :
         /\ reqs[c][k].id = asks[c][Stand(c) + Reserved(c) + k]
         /\ reqs[c][k].op # "SIGN" => k = 1 /\ Reserved(c) = 0

\* The batch has one request for each slot it has reserved, behind the visible
\* ones: the request that slot is for.
SlotFor(c, k) == (rhead[c] + k) % RingSize
BatchOf(c) ==
  Batching =>
    /\ worker.start[c] = rhead[c] /\ Visible(c) + worker.count[c] < RingSize
    /\ \A k \in 0 .. worker.count[c] - 1 :
         \E i \in DOMAIN worker.flight :
           /\ worker.flight[i].client = c /\ worker.flight[i].slot = SlotFor(c, k)
           /\ worker.flight[i].id = asks[c][Stand(c) + k + 1]

FlightInv ==
  Batching =>
    /\ Len(worker.flight) <= BatchLimit
    /\ \A i \in DOMAIN worker.flight :
         \E k \in 0 .. worker.count[worker.flight[i].client] - 1 :
           worker.flight[i].slot = SlotFor(worker.flight[i].client, k)
    /\ \A i, j \in DOMAIN worker.flight :
         worker.flight[i].client = worker.flight[j].client
         /\ worker.flight[i].slot = worker.flight[j].slot => i = j
    /\ worker.pc # "drain" => worker.flight # << >>

\* The engine's ids of the batch, what each signs, and the answers written.
EngineInv ==
  /\ giveUps \in Nat
  /\ giveUps = 0 => LegacyInvariant /\ Len(hashes) = nextId
                    /\ (worker.pc = "poll" <=> call[W].pc # "idle")
  /\ giveUps # 0 => worker.pc = "gone" /\ bridges >= MaxBridges
  /\ worker.pc # "gone" => bridges > 0
  /\ worker.pc = "poll" =>
       /\ DOMAIN call[W].ids = DOMAIN worker.flight
       /\ \A i \in DOMAIN worker.flight :
            LET e == worker.flight[i]
            IN  /\ hashes[call[W].ids[i] + 1] = e.id
                /\ call[W].ids[i] \in Answered(W) => Answers(slots[e.client][e.slot], e.id)

BridgeInvariant ==
  /\ BridgeTypes /\ FlightInv /\ EngineInv
  /\ \A c \in Clients : ReadInv(c) /\ OwedInv(c) /\ BatchOf(c)
=============================================================================

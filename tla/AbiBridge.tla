------------------------------ MODULE AbiBridge ------------------------------
(* The shared-memory bridge of engine/abi/smoke_abi_bridge.cpp: client       *)
(* processes put requests in rings of a shared region (smoke_abi.h); one     *)
(* worker thread drains them into a batch, has the legacy engine sign it,    *)
(* and fans the responses out to the clients' response rings.  Kind is       *)
(* "multi" or "single": two workers, two copies of the loop.                 *)
(*                                                                           *)
(* The worker is the only caller of the engine.  A signature is the request  *)
(* it signs; a request is its client and number; a request ring is the       *)
(* sequence of what lies between its tail and its head.                      *)
EXTENDS LegacyEngine, SequencesExt

CONSTANTS
  Kind,          \* which worker
  Clients,       \* 0 .. num_clients - 1; {0} for the single bridge
  RingSize,      \* SMOKE_ABI_RING_SIZE
  DrainPerClient,\* SMOKE_ABI_DRAIN_PER_CLIENT
  BatchLimit,    \* ABI_BATCH_MAX
  Ops,           \* the operations the clients use
  Alone,         \* clients send other operations than SIGN only when answered
  MaxAsks,       \* bound on the requests of a client
  MaxBridges     \* bound on smoke_abi_start

VARIABLES
  state,         \* g_bridge.state
  stopping,      \* g_bridge.shutdown_requested
  shmFlag,       \* shutdown_flag of the region
  worker,        \* the worker thread: where it is and its locals
  reqs,          \* request rings
  rhead, rtail,  \* indices of the response rings
  slots,         \* response data
  hashes,        \* what the engine was asked to sign, by engine id (history)
  asks, got,     \* ids submitted and responses read, per client (history)
  bridges

ringVars == <<reqs, rhead, rtail, slots, asks, got>>
lifeVars == <<state, stopping, shmFlag, bridges>>
bvars    == <<vars, lifeVars, worker, ringVars, hashes>>

W == "worker"
Nothing     == <<0, 0, 0>>
NoReply     == [id |-> Nothing, sig |-> Nothing, status |-> "OK"]
Reply(i, g, st) == [id |-> i, sig |-> g, status |-> st]
RingNext(i) == (i + 1) % RingSize
Visible(c)  == (rhead[c] - rtail[c]) % RingSize
Gone        == [pc |-> "gone", at |-> 0, n |-> 0, flight |-> << >>,
                start |-> [c \in Clients |-> 0], count |-> [c \in Clients |-> 0]]

NoReplies   == [i \in 0 .. RingSize - 1 |-> NoReply]

BridgeInit ==
  /\ Init
  /\ state = "STOPPED" /\ stopping = FALSE /\ shmFlag = FALSE
  /\ worker = Gone /\ hashes = << >> /\ bridges = 0
  /\ reqs  = [c \in Clients |-> << >>]
  /\ rhead = [c \in Clients |-> 0] /\ rtail = [c \in Clients |-> 0]
  /\ slots = [c \in Clients |-> NoReplies]
  /\ asks  = [c \in Clients |-> << >>] /\ got = [c \in Clients |-> << >>]

(* smoke_abi_init_region *)
BlankRegion ==
  /\ shmFlag' = FALSE
  /\ reqs'  = [c \in Clients |-> << >>]
  /\ rhead' = [c \in Clients |-> 0] /\ rtail' = [c \in Clients |-> 0]
  /\ slots' = [c \in Clients |-> NoReplies]
  /\ asks'  = [c \in Clients |-> << >>] /\ got' = [c \in Clients |-> << >>]
-----------------------------------------------------------------------------
(* smoke_abi_start and smoke_abi_stop: the state changes before the join.    *)

BridgeStart ==
  /\ state = "STOPPED" /\ worker.pc = "gone" /\ bridges < MaxBridges
  /\ bridges' = bridges + 1
  /\ state' = "RUNNING" /\ stopping' = FALSE
  /\ worker' = [Gone EXCEPT !.pc = "init"]
  /\ BlankRegion
  /\ UNCHANGED <<vars, hashes>>

BridgeStop ==
  /\ state # "STOPPED"
  /\ state' = "STOPPED" /\ stopping' = TRUE
  /\ UNCHANGED <<vars, shmFlag, bridges, worker, ringVars, hashes>>

WorkerInit(ok) ==
  /\ worker.pc = "init"
  /\ worker' = IF ok THEN [worker EXCEPT !.pc = "top"] ELSE Gone
  /\ state' = IF ok THEN state ELSE "FAULTED"
  /\ UNCHANGED <<vars, stopping, shmFlag, bridges, ringVars, hashes>>

Leave == stopping \/ state = "FAULTED" \/ shmFlag

WorkerExit ==
  /\ worker.pc = "top" /\ Leave
  /\ worker' = Gone
  /\ UNCHANGED <<vars, lifeVars, ringVars, hashes>>
-----------------------------------------------------------------------------
(* Clients: smoke_abi_submit and smoke_abi_read                              *)

Ask(c, op) ==
  /\ state = "RUNNING" /\ Len(asks[c]) < MaxAsks
  /\ Len(reqs[c]) < RingSize - 1
  /\ Alone /\ op # "SIGN" => Len(asks[c]) = Len(got[c])
  /\ LET id == <<c, bridges, Len(asks[c]) + 1>>
     IN  /\ reqs' = [reqs EXCEPT ![c] = Append(@, [id |-> id, op |-> op])]
         /\ asks' = [asks EXCEPT ![c] = Append(@, id)]
  /\ UNCHANGED <<vars, lifeVars, worker, rhead, rtail, slots, got, hashes>>

Read(c) ==
  /\ Visible(c) > 0 /\ Len(got[c]) < MaxAsks
  /\ got' = [got EXCEPT ![c] = Append(@, slots[c][rtail[c]])]
  /\ rtail' = [rtail EXCEPT ![c] = RingNext(@)]
  /\ UNCHANGED <<vars, lifeVars, worker, reqs, rhead, slots, asks, hashes>>
-----------------------------------------------------------------------------
(* Draining: client by client, a bounded number from each, one batch         *)

Begin ==
  /\ worker.pc = "top" /\ ~Leave
  /\ worker' = [Gone EXCEPT !.pc = "drain", !.start = rhead]
  /\ UNCHANGED <<vars, lifeVars, ringVars, hashes>>

(* The next free response slot, counting those reserved and not published.   *)
RespHead(c) == (worker.start[c] + worker.count[c]) % RingSize

MayDrain(c) ==
  /\ worker.pc = "drain" /\ worker.at = c
  /\ Len(worker.flight) < BatchLimit
  /\ Kind = "multi" => worker.n < DrainPerClient
  /\ reqs[c] # << >>
  /\ RingNext(RespHead(c)) # rtail[c]

(* Mutant of PublishedAtDrain: the multi bridge publishes as it reserves.     *)
PublishedAtOnce(c) == [rhead EXCEPT ![c] = RingNext(RespHead(c))]

(* The multi bridge only reserves the slot of a signature; the single bridge *)
(* makes it visible at once.                                                 *)
PublishedAtDrain(c) ==
  IF Kind = "single" THEN [rhead EXCEPT ![c] = RingNext(RespHead(c))] ELSE rhead

DrainSign(c) ==
  /\ MayDrain(c) /\ Head(reqs[c]).op = "SIGN"
  /\ reqs' = [reqs EXCEPT ![c] = Tail(@)]
  /\ worker' = [worker EXCEPT !.n = @ + 1, !.count[c] = @ + 1,
                  !.flight = Append(@, [client |-> c, id |-> Head(reqs[c]).id,
                                        slot |-> RespHead(c)])]
  /\ rhead' = PublishedAtDrain(c)
  /\ UNCHANGED <<vars, lifeVars, rtail, slots, asks, got, hashes>>

(* Acknowledged on the spot; the reserved slots before it become visible,    *)
(* and start_head moves though pending_count does not.                       *)
DrainOther(c) ==
  /\ MayDrain(c) /\ Head(reqs[c]).op # "SIGN"
  /\ reqs' = [reqs EXCEPT ![c] = Tail(@)]
  /\ slots' = [slots EXCEPT ![c][RespHead(c)] = Reply(Head(reqs[c]).id, Nothing, "OK")]
  /\ rhead' = [rhead EXCEPT ![c] = RingNext(RespHead(c))]
  /\ shmFlag' = (shmFlag \/ Head(reqs[c]).op = "SHUTDOWN")
  /\ worker' = [worker EXCEPT !.n = @ + 1, !.start[c] =
                  IF Kind = "multi" THEN RingNext(RespHead(c)) ELSE @ + 1]
  /\ UNCHANGED <<vars, state, stopping, bridges, rtail, asks, got, hashes>>

LastClient == Max(Clients)

DrainNext ==
  /\ worker.pc = "drain" /\ ~MayDrain(worker.at)
  /\ worker' = IF worker.at < LastClient
               THEN [worker EXCEPT !.at = @ + 1, !.n = 0]
               ELSE [worker EXCEPT !.pc = IF worker.flight = << >> THEN "top" ELSE "submit"]
  /\ UNCHANGED <<vars, lifeVars, ringVars, hashes>>
-----------------------------------------------------------------------------
(* The batch in the engine                                                   *)

SubmitBatch ==
  /\ worker.pc = "submit"
  /\ SubmitCopy(W, Len(worker.flight))
  /\ hashes' = hashes \o [i \in DOMAIN worker.flight |-> worker.flight[i].id]
  /\ worker' = [worker EXCEPT !.pc = "poll"]
  /\ UNCHANGED <<lifeVars, ringVars>>

WriteSlots(new) ==
  [c \in Clients |-> [s \in 0 .. RingSize - 1 |->
     LET here == {r \in new : r.client = c /\ r.slot = s}
     IN  IF here = {} THEN slots[c][s] ELSE (CHOOSE r \in here : TRUE).reply]]

(* Error responses for what the engine did not answer, which the multi       *)
(* worker writes, and the end of the loop, which publishes nothing.          *)
Unanswered == {i \in DOMAIN worker.flight :
                 call[W].ids = << >> \/ call[W].ids[i] \notin Answered(W)}

Fault ==
  /\ state' = "FAULTED"
  /\ slots' = IF Kind = "single" THEN slots
              ELSE WriteSlots({[client |-> worker.flight[i].client,
                                slot   |-> worker.flight[i].slot,
                                reply  |-> Reply(worker.flight[i].id, Nothing, "ERR")]
                               : i \in Unanswered})
  /\ worker' = Gone
  /\ UNCHANGED <<stopping, shmFlag, bridges, reqs, rhead, rtail, asks, got, hashes>>

SubmitRefused ==
  /\ worker.pc = "submit" /\ ~running
  /\ Fault
  /\ UNCHANGED vars

PollTimeout ==
  /\ worker.pc = "poll" /\ GiveUp(W) /\ Fault

(* One poll: the flags, then the responses, fanned out to their slots.       *)
FanOut ==
  WriteSlots({[client |-> worker.flight[i].client, slot |-> worker.flight[i].slot,
               reply |-> LET g == CHOOSE f \in Fetched(W) : f[1] = call[W].ids[i]
                         IN  IF g[2] = NoReq
                             THEN Reply(worker.flight[i].id, Nothing, "ERR")
                             ELSE Reply(worker.flight[i].id, hashes[g[2] + 1], "OK")] :
              i \in {j \in DOMAIN worker.flight :
                       \E f \in Fetched(W) : f[1] = call[W].ids[j]}})

PollBatch ==
  /\ worker.pc = "poll"
  /\ \/ SubmitHead(W) /\ UNCHANGED slots
     \/ SubmitDone(W) /\ UNCHANGED slots
     \/ PollFlags(W) /\ UNCHANGED slots
     \/ PollFetch(W) /\ slots' = FanOut
  /\ UNCHANGED <<lifeVars, worker, reqs, rhead, rtail, asks, got, hashes>>

(* Mutant of NewHeads: only the single bridge's heads, moved as it drains.    *)
HeadsKept == rhead

(* All answered: each client's head moves past its slots.                    *)
NewHeads ==
  [c \in Clients |-> IF Kind = "multi" /\ worker.count[c] > 0 THEN RespHead(c)
                     ELSE rhead[c]]

PublishBatch ==
  /\ worker.pc = "poll" /\ Return(W)
  /\ rhead' = NewHeads
  /\ worker' = [worker EXCEPT !.pc = "top"]
  /\ UNCHANGED <<lifeVars, reqs, rtail, slots, asks, got, hashes>>
-----------------------------------------------------------------------------
Worker ==
  \/ \E ok \in BOOLEAN : WorkerInit(ok)
  \/ WorkerExit \/ Begin \/ DrainNext
  \/ \E c \in Clients : DrainSign(c) \/ DrainOther(c)
  \/ SubmitBatch \/ SubmitRefused \/ PollBatch \/ PollTimeout \/ PublishBatch

EngineMoves ==
  /\ Engine \/ Start \/ ShutdownBegin \/ ShutdownEnd
  /\ UNCHANGED <<lifeVars, worker, ringVars, hashes>>

BridgeNext ==
  \/ Worker \/ EngineMoves
  \/ BridgeStart \/ BridgeStop
  \/ \E c \in Clients : Read(c) \/ \E op \in Ops : Ask(c, op)

BridgeSpec == BridgeInit /\ [][BridgeNext]_bvars
-----------------------------------------------------------------------------
(* A client reads the responses to its requests, in the order it made them,  *)
(* each with the signature of its own hash or none: "This makes the          *)
(* responses visible to clients atomically after data is ready"              *)
(* (smoke_abi_bridge.cpp:597).                                               *)
AnsweredInOrder ==
  \A c \in Clients : \A i \in DOMAIN got[c] :
    /\ i <= Len(asks[c])
    /\ got[c][i].id = asks[c][i]
    /\ got[c][i].sig \in {Nothing, asks[c][i]}

(* While the bridge runs it owes nobody: between two batches every request   *)
(* a client got into its ring is still there or has a visible response.      *)
NothingOwed ==
  worker.pc = "top" /\ state = "RUNNING" =>
    \A c \in Clients :
      Len(asks[c]) = Len(got[c]) + Len(reqs[c]) + Visible(c)

(* "Mark remaining as errors": when the worker faults, every request it took *)
(* has a response its client can read (smoke_abi_bridge.cpp:564).            *)
FaultsAreReported ==
  state = "FAULTED" /\ worker.pc = "gone" =>
    \A c \in Clients :
      Len(asks[c]) = Len(got[c]) + Len(reqs[c]) + Visible(c)
=============================================================================

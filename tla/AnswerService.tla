---------------------------- MODULE AnswerService ----------------------------
(***************************************************************************)
(* What the FAST PATH promises its client, without rings, batches or slots: *)
(* each shard is a FIFO of accepted requests, answered one by one, each     *)
(* exactly once, in order; ids are handed out once and never again; a       *)
(* restart forgets every request and never answers one of them afterwards.  *)
(***************************************************************************)
EXTENDS Integers, Sequences

CONSTANTS
  Lanes,       \* the shards
  MaxSegment   \* bound on the requests one step accepts or answers

VARIABLES
  accepted,  \* per lane, the ids of the requests accepted since the restart
  answered,  \* per lane, the ids answered since the restart
  lastId     \* the last id handed out

vars == <<accepted, answered, lastId>>

Init == /\ accepted = [s \in Lanes |-> <<>>]
        /\ answered = [s \in Lanes |-> <<>>]
        /\ lastId = 0

\* A segment of n requests with fresh ids enters lane s.
Accept(s, n) ==
  /\ n > 0
  /\ accepted' = [accepted EXCEPT ![s] = @ \o [j \in 1 .. n |-> lastId + j]]
  /\ lastId' = lastId + n
  /\ UNCHANGED answered

\* The oldest unanswered requests of lane s, n of them, are answered.
Deliver(s, n) ==
  LET from == Len(answered[s])
  IN /\ n > 0
     /\ from + n <= Len(accepted[s])
     /\ answered' = [answered EXCEPT ![s] = SubSeq(accepted[s], 1, from + n)]
     /\ UNCHANGED <<accepted, lastId>>

Restart == /\ accepted' = [s \in Lanes |-> <<>>]
           /\ answered' = [s \in Lanes |-> <<>>]
           /\ UNCHANGED lastId

Next == \/ \E s \in Lanes, n \in 1 .. MaxSegment : Accept(s, n) \/ Deliver(s, n)
        \/ Restart

Spec == Init /\ [][Next]_vars
=============================================================================

----------------------------- MODULE FastPathInv -----------------------------
(***************************************************************************)
(* Why the FAST PATH is safe: an inductive invariant of FastPath for an    *)
(* engine whose stops do not time out and whose client drains the CQs with *)
(* fast_path_poll only.  Positions are indices that never wrapped; a slot  *)
(* of a ring or a CQ is what a position is mapped to.                      *)
(***************************************************************************)
EXTENDS FastPath

CleanUse == ~StopMayTimeout /\ PollKinds \subseteq {"poll"}

\* The position of the next response the host takes from shard s.
Base(s) == rd[s] + Taken(s)

\* Requests the submit in progress has written behind tail of shard s.
Pending(s) == IF sub.pc = "publish" /\ SegmentShard = s THEN sub.n ELSE 0

\* The position below which every reserved response is known committed.
Settled(s) == IF kpc[s] = "write" THEN origin[s] ELSE wr[s]

\* The submit call in progress.
SubmitInv ==
  sub.pc = "publish" =>
    sub.n > 0 /\ sub.n < nextId /\ sub.k < Segments

\* No CTA runs unless the kernel was started, and only one grid can run.
LifeInv ==
  /\ grids \in {0, 1}
  /\ ~running => AllExited /\ grids = 0
  /\ grids = 1 => AllExited

\* The four indices of a shard, and the lengths of its histories.
IndexInv(s) ==
  /\ Base(s) <= wr[s] /\ wr[s] - rd[s] <= CqCap
  /\ wr[s] <= head[s] /\ head[s] <= tail[s]
  /\ tail[s] + Pending(s) - head[s] <= RingSize - 1
  /\ Len(log[s]) = tail[s] /\ Len(out[s]) = Base(s)

\* Where a CTA is, and what that says of its batch and of its indices.
CtaInv(s) ==
  /\ kpc[s] \in {"top", "fetch", "exit"} => batch[s] = <<>> /\ wr[s] = head[s]
  /\ kpc[s] = "fetch" => space[s] > 0 /\ wr[s] + space[s] - rd[s] <= CqCap
  /\ kpc[s] \in {"advance", "reserve", "write"} => Len(batch[s]) \in 1 .. BatchMax
  /\ kpc[s] = "advance" => head[s] = wr[s] /\ head[s] + Len(batch[s]) <= tail[s]
  /\ kpc[s] = "reserve" => head[s] = wr[s] + Len(batch[s])
  /\ kpc[s] \in {"advance", "reserve"} =>
       origin[s] = wr[s] /\ wr[s] + Len(batch[s]) - rd[s] <= CqCap
  /\ kpc[s] = "write" => wr[s] = head[s] /\ origin[s] + Len(batch[s]) = wr[s]
  /\ kpc[s] # "write" => phase[s] = NoPhase

\* The batch is the requests at its positions, and a response that is not
\* committed has not been taken.
BatchInv(s) ==
  \A i \in 1 .. Len(batch[s]) :
    /\ batch[s][i] = log[s][origin[s] + i]
    /\ phase[s][i] # "done" => Base(s) <= origin[s] + i - 1

\* The ring holds what was submitted and not yet taken by the kernel.
RingInv(s) ==
  /\ \A q \in head[s] .. tail[s] - 1 : ring[s][RingSlot(q)] = log[s][q + 1]
  /\ \A j \in 1 .. Pending(s) : ring[s][RingSlot(tail[s] + j - 1)] = Written[j]

\* No request has the id that means "not committed".
LogInv(s) == \A k \in 1 .. Len(log[s]) : log[s][k].id > 0

Uncommitted(s, q) == cq[s][CqSlot(q)].rid = 0
Paid(s, q)        == cq[s][CqSlot(q)].pay.id = log[s][q + 1].id
Committed(s, q)   == Paid(s, q) /\ cq[s][CqSlot(q)].rid = log[s][q + 1].id

\* How the response of batch entry i stands in its slot.
EntryInv(s, i) ==
  LET q == origin[s] + i - 1
  IN /\ phase[s][i] = "done" /\ Base(s) <= q => Committed(s, q)
     /\ phase[s][i] = "body" => Paid(s, q)
     /\ phase[s][i] # "done" => Uncommitted(s, q)

\* The CqCap positions from Base on name each slot of the CQ once: committed
\* up to Settled, then the batch being written, then invalidated slots.
CqInv(s) ==
  /\ \A q \in Base(s) .. Settled(s) - 1 : Committed(s, q)
  /\ kpc[s] = "write" => \A i \in 1 .. Len(batch[s]) : EntryInv(s, i)
  /\ \A q \in wr[s] .. Base(s) + CqCap - 1 : Uncommitted(s, q)

ShardInv(s) ==
  /\ IndexInv(s) /\ CtaInv(s) /\ BatchInv(s) /\ RingInv(s) /\ LogInv(s)
  /\ CqInv(s) /\ AnsweredRight(s)

\* The poll in progress drains up to its snapshot and no further.
PollInv ==
  /\ poll.pc # "count"
  /\ poll.pc = "drain" =>
       /\ \A s \in Shards : s >= poll.s => rd[s] <= poll.snap[s] /\ poll.snap[s] <= wr[s]
       /\ poll.i > 0 =>
            /\ poll.s < NumShards /\ poll.got < poll.max
            /\ rd[poll.s] + poll.i <= poll.snap[poll.s]

IInv == /\ TypeOK /\ SubmitInv /\ LifeInv /\ PollInv
        /\ \A s \in Shards : ShardInv(s)
=============================================================================

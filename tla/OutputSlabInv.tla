---------------------------- MODULE OutputSlabInv ----------------------------
(* The inductive invariant of OutputSlab, for one start of the kernel.  It   *)
(* speaks of requests instead of positions: request r was reserved at        *)
(* position r - 1, and the indices of the ring are that count modulo IdxMod. *)
EXTENDS OutputSlab

\* What the theorems assume of the constants.  One start: the slab and its
\* owners outlive a start, the positions begin again.  A lap of the indices is
\* longer than the ring and a whole number of laps of each region; a region
\* has a segment for each lane of a batch.  A single signature is left out,
\* since it does not write line 1 (its answer is inline).  Where line 1 may
\* arrive late, the shard carries one kind of answer.
OneStart ==
  /\ OutputSlabAssumption /\ MaxStarts <= 1 /\ Slots < IdxMod
  /\ \A region \in Regions : SegsOf(region) >= 2 /\ IdxMod % SegsOf(region) = 0
  /\ \A l \in Loads :
       /\ l.kinds \subseteq {"digest", "digests", "signs", "seal"}
       /\ l.reorder => l.kinds \subseteq {"seal"} /\ Slots % SealSegs = 0

Statuses == {"OK", "SLAB_OVERRUN"}
Places   == {NoPlace} \cup [region : Regions, seg : Nat]
Lines    == [status : Statuses, place : Places]

\* The requests reserved, those whose response the host has released, and
\* those that are neither released nor in the round of the poll.
Reserved == nextId - 1
Drained  == Reserved - Lag(wr, rd)
Window   == Drained + taken + 1 .. Reserved

SlotOf(r) == HostSlot(r - 1)
Home(region, r) == [region |-> region, seg |-> SegmentOf(region, r - 1)]
InLane(r)  == \E l \in todo : l.rid = r
Answered(r) == \A l \in todo : l.rid = r => l.at # "compute"
LineOf(r)  == cq[SlotOf(r)].line1

Shapes ==
  /\ load \in Loads
  /\ running \in BOOLEAN /\ starts \in 0 .. MaxStarts /\ capacity \in 0 .. Slots
  /\ nextId \in 1 .. MaxRequests + 1 /\ taken \in Nat
  /\ cq \in [0 .. Slots - 1 -> [rid : Nat, status : Statuses, line1 : Lines, before : Lines]]
  /\ DOMAIN slab = Regions /\ DOMAIN owner = Regions
  /\ \A g \in Regions :
       /\ slab[g] \in [0 .. SegsOf(g) - 1 -> Nat]
       /\ owner[g] \in [0 .. SegsOf(g) - 1 -> [rid : Nat, pos : Nat]]

\* The indices are the counts modulo their width, and one start has a full ring.
Counts ==
  /\ wr = U32(Reserved) /\ rd = U32(Drained) /\ Drained \in Nat
  /\ Lag(wr, rd) <= Slots /\ taken <= Lag(wr, rd)
  /\ starts = 0 => ~running /\ nextId = 1
  /\ IF running THEN capacity = Slots ELSE todo = {} /\ taken = 0

\* The lanes are those of the last batch, one for each request.
Lanes ==
  \A l \in todo :
    /\ l = [rid |-> l.rid, kind |-> l.kind, pos |-> U32(l.rid - 1), at |-> l.at]
    /\ l.rid \in Window /\ l.rid >= Reserved - 1
    /\ l.kind \in load.kinds /\ l.at \in {"compute"} \cup Statuses
    /\ \A k \in todo : k.rid = l.rid => k = l

\* A slot shows the response of its request once the lane has committed it,
\* and nothing before that, nor after the host has taken it.
Slotted ==
  /\ \A r \in Window : cq[SlotOf(r)].rid = IF InLane(r) THEN 0 ELSE r
  /\ \A s \in 0 .. Slots - 1 :
       cq[s].rid # 0 => /\ cq[s].rid \in Window /\ SlotOf(cq[s].rid) = s
                        /\ cq[s].status = cq[s].line1.status
  /\ \A l \in todo : l.at # "compute" => LineOf(l.rid).status = l.at

\* An answer points at the request's own segment, where no older output is.
Placed ==
  \A r \in Window : Answered(r) =>
    LET line == LineOf(r)
        g    == line.place.region
    IN  g # "none" => /\ line.status = "OK" /\ line.place = Home(g, r)
                      /\ slab[g][line.place.seg] >= r
                      /\ g = "seal" => slab[g][line.place.seg] = r

\* A slot whose line 1 may arrive late has only ever pointed at one segment.
OnePlace ==
  load.reorder =>
    /\ \A s \in 0 .. Slots - 1 : \A line \in {cq[s].line1, cq[s].before} :
         line.place = NoPlace \/ line.place = Home("seal", s + 1)
    /\ \A r \in Window : Answered(r) /\ LineOf(r).status = "OK"
         => LineOf(r).place.region = "seal"

\* A segment only holds outputs of its own class of positions.
Slabs ==
  \A g \in Regions : \A seg \in 0 .. SegsOf(g) - 1 :
    slab[g][seg] # 0 => /\ slab[g][seg] \in 1 .. Reserved
                        /\ Home(g, slab[g][seg]).seg = seg

Owners ==
  \A g \in Regions : \A seg \in 0 .. SegsOf(g) - 1 :
    owner[g][seg].rid # 0 => owner[g][seg].pos = U32(owner[g][seg].rid - 1)

\* What a poll returned: its output was its own, and can only be overwritten
\* by a later one.
Returned ==
  \A h \in held :
    /\ h.rid \in 1 .. Reserved
    /\ h.status \in {h.ran, "SLAB_OVERRUN"}
    /\ h.status = "OK" /\ h.place.region # "none" =>
         /\ h.own /\ h.place.region \in Regions
         /\ h.place = Home(h.place.region, h.rid)
         /\ slab[h.place.region][h.place.seg] >= h.rid

\* A half that was copied is the output of the request, or of a later one of
\* the same segment.
Copied(half) ==
  half \in reader.rid .. Reserved /\ Home(reader.region, half) = Home(reader.region, reader.rid)

Reading ==
  LET r == reader
  IN  /\ r \in [at : {"idle", "half1", "half2", "check", "ok", "refused"}, rid : Nat,
                region : Regions, seg : Nat, pos : Nat, half1 : Nat, half2 : Nat]
      /\ r.at \in {"half1", "half2", "check"} =>
           /\ r.rid \in 1 .. Reserved /\ r.pos = U32(r.rid - 1)
           /\ r.seg = Home(r.region, r.rid).seg /\ slab[r.region][r.seg] >= r.rid
      /\ r.at \in {"half2", "check"} => Copied(r.half1)
      /\ r.at = "check" => Copied(r.half2)
      /\ r.at = "ok" /\ MaxRequests < IdxMod => r.half1 = r.rid /\ r.half2 = r.rid

IInv == /\ Shapes /\ Counts /\ Lanes /\ Slotted /\ Placed /\ OnePlace
        /\ Slabs /\ Owners /\ Returned /\ Reading
=============================================================================

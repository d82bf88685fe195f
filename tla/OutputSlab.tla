----------------------------- MODULE OutputSlab -----------------------------
(* Where the outputs of one shard live.  An output that does not fit in its *)
(* response goes to a segment of the output slab chosen by the response's   *)
(* CQ position, and the response only points there.  A segment is recycled  *)
(* after SegsOf(region) positions; three guards keep a recycled segment     *)
(* from being taken for an old response's output: the kernel's seal gate,   *)
(* the audit of fast_path_poll and the checked read.                        *)
(*                                                                          *)
(* A CQ slot is its cache lines: line 0 (rid and status, one 16-byte store) *)
(* and the placement fields of line 1; "before" is what line 1 held before  *)
(* the last response, which the host may still see if the fabric delivers   *)
(* line 0 first.                                                            *)
(* A slab segment is the id of the request whose output it holds.           *)
EXTENDS KernelOps, FiniteSets

CONSTANTS
  Slots,             \* FAST_PATH_RESPONSE_BUFFER, the host's modulus
  Capacities,        \* values passed to fast_path_set_cq_capacity
  StdSegs,           \* slab_segs_per_shard
  SealSegs,          \* seal_segs_per_shard
  IdxMod,            \* 2^32: the width of write_idx and read_idx
  Loads,             \* [kinds, reorder]: the kinds of request submitted (see
                     \* KindRequest), and whether the fabric may make line 1
                     \* visible after line 0 (D-091)
  MaxRequests,       \* model bound: requests ever answered
  MaxStarts          \* model bound: starts of the kernel

OutputSlabAssumption ==
  /\ Slots \in Nat \ {0} /\ IdxMod \in Nat /\ IdxMod % Slots = 0
  /\ Capacities \subseteq 1 .. Slots
  /\ StdSegs \in Nat \ {0} /\ SealSegs \in Nat \ {0}
  /\ \A l \in Loads : l.reorder \in BOOLEAN
  /\ MaxRequests \in Nat /\ MaxStarts \in Nat

VARIABLES
  load,      \* the element of Loads the behaviour runs under
  running,   \* handle->running
  starts,    \* starts so far (bounds the model)
  capacity,  \* telemetry->cq_capacity_active
  wr, rd,    \* write_idx and read_idx
  nextId,    \* next_request_id
  todo,      \* the kernel's batch: [rid, kind, pos, at] per lane
  cq,        \* the response slots, as the host sees them
  slab,      \* the two regions of the output slab
  owner,     \* slab_seg_owner_rid and slab_seg_owner_pos
  taken,     \* responses taken in this round of the poll
  held,      \* what the last poll call returned to the client
  reader     \* the checked read in progress

vars == <<load, running, starts, capacity, wr, rd, nextId, todo, cq, slab,
          owner, taken, held, reader>>

Regions == {"std", "seal"}
SegsOf(region) == IF region = "seal" THEN SealSegs ELSE StdSegs
U32(x) == x % IdxMod

NoPlace == [region |-> "none", seg |-> 0]
Line1(st, p) == [status |-> st, place |-> p]
Empty   == [rid |-> 0, status |-> "OK", line1 |-> Line1("OK", NoPlace),
            before |-> Line1("OK", NoPlace)]
Idle    == [at |-> "idle", rid |-> 0, region |-> "std", seg |-> 0, pos |-> 0,
            half1 |-> 0, half2 |-> 0]

AllSegments(v) ==
  [region \in Regions |-> [seg \in 0 .. SegsOf(region) - 1 |-> v]]

Init ==
  /\ load \in Loads
  /\ running = FALSE /\ starts = 0 /\ capacity = 0
  /\ wr = 0 /\ rd = 0 /\ nextId = 1 /\ todo = {}
  /\ cq = [s \in 0 .. Slots - 1 |-> Empty]
  /\ slab = AllSegments(0)
  /\ owner = AllSegments([rid |-> 0, pos |-> 0])
  /\ taken = 0 /\ held = {} /\ reader = Idle
-----------------------------------------------------------------------------
(* Lifecycle *)

SetCapacity(c) ==
  /\ ~running
  /\ capacity' = c
  /\ UNCHANGED <<load, running, starts, wr, rd, nextId, todo, cq, slab, owner,
                 taken, held, reader>>

\* Mutant of ZeroedTelemetry: start keeps the telemetry of the last run.
KeptTelemetry == capacity

\* fast_path_start clears the telemetry, the requested capacity with it ...
ZeroedTelemetry == 0

\* Mutant of ActiveCapacity: the default one slot too many.
DefaultOffByOne(c) == IF c = 0 THEN Slots + 1 ELSE c

\* ... and the kernel takes the default for a capacity of zero.
ActiveCapacity(c) == IF c = 0 THEN Slots ELSE c

\* Slots, indices and telemetry are cleared; slab, owners and ids are not.
Start ==
  /\ ~running /\ starts < MaxStarts
  /\ running' = TRUE /\ starts' = starts + 1
  /\ capacity' = ActiveCapacity(ZeroedTelemetry)
  /\ wr' = 0 /\ rd' = 0
  /\ cq' = [s \in 0 .. Slots - 1 |-> Empty]
  /\ UNCHANGED <<load, nextId, todo, slab, owner, taken, held, reader>>

\* The kernel leaves only between batches; a poll is not in progress.
Stop ==
  /\ running /\ todo = {} /\ taken = 0
  /\ running' = FALSE
  /\ UNCHANGED <<load, starts, capacity, wr, rd, nextId, todo, cq, slab, owner,
                 taken, held, reader>>
-----------------------------------------------------------------------------
(* The kernel *)

\* One request of each way to answer, as the host writers fill it.
KindRequest(k) ==
  LET base == [opcode |-> "P256_SIGN", ilen |-> 32, multi |-> FALSE, n |-> 0,
               mlen |-> 0, hflags |-> 0, poff |-> 0, plen |-> 0, slot |-> 0]
  IN  CASE k = "sign"    -> base
        [] k = "digest"  -> [base EXCEPT !.opcode = "SHA256"]
        [] k = "digests" -> [base EXCEPT !.opcode = "SHA256", !.multi = TRUE,
                                         !.n = 3, !.mlen = 32, !.plen = 96]
        [] k = "signs"   -> [base EXCEPT !.multi = TRUE, !.n = 2, !.mlen = 32,
                                         !.plen = 64]
        [] k = "seal"    -> [base EXCEPT !.opcode = "AES256_GCM", !.ilen = 12,
                                         !.plen = 100]

Lag(w, pos) == U32(w - pos)

\* write_idx advances over the whole batch before any lane computes.
Reserve(k, n) ==
  /\ running /\ todo = {}
  /\ n <= capacity - Lag(wr, rd)
  /\ nextId + n <= MaxRequests + 1
  /\ todo' = {[rid |-> nextId + i, kind |-> k, pos |-> U32(wr + i), at |-> "compute"] :
                i \in 0 .. n - 1}
  /\ wr' = U32(wr + n) /\ nextId' = nextId + n
  /\ UNCHANGED <<load, running, starts, capacity, rd, cq, slab, owner, taken, held, reader>>

\* Mutant of SealRoom: one segment too many.
SealRoomOffByOne(pos) == Lag(pos, rd) <= SealSegs

\* A seal is refused while its segment may hold an undrained output.
SealRoom(pos) == Lag(pos, rd) < SealSegs

KernelSlot(pos) == pos % capacity
HostSlot(pos)   == pos % Slots
SegmentOf(region, pos) == pos % SegsOf(region)

Answer(l) == Dispatch(KindRequest(l.kind), "aes", SealRoom(l.pos), TRUE)

\* What line 1 says of the place; a single signature does not write it.
PlaceOf(a, pos, old) ==
  IF a.slab = "stale" THEN old
  ELSE IF a.region = "none" THEN NoPlace
  ELSE [region |-> a.region, seg |-> SegmentOf(a.region, pos)]

\* A lane writes its output and every field but line 0.
WriteBody(l) ==
  /\ l \in todo /\ l.at = "compute"
  /\ LET a == Answer(l)
         s == KernelSlot(l.pos)
         p == PlaceOf(a, l.pos, cq[s].line1.place)
     IN  /\ slab' = IF a.region = "none" THEN slab
                    ELSE [slab EXCEPT ![a.region][SegmentOf(a.region, l.pos)] = l.rid]
         /\ cq' = [cq EXCEPT ![s].line1 = Line1(a.status, p), ![s].before = cq[s].line1]
         /\ todo' = (todo \ {l}) \cup {[l EXCEPT !.at = a.status]}
  /\ UNCHANGED <<load, running, starts, capacity, wr, rd, nextId, owner, taken, held, reader>>

\* Line 0: the id and the status become visible together (B-319b).
CommitStore(l) ==
  /\ l \in todo /\ l.at # "compute"
  /\ LET s == KernelSlot(l.pos)
     IN  cq' = [cq EXCEPT ![s].rid = l.rid, ![s].status = l.at]
  /\ todo' = todo \ {l}
  /\ UNCHANGED <<load, running, starts, capacity, wr, rd, nextId, slab, owner,
                 taken, held, reader>>
-----------------------------------------------------------------------------
(* The host *)

\* Mutant of Untrusted: the audit before it was fail-loud.
NeverUntrusted(p, pos) == FALSE

\* The segment may have been recycled since the response was written.
Untrusted(p, pos) == Lag(wr, pos) >= SegsOf(p.region)

\* Line 1 of a slot as the poll may find it.
Seen(c) == {c.line1} \cup (IF load.reorder THEN {c.before} ELSE {})

\* Mutant of TakenStatus: the poll before B-319b.
StatusOfLine1(c, seen) == seen.status

\* The status is the one of commit_info, on line 0 (B-319b).
TakenStatus(c, seen) == c.status

\* One response: copied, its slot invalidated, its output audited.
PollTake ==
  /\ running /\ taken < Lag(wr, rd)
  /\ \E seen \in Seen(cq[HostSlot(U32(rd + taken))]) :
     LET pos == U32(rd + taken)
         c   == cq[HostSlot(pos)]
         p   == seen.place
         st  == TakenStatus(c, seen)
         points == st = "OK" /\ p.region # "none"
         bad    == points /\ Untrusted(p, pos)
     IN  /\ c.rid # 0
         /\ cq' = [cq EXCEPT ![HostSlot(pos)].rid = 0]
         /\ owner' = IF ~points THEN owner
                     ELSE [owner EXCEPT ![p.region][p.seg] =
                            IF bad THEN [@ EXCEPT !.rid = 0]
                                   ELSE [rid |-> c.rid, pos |-> pos]]
         /\ held' = (IF taken = 0 THEN {} ELSE held) \cup
              {[rid    |-> c.rid,
                status |-> IF bad THEN "SLAB_OVERRUN" ELSE st,
                ran    |-> c.status,
                place  |-> IF bad THEN NoPlace ELSE p,
                own    |-> p.region # "none" /\ slab[p.region][p.seg] = c.rid]}
  /\ taken' = taken + 1
  /\ UNCHANGED <<load, running, starts, capacity, wr, rd, nextId, todo, slab, reader>>

\* read_idx is stored once for all the responses taken.
PollPublish ==
  /\ taken > 0
  /\ rd' = U32(rd + taken) /\ taken' = 0
  /\ UNCHANGED <<load, running, starts, capacity, wr, nextId, todo, cq, slab,
                 owner, held, reader>>

Readable == {h \in held : h.status = "OK" /\ h.place.region # "none"}

OwnerOf(r) == owner[r.region][r.seg]

\* Mutant of StillIts: the checked read without its recency bracket.
StillOwned(r) == OwnerOf(r).rid = r.rid

\* The reader owns the segment and fewer than a lap was reserved since.
StillIts(r) ==
  /\ OwnerOf(r).rid = r.rid
  /\ Lag(wr, r.pos) < SegsOf(r.region)

ReadBegin(h) ==
  /\ reader.at = "idle" /\ h \in Readable
  /\ LET r == [Idle EXCEPT !.rid = h.rid, !.region = h.place.region,
                           !.seg = h.place.seg,
                           !.pos = owner[h.place.region][h.place.seg].pos]
     IN  reader' = [r EXCEPT !.at = IF StillIts(r) THEN "half1" ELSE "refused"]
  /\ UNCHANGED <<load, running, starts, capacity, wr, rd, nextId, todo, cq, slab,
                 owner, taken, held>>

\* The memcpy, in two halves so that it can be torn.
ReadHalf ==
  /\ reader' = CASE reader.at = "half1" ->
                     [reader EXCEPT !.at = "half2", !.half1 = slab[reader.region][reader.seg]]
                 [] reader.at = "half2" ->
                     [reader EXCEPT !.at = "check", !.half2 = slab[reader.region][reader.seg]]
                 [] OTHER -> reader
  /\ reader.at \in {"half1", "half2"}
  /\ UNCHANGED <<load, running, starts, capacity, wr, rd, nextId, todo, cq, slab,
                 owner, taken, held>>

ReadEnd ==
  /\ reader.at = "check"
  /\ reader' = [reader EXCEPT !.at = IF StillIts(reader) THEN "ok" ELSE "refused"]
  /\ UNCHANGED <<load, running, starts, capacity, wr, rd, nextId, todo, cq, slab,
                 owner, taken, held>>

ReadReturn ==
  /\ reader.at \in {"ok", "refused"}
  /\ reader' = Idle
  /\ UNCHANGED <<load, running, starts, capacity, wr, rd, nextId, todo, cq, slab,
                 owner, taken, held>>
-----------------------------------------------------------------------------
Next ==
  \/ \E c \in Capacities : SetCapacity(c)
  \/ Start
  \/ Stop
  \/ \E k \in load.kinds, n \in 1 .. 2 : Reserve(k, n)
  \/ \E l \in todo : WriteBody(l)
  \/ \E l \in todo : CommitStore(l)
  \/ PollTake
  \/ PollPublish
  \/ \E h \in held : ReadBegin(h)
  \/ ReadHalf
  \/ ReadEnd
  \/ ReadReturn

Spec == Init /\ [][Next]_vars
-----------------------------------------------------------------------------
TypeOK ==
  /\ running \in BOOLEAN /\ starts \in 0 .. MaxStarts /\ capacity \in 0 .. Slots
  /\ wr \in 0 .. IdxMod - 1 /\ rd \in 0 .. IdxMod - 1
  /\ nextId \in 1 .. MaxRequests + 1
  /\ \A l \in todo : /\ l.rid \in 1 .. nextId - 1 /\ l.kind \in load.kinds
                     /\ l.pos \in 0 .. IdxMod - 1
                     /\ l.at \in {"compute", "OK", "SLAB_OVERRUN"}
  /\ \A s \in 0 .. Slots - 1 : cq[s].rid \in 0 .. nextId - 1
  /\ taken \in 0 .. Slots
  /\ \A h \in held : h.rid \in 1 .. nextId - 1
  /\ reader.at \in {"idle", "half1", "half2", "check", "ok", "refused"}

\* A response that a poll returns as OK with an output in the slab points at
\* its own output, at the moment of the audit in fast_path_poll.
OutputIsOwn ==
  \A h \in held : h.status = "OK" /\ h.place.region # "none" => h.own

\* A checked read that succeeds returns the bytes of the response it was
\* asked for, whatever the kernel writes during the copy.
CheckedReadIsOwn ==
  reader.at = "ok" => reader.half1 = reader.rid /\ reader.half2 = reader.rid

\* The status of a response is the one its lane committed, or the audit's,
\* however late its other cache lines arrive (B-319b).
StatusIsOwn == \A h \in held : h.status \in {h.ran, "SLAB_OVERRUN"}

\* The positions that are committed and not yet taken by the host.
Undrained == {pos \in 0 .. IdxMod - 1 :
                Lag(pos, rd) \in taken .. Lag(wr, rd) - 1 /\ pos \notin {l.pos : l \in todo}}

\* What the kernel committed, the poll finds: the host's slot arithmetic and
\* the kernel's (fast_path_set_cq_capacity, cq_capacity_active) agree.
CommittedIsFound ==
  running => \A pos \in Undrained : cq[HostSlot(pos)].rid # 0

\* A sealed output stays in its segment until the host has taken its
\* response: the gate of the seal and open opcodes (SLAB_OVERRUN).
SealedOutputKept ==
  \A pos \in Undrained :
    LET c == cq[HostSlot(pos)]
    IN  running /\ c.rid # 0 /\ c.status = "OK" /\ c.line1.place.region = "seal"
          => slab["seal"][c.line1.place.seg] = c.rid

\* smoke_response_get_output: the pointer is valid until the next poll.
PointerValidUntilNextPoll ==
  taken = 0 => \A h \in Readable : slab[h.place.region][h.place.seg] = h.rid
=============================================================================

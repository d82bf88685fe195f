--------------------------- MODULE FastPathProofs ---------------------------
(***************************************************************************)
(* Proofs about the FAST PATH: it is well typed; used cleanly, it is safe  *)
(* (IInv is inductive); and used cleanly, it implements the abstract       *)
(* answer service.                                                         *)
(***************************************************************************)
EXTENDS FastPathInv, FiniteSetTheorems, SequenceTheorems, TLAPS

-----------------------------------------------------------------------------
(* Modular arithmetic: what makes a ring buffer's slots distinct, and indices *)
(* kept modulo a power of two harmless.                                       *)

\* Quotient and remainder of any integer.
LEMMA DivMod ==
  ASSUME NEW n \in Nat \ {0}, NEW a \in Int
  PROVE  a \div n \in Int /\ a = n * (a \div n) + (a % n) /\ a % n \in 0 .. n - 1
  OBVIOUS

\* The only multiple of n strictly between -n and n is 0.
LEMMA MultBound ==
  ASSUME NEW n \in Nat \ {0}, NEW x \in Int, n * x > -n, n * x < n
  PROVE  x = 0
<1>1. CASE x >= 1
  <2>1. n * x >= n BY <1>1
  <2>. QED BY <2>1
<1>2. CASE x <= -1
  <2>1. n * x <= -n BY <1>2
  <2>. QED BY <2>1
<1>. QED BY <1>1, <1>2

\* A remainder is determined by the number it is the remainder of.
LEMMA DivUnique ==
  ASSUME NEW n \in Nat \ {0}, NEW q \in Int, NEW r \in 0 .. n - 1,
         NEW p \in Int, NEW t \in 0 .. n - 1, n * q + r = n * p + t
  PROVE  r = t
<1>1. n * (q - p) = t - r OBVIOUS
<1>2. q - p = 0 BY <1>1, MultBound
<1>. QED BY <1>1, <1>2

\* Two numbers less than n apart have different remainders: n consecutive
\* positions of a ring buffer of n slots use each slot once.
LEMMA ModInj ==
  ASSUME NEW n \in Nat \ {0}, NEW a \in Int, NEW b \in Int, a < b, b - a < n
  PROVE  a % n # b % n
<1>. SUFFICES ASSUME a % n = b % n PROVE FALSE OBVIOUS
<1>. DEFINE q == a \div n  p == b \div n
<1>1. a = n * q + (a % n) /\ b = n * p + (a % n) /\ q \in Int /\ p \in Int BY DivMod
<1>2. n * (p - q) = b - a BY <1>1
<1>3. p - q = 0 BY <1>1, <1>2, MultBound
<1>. QED BY <1>2, <1>3

\* A position and the one a whole lap further share their slot.
LEMMA ModLap ==
  ASSUME NEW n \in Nat \ {0}, NEW a \in Int
  PROVE  (a + n) % n = a % n
<1>. DEFINE q == a \div n  p == (a + n) \div n
<1>1. a = n * q + (a % n) /\ q \in Int /\ a % n \in 0 .. n - 1 BY DivMod
<1>2. a + n = n * p + ((a + n) % n) /\ p \in Int /\ (a + n) % n \in 0 .. n - 1
  BY DivMod, a + n \in Int
<1>. HIDE DEF p, q
<1>3. n * (q + 1) + (a % n) = n * p + ((a + n) % n) BY <1>1, <1>2
<1>4. q + 1 \in Int BY <1>1
<1>. QED BY <1>1, <1>2, <1>3, <1>4, DivUnique

\* An index kept modulo m finds the slot of the index itself, in a buffer
\* whose size n divides m (sizes here are powers of two, m is 2^32).
LEMMA ModMod ==
  ASSUME NEW n \in Nat \ {0}, NEW m \in Nat \ {0}, m % n = 0, NEW a \in Int
  PROVE  (a % m) % n = a % n
<1>. DEFINE k == m \div n  q == a \div m  r == a % m
<1>1. m = n * k /\ k \in Int BY DivMod
<1>2. a = m * q + r /\ q \in Int /\ r \in Int BY DivMod
<1>3. r = n * (r \div n) + (r % n) /\ r \div n \in Int /\ r % n \in 0 .. n - 1 BY <1>2, DivMod
<1>4. a = n * (a \div n) + (a % n) /\ a \div n \in Int /\ a % n \in 0 .. n - 1 BY DivMod
<1>. HIDE DEF k, q, r
<1>5. n * (a \div n) + (a % n) = n * (k * q + r \div n) + (r % n) BY <1>1, <1>2, <1>3, <1>4
<1>6. k * q + r \div n \in Int BY <1>1, <1>2, <1>3
<1>7. a % n = r % n BY <1>3, <1>4, <1>5, <1>6, DivUnique
<1>. QED BY <1>7 DEF r

-----------------------------------------------------------------------------
(* Operators of the model.                                                 *)

\* Min of two or three integers is one of them and below each.
LEMMA Min2 ==
  ASSUME NEW a \in Int, NEW b \in Int
  PROVE  Min({a, b}) \in {a, b} /\ Min({a, b}) <= a /\ Min({a, b}) <= b
<1>1. \E x \in {a, b} : \A y \in {a, b} : x <= y
  <2>1. CASE a <= b BY <2>1
  <2>2. CASE b <= a BY <2>2
  <2>. QED BY <2>1, <2>2
<1>2. /\ Min({a, b}) \in {a, b}
      /\ \A y \in {a, b} : Min({a, b}) <= y
  BY <1>1 DEF Min
<1>. QED BY <1>2

LEMMA Min3 ==
  ASSUME NEW a \in Int, NEW b \in Int, NEW c \in Int
  PROVE  /\ Min({a, b, c}) \in {a, b, c}
         /\ Min({a, b, c}) <= a /\ Min({a, b, c}) <= b /\ Min({a, b, c}) <= c
<1>1. \E x \in {a, b, c} : \A y \in {a, b, c} : x <= y
  <2>1. CASE a <= b /\ a <= c BY <2>1
  <2>2. CASE b <= a /\ b <= c BY <2>2
  <2>3. CASE c <= a /\ c <= b BY <2>3
  <2>. QED BY <2>1, <2>2, <2>3
<1>2. /\ Min({a, b, c}) \in {a, b, c}
      /\ \A y \in {a, b, c} : Min({a, b, c}) <= y
  BY <1>1 DEF Min
<1>. QED BY <1>2

\* What most steps need of the constants.
LEMMA Sizes ==
  /\ NumShards \in Nat \ {0} /\ RingSize \in Nat \ {0} /\ CqCap \in Nat \ {0}
  /\ BatchMax \in Nat \ {0} /\ IdxMod \in Nat \ {0} /\ Quantum \in Nat \ {0}
  /\ IdxMod > RingSize /\ IdxMod > CqCap
<1>. QED BY FastPathAssumption

\* 32-bit arithmetic returns a natural number, and is exact below IdxMod.
LEMMA U32Type == \A x \in Int : U32(x) \in Nat
<1>. QED BY DivMod, Sizes DEF U32

LEMMA U32Exact == \A x \in 0 .. IdxMod - 1 : U32(x) = x
<1>. QED BY Sizes DEF U32

\* A position has one slot, and positions of one window have distinct slots.
LEMMA RingSlots ==
  /\ \A x \in Int : RingSlot(x) \in 0 .. RingSize - 1
  /\ \A x, y \in Int : x < y /\ y - x < RingSize => RingSlot(x) # RingSlot(y)
<1>1. ASSUME NEW x \in Int PROVE RingSlot(x) = x % RingSize
  <2>1. IdxMod % RingSize = 0 BY FastPathAssumption
  <2>. QED BY <2>1, ModMod, Sizes DEF RingSlot, U32
<1>2. ASSUME NEW x \in Int PROVE x % RingSize \in 0 .. RingSize - 1
  BY DivMod, Sizes
<1>3. ASSUME NEW x \in Int, NEW y \in Int, x < y, y - x < RingSize
      PROVE  x % RingSize # y % RingSize
  BY <1>3, ModInj, Sizes
<1>. QED BY <1>1, <1>2, <1>3

LEMMA CqSlots ==
  /\ \A x \in Int : CqSlot(x) \in 0 .. CqCap - 1
  /\ \A x, y \in Int : x < y /\ y - x < CqCap => CqSlot(x) # CqSlot(y)
  /\ \A x \in Int : CqSlot(x + CqCap) = CqSlot(x)
<1>1. ASSUME NEW x \in Int PROVE CqSlot(x) = x % CqCap
  <2>1. IdxMod % CqCap = 0 BY FastPathAssumption
  <2>. QED BY <2>1, ModMod, Sizes DEF CqSlot, U32
<1>2. ASSUME NEW x \in Int PROVE x % CqCap \in 0 .. CqCap - 1
  BY DivMod, Sizes
<1>3. ASSUME NEW x \in Int, NEW y \in Int, x < y, y - x < CqCap
      PROVE  x % CqCap # y % CqCap
  BY <1>3, ModInj, Sizes
<1>4. ASSUME NEW x \in Int PROVE (x + CqCap) % CqCap = x % CqCap
  BY ModLap, Sizes
<1>5. ASSUME NEW x \in Int PROVE CqSlot(x + CqCap) = (x + CqCap) % CqCap
  <2>1. x + CqCap \in Int BY Sizes
  <2>. QED BY <2>1, <1>1
<1>. QED BY <1>1, <1>2, <1>3, <1>4, <1>5
-----------------------------------------------------------------------------
(* Type correctness.                                                       *)

TypeInv == TypeOK /\ SubmitInv

\* The types of the parts of the state, one by one.
LEMMA Types ==
  ASSUME TypeOK
  PROVE  /\ nextId \in Nat \ {0} /\ rr \in Shards
         /\ sub.pc \in {"idle", "segment", "publish"} /\ sub.via \in {"inline", "slab"}
         /\ sub.op \in Nat /\ sub.count \in Nat /\ sub.left \in Int
         /\ sub.k \in Nat /\ sub.n \in Nat
         /\ poll.pc \in {"idle", "round", "drain", "count"} /\ poll.max \in Nat
         /\ poll.snap \in [Shards -> Nat] /\ poll.s \in Nat /\ poll.i \in Nat
         /\ poll.got \in Nat /\ poll.any \in BOOLEAN /\ poll.prog \in BOOLEAN
         /\ poll.stalled \in Nat
<1>1. /\ nextId \in Nat \ {0} /\ rr \in Shards
      /\ sub \in SubmitCalls /\ poll \in PollCalls
  BY DEF TypeOK
<1>. QED BY <1>1 DEF SubmitCalls, PollCalls

LEMMA ShardTypes ==
  ASSUME TypeOK, NEW s \in Shards
  PROVE  /\ ring[s] \in [0 .. RingSize - 1 -> Requests]
         /\ head[s] \in Nat /\ tail[s] \in Nat
         /\ cq[s] \in [0 .. CqCap - 1 -> Responses]
         /\ wr[s] \in Nat /\ rd[s] \in Nat
         /\ kpc[s] \in {"top", "fetch", "advance", "reserve", "write", "exit"}
         /\ space[s] \in Nat /\ batch[s] \in Seq(Requests) /\ origin[s] \in Nat
         /\ phase[s] \in [Entries -> {"todo", "body", "done"}]
         /\ log[s] \in Seq(Requests) /\ out[s] \in Seq(Responses)
<1>1. /\ ring \in [Shards -> [0 .. RingSize - 1 -> Requests]]
      /\ head \in [Shards -> Nat] /\ tail \in [Shards -> Nat]
      /\ cq \in [Shards -> [0 .. CqCap - 1 -> Responses]]
      /\ wr \in [Shards -> Nat] /\ rd \in [Shards -> Nat]
      /\ kpc \in [Shards -> {"top", "fetch", "advance", "reserve", "write", "exit"}]
      /\ space \in [Shards -> Nat]
      /\ batch \in [Shards -> Seq(Requests)]
      /\ origin \in [Shards -> Nat]
      /\ phase \in [Shards -> [Entries -> {"todo", "body", "done"}]]
      /\ log \in [Shards -> Seq(Requests)]
      /\ out \in [Shards -> Seq(Responses)]
  BY DEF TypeOK
<1>. QED BY <1>1

\* A call looks only at shards that exist.
LEMMA SegmentShardType ==
  ASSUME TypeOK, sub.k < Segments
  PROVE  SegmentShard \in Shards
<1>1. 0 \in Shards BY Sizes DEF Shards
<1>2. (rr + sub.k) % NumShards \in Shards
  <2>1. rr + sub.k \in Int BY Types, Sizes DEF Shards
  <2>. QED BY <2>1, DivMod, Sizes DEF Shards
<1>3. CASE sub.via = "slab" BY <1>1, <1>3 DEF SegmentShard
<1>4. CASE sub.via # "slab" /\ SubmitPolicy = "SHARD_LOCAL"
  BY <1>2, <1>4 DEF SegmentShard
<1>5. CASE sub.via # "slab" /\ SubmitPolicy # "SHARD_LOCAL"
  <2>1. Segments = NumShards BY <1>5 DEF Segments
  <2>2. sub.k \in Shards BY <2>1, Types, Sizes DEF Shards
  <2>. QED BY <1>5, <2>2 DEF SegmentShard
<1>. QED BY <1>3, <1>4, <1>5

\* A segment is a number of requests.
LEMMA SegmentType ==
  ASSUME TypeOK, sub.k < Segments
  PROVE  SegmentWant \in Int /\ SegmentRoom \in Int /\ SegmentLen \in Int
<1>. SegmentShard \in Shards BY SegmentShardType
<1>1. SegmentWant \in Int
  <2>1. CeilDiv(sub.count, ShardsPerBatch) \in Int
    <3>1. sub.count + ShardsPerBatch - 1 \in Int /\ ShardsPerBatch \in Nat \ {0}
      BY FastPathAssumption, Types
    <3>. QED BY <3>1, DivMod DEF CeilDiv
  <2>2. Min({sub.left, CeilDiv(sub.count, ShardsPerBatch)}) \in Int
    <3>1. sub.left \in Int BY Types
    <3>. QED BY <2>1, <3>1, Min2
  <2>3. Cardinality({i \in 0 .. sub.count - 1 : (rr + i) % NumShards = sub.k}) \in Nat
    <3>. DEFINE T == {i \in 0 .. sub.count - 1 : (rr + i) % NumShards = sub.k}
    <3>1. PICK b \in Int : b = sub.count - 1 BY Types
    <3>2. 0 \in Int OBVIOUS
    <3>3. IsFiniteSet(0 .. b) BY <3>2, FS_Interval
    <3>4. IsFiniteSet(T) BY <3>1, <3>3, FS_Subset
    <3>. QED BY <3>4, FS_CardinalityType
  <2>. QED BY <2>2, <2>3 DEF SegmentWant
<1>2. SegmentRoom \in Int
  <2>1. tail[SegmentShard] - head[SegmentShard] \in Int
    BY ShardTypes
  <2>2. Used(SegmentShard) \in Nat BY <2>1, U32Type DEF Used
  <2>3. U32((RingSize - 1) - Used(SegmentShard)) \in Nat BY <2>2, U32Type, Sizes
  <2>. QED BY <2>2, <2>3 DEF SegmentRoom
<1>3. SegmentLen \in Int BY <1>1, <1>2, Min2 DEF SegmentLen
<1>. QED BY <1>1, <1>2, <1>3

\* The requests a submit has written are requests.
LEMMA WrittenType ==
  ASSUME TypeInv, sub.pc = "publish"
  PROVE  /\ Written \in Seq(Requests) /\ Len(Written) = sub.n
         /\ \A j \in 1 .. sub.n : Written[j].id > 0
<1>1. nextId \in Nat /\ sub.n \in Nat /\ sub.op \in Nat /\ sub.n < nextId
  BY Types DEF TypeInv, SubmitInv
<1>2. \A j \in 1 .. sub.n : /\ Request(nextId - sub.n + j - 1, sub.op) \in Requests
                           /\ Request(nextId - sub.n + j - 1, sub.op).id > 0
  BY <1>1 DEF Request, Requests
<1>. QED BY <1>1, <1>2, SMTT(60) DEF Written

\* What a CTA is about to copy, and what it writes.
LEMMA BatchType ==
  ASSUME TypeOK, NEW s \in Shards
  PROVE  Available(s) \in Nat /\ Space(s) \in Nat /\ BatchLen(s) \in Nat
<1>1. tail[s] - head[s] \in Int /\ wr[s] - rd[s] \in Int /\ space[s] \in Nat
  BY ShardTypes
<1>2. Available(s) \in Nat BY <1>1, U32Type DEF Available
<1>3. Space(s) \in Nat BY <1>1, U32Type, Sizes DEF Space
<1>4. BatchLen(s) \in {Available(s), BatchMax, space[s]}
  <2>1. Available(s) \in Int /\ BatchMax \in Int /\ space[s] \in Int BY <1>1, <1>2, Sizes
  <2>. QED BY <2>1, Min3 DEF BatchLen
<1>. QED BY <1>1, <1>2, <1>3, <1>4, Sizes

\* The CQ slot of a batch entry, and what is written there.
LEMMA EntryType ==
  ASSUME TypeOK, NEW s \in Shards, NEW i \in Entries
  PROVE  /\ EntrySlot(s, i) \in 0 .. CqCap - 1
         /\ i \in 1 .. Len(batch[s]) =>
              Answer(s, i) \in Requests /\ batch[s][i].id \in Nat
<1>1. EntrySlot(s, i) \in 0 .. CqCap - 1
  <2>1. origin[s] + i - 1 \in Int BY ShardTypes, Sizes DEF Entries
  <2>. QED BY <2>1, CqSlots DEF EntrySlot
<1>2. ASSUME i \in 1 .. Len(batch[s])
      PROVE  Answer(s, i) \in Requests /\ batch[s][i].id \in Nat
  <2>1. batch[s] \in Seq(Requests) BY ShardTypes
  <2>2. batch[s][i] \in Requests /\ batch[s][1] \in Requests BY <1>2, <2>1
  <2>. QED BY <2>2 DEF Answer, Request, Requests
<1>. QED BY <1>1, <1>2

\* The handle as it was created is well typed.
LEMMA TypeInit == Init => TypeInv
<1>. SUFFICES ASSUME Init PROVE TypeInv OBVIOUS
<1>1. EmptyRing \in [0 .. RingSize - 1 -> Requests] BY DEF EmptyRing, Requests, Request
<1>2. EmptyCq \in [0 .. CqCap - 1 -> Responses]
  BY DEF EmptyCq, Zeroed, Responses, Requests, Request
<1>3. NoPhase \in [Entries -> {"todo", "body", "done"}] BY DEF NoPhase
<1>4. 0 \in Shards BY Sizes DEF Shards
<1>5. sub \in SubmitCalls /\ sub.pc = "idle"
  BY DEF Init, NoSubmit, SubmitCalls
<1>6. poll \in PollCalls
  BY DEF Init, NoPoll, PollCalls
<1>7. /\ running \in BOOLEAN /\ shutdown \in BOOLEAN /\ grids \in Nat
      /\ starts \in Nat /\ nextId \in Nat \ {0} /\ rr \in Shards
      /\ ring \in [Shards -> [0 .. RingSize - 1 -> Requests]]
      /\ head \in [Shards -> Nat] /\ tail \in [Shards -> Nat]
      /\ cq \in [Shards -> [0 .. CqCap - 1 -> Responses]]
      /\ wr \in [Shards -> Nat] /\ rd \in [Shards -> Nat]
  BY <1>1, <1>2, <1>4 DEF Init, PerShard
<1>8. /\ kpc \in [Shards -> {"top", "fetch", "advance", "reserve", "write", "exit"}]
      /\ space \in [Shards -> Nat]
      /\ batch \in [Shards -> Seq(Requests)]
      /\ origin \in [Shards -> Nat]
      /\ phase \in [Shards -> [Entries -> {"todo", "body", "done"}]]
      /\ log \in [Shards -> Seq(Requests)]
      /\ out \in [Shards -> Seq(Responses)]
  BY <1>3 DEF Init, PerShard
<1>. QED BY <1>5, <1>6, <1>7, <1>8 DEF TypeInv, TypeOK, SubmitInv

\* Every step keeps the types.
LEMMA TypeStep == TypeInv /\ [Next]_vars => TypeInv'
<1>. SUFFICES ASSUME TypeInv, [Next]_vars PROVE TypeInv' OBVIOUS
<1>. USE DEF hostVars, submitVars, ringVars, cqVars, ctaVars
<1>a. TypeOK /\ SubmitInv BY DEF TypeInv
<1>b. sub \in SubmitCalls /\ poll \in PollCalls BY <1>a DEF TypeOK
<1>0. CASE UNCHANGED vars BY <1>0 DEF vars, TypeInv, TypeOK, SubmitInv, Segments
<1>1. ASSUME NEW n \in SubmitSizes, NEW op \in Opcodes, NEW via \in SubmitVias,
             SubmitBegin(n, op, via)
      PROVE  TypeInv'
  <2>1. n \in Nat /\ op \in Nat /\ via \in {"inline", "slab"} BY FastPathAssumption
  <2>2. sub' \in SubmitCalls /\ sub'.pc = "segment"
    <3>1. sub' = [pc |-> "segment", via |-> via, op |-> op, count |-> n,
                  left |-> n, k |-> 0, n |-> 0]
      BY <1>1 DEF SubmitBegin, NoSubmit
    <3>. QED BY <2>1, <3>1 DEF SubmitCalls
  <2>. QED BY <1>1, <2>2 DEF SubmitBegin, TypeInv, TypeOK, SubmitInv, Segments
<1>2. ASSUME NEW m \in PollSizes, CountBegin(m) PROVE TypeInv'
  <2>1. poll' \in PollCalls
    BY <1>2, FastPathAssumption, Sizes DEF CountBegin, NoPoll, PollCalls
  <2>. QED BY <1>2, <2>1 DEF CountBegin, TypeInv, TypeOK, SubmitInv, Segments
<1>3. ASSUME NEW m \in PollSizes, PollBegin(m) PROVE TypeInv'
  <2>1. poll' \in PollCalls
    BY <1>3, FastPathAssumption, Sizes DEF PollBegin, NoPoll, PollCalls
  <2>. QED BY <1>3, <2>1 DEF PollBegin, TypeInv, TypeOK, SubmitInv, Segments
<1>4. CASE Start
  <2>1. EmptyCq \in [0 .. CqCap - 1 -> Responses]
    BY DEF EmptyCq, Zeroed, Responses, Requests, Request
  <2>2. /\ wr' \in [Shards -> Nat] /\ rd' \in [Shards -> Nat]
        /\ cq' \in [Shards -> [0 .. CqCap - 1 -> Responses]]
        /\ head' \in [Shards -> Nat] /\ tail' \in [Shards -> Nat]
        /\ log' \in [Shards -> Seq(Requests)] /\ out' \in [Shards -> Seq(Responses)]
    BY <1>4, <2>1 DEF Start, PerShard
  <2>3. /\ running' \in BOOLEAN /\ shutdown' \in BOOLEAN
        /\ grids' \in Nat /\ starts' \in Nat
    <3>1. grids \in Nat /\ starts \in Nat BY <1>a DEF TypeOK
    <3>2. grids' = grids + 1 /\ starts' = starts + 1 BY <1>4 DEF Start
    <3>3. grids' \in Nat /\ starts' \in Nat BY <3>1, <3>2
    <3>4. running' \in BOOLEAN /\ shutdown' \in BOOLEAN BY <1>4 DEF Start
    <3>. QED BY <3>3, <3>4
  <2>4. UNCHANGED <<submitVars, ring, ctaVars, poll>> BY <1>4 DEF Start
  <2>. QED BY <2>2, <2>3, <2>4 DEF TypeInv, TypeOK, SubmitInv, Segments
<1>5. CASE StopRequest BY <1>5 DEF StopRequest, TypeInv, TypeOK, SubmitInv, Segments
<1>6. CASE StopReturn BY <1>6 DEF StopReturn, TypeInv, TypeOK, SubmitInv, Segments
<1>7. CASE GridLaunch
  <2>1. kpc' \in [Shards -> {"top", "fetch", "advance", "reserve", "write", "exit"}]
    BY <1>7 DEF GridLaunch, PerShard
  <2>2. grids' \in Nat BY <1>a, <1>7 DEF GridLaunch, TypeOK
  <2>. QED BY <1>7, <2>1, <2>2 DEF GridLaunch, TypeInv, TypeOK, SubmitInv, Segments
<1>8. CASE SkipSegment
  <2>1. sub' \in SubmitCalls /\ sub'.pc = "segment"
    BY <1>b, <1>8 DEF SkipSegment, InSegment, SubmitCalls
  <2>. QED BY <1>8, <2>1 DEF SkipSegment, TypeInv, TypeOK, SubmitInv, Segments
<1>9. CASE WriteSegment
  <2>. DEFINE s == SegmentShard
              n == SegmentLen
              holds(p) == {j \in 0 .. n - 1 : RingSlot(tail[s] + j) = p}
  <2>1. n \in Nat /\ n > 0 /\ sub.k < Segments /\ s \in Shards
    <3>1. sub.k < Segments /\ SegmentLen > 0 BY <1>9 DEF WriteSegment, InSegment
    <3>. QED BY <1>a, <3>1, SegmentType, SegmentShardType
  <2>2. /\ ring' = [ring EXCEPT ![s] = [p \in 0 .. RingSize - 1 |->
                     IF holds(p) = {} THEN ring[s][p]
                     ELSE Request(nextId + (CHOOSE j \in holds(p) : TRUE), sub.op)]]
        /\ nextId' = nextId + n
        /\ sub' = [sub EXCEPT !.pc = "publish", !.n = n]
    BY <1>9 DEF WriteSegment
  <2>3. ASSUME NEW p \in 0 .. RingSize - 1, holds(p) # {}
        PROVE  Request(nextId + (CHOOSE j \in holds(p) : TRUE), sub.op) \in Requests
    <3>1. (CHOOSE j \in holds(p) : TRUE) \in holds(p) BY <2>3
    <3>2. (CHOOSE j \in holds(p) : TRUE) \in Nat BY <2>1, <3>1
    <3>3. nextId \in Nat /\ sub.op \in Nat BY <1>a, Types
    <3>. QED BY <3>2, <3>3 DEF Request, Requests
  <2>4. /\ ring[s] \in [0 .. RingSize - 1 -> Requests]
        /\ ring \in [Shards -> [0 .. RingSize - 1 -> Requests]]
    BY <1>a, <2>1 DEF TypeOK
  <2>5. ring' \in [Shards -> [0 .. RingSize - 1 -> Requests]]
    <3>. HIDE DEF holds
    <3>. QED BY <2>1, <2>2, <2>3, <2>4
  <2>6. nextId' \in Nat \ {0} BY <1>a, <2>1, <2>2, Types, SMTT(60)
  <2>7. sub' \in SubmitCalls BY <1>b, <2>1, <2>2 DEF SubmitCalls
  <2>8. sub'.n > 0 /\ sub'.n < nextId' /\ sub'.k = sub.k /\ sub'.via = sub.via
    BY <1>a, <1>b, <2>1, <2>2, Types DEF SubmitCalls
  <2>9. UNCHANGED <<hostVars, rr, head, tail, cqVars, ctaVars, poll, log, out>>
    BY <1>9 DEF WriteSegment
  <2>. QED BY <2>1, <2>5, <2>6, <2>7, <2>8, <2>9 DEF TypeInv, TypeOK, SubmitInv, Segments
<1>10. CASE PublishSegment
  <2>. DEFINE s == SegmentShard
  <2>1. Written \in Seq(Requests) BY <1>10, WrittenType DEF PublishSegment
  <2>2. s \in Shards
    BY <1>a, <1>10, SegmentShardType DEF PublishSegment, SubmitInv
  <2>3. UNCHANGED <<hostVars, nextId, rr, ring, head, cqVars, ctaVars, poll, out>>
    BY <1>10 DEF PublishSegment
  <2>a. tail' = [tail EXCEPT ![s] = tail[s] + sub.n] BY <1>10 DEF PublishSegment
  <2>b. log' = [log EXCEPT ![s] = log[s] \o Written] BY <1>10 DEF PublishSegment
  <2>c. sub' = [sub EXCEPT !.pc = "segment", !.left = sub.left - sub.n,
                           !.k = sub.k + 1, !.n = 0]
    BY <1>10 DEF PublishSegment
  <2>. HIDE DEF s
  <2>4. log[s] \in Seq(Requests) /\ tail[s] \in Nat BY <1>a, <2>2, ShardTypes
  <2>5. log[s] \o Written \in Seq(Requests) BY <2>1, <2>4
  <2>6. log \in [Shards -> Seq(Requests)] /\ tail \in [Shards -> Nat] BY <1>a DEF TypeOK
  <2>7. log' \in [Shards -> Seq(Requests)] BY <2>2, <2>5, <2>6, <2>b
  <2>8. tail' \in [Shards -> Nat]
    <3>1. tail[s] + sub.n \in Nat BY <1>a, <2>4, Types, SMTT(60)
    <3>. QED BY <2>2, <2>6, <2>a, <3>1
  <2>9. sub' \in SubmitCalls /\ sub'.pc = "segment"
    <3>1. sub.left - sub.n \in Int /\ sub.k + 1 \in Nat BY <1>a, Types
    <3>. QED BY <1>b, <2>c, <3>1 DEF SubmitCalls
  <2>10. sub'.pc # "publish" BY <2>9
  <2>11. TypeOK' BY <1>a, <2>3, <2>7, <2>8, <2>9 DEF TypeOK
  <2>. QED BY <2>10, <2>11 DEF TypeInv, SubmitInv
<1>11. CASE SubmitReturn
  <2>1. rr' \in Shards
    <3>0. rr \in Nat /\ ShardsPerBatch \in Nat /\ sub.count \in Nat /\ sub.left \in Int
      <4>1. rr \in Nat
        <5>1. rr \in Shards BY <1>a, Types
        <5>. QED BY <5>1, Sizes DEF Shards
      <4>2. ShardsPerBatch \in Nat BY FastPathAssumption
      <4>. QED BY <1>a, <4>1, <4>2, Types
    <3>1. /\ rr + ShardsPerBatch \in Int /\ rr + sub.count - sub.left \in Int
      BY <3>0
    <3>2. /\ (rr + ShardsPerBatch) % NumShards \in Shards
          /\ (rr + sub.count - sub.left) % NumShards \in Shards
      BY <3>1, DivMod, Sizes DEF Shards
    <3>. QED BY <1>a, <1>11, <3>2, Types DEF SubmitReturn
  <2>2. sub' \in SubmitCalls /\ sub'.pc = "idle"
    BY <1>11 DEF SubmitReturn, NoSubmit, SubmitCalls
  <2>3. UNCHANGED <<hostVars, nextId, ringVars, cqVars, ctaVars, poll, log, out>>
    BY <1>11 DEF SubmitReturn
  <2>. QED BY <2>1, <2>2, <2>3 DEF TypeInv, TypeOK, SubmitInv, Segments
<1>12. CASE PollRound
  <2>1. wr \in [Shards -> Nat] BY <1>a DEF TypeOK
  <2>2. poll' \in PollCalls BY <1>b, <1>12, <2>1 DEF PollRound, PollCalls
  <2>. QED BY <1>a, <1>12, <2>2 DEF PollRound, TypeInv, TypeOK, SubmitInv, Segments
<1>13. CASE PollSkipShard
  <2>1. poll' \in PollCalls BY <1>b, <1>13 DEF PollSkipShard, PollCalls
  <2>. QED BY <1>a, <1>13, <2>1 DEF PollSkipShard, TypeInv, TypeOK, SubmitInv, Segments
<1>14. CASE PollTake
  <2>. DEFINE s == poll.s
              p == CqSlot(rd[poll.s] + poll.i)
  <2>1. s \in Shards
    <3>1. poll.s \in Nat /\ poll.s < NumShards
      BY <1>a, <1>14, Types DEF PollTake, Draining
    <3>. QED BY <3>1, Sizes DEF Shards
  <2>2. p \in 0 .. CqCap - 1
    <3>1. rd[poll.s] + poll.i \in Int BY <1>a, <2>1, Types, ShardTypes, SMTT(60)
    <3>. QED BY <3>1, CqSlots
  <2>3. UNCHANGED <<hostVars, submitVars, ringVars, wr, rd, ctaVars, log>>
    BY <1>14 DEF PollTake
  <2>a. out' = [out EXCEPT ![s] = Append(out[s], cq[s][p])]
    BY <1>14 DEF PollTake, ReadSlot
  <2>b. cq' = [cq EXCEPT ![s] = [cq[s] EXCEPT ![p] = [cq[s][p] EXCEPT !.rid = 0]]]
    BY <1>14 DEF PollTake
  <2>c. poll' = [poll EXCEPT !.i = poll.i + 1] BY <1>14 DEF PollTake
  <2>. HIDE DEF s, p
  <2>4. cq[s] \in [0 .. CqCap - 1 -> Responses] /\ out[s] \in Seq(Responses)
    BY <1>a, <2>1, ShardTypes
  <2>5. cq[s][p] \in Responses /\ [cq[s][p] EXCEPT !.rid = 0] \in Responses
    BY <2>2, <2>4 DEF Responses
  <2>6. /\ cq \in [Shards -> [0 .. CqCap - 1 -> Responses]]
        /\ out \in [Shards -> Seq(Responses)]
    BY <1>a DEF TypeOK
  <2>7. out' \in [Shards -> Seq(Responses)]
    <3>1. Append(out[s], cq[s][p]) \in Seq(Responses) BY <2>4, <2>5
    <3>. QED BY <2>1, <2>6, <2>a, <3>1
  <2>8. cq' \in [Shards -> [0 .. CqCap - 1 -> Responses]]
    <3>1. [cq[s] EXCEPT ![p] = [cq[s][p] EXCEPT !.rid = 0]] \in [0 .. CqCap - 1 -> Responses]
      BY <2>2, <2>4, <2>5
    <3>. QED BY <2>1, <2>6, <2>b, <3>1
  <2>9. poll' \in PollCalls
    <3>1. poll.i + 1 \in Nat BY <1>a, Types
    <3>. QED BY <1>b, <2>c, <3>1 DEF PollCalls
  <2>. QED BY <1>a, <2>3, <2>7, <2>8, <2>9 DEF TypeInv, TypeOK, SubmitInv, Segments
<1>15. CASE PollAdvance
  <2>1. rd \in [Shards -> Nat] BY <1>a DEF TypeOK
  <2>2. rd' \in [Shards -> Nat]
    <3>1. rd' = [rd EXCEPT ![poll.s] = rd[poll.s] + poll.i] BY <1>15 DEF PollAdvance
    <3>2. poll.s \in Shards
      <4>1. poll.s \in Nat /\ poll.s < NumShards
        BY <1>a, <1>15, Types DEF PollAdvance, Draining
      <4>. QED BY <4>1, Sizes DEF Shards
    <3>3. rd[poll.s] + poll.i \in Nat BY <1>a, <3>2, Types, ShardTypes, SMTT(60)
    <3>. QED BY <2>1, <3>1, <3>2, <3>3
  <2>3. poll' \in PollCalls
    <3>1. poll' = [poll EXCEPT !.s = poll.s + 1, !.i = 0, !.got = poll.got + poll.i,
                               !.any = TRUE, !.prog = poll.prog \/ poll.i > 0]
      BY <1>15 DEF PollAdvance
    <3>2. /\ poll.s + 1 \in Nat /\ poll.got + poll.i \in Nat
          /\ (poll.prog \/ poll.i > 0) \in BOOLEAN
      BY <1>a, Types
    <3>. QED BY <1>b, <3>1, <3>2 DEF PollCalls
  <2>4. UNCHANGED <<hostVars, submitVars, ringVars, cq, wr, ctaVars, log, out>>
    BY <1>15 DEF PollAdvance
  <2>. QED BY <1>a, <2>2, <2>3, <2>4 DEF TypeInv, TypeOK, SubmitInv, Segments
<1>16. CASE PollRoundEnd
  <2>1. NoPoll \in PollCalls BY Sizes DEF NoPoll, PollCalls
  <2>2. [poll EXCEPT !.pc = "round", !.s = 0,
                     !.stalled = IF poll.prog THEN 0 ELSE poll.stalled + 1] \in PollCalls
    <3>1. (IF poll.prog THEN 0 ELSE poll.stalled + 1) \in Nat BY <1>a, Types
    <3>. QED BY <1>b, <3>1 DEF PollCalls
  <2>3. poll' \in PollCalls BY <1>16, <2>1, <2>2 DEF PollRoundEnd
  <2>. QED BY <1>a, <1>16, <2>3 DEF PollRoundEnd, TypeInv, TypeOK, SubmitInv, Segments
<1>17. CASE CountShard
  <2>. DEFINE s == poll.s
              target == Min({U32(wr[s] - rd[s]), Quantum, poll.max - poll.got})
              slot(i) == cq[s][CqSlot(rd[s] + i)]
  <2>1. s \in Shards
    <3>1. Counting BY <1>17, ZenonT(60) DEF CountShard
    <3>2. poll.s \in Nat BY <1>a, Types
    <3>. QED BY <3>1, <3>2, Sizes DEF Counting, Shards
  <2>2. PICK n \in 0 .. target :
             /\ rd' = [rd EXCEPT ![s] = rd[s] + n]
             /\ out' = [out EXCEPT ![s] = out[s] \o [i \in 1 .. n |-> slot(i - 1)]]
             /\ poll' = [poll EXCEPT !.s = poll.s + 1, !.got = poll.got + n]
    BY <1>17 DEF CountShard
  <2>3. UNCHANGED <<hostVars, submitVars, ringVars, cq, wr, ctaVars, log>>
    BY <1>17 DEF CountShard
  <2>4. n \in Nat
    <3>0. /\ wr[s] \in Nat /\ rd[s] \in Nat
          /\ poll.max \in Nat /\ poll.got \in Nat
      BY <1>a, <2>1, ShardTypes, Types
    <3>1. wr[s] - rd[s] \in Int /\ poll.max - poll.got \in Int BY <3>0
    <3>2. U32(wr[s] - rd[s]) \in Nat BY <3>1, U32Type
    <3>3. target \in Int
      <4>1. U32(wr[s] - rd[s]) \in Int /\ Quantum \in Int /\ poll.max - poll.got \in Int
        BY <3>1, <3>2, Sizes
      <4>2. target \in {U32(wr[s] - rd[s]), Quantum, poll.max - poll.got} BY <4>1, Min3
      <4>. QED BY <4>1, <4>2
    <3>. QED BY <3>3
  <2>5. ASSUME NEW i \in 1 .. n PROVE slot(i - 1) \in Responses
    <3>1. rd[s] + (i - 1) \in Int BY <1>a, <2>1, <2>4, ShardTypes
    <3>2. CqSlot(rd[s] + (i - 1)) \in 0 .. CqCap - 1 BY <3>1, CqSlots
    <3>. QED BY <1>a, <2>1, <3>2, ShardTypes
  <2>6. [i \in 1 .. n |-> slot(i - 1)] \in Seq(Responses)
    <3>. HIDE DEF slot
    <3>. QED BY <2>4, <2>5
  <2>. HIDE DEF s, slot, target
  <2>7. out[s] \o [i \in 1 .. n |-> slot(i - 1)] \in Seq(Responses)
    BY <1>a, <2>1, <2>6, ShardTypes
  <2>8. out \in [Shards -> Seq(Responses)] /\ rd \in [Shards -> Nat] BY <1>a DEF TypeOK
  <2>9. out' \in [Shards -> Seq(Responses)] BY <2>2, <2>7, <2>8
  <2>10. rd' \in [Shards -> Nat]
    <3>1. rd[s] + n \in Nat BY <1>a, <2>1, <2>4, ShardTypes
    <3>2. rd' = [rd EXCEPT ![s] = rd[s] + n] BY <2>2
    <3>. QED BY <2>1, <2>8, <3>1, <3>2
  <2>11. poll' \in PollCalls
    <3>1. poll.s + 1 \in Nat /\ poll.got + n \in Nat BY <1>a, <2>4, Types
    <3>2. poll' = [poll EXCEPT !.s = poll.s + 1, !.got = poll.got + n] BY <2>2
    <3>. QED BY <1>b, <3>1, <3>2 DEF PollCalls
  <2>. QED BY <1>a, <2>3, <2>9, <2>10, <2>11 DEF TypeInv, TypeOK, SubmitInv, Segments
<1>18. CASE CountReturn
  <2>1. poll' \in PollCalls BY <1>18, Sizes DEF CountReturn, NoPoll, PollCalls
  <2>. QED BY <1>a, <1>18, <2>1 DEF CountReturn, TypeInv, TypeOK, SubmitInv, Segments
<1>19. ASSUME NEW s \in Shards, LookAtCq(s) PROVE TypeInv'
  <2>1. space \in [Shards -> Nat] /\ Space(s) \in Nat BY <1>a, BatchType DEF TypeOK
  <2>2. space' = [space EXCEPT ![s] = Space(s)] BY <1>19 DEF LookAtCq
  <2>3. space' \in [Shards -> Nat] BY <2>1, <2>2
  <2>4. kpc' \in [Shards -> {"top", "fetch", "advance", "reserve", "write", "exit"}]
    BY <1>a, <1>19 DEF LookAtCq, TypeOK
  <2>5. UNCHANGED <<hostVars, submitVars, ringVars, cqVars, batch, origin, phase, poll, log, out>>
    BY <1>19 DEF LookAtCq
  <2>. QED BY <1>a, <2>3, <2>4, <2>5 DEF TypeInv, TypeOK, SubmitInv, Segments
<1>20. ASSUME NEW s \in Shards, FindEmpty(s) PROVE TypeInv'
  <2>1. space' \in [Shards -> Nat] BY <1>a, <1>20 DEF FindEmpty, TypeOK
  <2>2. kpc' \in [Shards -> {"top", "fetch", "advance", "reserve", "write", "exit"}]
    BY <1>a, <1>20 DEF FindEmpty, TypeOK
  <2>3. UNCHANGED <<hostVars, submitVars, ringVars, cqVars, batch, origin, phase, poll, log, out>>
    BY <1>20 DEF FindEmpty
  <2>. QED BY <1>a, <2>1, <2>2, <2>3 DEF TypeInv, TypeOK, SubmitInv, Segments
<1>21. ASSUME NEW s \in Shards, Fetch(s) PROVE TypeInv'
  <2>. DEFINE b == [i \in 1 .. BatchLen(s) |-> ring[s][RingSlot(head[s] + i - 1)]]
  <2>1. b \in Seq(Requests)
    <3>1. BatchLen(s) \in Nat BY <1>a, BatchType
    <3>2. ASSUME NEW i \in 1 .. BatchLen(s)
          PROVE  ring[s][RingSlot(head[s] + i - 1)] \in Requests
      <4>1. head[s] + i - 1 \in Int BY <1>a, <3>1, ShardTypes
      <4>2. RingSlot(head[s] + i - 1) \in 0 .. RingSize - 1 BY <4>1, RingSlots
      <4>. QED BY <1>a, <4>2, ShardTypes
    <3>. QED BY <3>1, <3>2
  <2>. HIDE DEF b
  <2>2. batch \in [Shards -> Seq(Requests)] BY <1>a DEF TypeOK
  <2>3. batch' = [batch EXCEPT ![s] = b] BY <1>21 DEF Fetch, b
  <2>4. batch' \in [Shards -> Seq(Requests)] BY <2>1, <2>2, <2>3
  <2>5. origin' \in [Shards -> Nat] /\ space' \in [Shards -> Nat]
    BY <1>a, <1>21 DEF Fetch, TypeOK
  <2>6. kpc' \in [Shards -> {"top", "fetch", "advance", "reserve", "write", "exit"}]
    BY <1>a, <1>21 DEF Fetch, TypeOK
  <2>7. UNCHANGED <<hostVars, submitVars, ringVars, cqVars, phase, poll, log, out>>
    BY <1>21 DEF Fetch
  <2>. QED BY <1>a, <2>4, <2>5, <2>6, <2>7 DEF TypeInv, TypeOK, SubmitInv, Segments
<1>22. ASSUME NEW s \in Shards, AdvanceHead(s) PROVE TypeInv'
  <2>1. head' = [head EXCEPT ![s] = origin[s] + Len(batch[s])] BY <1>22 DEF AdvanceHead
  <2>2. origin[s] + Len(batch[s]) \in Nat BY <1>a, ShardTypes
  <2>3. head \in [Shards -> Nat] BY <1>a DEF TypeOK
  <2>4. head' \in [Shards -> Nat] BY <2>1, <2>2, <2>3
  <2>5. kpc' \in [Shards -> {"top", "fetch", "advance", "reserve", "write", "exit"}]
    BY <1>a, <1>22 DEF AdvanceHead, TypeOK
  <2>6. UNCHANGED <<hostVars, submitVars, ring, tail, cqVars, space, batch, origin, phase, poll, log, out>>
    BY <1>22 DEF AdvanceHead
  <2>. QED BY <1>a, <2>4, <2>5, <2>6 DEF TypeInv, TypeOK, SubmitInv, Segments
<1>23. ASSUME NEW s \in Shards, Reserve(s) PROVE TypeInv'
  <2>1. wr' = [wr EXCEPT ![s] = wr[s] + Len(batch[s])] BY <1>23 DEF Reserve
  <2>2. wr[s] + Len(batch[s]) \in Nat BY <1>a, ShardTypes
  <2>3. wr \in [Shards -> Nat] BY <1>a DEF TypeOK
  <2>4. wr' \in [Shards -> Nat] BY <2>1, <2>2, <2>3
  <2>5. kpc' \in [Shards -> {"top", "fetch", "advance", "reserve", "write", "exit"}]
    BY <1>a, <1>23 DEF Reserve, TypeOK
  <2>6. origin' \in [Shards -> Nat] BY <1>a, <1>23 DEF Reserve, TypeOK
  <2>7. UNCHANGED <<hostVars, submitVars, ringVars, cq, rd, space, batch, phase, poll, log, out>>
    BY <1>23 DEF Reserve
  <2>. QED BY <1>a, <2>4, <2>5, <2>6, <2>7 DEF TypeInv, TypeOK, SubmitInv, Segments
<1>24. ASSUME NEW s \in Shards, NEW i \in Entries, WriteBody(s, i) PROVE TypeInv'
  <2>. DEFINE p == EntrySlot(s, i)
  <2>1. i \in 1 .. Len(batch[s]) BY <1>24 DEF WriteBody
  <2>2. p \in 0 .. CqCap - 1 BY <1>a, EntryType
  <2>3. Answer(s, i) \in Requests BY <1>a, <2>1, EntryType
  <2>4. cq' = [cq EXCEPT ![s] = [cq[s] EXCEPT ![p] = [cq[s][p] EXCEPT !.pay = Answer(s, i)]]]
    BY <1>24 DEF WriteBody
  <2>5. phase' = [phase EXCEPT ![s] = [phase[s] EXCEPT ![i] = "body"]]
    BY <1>24 DEF WriteBody
  <2>. HIDE DEF p
  <2>6. cq[s] \in [0 .. CqCap - 1 -> Responses] BY <1>a, ShardTypes
  <2>7. [cq[s][p] EXCEPT !.pay = Answer(s, i)] \in Responses
    <3>1. cq[s][p] \in Responses BY <2>2, <2>6
    <3>. QED BY <2>3, <3>1 DEF Responses
  <2>8. [cq[s] EXCEPT ![p] = [cq[s][p] EXCEPT !.pay = Answer(s, i)]]
          \in [0 .. CqCap - 1 -> Responses]
    BY <2>2, <2>6, <2>7
  <2>9. cq' \in [Shards -> [0 .. CqCap - 1 -> Responses]]
    <3>1. cq \in [Shards -> [0 .. CqCap - 1 -> Responses]] BY <1>a DEF TypeOK
    <3>. QED BY <2>4, <2>8, <3>1
  <2>10. phase' \in [Shards -> [Entries -> {"todo", "body", "done"}]]
    <3>1. phase \in [Shards -> [Entries -> {"todo", "body", "done"}]] BY <1>a DEF TypeOK
    <3>. QED BY <2>5, <3>1
  <2>11. UNCHANGED <<hostVars, submitVars, ringVars, wr, rd, kpc, space, batch, origin, poll, log, out>>
    BY <1>24 DEF WriteBody
  <2>. QED BY <1>a, <2>9, <2>10, <2>11 DEF TypeInv, TypeOK, SubmitInv, Segments
<1>25. ASSUME NEW s \in Shards, NEW i \in Entries, Commit(s, i) PROVE TypeInv'
  <2>. DEFINE p == EntrySlot(s, i)
  <2>1. i \in 1 .. Len(batch[s]) BY <1>25 DEF Commit
  <2>2. p \in 0 .. CqCap - 1 BY <1>a, EntryType
  <2>3. batch[s][i].id \in Nat BY <1>a, <2>1, EntryType
  <2>4. cq' = [cq EXCEPT ![s] = [cq[s] EXCEPT ![p] = [cq[s][p] EXCEPT !.rid = batch[s][i].id]]]
    BY <1>25 DEF Commit
  <2>5. phase' = [phase EXCEPT ![s] = [phase[s] EXCEPT ![i] = "done"]]
    BY <1>25 DEF Commit
  <2>. HIDE DEF p
  <2>6. cq[s] \in [0 .. CqCap - 1 -> Responses] BY <1>a, ShardTypes
  <2>7. [cq[s][p] EXCEPT !.rid = batch[s][i].id] \in Responses
    <3>1. cq[s][p] \in Responses BY <2>2, <2>6
    <3>. QED BY <2>3, <3>1 DEF Responses
  <2>8. [cq[s] EXCEPT ![p] = [cq[s][p] EXCEPT !.rid = batch[s][i].id]]
          \in [0 .. CqCap - 1 -> Responses]
    BY <2>2, <2>6, <2>7
  <2>9. cq' \in [Shards -> [0 .. CqCap - 1 -> Responses]]
    <3>1. cq \in [Shards -> [0 .. CqCap - 1 -> Responses]] BY <1>a DEF TypeOK
    <3>. QED BY <2>4, <2>8, <3>1
  <2>10. phase' \in [Shards -> [Entries -> {"todo", "body", "done"}]]
    <3>1. phase \in [Shards -> [Entries -> {"todo", "body", "done"}]] BY <1>a DEF TypeOK
    <3>. QED BY <2>5, <3>1
  <2>11. UNCHANGED <<hostVars, submitVars, ringVars, wr, rd, kpc, space, batch, origin, poll, log, out>>
    BY <1>25 DEF Commit
  <2>. QED BY <1>a, <2>9, <2>10, <2>11 DEF TypeInv, TypeOK, SubmitInv, Segments
<1>26. ASSUME NEW s \in Shards, BatchEnd(s) PROVE TypeInv'
  <2>1. kpc' \in [Shards -> {"top", "fetch", "advance", "reserve", "write", "exit"}]
    BY <1>a, <1>26 DEF BatchEnd, TypeOK
  <2>2. NoPhase \in [Entries -> {"todo", "body", "done"}] BY DEF NoPhase
  <2>3. phase' \in [Shards -> [Entries -> {"todo", "body", "done"}]]
    BY <1>a, <1>26, <2>2 DEF BatchEnd, TypeOK
  <2>4. batch' \in [Shards -> Seq(Requests)]
    <3>1. << >> \in Seq(Requests) OBVIOUS
    <3>2. batch' = [batch EXCEPT ![s] = << >>] BY <1>26 DEF BatchEnd
    <3>3. batch \in [Shards -> Seq(Requests)] BY <1>a DEF TypeOK
    <3>. QED BY <3>1, <3>2, <3>3
  <2>5. origin' \in [Shards -> Nat] BY <1>a, <1>26 DEF BatchEnd, TypeOK
  <2>6. UNCHANGED <<hostVars, submitVars, ringVars, cqVars, space, poll, log, out>>
    BY <1>26 DEF BatchEnd
  <2>. QED BY <1>a, <2>1, <2>3, <2>4, <2>5, <2>6 DEF TypeInv, TypeOK, SubmitInv, Segments
<1>27. ASSUME NEW s \in Shards, CtaExit(s) PROVE TypeInv'
  <2>1. kpc' \in [Shards -> {"top", "fetch", "advance", "reserve", "write", "exit"}]
    BY <1>a, <1>27 DEF CtaExit, TypeOK
  <2>2. UNCHANGED <<hostVars, submitVars, ringVars, cqVars, space, batch, origin, phase, poll, log, out>>
    BY <1>27 DEF CtaExit
  <2>. QED BY <1>a, <2>1, <2>2 DEF TypeInv, TypeOK, SubmitInv, Segments
<1>. QED
  BY <1>0, <1>1, <1>2, <1>3, <1>4, <1>5, <1>6, <1>7, <1>8, <1>9, <1>10, <1>11,
     <1>12, <1>13, <1>14, <1>15, <1>16, <1>17, <1>18, <1>19, <1>20, <1>21,
     <1>22, <1>23, <1>24, <1>25, <1>26, <1>27
  DEF Next, ClientStep, SubmitStep, PollStep, CtaStep

\* Type correctness: whatever the clients, the kernel and the host do, in any
\* interleaving, every index, slot and call record stays of its type, and the
\* round-robin cursor stays a shard.
THEOREM TypeCorrect == Spec => []TypeOK
<1>1. TypeInv => TypeOK BY DEF TypeInv
<1>. QED BY <1>1, TypeInit, TypeStep, PTL DEF Spec
-----------------------------------------------------------------------------
(***************************************************************************)
(* Proof that the FAST PATH, used cleanly, is safe: IInv is inductive.     *)
(* Every part of IInv but the call records is a statement about one shard, *)
(* and every step changes one shard or none, so each action has one lemma  *)
(* about the shard it works on, and Frame takes care of the others.        *)
(***************************************************************************)
-----------------------------------------------------------------------------
(* Positions and slots.                                                    *)

\* Positions and counts are natural numbers.
LEMMA PositionTypes ==
  ASSUME TypeOK, NEW s \in Shards
  PROVE  /\ Taken(s) \in Nat /\ Pending(s) \in Nat /\ Base(s) \in Nat
         /\ Base(s) = rd[s] + Taken(s)
         /\ head[s] \in Nat /\ tail[s] \in Nat /\ wr[s] \in Nat /\ rd[s] \in Nat
         /\ origin[s] \in Nat /\ space[s] \in Nat /\ Len(batch[s]) \in Nat
         /\ Len(log[s]) \in Nat /\ Len(out[s]) \in Nat
<1>1. Taken(s) \in Nat BY Types DEF Taken
<1>2. Pending(s) \in Nat BY Types DEF Pending
<1>3. /\ head[s] \in Nat /\ tail[s] \in Nat /\ wr[s] \in Nat /\ rd[s] \in Nat
      /\ origin[s] \in Nat /\ space[s] \in Nat
  BY ShardTypes
<1>4. Len(batch[s]) \in Nat /\ Len(log[s]) \in Nat /\ Len(out[s]) \in Nat
  BY ShardTypes
<1>5. Base(s) \in Nat /\ Base(s) = rd[s] + Taken(s) BY <1>1, <1>3 DEF Base
<1>. QED BY <1>1, <1>2, <1>3, <1>4, <1>5

\* Two positions of one window of CqCap have different slots.
LEMMA CqWindow ==
  ASSUME NEW b \in Int, NEW x \in Int, NEW y \in Int, x # y,
         b <= x, x < b + CqCap, b <= y, y < b + CqCap
  PROVE  CqSlot(x) # CqSlot(y)
<1>1. CASE x < y
  <2>1. y - x < CqCap BY Sizes
  <2>. QED BY <1>1, <2>1, CqSlots
<1>2. CASE y < x
  <2>1. x - y < CqCap BY Sizes
  <2>. QED BY <1>2, <2>1, CqSlots
<1>. QED BY <1>1, <1>2

\* Two positions of one window of RingSize have different slots.
LEMMA RingWindow ==
  ASSUME NEW b \in Int, NEW x \in Int, NEW y \in Int, x # y,
         b <= x, x < b + RingSize, b <= y, y < b + RingSize
  PROVE  RingSlot(x) # RingSlot(y)
<1>1. CASE x < y
  <2>1. y - x < RingSize BY Sizes
  <2>. QED BY <1>1, <2>1, RingSlots
<1>2. CASE y < x
  <2>1. x - y < RingSize BY Sizes
  <2>. QED BY <1>2, <2>1, RingSlots
<1>. QED BY <1>1, <1>2

\* What the 32-bit differences of the code are when the indices are in order.
LEMMA Differences ==
  ASSUME TypeOK, NEW s \in Shards, IndexInv(s)
  PROVE  /\ Used(s) = tail[s] - head[s] /\ Available(s) = tail[s] - head[s]
         /\ Space(s) = CqCap - (wr[s] - rd[s])
         /\ tail[s] - head[s] \in 0 .. RingSize - 1 /\ wr[s] - rd[s] \in 0 .. CqCap
<1>1. tail[s] - head[s] \in 0 .. RingSize - 1 /\ wr[s] - rd[s] \in 0 .. CqCap
  <2>1. /\ head[s] \in Nat /\ tail[s] \in Nat /\ wr[s] \in Nat /\ rd[s] \in Nat
        /\ Pending(s) \in Nat /\ Taken(s) \in Nat /\ Base(s) = rd[s] + Taken(s)
    BY PositionTypes
  <2>2. /\ Base(s) <= wr[s] /\ wr[s] - rd[s] <= CqCap /\ head[s] <= tail[s]
        /\ tail[s] + Pending(s) - head[s] <= RingSize - 1
    BY DEF IndexInv
  <2>. QED BY <2>1, <2>2, Sizes
<1>2. U32(tail[s] - head[s]) = tail[s] - head[s]
  <2>1. tail[s] - head[s] \in 0 .. IdxMod - 1 BY <1>1, Sizes
  <2>. QED BY <2>1, U32Exact
<1>3. U32(wr[s] - rd[s]) = wr[s] - rd[s]
  <2>1. wr[s] - rd[s] \in 0 .. IdxMod - 1 BY <1>1, Sizes
  <2>. QED BY <2>1, U32Exact
<1>4. U32(CqCap - (wr[s] - rd[s])) = CqCap - (wr[s] - rd[s])
  <2>1. CqCap - (wr[s] - rd[s]) \in 0 .. IdxMod - 1 BY <1>1, Sizes
  <2>. QED BY <2>1, U32Exact
<1>. QED BY <1>1, <1>2, <1>3, <1>4 DEF Used, Available, Space

\* Where the batch of a CTA lies.
LEMMA BatchPosition ==
  ASSUME TypeOK, NEW s \in Shards, IndexInv(s), CtaInv(s), NEW i \in 1 .. Len(batch[s])
  PROVE  /\ kpc[s] \in {"advance", "reserve", "write"}
         /\ i \in Entries /\ i \in Nat /\ origin[s] + i \in 1 .. tail[s]
         /\ origin[s] + i - 1 \in Nat
         /\ kpc[s] = "write" => origin[s] + i - 1 < wr[s]
<1>1. kpc[s] \in {"top", "fetch", "advance", "reserve", "write", "exit"} BY ShardTypes
<1>2. kpc[s] \notin {"top", "fetch", "exit"} BY DEF CtaInv
<1>3. kpc[s] \in {"advance", "reserve", "write"} BY <1>1, <1>2
<1>4. Len(batch[s]) \in 1 .. BatchMax BY <1>3 DEF CtaInv
<1>5. i \in Entries /\ i \in Nat /\ i <= Len(batch[s]) /\ i >= 1 BY <1>4, Sizes DEF Entries
<1>6. /\ origin[s] \in Nat /\ tail[s] \in Nat /\ head[s] \in Nat /\ wr[s] \in Nat
      /\ Len(batch[s]) \in Nat
  BY PositionTypes
<1>7. head[s] <= tail[s] /\ wr[s] <= head[s] BY DEF IndexInv
<1>8. origin[s] + Len(batch[s]) <= tail[s]
  <2>1. CASE kpc[s] = "advance" BY <1>6, <1>7, <2>1 DEF CtaInv
  <2>2. CASE kpc[s] = "reserve" BY <1>6, <1>7, <2>2 DEF CtaInv
  <2>3. CASE kpc[s] = "write" BY <1>6, <1>7, <2>3 DEF CtaInv
  <2>. QED BY <1>3, <2>1, <2>2, <2>3
<1>9. kpc[s] = "write" => origin[s] + Len(batch[s]) = wr[s] BY DEF CtaInv
<1>. QED BY <1>3, <1>5, <1>6, <1>8, <1>9, SMTT(60)
-----------------------------------------------------------------------------
(* Steps that leave a shard alone.                                         *)

\* A shard none of whose words, counts and histories changes stays as it was.
LEMMA Frame ==
  ASSUME NEW s \in Shards, ShardInv(s),
         ring'[s] = ring[s], head'[s] = head[s], tail'[s] = tail[s],
         cq'[s] = cq[s], wr'[s] = wr[s], rd'[s] = rd[s], kpc'[s] = kpc[s],
         batch'[s] = batch[s], origin'[s] = origin[s],
         space'[s] = space[s], phase'[s] = phase[s],
         log'[s] = log[s], out'[s] = out[s],
         Taken(s)' = Taken(s), Pending(s)' = Pending(s),
         Pending(s) = 0 \/ Written' = Written,
         TypeOK
  PROVE  ShardInv(s)'
<1>1. IndexInv(s)' BY DEF ShardInv, IndexInv, Base
<1>2. CtaInv(s)' BY DEF ShardInv, CtaInv
<1>3. BatchInv(s)' BY DEF ShardInv, BatchInv, Base
<1>4. RingInv(s)'
  <2>1. \A q \in head'[s] .. tail'[s] - 1 : ring'[s][RingSlot(q)] = log'[s][q + 1]
    BY DEF ShardInv, RingInv
  <2>2. \A j \in 1 .. Pending(s)' : ring'[s][RingSlot(tail'[s] + j - 1)] = Written'[j]
    <3>1. CASE Pending(s) = 0 BY <3>1
    <3>2. CASE Written' = Written BY <3>2 DEF ShardInv, RingInv
    <3>. QED BY <3>1, <3>2
  <2>. QED BY <2>1, <2>2 DEF RingInv
<1>5. LogInv(s)' BY DEF ShardInv, LogInv
<1>6. CqInv(s)' BY DEF ShardInv, CqInv, EntryInv, Committed, Paid, Uncommitted, Settled, Base
<1>7. AnsweredRight(s)' BY DEF ShardInv, AnsweredRight
<1>. QED BY <1>1, <1>2, <1>3, <1>4, <1>5, <1>6, <1>7 DEF ShardInv

\* A step of the CTA of shard s touches no other shard and no call.
LEMMA CtaElsewhere ==
  ASSUME TypeOK, NEW s \in Shards, CtaStep(s)
  PROVE  /\ UNCHANGED <<hostVars, submitVars, poll, log, out, tail, rd, ring>>
         /\ \A t \in Shards : t # s =>
              /\ head'[t] = head[t] /\ cq'[t] = cq[t] /\ wr'[t] = wr[t]
              /\ kpc'[t] = kpc[t] /\ batch'[t] = batch[t] /\ origin'[t] = origin[t]
              /\ space'[t] = space[t] /\ phase'[t] = phase[t]
<1>. USE DEF hostVars, submitVars, ringVars, cqVars, ctaVars
<1>1. CASE LookAtCq(s) BY <1>1 DEF LookAtCq, TypeOK
<1>2. CASE FindEmpty(s) BY <1>2 DEF FindEmpty, TypeOK
<1>3. CASE Fetch(s) BY <1>3 DEF Fetch, TypeOK
<1>4. CASE AdvanceHead(s) BY <1>4 DEF AdvanceHead, TypeOK
<1>5. CASE Reserve(s) BY <1>5 DEF Reserve, TypeOK
<1>6. ASSUME NEW i \in Entries, WriteBody(s, i)
      PROVE  /\ UNCHANGED <<hostVars, submitVars, poll, log, out, tail, rd, ring>>
             /\ \A t \in Shards : t # s =>
                  /\ head'[t] = head[t] /\ cq'[t] = cq[t] /\ wr'[t] = wr[t]
                  /\ kpc'[t] = kpc[t] /\ batch'[t] = batch[t] /\ origin'[t] = origin[t]
                  /\ space'[t] = space[t] /\ phase'[t] = phase[t]
  BY <1>6 DEF WriteBody, TypeOK
<1>7. ASSUME NEW i \in Entries, Commit(s, i)
      PROVE  /\ UNCHANGED <<hostVars, submitVars, poll, log, out, tail, rd, ring>>
             /\ \A t \in Shards : t # s =>
                  /\ head'[t] = head[t] /\ cq'[t] = cq[t] /\ wr'[t] = wr[t]
                  /\ kpc'[t] = kpc[t] /\ batch'[t] = batch[t] /\ origin'[t] = origin[t]
                  /\ space'[t] = space[t] /\ phase'[t] = phase[t]
  BY <1>7 DEF Commit, TypeOK
<1>8. CASE BatchEnd(s) BY <1>8 DEF BatchEnd, TypeOK
<1>9. CASE CtaExit(s) BY <1>9 DEF CtaExit, TypeOK
<1>. QED BY <1>1, <1>2, <1>3, <1>4, <1>5, <1>6, <1>7, <1>8, <1>9 DEF CtaStep

\* Nor does it change where the client is in its calls.
LEMMA CtaCalls ==
  ASSUME UNCHANGED <<submitVars, poll>>, NEW t \in Shards
  PROVE  Taken(t)' = Taken(t) /\ Pending(t)' = Pending(t) /\ Written' = Written
<1>1. UNCHANGED <<nextId, rr, sub, poll>> BY DEF submitVars
<1>. QED BY <1>1 DEF Taken, Pending, Written, SegmentShard
-----------------------------------------------------------------------------
(* The CTA of shard s.                                                     *)

\* The room a CTA sees is room it may use: rd only grows until it reserves.
LEMMA LookAtCqShard ==
  ASSUME TypeOK, NEW s \in Shards, ShardInv(s), LookAtCq(s)
  PROVE  ShardInv(s)'
<1>. USE DEF hostVars, submitVars, ringVars, cqVars, ctaVars
<1>1. /\ UNCHANGED <<ring, head, tail, cq, wr, rd, batch, origin, phase, log, out>>
      /\ kpc[s] = "top" /\ Space(s) > 0
  BY DEF LookAtCq
<1>2. kpc'[s] = "fetch" /\ space'[s] = Space(s) BY DEF LookAtCq, TypeOK
<1>3. Taken(s)' = Taken(s) /\ Pending(s)' = Pending(s) /\ Written' = Written
  BY CtaCalls DEF LookAtCq
<1>4. IndexInv(s)' BY <1>1, <1>3 DEF ShardInv, IndexInv, Base
<1>5. CtaInv(s)'
  <2>1. Space(s) = CqCap - (wr[s] - rd[s]) /\ wr[s] \in Nat /\ rd[s] \in Nat
    BY Differences, PositionTypes DEF ShardInv
  <2>2. wr[s] + Space(s) - rd[s] <= CqCap BY <2>1, Sizes
  <2>. QED BY <1>1, <1>2, <2>2 DEF ShardInv, CtaInv
<1>6. BatchInv(s)' BY <1>1, <1>3 DEF ShardInv, BatchInv, Base
<1>7. RingInv(s)' BY <1>1, <1>3 DEF ShardInv, RingInv
<1>8. LogInv(s)' /\ AnsweredRight(s)' BY <1>1 DEF ShardInv, LogInv, AnsweredRight
<1>9. CqInv(s)'
  BY <1>1, <1>2, <1>3 DEF ShardInv, CqInv, EntryInv, Committed, Paid, Uncommitted, Settled, Base
<1>. QED BY <1>4, <1>5, <1>6, <1>7, <1>8, <1>9 DEF ShardInv

\* Going back to the top forgets the room that was seen.
LEMMA FindEmptyShard ==
  ASSUME TypeOK, NEW s \in Shards, ShardInv(s), FindEmpty(s)
  PROVE  ShardInv(s)'
<1>. USE DEF hostVars, submitVars, ringVars, cqVars, ctaVars
<1>1. /\ UNCHANGED <<ring, head, tail, cq, wr, rd, batch, origin, phase, log, out>>
      /\ kpc[s] = "fetch"
  BY DEF FindEmpty
<1>2. kpc'[s] = "top" BY DEF FindEmpty, TypeOK
<1>3. Taken(s)' = Taken(s) /\ Pending(s)' = Pending(s) /\ Written' = Written
  BY CtaCalls DEF FindEmpty
<1>4. IndexInv(s)' BY <1>1, <1>3 DEF ShardInv, IndexInv, Base
<1>5. CtaInv(s)' BY <1>1, <1>2 DEF ShardInv, CtaInv
<1>6. BatchInv(s)' BY <1>1, <1>3 DEF ShardInv, BatchInv, Base
<1>7. RingInv(s)' BY <1>1, <1>3 DEF ShardInv, RingInv
<1>8. LogInv(s)' /\ AnsweredRight(s)' BY <1>1 DEF ShardInv, LogInv, AnsweredRight
<1>9. CqInv(s)'
  BY <1>1, <1>2, <1>3 DEF ShardInv, CqInv, EntryInv, Committed, Paid, Uncommitted, Settled, Base
<1>. QED BY <1>4, <1>5, <1>6, <1>7, <1>8, <1>9 DEF ShardInv

\* A CTA leaves from the top, where it holds no batch.
LEMMA CtaExitShard ==
  ASSUME TypeOK, NEW s \in Shards, ShardInv(s), CtaExit(s)
  PROVE  ShardInv(s)'
<1>. USE DEF hostVars, submitVars, ringVars, cqVars, ctaVars
<1>1. /\ UNCHANGED <<ring, head, tail, cq, wr, rd, batch, origin, phase, log, out>>
      /\ kpc[s] = "top"
  BY DEF CtaExit
<1>2. kpc'[s] = "exit" BY DEF CtaExit, TypeOK
<1>3. Taken(s)' = Taken(s) /\ Pending(s)' = Pending(s) /\ Written' = Written
  BY CtaCalls DEF CtaExit
<1>4. IndexInv(s)' BY <1>1, <1>3 DEF ShardInv, IndexInv, Base
<1>5. CtaInv(s)' BY <1>1, <1>2 DEF ShardInv, CtaInv
<1>6. BatchInv(s)' BY <1>1, <1>3 DEF ShardInv, BatchInv, Base
<1>7. RingInv(s)' BY <1>1, <1>3 DEF ShardInv, RingInv
<1>8. LogInv(s)' /\ AnsweredRight(s)' BY <1>1 DEF ShardInv, LogInv, AnsweredRight
<1>9. CqInv(s)'
  BY <1>1, <1>2, <1>3 DEF ShardInv, CqInv, EntryInv, Committed, Paid, Uncommitted, Settled, Base
<1>. QED BY <1>4, <1>5, <1>6, <1>7, <1>8, <1>9 DEF ShardInv

\* The batch a CTA copies is the requests at its positions.
LEMMA FetchShard ==
  ASSUME TypeOK, NEW s \in Shards, ShardInv(s), Fetch(s)
  PROVE  ShardInv(s)'
<1>. USE DEF hostVars, submitVars, ringVars, cqVars, ctaVars
<1>1. /\ UNCHANGED <<ring, head, tail, cq, wr, rd, phase, log, out>>
      /\ kpc[s] = "fetch" /\ Available(s) > 0
  BY DEF Fetch
<1>2. kpc'[s] = "advance" /\ origin'[s] = head[s] BY DEF Fetch, TypeOK
<1>3. Taken(s)' = Taken(s) /\ Pending(s)' = Pending(s) /\ Written' = Written
  BY CtaCalls DEF Fetch
<1>4. /\ head[s] \in Nat /\ tail[s] \in Nat /\ wr[s] \in Nat /\ rd[s] \in Nat
      /\ space[s] \in Nat /\ Base(s) \in Nat /\ Available(s) = tail[s] - head[s]
  BY PositionTypes, Differences DEF ShardInv
<1>5. /\ wr[s] = head[s] /\ space[s] > 0 /\ wr[s] + space[s] - rd[s] <= CqCap
      /\ phase[s] = NoPhase
  BY <1>1 DEF ShardInv, CtaInv
<1>6. /\ BatchLen(s) \in 1 .. BatchMax /\ BatchLen(s) <= tail[s] - head[s]
      /\ BatchLen(s) <= space[s]
  <2>1. Available(s) \in Int /\ BatchMax \in Int /\ space[s] \in Int BY <1>4, Sizes
  <2>2. /\ BatchLen(s) \in {Available(s), BatchMax, space[s]}
        /\ BatchLen(s) <= Available(s) /\ BatchLen(s) <= BatchMax /\ BatchLen(s) <= space[s]
    BY <2>1, Min3 DEF BatchLen
  <2>. QED BY <1>1, <1>4, <1>5, <2>1, <2>2, Sizes
<1>7. batch'[s] = [i \in 1 .. BatchLen(s) |-> ring[s][RingSlot(head[s] + i - 1)]]
  BY DEF Fetch, TypeOK
<1>8. Len(batch'[s]) = BatchLen(s) BY <1>6, <1>7
<1>9. IndexInv(s)' BY <1>1, <1>3 DEF ShardInv, IndexInv, Base
<1>10. CtaInv(s)'
  <2>1. head[s] + BatchLen(s) <= tail[s] /\ wr[s] + BatchLen(s) - rd[s] <= CqCap
    <3>1. BatchLen(s) \in Nat BY <1>6, Sizes
    <3>. QED BY <1>4, <1>5, <1>6, <3>1, Sizes
  <2>. QED BY <1>1, <1>2, <1>5, <1>6, <1>8, <2>1 DEF CtaInv
<1>11. BatchInv(s)'
  <2>. SUFFICES ASSUME NEW i \in 1 .. BatchLen(s)
                PROVE  /\ batch'[s][i] = log[s][head[s] + i]
                       /\ Base(s) <= head[s] + i - 1
    BY <1>1, <1>2, <1>3, <1>8 DEF BatchInv, Base
  <2>1. head[s] + i - 1 \in head[s] .. tail[s] - 1 BY <1>4, <1>6
  <2>2. ring[s][RingSlot(head[s] + i - 1)] = log[s][(head[s] + i - 1) + 1]
    BY <2>1 DEF ShardInv, RingInv
  <2>3. (head[s] + i - 1) + 1 = head[s] + i BY <1>4, <1>6
  <2>4. Base(s) <= wr[s] BY DEF ShardInv, IndexInv
  <2>. QED BY <1>4, <1>5, <1>6, <1>7, <2>2, <2>3, <2>4
<1>12. RingInv(s)' BY <1>1, <1>3 DEF ShardInv, RingInv
<1>13. LogInv(s)' /\ AnsweredRight(s)' BY <1>1 DEF ShardInv, LogInv, AnsweredRight
<1>14. CqInv(s)'
  BY <1>1, <1>2, <1>3 DEF ShardInv, CqInv, Committed, Paid, Uncommitted, Settled, Base
<1>. QED BY <1>9, <1>10, <1>11, <1>12, <1>13, <1>14 DEF ShardInv

\* Moving head gives the copied slots back to the host, and no others.
LEMMA AdvanceHeadShard ==
  ASSUME TypeOK, NEW s \in Shards, ShardInv(s), AdvanceHead(s)
  PROVE  ShardInv(s)'
<1>. USE DEF hostVars, submitVars, ringVars, cqVars, ctaVars
<1>1. /\ UNCHANGED <<ring, tail, cq, wr, rd, space, batch, origin, phase, log, out>>
      /\ kpc[s] = "advance"
  BY DEF AdvanceHead
<1>2. kpc'[s] = "reserve" /\ head'[s] = origin[s] + Len(batch[s])
  BY DEF AdvanceHead, TypeOK
<1>3. Taken(s)' = Taken(s) /\ Pending(s)' = Pending(s) /\ Written' = Written
  BY CtaCalls DEF AdvanceHead
<1>4. /\ head[s] \in Nat /\ tail[s] \in Nat /\ wr[s] \in Nat /\ rd[s] \in Nat
      /\ Len(batch[s]) \in Nat /\ Pending(s) \in Nat
  BY PositionTypes
<1>5. /\ origin[s] = wr[s] /\ head[s] = wr[s] /\ head[s] + Len(batch[s]) <= tail[s]
      /\ wr[s] + Len(batch[s]) - rd[s] <= CqCap /\ phase[s] = NoPhase
      /\ Len(batch[s]) \in 1 .. BatchMax
  BY <1>1 DEF ShardInv, CtaInv
<1>6. /\ head'[s] = head[s] + Len(batch[s]) /\ head'[s] \in Nat
      /\ head[s] <= head'[s] /\ head'[s] <= tail[s]
  BY <1>2, <1>4, <1>5
<1>7. IndexInv(s)'
  <2>1. tail[s] + Pending(s) - head'[s] <= RingSize - 1
    <3>1. tail[s] + Pending(s) - head[s] <= RingSize - 1 BY DEF ShardInv, IndexInv
    <3>2. RingSize \in Nat BY Sizes
    <3>. QED BY <1>4, <1>6, <3>1, <3>2, SMTT(60)
  <2>2. wr[s] <= head'[s] BY <1>4, <1>5, <1>6
  <2>. QED BY <1>1, <1>3, <1>6, <2>1, <2>2 DEF ShardInv, IndexInv, Base
<1>8. CtaInv(s)' BY <1>1, <1>2, <1>5 DEF CtaInv
<1>9. BatchInv(s)' BY <1>1, <1>3 DEF ShardInv, BatchInv, Base
<1>10. RingInv(s)'
  <2>1. \A q \in head'[s] .. tail[s] - 1 : q \in head[s] .. tail[s] - 1 BY <1>4, <1>6
  <2>. QED BY <1>1, <1>3, <2>1 DEF ShardInv, RingInv
<1>11. LogInv(s)' /\ AnsweredRight(s)' BY <1>1 DEF ShardInv, LogInv, AnsweredRight
<1>12. CqInv(s)'
  BY <1>1, <1>2, <1>3 DEF ShardInv, CqInv, Committed, Paid, Uncommitted, Settled, Base
<1>. QED BY <1>7, <1>8, <1>9, <1>10, <1>11, <1>12 DEF ShardInv

\* The slots a batch reserves are invalidated ones the host has drained.
LEMMA ReserveShard ==
  ASSUME TypeOK, NEW s \in Shards, ShardInv(s), Reserve(s)
  PROVE  ShardInv(s)'
<1>. USE DEF hostVars, submitVars, ringVars, cqVars, ctaVars
<1>1. /\ UNCHANGED <<ring, head, tail, cq, rd, space, batch, phase, log, out>>
      /\ kpc[s] = "reserve"
  BY DEF Reserve
<1>2. kpc'[s] = "write" /\ wr'[s] = wr[s] + Len(batch[s]) /\ origin'[s] = wr[s]
  BY DEF Reserve, TypeOK
<1>3. Taken(s)' = Taken(s) /\ Pending(s)' = Pending(s) /\ Written' = Written
  BY CtaCalls DEF Reserve
<1>4. /\ head[s] \in Nat /\ wr[s] \in Nat /\ rd[s] \in Nat /\ Len(batch[s]) \in Nat
      /\ Base(s) \in Nat /\ Taken(s) \in Nat /\ Base(s) = rd[s] + Taken(s)
  BY PositionTypes
<1>5. /\ origin[s] = wr[s] /\ head[s] = wr[s] + Len(batch[s])
      /\ wr[s] + Len(batch[s]) - rd[s] <= CqCap /\ phase[s] = NoPhase
      /\ Len(batch[s]) \in 1 .. BatchMax
  BY <1>1 DEF ShardInv, CtaInv
<1>6. Base(s) <= wr[s] BY DEF ShardInv, IndexInv
<1>7. IndexInv(s)'
  <2>1. Base(s) <= wr'[s] /\ wr'[s] - rd[s] <= CqCap /\ wr'[s] <= head[s]
    BY <1>2, <1>4, <1>5, <1>6, Sizes, SMTT(60)
  <2>. QED BY <1>1, <1>3, <2>1 DEF ShardInv, IndexInv, Base
<1>8. CtaInv(s)' BY <1>1, <1>2, <1>5 DEF CtaInv
<1>9. BatchInv(s)' BY <1>1, <1>2, <1>3, <1>5 DEF ShardInv, BatchInv, Base
<1>10. RingInv(s)' BY <1>1, <1>3 DEF ShardInv, RingInv
<1>11. LogInv(s)' /\ AnsweredRight(s)' BY <1>1 DEF ShardInv, LogInv, AnsweredRight
<1>12. \A q \in wr[s] .. Base(s) + CqCap - 1 : Uncommitted(s, q) BY DEF ShardInv, CqInv
<1>13. CqInv(s)'
  <2>1. \A q \in Base(s) .. wr[s] - 1 : Committed(s, q)
    BY <1>1 DEF ShardInv, CqInv, Settled
  <2>2. ASSUME NEW i \in 1 .. Len(batch[s]) PROVE EntryInv(s, i)'
    <3>1. /\ Len(batch[s]) \in 1 .. BatchMax /\ i \in Nat /\ i >= 1 /\ i <= Len(batch[s])
      BY <1>4, <1>5
    <3>2. i \in Entries BY <3>1, Sizes DEF Entries
    <3>3. phase'[s][i] = "todo" BY <1>1, <1>5, <3>2 DEF NoPhase
    <3>4. wr[s] + i - 1 \in wr[s] .. Base(s) + CqCap - 1
      <4>1. CqCap \in Nat /\ wr[s] + Len(batch[s]) - rd[s] <= CqCap BY <1>5, Sizes
      <4>2. i \in Nat /\ i >= 1 /\ i <= Len(batch[s]) BY <3>1
      <4>3. Base(s) >= rd[s] BY <1>4
      <4>4. wr[s] + i <= rd[s] + CqCap BY <1>4, <4>1, <4>2, SMTT(60)
      <4>5. Base(s) + CqCap - 1 \in Int BY <1>4, <4>1
      <4>6. wr[s] + i - 1 \in Int /\ wr[s] <= wr[s] + i - 1 BY <1>4, <4>2
      <4>7. wr[s] + i - 1 <= Base(s) + CqCap - 1 BY <1>4, <4>1, <4>2, <4>3, <4>4, SMTT(60)
      <4>8. wr[s] \in Int BY <1>4
      <4>. QED BY <4>5, <4>6, <4>7, <4>8
    <3>5. Uncommitted(s, wr[s] + i - 1) BY <1>12, <3>4
    <3>6. cq'[s][CqSlot(wr[s] + i - 1)].rid = 0 BY <1>1, <3>5 DEF Uncommitted
    <3>. QED BY <1>2, <3>3, <3>6 DEF EntryInv, Uncommitted
  <2>3. \A q \in wr'[s] .. Base(s) + CqCap - 1 : q \in wr[s] .. Base(s) + CqCap - 1
    BY <1>2, <1>4, Sizes
  <2>. QED BY <1>1, <1>2, <1>3, <1>12, <2>1, <2>2, <2>3
       DEF CqInv, Committed, Paid, Uncommitted, Settled, Base
<1>. QED BY <1>7, <1>8, <1>9, <1>10, <1>11, <1>13 DEF ShardInv

\* A batch that ends has committed every response from Base on.
LEMMA BatchEndShard ==
  ASSUME TypeOK, NEW s \in Shards, ShardInv(s), BatchEnd(s)
  PROVE  ShardInv(s)'
<1>. USE DEF hostVars, submitVars, ringVars, cqVars, ctaVars
<1>1. /\ UNCHANGED <<ring, head, tail, cq, wr, rd, space, log, out>>
      /\ kpc[s] = "write" /\ \A i \in 1 .. Len(batch[s]) : phase[s][i] = "done"
  BY DEF BatchEnd
<1>2. kpc'[s] = "top" /\ batch'[s] = <<>> /\ phase'[s] = NoPhase
  BY DEF BatchEnd, TypeOK
<1>3. Taken(s)' = Taken(s) /\ Pending(s)' = Pending(s) /\ Written' = Written
  BY CtaCalls DEF BatchEnd
<1>4. /\ wr[s] \in Nat /\ Base(s) \in Nat /\ origin[s] \in Nat /\ Len(batch[s]) \in Nat
  BY PositionTypes
<1>5. wr[s] = head[s] /\ origin[s] + Len(batch[s]) = wr[s]
  BY <1>1 DEF ShardInv, CtaInv
<1>6. IndexInv(s)' BY <1>1, <1>3 DEF ShardInv, IndexInv, Base
<1>7. CtaInv(s)' BY <1>1, <1>2, <1>5 DEF CtaInv
<1>8. BatchInv(s)' BY <1>2 DEF BatchInv
<1>9. RingInv(s)' BY <1>1, <1>3 DEF ShardInv, RingInv
<1>10. LogInv(s)' /\ AnsweredRight(s)' BY <1>1 DEF ShardInv, LogInv, AnsweredRight
<1>11. ASSUME NEW q \in Base(s) .. wr[s] - 1 PROVE Committed(s, q)
  <2>1. CASE q < origin[s]
    <3>1. q \in Base(s) .. origin[s] - 1 BY <1>4, <2>1
    <3>. QED BY <1>1, <3>1 DEF ShardInv, CqInv, Settled
  <2>2. CASE origin[s] <= q
    <3>. DEFINE i == q - origin[s] + 1
    <3>1. i \in 1 .. Len(batch[s]) /\ origin[s] + i - 1 = q /\ Base(s) <= q
      BY <1>4, <1>5, <2>2, SMTT(60)
    <3>2. EntryInv(s, i) BY <1>1, <3>1 DEF ShardInv, CqInv
    <3>3. phase[s][i] = "done" BY <1>1, <3>1
    <3>. QED BY <3>1, <3>2, <3>3 DEF EntryInv
  <2>. QED BY <1>4, <2>1, <2>2
<1>12. CqInv(s)'
  <2>1. \A q \in wr[s] .. Base(s) + CqCap - 1 : Uncommitted(s, q) BY DEF ShardInv, CqInv
  <2>. QED BY <1>1, <1>2, <1>3, <1>11, <2>1
       DEF CqInv, Committed, Paid, Uncommitted, Settled, Base
<1>. QED BY <1>6, <1>7, <1>8, <1>9, <1>10, <1>12 DEF ShardInv

\* A write of batch entry i goes to a slot of its own: the response of every
\* other position from Base on stays as it is.
LEMMA EntrySlots ==
  ASSUME TypeOK, NEW s \in Shards, ShardInv(s), kpc[s] = "write",
         NEW i \in 1 .. Len(batch[s]), phase[s][i] # "done"
  PROVE  /\ i \in Entries /\ EntrySlot(s, i) = CqSlot(origin[s] + i - 1)
         /\ EntrySlot(s, i) \in 0 .. CqCap - 1
         /\ batch[s][i].id = log[s][(origin[s] + i - 1) + 1].id
         /\ Uncommitted(s, origin[s] + i - 1)
         /\ origin[s] + i - 1 \in Base(s) .. wr[s] - 1
         /\ \A q \in Base(s) .. Base(s) + CqCap - 1 :
              q # origin[s] + i - 1 => CqSlot(q) # EntrySlot(s, i)
<1>. DEFINE x == origin[s] + i - 1
<1>1. /\ i \in Entries /\ i \in Nat /\ x \in Nat /\ x < wr[s]
  BY BatchPosition DEF ShardInv
<1>2. /\ wr[s] \in Nat /\ rd[s] \in Nat /\ Base(s) \in Nat /\ Taken(s) \in Nat
      /\ Base(s) = rd[s] + Taken(s) /\ origin[s] \in Nat
  BY PositionTypes
<1>3. EntrySlot(s, i) = CqSlot(x) BY DEF EntrySlot
<1>4. CqSlot(x) \in 0 .. CqCap - 1
  <2>1. x \in Int BY <1>1
  <2>. HIDE DEF x
  <2>. QED BY <2>1, CqSlots
<1>5. batch[s][i].id = log[s][x + 1].id
  <2>1. batch[s][i] = log[s][origin[s] + i] BY DEF ShardInv, BatchInv
  <2>2. x + 1 = origin[s] + i BY <1>1, <1>2
  <2>. QED BY <2>1, <2>2
<1>6. Base(s) <= x BY DEF ShardInv, BatchInv
<1>7. Uncommitted(s, x)
  <2>1. EntryInv(s, i) BY DEF ShardInv, CqInv
  <2>. QED BY <2>1 DEF EntryInv
<1>8. wr[s] - rd[s] <= CqCap BY DEF ShardInv, IndexInv
<1>. HIDE DEF x
<1>9. x \in Base(s) .. wr[s] - 1 /\ x < Base(s) + CqCap BY <1>1, <1>2, <1>6, <1>8, Sizes, SMTT(60)
<1>10. ASSUME NEW q \in Base(s) .. Base(s) + CqCap - 1, q # x PROVE CqSlot(q) # CqSlot(x)
  <2>1. /\ q \in Int /\ x \in Int /\ Base(s) \in Int /\ Base(s) <= q /\ q < Base(s) + CqCap
        /\ Base(s) <= x
    BY <1>1, <1>2, <1>6, Sizes, SMTT(60)
  <2>. QED BY <1>9, <1>10, <2>1, CqWindow
<1>. QED BY <1>1, <1>3, <1>4, <1>5, <1>7, <1>9, <1>10 DEF x

\* Whatever is written to the slot of entry i disturbs no other position, so
\* the shard stays right if that one does.
LEMMA EntryUpdate ==
  ASSUME TypeOK, NEW s \in Shards, ShardInv(s), kpc[s] = "write",
         NEW i \in 1 .. Len(batch[s]), phase[s][i] # "done",
         UNCHANGED <<ring, head, tail, wr, rd, kpc, space, batch, origin, log, out>>,
         UNCHANGED <<submitVars, poll>>,
         NEW ph \in {"body", "done"}, phase'[s] = [phase[s] EXCEPT ![i] = ph],
         NEW r, cq'[s] = [cq[s] EXCEPT ![EntrySlot(s, i)] = r],
         r.pay.id = batch[s][i].id,
         ph = "done" => r.rid = batch[s][i].id,
         ph = "body" => r.rid = 0
  PROVE  ShardInv(s)'
<1>. DEFINE x == origin[s] + i - 1
<1>1. Taken(s)' = Taken(s) /\ Pending(s)' = Pending(s) /\ Written' = Written
  BY CtaCalls
<1>2. /\ i \in Entries /\ EntrySlot(s, i) = CqSlot(x)
      /\ EntrySlot(s, i) \in 0 .. CqCap - 1
      /\ batch[s][i].id = log[s][x + 1].id
      /\ x \in Base(s) .. wr[s] - 1
      /\ \A q \in Base(s) .. Base(s) + CqCap - 1 : q # x => CqSlot(q) # EntrySlot(s, i)
  BY EntrySlots
<1>3. phase'[s][i] = ph /\ \A j \in Entries : j # i => phase'[s][j] = phase[s][j]
  BY <1>2, ShardTypes
<1>4. /\ wr[s] \in Nat /\ Base(s) \in Nat /\ rd[s] \in Nat /\ Taken(s) \in Nat
      /\ Base(s) = rd[s] + Taken(s) /\ origin[s] \in Nat /\ Len(batch[s]) \in Nat
  BY PositionTypes
<1>5. /\ Base(s) <= wr[s] /\ wr[s] <= Base(s) + CqCap
      /\ origin[s] + Len(batch[s]) = wr[s]
  <2>1. Base(s) <= wr[s] /\ wr[s] - rd[s] <= CqCap BY DEF ShardInv, IndexInv
  <2>2. origin[s] + Len(batch[s]) = wr[s] BY DEF ShardInv, CtaInv
  <2>. QED BY <1>4, <2>1, <2>2, Sizes, SMTT(60)
<1>6. cq'[s][CqSlot(x)] = r
  BY <1>2, ShardTypes, ZenonT(60)
<1>7. \A q \in Base(s) .. Base(s) + CqCap - 1 :
         q # x => cq'[s][CqSlot(q)] = cq[s][CqSlot(q)]
  <2>1. \A q \in Base(s) .. Base(s) + CqCap - 1 : CqSlot(q) \in 0 .. CqCap - 1
    BY <1>4, CqSlots, Sizes
  <2>. QED BY <1>2, <2>1, ShardTypes
<1>8. \A q \in Base(s) .. Base(s) + CqCap - 1 : q # x =>
         /\ Paid(s, q)' = Paid(s, q) /\ Uncommitted(s, q)' = Uncommitted(s, q)
         /\ Committed(s, q)' = Committed(s, q)
  BY <1>7 DEF Paid, Uncommitted, Committed
<1>9. IndexInv(s)' BY <1>1 DEF ShardInv, IndexInv, Base
<1>10. CtaInv(s)' BY DEF ShardInv, CtaInv
<1>11. RingInv(s)' BY <1>1 DEF ShardInv, RingInv
<1>12. LogInv(s)' /\ AnsweredRight(s)' BY DEF ShardInv, LogInv, AnsweredRight
<1>13. BatchInv(s)'
  <2>. SUFFICES ASSUME NEW j \in 1 .. Len(batch[s])
                PROVE  /\ batch[s][j] = log[s][origin[s] + j]
                       /\ phase'[s][j] # "done" => Base(s) <= origin[s] + j - 1
    BY <1>1 DEF BatchInv, Base
  <2>1. /\ batch[s][j] = log[s][origin[s] + j]
        /\ phase[s][j] # "done" => Base(s) <= origin[s] + j - 1
    BY DEF ShardInv, BatchInv
  <2>2. j \in Entries BY BatchPosition DEF ShardInv
  <2>3. CASE j = i BY <2>1, <2>3
  <2>4. CASE j # i BY <1>3, <2>1, <2>2, <2>4
  <2>. QED BY <2>3, <2>4
<1>14. CqInv(s)'
  <2>1. ASSUME NEW q \in Base(s) .. origin[s] - 1 PROVE Committed(s, q)'
    <3>1. q # x /\ q \in Base(s) .. Base(s) + CqCap - 1
      <4>1. i \in Nat /\ i >= 1 BY <1>4
      <4>2. q \in Int /\ Base(s) <= q /\ q < origin[s] BY <1>4
      <4>3. q < x BY <1>4, <4>1, <4>2
      <4>4. CqCap \in Nat /\ x < wr[s] /\ x \in Int BY <1>2, <1>4, Sizes, SMTT(60)
      <4>. HIDE DEF x
      <4>5. q <= Base(s) + CqCap - 1 BY <1>4, <1>5, <4>2, <4>3, <4>4, SMTT(60)
      <4>6. Base(s) + CqCap - 1 \in Int BY <1>4, <4>4
      <4>. QED BY <1>4, <4>2, <4>3, <4>4, <4>5, <4>6
    <3>2. Committed(s, q) BY DEF ShardInv, CqInv, Settled
    <3>. QED BY <1>8, <3>1, <3>2
  <2>2. ASSUME NEW q \in wr[s] .. Base(s) + CqCap - 1 PROVE Uncommitted(s, q)'
    <3>1. q # x /\ q \in Base(s) .. Base(s) + CqCap - 1
      <4>1. CqCap \in Nat BY Sizes
      <4>2. Base(s) + CqCap - 1 \in Int BY <1>4, <4>1
      <4>3. q \in Int /\ wr[s] <= q /\ q <= Base(s) + CqCap - 1 BY <1>4, <4>2
      <4>4. Base(s) <= q BY <1>4, <1>5, <4>3
      <4>5. x < wr[s] /\ x \in Int BY <1>2, <1>4
      <4>. HIDE DEF x
      <4>. QED BY <1>4, <4>2, <4>3, <4>4, <4>5
    <3>2. Uncommitted(s, q) BY DEF ShardInv, CqInv
    <3>. QED BY <1>8, <3>1, <3>2
  <2>3. ASSUME NEW j \in 1 .. Len(batch[s]) PROVE EntryInv(s, j)'
    <3>. DEFINE q == origin[s] + j - 1
    <3>1. EntryInv(s, j) BY DEF ShardInv, CqInv
    <3>2. j \in Entries /\ j \in Nat BY BatchPosition DEF ShardInv
    <3>3. CASE j = i
      <4>1. cq'[s][CqSlot(x)].pay.id = log[s][x + 1].id BY <1>2, <1>6
      <4>2. ph = "done" => cq'[s][CqSlot(x)].rid = log[s][x + 1].id BY <1>2, <1>6
      <4>3. ph = "body" => cq'[s][CqSlot(x)].rid = 0 BY <1>6
      <4>. QED BY <1>3, <3>3, <4>1, <4>2, <4>3
           DEF EntryInv, Committed, Paid, Uncommitted
    <3>4. CASE j # i
      <4>1. phase'[s][j] = phase[s][j] BY <1>3, <3>2, <3>4
      <4>2. q # x BY <1>2, <1>4, <3>2, <3>4, SMTT(60)
      <4>3. q < wr[s] BY <1>4, <1>5, <3>2
      <4>4. CASE Base(s) <= q
        <5>0. q \in Int BY <1>4, <3>2
        <5>1. q \in Base(s) .. Base(s) + CqCap - 1
          <6>1. CqCap \in Nat BY Sizes
          <6>. HIDE DEF q
          <6>2. Base(s) + CqCap - 1 \in Int BY <1>4, <6>1
          <6>3. q <= Base(s) + CqCap - 1 BY <1>4, <1>5, <4>3, <5>0, <6>1, SMTT(60)
          <6>. QED BY <1>4, <4>4, <5>0, <6>2, <6>3
        <5>2. /\ Paid(s, q)' = Paid(s, q) /\ Uncommitted(s, q)' = Uncommitted(s, q)
              /\ Committed(s, q)' = Committed(s, q)
          BY <1>8, <4>2, <5>1
        <5>. QED BY <1>1, <3>1, <4>1, <5>2 DEF EntryInv, Base
      <4>5. CASE ~(Base(s) <= q)
        <5>1. phase[s][j] = "done" BY <4>5 DEF ShardInv, BatchInv
        <5>. QED BY <1>1, <4>1, <4>5, <5>1 DEF EntryInv, Base
      <4>. QED BY <4>4, <4>5
    <3>. QED BY <3>3, <3>4
  <2>. QED BY <1>1, <2>1, <2>2, <2>3 DEF CqInv, Settled, Base
<1>. QED BY <1>9, <1>10, <1>11, <1>12, <1>13, <1>14 DEF ShardInv

\* The payload of an entry goes to its own slot ...
LEMMA WriteBodyShard ==
  ASSUME TypeOK, NEW s \in Shards, ShardInv(s), NEW i \in Entries, WriteBody(s, i)
  PROVE  ShardInv(s)'
<1>. USE DEF hostVars, submitVars, ringVars, cqVars, ctaVars
<1>. DEFINE p == EntrySlot(s, i)
<1>1. /\ UNCHANGED <<ring, head, tail, wr, rd, kpc, space, batch, origin, log, out>>
      /\ UNCHANGED <<nextId, rr, sub, poll>>
      /\ kpc[s] = "write" /\ i \in 1 .. Len(batch[s]) /\ phase[s][i] = "todo"
  BY DEF WriteBody
<1>2. phase'[s] = [phase[s] EXCEPT ![i] = "body"] BY DEF WriteBody, TypeOK
<1>3. cq'[s] = [cq[s] EXCEPT ![p] = [cq[s][p] EXCEPT !.pay = Answer(s, i)]]
  BY DEF WriteBody, TypeOK
<1>4. cq[s][p] \in Responses
  <2>1. p \in 0 .. CqCap - 1 BY <1>1, EntrySlots
  <2>. QED BY <2>1, ShardTypes
<1>5. cq[s][p].rid = 0 BY <1>1, EntrySlots DEF Uncommitted
<1>. HIDE DEF p
<1>. DEFINE r == [cq[s][p] EXCEPT !.pay = Answer(s, i)]
<1>6. r.pay.id = batch[s][i].id /\ r.rid = 0
  BY <1>4, <1>5 DEF Responses, Answer, Request
<1>. HIDE DEF r
<1>. QED BY <1>1, <1>2, <1>3, <1>6, EntryUpdate DEF p, r

\* ... and its commit signal too.
LEMMA CommitShard ==
  ASSUME TypeOK, NEW s \in Shards, ShardInv(s), NEW i \in Entries, Commit(s, i)
  PROVE  ShardInv(s)'
<1>. USE DEF hostVars, submitVars, ringVars, cqVars, ctaVars
<1>. DEFINE p == EntrySlot(s, i)
<1>1. /\ UNCHANGED <<ring, head, tail, wr, rd, kpc, space, batch, origin, log, out>>
      /\ UNCHANGED <<nextId, rr, sub, poll>>
      /\ kpc[s] = "write" /\ i \in 1 .. Len(batch[s]) /\ phase[s][i] = "body"
  BY DEF Commit
<1>2. phase'[s] = [phase[s] EXCEPT ![i] = "done"] BY DEF Commit, TypeOK
<1>3. cq'[s] = [cq[s] EXCEPT ![p] = [cq[s][p] EXCEPT !.rid = batch[s][i].id]]
  BY DEF Commit, TypeOK
<1>4. cq[s][p] \in Responses
  <2>1. p \in 0 .. CqCap - 1 BY <1>1, EntrySlots
  <2>. QED BY <2>1, ShardTypes
<1>5. cq[s][p].pay.id = batch[s][i].id
  <2>1. EntryInv(s, i) BY <1>1 DEF ShardInv, CqInv
  <2>2. Paid(s, origin[s] + i - 1) BY <1>1, <2>1 DEF EntryInv
  <2>. QED BY <1>1, <2>2, EntrySlots DEF Paid
<1>. HIDE DEF p
<1>. DEFINE r == [cq[s][p] EXCEPT !.rid = batch[s][i].id]
<1>6. r.pay.id = batch[s][i].id /\ r.rid = batch[s][i].id
  BY <1>4, <1>5 DEF Responses
<1>. HIDE DEF r
<1>. QED BY <1>1, <1>2, <1>3, <1>6, EntryUpdate DEF p, r
-----------------------------------------------------------------------------
(* The host's calls.                                                       *)

\* A step of a call that touches no shared word leaves every shard right.
LEMMA CallFrame ==
  ASSUME TypeOK, NEW s \in Shards, ShardInv(s),
         UNCHANGED <<ring, head, tail, cq, wr, rd, kpc, space, batch, origin, phase, log, out>>,
         Taken(s)' = Taken(s),
         (UNCHANGED <<sub, nextId, rr>>) \/ (sub.pc # "publish" /\ sub'.pc # "publish")
  PROVE  ShardInv(s)'
<1>1. CASE UNCHANGED <<sub, nextId, rr>>
  <2>1. Pending(s)' = Pending(s) /\ Written' = Written
    BY <1>1 DEF Pending, Written, SegmentShard
  <2>. QED BY <2>1, Frame
<1>2. CASE sub.pc # "publish" /\ sub'.pc # "publish"
  <2>1. Pending(s)' = 0 /\ Pending(s) = 0 BY <1>2 DEF Pending
  <2>. QED BY <2>1, Frame
<1>. QED BY <1>1, <1>2

\* How many slots a segment may use: what is free, but for the slot that
\* tells a full ring from an empty one.
LEMMA SegmentFits ==
  ASSUME TypeOK, sub.k < Segments, IndexInv(SegmentShard), SegmentLen > 0
  PROVE  /\ SegmentLen \in Nat
         /\ tail[SegmentShard] + SegmentLen - head[SegmentShard] <= RingSize - 1
<1>. DEFINE s == SegmentShard
<1>. s \in Shards BY SegmentShardType
<1>1. /\ tail[s] \in Nat /\ head[s] \in Nat /\ tail[s] - head[s] \in 0 .. RingSize - 1
      /\ Used(s) = tail[s] - head[s]
  BY Differences, PositionTypes
<1>2. SegmentLen \in Int /\ SegmentRoom \in Int /\ SegmentWant \in Int BY SegmentType
<1>3. SegmentLen <= SegmentRoom BY <1>2, Min2 DEF SegmentLen
<1>. DEFINE u == Used(s)
<1>4. u \in 0 .. RingSize - 1 BY <1>1
<1>. HIDE DEF u
<1>5. SegmentRoom <= (RingSize - 1) - u \/ SegmentRoom = 0
  <2>1. CASE sub.via = "slab"
    <3>1. u % RingSize = u BY <1>4, Sizes
    <3>2. SegmentRoom = IF u % RingSize >= RingSize - 1 THEN 0 ELSE 1
      BY <2>1 DEF SegmentRoom, u
    <3>. QED BY <1>4, <3>1, <3>2, Sizes
  <2>2. CASE sub.via # "slab"
    <3>1. (RingSize - 1) - u \in 0 .. IdxMod - 1 BY <1>4, Sizes
    <3>2. SegmentRoom = U32((RingSize - 1) - u) BY <2>2 DEF SegmentRoom, u
    <3>3. SegmentRoom = (RingSize - 1) - u BY <3>1, <3>2, U32Exact
    <3>. QED BY <1>2, <3>3
  <2>. QED BY <2>1, <2>2
<1>6. u = tail[s] - head[s] BY <1>1 DEF u
<1>7. SegmentLen <= (RingSize - 1) - u BY <1>2, <1>3, <1>4, <1>5, Sizes
<1>. HIDE DEF s
<1>8. tail[s] + SegmentLen - head[s] <= RingSize - 1
  BY <1>1, <1>2, <1>6, <1>7, Sizes
<1>. QED BY <1>2, <1>8 DEF s

\* The requests of a segment go to slots behind tail that hold no live one.
LEMMA WriteSegmentShards ==
  ASSUME TypeOK, \A s \in Shards : ShardInv(s), WriteSegment
  PROVE  \A s \in Shards : ShardInv(s)'
<1>. USE DEF hostVars, submitVars, ringVars, cqVars, ctaVars
<1>0. PICK s \in Shards : s = SegmentShard
  BY SegmentShardType DEF WriteSegment, InSegment
<1>. DEFINE n == SegmentLen
            holds(p) == {j \in 0 .. n - 1 : RingSlot(tail[s] + j) = p}
<1>1. /\ sub.pc = "segment" /\ sub.k < Segments /\ n > 0
      /\ sub' = [sub EXCEPT !.pc = "publish", !.n = n]
      /\ nextId' = nextId + n /\ rr' = rr
      /\ UNCHANGED <<head, tail, cq, wr, rd, kpc, space, batch, origin, phase, log, out, poll>>
  BY DEF WriteSegment, InSegment
<1>3. /\ n \in Nat /\ tail[s] + n - head[s] <= RingSize - 1
  BY <1>0, <1>1, SegmentFits DEF ShardInv
<1>4. /\ sub'.pc = "publish" /\ sub'.n = n /\ sub'.op = sub.op /\ sub'.via = sub.via
      /\ sub'.k = sub.k
  <2>1. sub \in SubmitCalls BY DEF TypeOK
  <2>. QED BY <1>1, <2>1 DEF SubmitCalls
<1>5. SegmentShard' = s BY <1>0, <1>1, <1>4 DEF SegmentShard
<1>6. \A t \in Shards : Taken(t)' = Taken(t) /\ Pending(t) = 0 BY <1>1 DEF Taken, Pending
<1>7. ASSUME NEW t \in Shards, t # s PROVE ShardInv(t)'
  <2>1. Pending(t)' = 0 BY <1>5, <1>7 DEF Pending
  <2>2. ring'[t] = ring[t] BY <1>0, <1>7 DEF WriteSegment, TypeOK
  <2>. QED BY <1>1, <1>6, <2>1, <2>2, Frame
<1>8. Pending(s)' = n BY <1>4, <1>5 DEF Pending
<1>9. ring'[s] = [p \in 0 .. RingSize - 1 |->
                   IF holds(p) = {} THEN ring[s][p]
                   ELSE Request(nextId + (CHOOSE j \in holds(p) : TRUE), sub.op)]
  BY <1>0 DEF WriteSegment, TypeOK
<1>10. head[s] \in Nat /\ tail[s] \in Nat /\ head[s] <= tail[s]
  BY PositionTypes DEF ShardInv, IndexInv
<1>11. ASSUME NEW q \in head[s] .. tail[s] - 1
       PROVE  ring'[s][RingSlot(q)] = ring[s][RingSlot(q)]
  <2>1. ASSUME NEW j \in 0 .. n - 1 PROVE RingSlot(tail[s] + j) # RingSlot(q)
    <3>1. /\ q \in Int /\ tail[s] + j \in Int /\ q # tail[s] + j
          /\ head[s] <= q /\ head[s] <= tail[s] + j
      BY <1>3, <1>10
    <3>2. tail[s] + j < head[s] + RingSize /\ q < head[s] + RingSize
      BY <1>3, <1>10, <3>1, Sizes
    <3>3. head[s] \in Int BY <1>10
    <3>. QED BY <3>1, <3>2, <3>3, RingWindow
  <2>2. holds(RingSlot(q)) = {} BY <2>1
  <2>3. RingSlot(q) \in 0 .. RingSize - 1 BY <1>10, RingSlots
  <2>. QED BY <1>9, <2>2, <2>3
<1>12. ASSUME NEW j \in 1 .. n
       PROVE  ring'[s][RingSlot(tail[s] + j - 1)] = Request(nextId + j - 1, sub.op)
  <2>. DEFINE p == RingSlot(tail[s] + j - 1)
  <2>0. j - 1 \in 0 .. n - 1 /\ tail[s] + (j - 1) = tail[s] + j - 1 BY <1>3, <1>10
  <2>1. j - 1 \in holds(p) BY <2>0
  <2>2. ASSUME NEW k \in 0 .. n - 1, k # j - 1 PROVE RingSlot(tail[s] + k) # p
    <3>1. /\ tail[s] + k \in Int /\ tail[s] + j - 1 \in Int
          /\ tail[s] + k # tail[s] + j - 1
          /\ tail[s] <= tail[s] + k /\ tail[s] <= tail[s] + j - 1
      BY <1>3, <1>10, <2>2
    <3>2. n < RingSize BY <1>3, <1>10, Sizes
    <3>3. tail[s] + k < tail[s] + RingSize /\ tail[s] + j - 1 < tail[s] + RingSize
      BY <1>3, <1>10, <3>2, Sizes
    <3>4. tail[s] \in Int BY <1>10
    <3>. QED BY <3>1, <3>3, <3>4, RingWindow
  <2>3. holds(p) = {j - 1} BY <2>1, <2>2
  <2>4. p \in 0 .. RingSize - 1 BY <1>10, <2>0, RingSlots
  <2>5. (CHOOSE k \in holds(p) : TRUE) = j - 1 BY <2>3
  <2>6. nextId + (j - 1) = nextId + j - 1 BY <2>0, Types
  <2>. HIDE DEF p, holds
  <2>7. ring'[s][p] = Request(nextId + (j - 1), sub.op)
    BY <1>9, <2>1, <2>4, <2>5 DEF holds
  <2>. QED BY <2>6, <2>7 DEF p
<1>13. RingInv(s)'
  <2>1. \A q \in head'[s] .. tail'[s] - 1 : ring'[s][RingSlot(q)] = log'[s][q + 1]
    BY <1>1, <1>11 DEF ShardInv, RingInv
  <2>2. ASSUME NEW j \in 1 .. n PROVE Written'[j] = Request(nextId + j - 1, sub.op)
    <3>1. nextId' - sub'.n + j - 1 = nextId + j - 1
      <4>1. nextId \in Nat /\ j \in Int BY <1>3, Types
      <4>. HIDE DEF n
      <4>. QED BY <1>1, <1>3, <1>4, <4>1
    <3>. QED BY <1>4, <3>1 DEF Written
  <2>. QED BY <1>1, <1>8, <1>12, <2>1, <2>2 DEF RingInv
<1>14. IndexInv(s)'
  <2>1. /\ Base(s) <= wr[s] /\ wr[s] - rd[s] <= CqCap
        /\ wr[s] <= head[s] /\ head[s] <= tail[s]
        /\ Len(log[s]) = tail[s] /\ Len(out[s]) = Base(s)
    BY DEF ShardInv, IndexInv
  <2>2. Taken(s)' = Taken(s) BY <1>6
  <2>3. Base(s)' = Base(s) BY <1>1, <2>2 DEF Base
  <2>. QED BY <1>1, <1>3, <1>8, <2>1, <2>3 DEF IndexInv
<1>15. CtaInv(s)' BY <1>1 DEF ShardInv, CtaInv
<1>16. BatchInv(s)' BY <1>1, <1>6 DEF ShardInv, BatchInv, Base
<1>17. LogInv(s)' /\ AnsweredRight(s)' BY <1>1 DEF ShardInv, LogInv, AnsweredRight
<1>18. CqInv(s)'
  BY <1>1, <1>6
  DEF ShardInv, CqInv, EntryInv, Committed, Paid, Uncommitted, Settled, Base
<1>19. ShardInv(s)' BY <1>13, <1>14, <1>15, <1>16, <1>17, <1>18 DEF ShardInv
<1>. QED BY <1>7, <1>19

\* Moving tail makes the written requests live, and logs them.
LEMMA PublishSegmentShards ==
  ASSUME TypeInv, \A s \in Shards : ShardInv(s), PublishSegment
  PROVE  \A s \in Shards : ShardInv(s)'
<1>. USE DEF hostVars, submitVars, ringVars, cqVars, ctaVars
<1>0. PICK s \in Shards : s = SegmentShard
  <2>1. sub.k < Segments BY DEF TypeInv, SubmitInv, PublishSegment
  <2>. QED BY <2>1, SegmentShardType DEF TypeInv
<1>. TypeOK BY DEF TypeInv
<1>n. PICK n \in Nat : n = sub.n BY Types
<1>1. /\ sub.pc = "publish" /\ sub' = [sub EXCEPT !.pc = "segment", !.left = @ - n,
                                                 !.k = @ + 1, !.n = 0]
      /\ UNCHANGED <<nextId, rr, ring, head, cq, wr, rd, kpc, space, batch, origin, phase, out, poll>>
  BY <1>n DEF PublishSegment
<1>2. sub'.pc = "segment"
  <2>1. sub \in SubmitCalls BY DEF TypeOK
  <2>. QED BY <1>1, <2>1 DEF SubmitCalls
<1>3. \A t \in Shards : Taken(t)' = Taken(t) /\ Pending(t)' = 0
  BY <1>1, <1>2 DEF Taken, Pending
<1>4. ASSUME NEW t \in Shards, t # s PROVE ShardInv(t)'
  <2>1. Pending(t) = 0 BY <1>0, <1>4 DEF Pending
  <2>2. tail'[t] = tail[t] /\ log'[t] = log[t]
    BY <1>0, <1>4 DEF PublishSegment, TypeOK
  <2>. QED BY <1>1, <1>3, <2>1, <2>2, Frame
<1>5. tail'[s] = tail[s] + n /\ log'[s] = log[s] \o Written
  BY <1>0, <1>n DEF PublishSegment, TypeOK
<1>6. Pending(s) = n BY <1>0, <1>1, <1>n DEF Pending
<1>7. /\ Written \in Seq(Requests) /\ Len(Written) = n
      /\ \A j \in 1 .. n : Written[j].id > 0
  BY <1>1, <1>n, WrittenType
<1>8. /\ head[s] \in Nat /\ tail[s] \in Nat /\ wr[s] \in Nat /\ rd[s] \in Nat
      /\ Base(s) \in Nat /\ origin[s] \in Nat /\ Len(batch[s]) \in Nat /\ n \in Nat
      /\ log[s] \in Seq(Requests)
  BY PositionTypes, ShardTypes, Types
<1>9. /\ Base(s) <= wr[s] /\ wr[s] - rd[s] <= CqCap
      /\ wr[s] <= head[s] /\ head[s] <= tail[s]
      /\ Len(log[s]) = tail[s] /\ Len(out[s]) = Base(s)
      /\ tail[s] + n - head[s] <= RingSize - 1
  BY <1>6 DEF ShardInv, IndexInv
<1>10. /\ Len(log'[s]) = tail[s] + n
       /\ \A k \in 1 .. tail[s] : log'[s][k] = log[s][k]
       /\ \A j \in 1 .. n : log'[s][tail[s] + j] = Written[j]
  <2>. DEFINE L == log[s]
              W == Written
              T == tail[s]
  <2>1. L \in Seq(Requests) /\ W \in Seq(Requests) /\ Len(L) = T /\ Len(W) = n
        /\ T \in Nat
    BY <1>7, <1>8, <1>9
  <2>2. log'[s] = L \o W BY <1>5
  <2>. HIDE DEF L, W, T
  <2>3. /\ Len(L \o W) = T + n
        /\ \A k \in 1 .. T : (L \o W)[k] = L[k]
        /\ \A j \in 1 .. n : (L \o W)[T + j] = W[j]
    BY <2>1
  <2>. QED BY <2>2, <2>3 DEF L, W, T
<1>11. \A k \in 1 .. tail[s] + n : k \in 1 .. tail[s] \/ \E j \in 1 .. n : k = tail[s] + j
  <2>1. ASSUME NEW k \in 1 .. tail[s] + n, ~(k <= tail[s])
        PROVE  \E j \in 1 .. n : k = tail[s] + j
    <3>1. k \in Int /\ k <= tail[s] + n /\ k > tail[s] BY <1>8, <2>1
    <3>. DEFINE j == k - tail[s]
    <3>2. j \in 1 .. n /\ k = tail[s] + j BY <1>8, <3>1, SMTT(60)
    <3>. HIDE DEF j
    <3>. QED BY <3>2
  <2>2. ASSUME NEW k \in 1 .. tail[s] + n, k <= tail[s] PROVE k \in 1 .. tail[s]
    BY <1>8, <2>2
  <2>. QED BY <2>1, <2>2
<1>12. Base(s)' = Base(s) BY <1>1, <1>3 DEF Base
<1>13. IndexInv(s)'
  <2>1. head[s] <= tail'[s] BY <1>5, <1>8, <1>9
  <2>2. tail'[s] + 0 - head[s] <= RingSize - 1 BY <1>5, <1>8, <1>9
  <2>. QED BY <1>1, <1>3, <1>5, <1>9, <1>10, <1>12, <2>1, <2>2 DEF IndexInv
<1>14. CtaInv(s)'
  <2>1. CtaInv(s) BY DEF ShardInv
  <2>2. kpc[s] = "advance" => head[s] + Len(batch[s]) <= tail'[s]
    BY <1>5, <1>8, <2>1 DEF CtaInv
  <2>. QED BY <1>1, <2>1, <2>2 DEF CtaInv
<1>15. BatchInv(s)'
  <2>1. ASSUME NEW i \in 1 .. Len(batch[s]) PROVE log'[s][origin[s] + i] = log[s][origin[s] + i]
    <3>1. origin[s] + i \in 1 .. tail[s] BY BatchPosition DEF ShardInv
    <3>. QED BY <1>10, <3>1
  <2>. QED BY <1>1, <1>12, <2>1 DEF ShardInv, BatchInv
<1>16. RingInv(s)'
  <2>1. ASSUME NEW q \in head[s] .. tail'[s] - 1
        PROVE  ring[s][RingSlot(q)] = log'[s][q + 1]
    <3>. DEFINE m == tail'[s]
    <3>a. m = tail[s] + n /\ m \in Int BY <1>5, <1>8
    <3>b. q \in Int /\ head[s] <= q /\ q <= m - 1 BY <1>8, <3>a
    <3>. HIDE DEF m
    <3>0. q \in Int /\ head[s] <= q /\ q <= tail[s] + n - 1 BY <1>8, <3>a, <3>b
    <3>1. CASE q < tail[s]
      <4>1. q \in head[s] .. tail[s] - 1 /\ q + 1 \in 1 .. tail[s] BY <1>8, <3>0, <3>1, SMTT(60)
      <4>. QED BY <1>10, <4>1 DEF ShardInv, RingInv
    <3>2. CASE tail[s] <= q
      <4>1. PICK j \in 1 .. n : q + 1 = tail[s] + j /\ q = tail[s] + j - 1
        <5>0. q \in Int /\ tail[s] \in Int /\ n \in Int BY <1>8, <3>0
        <5>1. q - tail[s] + 1 \in 1 .. n BY <3>0, <3>2, <5>0
        <5>2. /\ q + 1 = tail[s] + (q - tail[s] + 1)
              /\ q = tail[s] + (q - tail[s] + 1) - 1
          BY <5>0
        <5>. QED BY <5>1, <5>2
      <4>3. ring[s][RingSlot(tail[s] + j - 1)] = Written[j]
        BY <1>6 DEF ShardInv, RingInv
      <4>. QED BY <1>10, <4>1, <4>3
    <3>. QED BY <1>8, <3>0, <3>1, <3>2
  <2>3. \A j \in 1 .. Pending(s)' : FALSE BY <1>3
  <2>. QED BY <1>1, <2>1, <2>3 DEF RingInv
<1>17. LogInv(s)'
  <2>1. \A k \in 1 .. tail[s] : log[s][k].id > 0 BY <1>9 DEF ShardInv, LogInv
  <2>. QED BY <1>7, <1>10, <1>11, <2>1, SMTT(60) DEF LogInv
<1>18. AnsweredRight(s)'
  <2>1. ASSUME NEW k \in 1 .. Len(out[s]) PROVE k \in 1 .. tail[s]
    BY <1>8, <1>9
  <2>2. \A k \in 1 .. Len(out[s]) : k <= Len(log'[s]) BY <1>8, <1>9, <1>10
  <2>. QED BY <1>1, <1>10, <2>1, <2>2, SMTT(60) DEF ShardInv, AnsweredRight
<1>19. ASSUME NEW q \in Nat, q < wr[s]
       PROVE  Paid(s, q)' = Paid(s, q) /\ Committed(s, q)' = Committed(s, q)
  <2>1. q + 1 \in 1 .. tail[s] BY <1>8, <1>9, <1>19
  <2>. QED BY <1>1, <1>10, <2>1 DEF Paid, Committed
<1>20. CqInv(s)'
  <2>1. ASSUME NEW q \in Base(s) .. Settled(s) - 1 PROVE Committed(s, q)'
    <3>1. Settled(s) <= wr[s] /\ Settled(s) \in Nat
      BY <1>8 DEF Settled, ShardInv, CtaInv
    <3>2. q \in Nat /\ q < wr[s] BY <1>8, <3>1
    <3>. QED BY <1>19, <3>2 DEF ShardInv, CqInv
  <2>2. ASSUME kpc[s] = "write", NEW i \in 1 .. Len(batch[s]) PROVE EntryInv(s, i)'
    <3>1. origin[s] + i - 1 \in Nat /\ origin[s] + i - 1 < wr[s]
      BY <2>2, BatchPosition DEF ShardInv
    <3>2. EntryInv(s, i) BY <2>2 DEF ShardInv, CqInv
    <3>3. /\ Paid(s, origin[s] + i - 1)' = Paid(s, origin[s] + i - 1)
          /\ Committed(s, origin[s] + i - 1)' = Committed(s, origin[s] + i - 1)
      BY <1>1, <1>19, <3>1
    <3>. QED BY <1>1, <1>12, <3>2, <3>3 DEF EntryInv, Uncommitted
  <2>3. Settled(s)' = Settled(s) BY <1>1 DEF Settled
  <2>. QED BY <1>1, <1>12, <2>1, <2>2, <2>3 DEF ShardInv, CqInv, Uncommitted
<1>21. ShardInv(s)' BY <1>13, <1>14, <1>15, <1>16, <1>17, <1>18, <1>20 DEF ShardInv
<1>. QED BY <1>4, <1>21

\* A poll takes no more than the snapshot shows.
LEMMA TargetBound ==
  ASSUME TypeOK, NEW s \in Shards, PollAvail(s) \in Int
  PROVE  PollTarget(s) \in Int /\ PollTarget(s) <= PollAvail(s)
<1>. DEFINE r == poll.max - poll.got
<1>1. r \in Int /\ Quantum \in Int BY Types, Sizes
<1>2. PollTarget(s) = Min({PollAvail(s), Quantum, r}) BY DEF PollTarget
<1>. HIDE DEF r
<1>3. /\ PollTarget(s) \in {PollAvail(s), Quantum, r}
      /\ PollTarget(s) <= PollAvail(s)
  BY <1>1, <1>2, Min3
<1>. QED BY <1>1, <1>3

\* What a draining poll knows of the shard it is at.
LEMMA PollWindow ==
  ASSUME TypeOK, PollInv, Draining, ShardInv(poll.s)
  PROVE  /\ poll.s \in Shards /\ poll.pc = "drain" /\ poll.got < poll.max
         /\ PollAvail(poll.s) = poll.snap[poll.s] - rd[poll.s]
         /\ poll.snap[poll.s] \in Nat /\ poll.snap[poll.s] <= wr[poll.s]
         /\ rd[poll.s] + poll.i <= poll.snap[poll.s]
         /\ Base(poll.s) = rd[poll.s] + poll.i
         /\ PollTarget(poll.s) <= PollAvail(poll.s)
<1>. PICK s \in Shards : s = poll.s
  BY Types, Sizes DEF Draining, Shards
<1>1. poll.pc = "drain" /\ poll.got < poll.max BY DEF Draining
<1>2. /\ poll.snap[s] \in Nat /\ poll.i \in Nat /\ rd[s] \in Nat /\ wr[s] \in Nat
      /\ poll.max \in Nat /\ poll.got \in Nat
  BY Types, PositionTypes
<1>3. rd[s] <= poll.snap[s] /\ poll.snap[s] <= wr[s]
  <2>1. s >= poll.s BY Types
  <2>. QED BY <1>1, <2>1 DEF PollInv
<1>4. wr[s] - rd[s] \in 0 .. CqCap BY Differences DEF ShardInv
<1>5. PollAvail(s) = poll.snap[s] - rd[s]
  <2>1. poll.snap[s] - rd[s] \in 0 .. IdxMod - 1 BY <1>2, <1>3, <1>4, Sizes
  <2>. QED BY <2>1, U32Exact DEF PollAvail
<1>6. rd[s] + poll.i <= poll.snap[s]
  <2>1. CASE poll.i > 0 BY <1>1, <2>1 DEF PollInv
  <2>2. CASE poll.i = 0 BY <1>2, <1>3, <2>2
  <2>. QED BY <1>2, <2>1, <2>2
<1>7. Base(s) = rd[s] + poll.i BY <1>1 DEF Base, Taken
<1>8. PollTarget(s) <= PollAvail(s)
  <2>1. PollAvail(s) \in Int BY <1>2, <1>5
  <2>. QED BY <2>1, TargetBound
<1>. QED BY <1>1, <1>2, <1>3, <1>5, <1>6, <1>7, <1>8

\* Taking a committed response moves the window of the CQ by one position:
\* its slot, invalidated, is that of the position a lap later.
LEMMA PollTakeShards ==
  ASSUME TypeOK, PollInv, \A s \in Shards : ShardInv(s), PollTake
  PROVE  \A s \in Shards : ShardInv(s)'
<1>. USE DEF hostVars, submitVars, ringVars, cqVars, ctaVars
<1>0. PICK s \in Shards : s = poll.s
  BY Types, Sizes DEF PollTake, Draining, Shards
<1>1. /\ UNCHANGED <<ring, head, tail, wr, rd, kpc, space, batch, origin, phase, log>>
      /\ UNCHANGED <<nextId, rr, sub>>
      /\ poll' = [poll EXCEPT !.i = @ + 1] /\ Draining /\ poll.i < PollTarget(s)
      /\ cq[s][CqSlot(rd[s] + poll.i)].rid # 0
  BY <1>0 DEF PollTake, ReadSlot
<1>2. /\ poll'.pc = poll.pc /\ poll'.s = s /\ poll'.i = poll.i + 1
  <2>1. poll \in PollCalls BY DEF TypeOK
  <2>. QED BY <1>0, <1>1, <2>1 DEF PollCalls
<1>3. \A t \in Shards : Pending(t)' = Pending(t) /\ Written' = Written
  BY <1>1 DEF Pending, Written, SegmentShard
<1>4. ASSUME NEW t \in Shards, t # s PROVE ShardInv(t)'
  <2>1. Taken(t) = 0 /\ Taken(t)' = 0 BY <1>0, <1>2, <1>4 DEF Taken
  <2>2. out'[t] = out[t] /\ cq'[t] = cq[t] BY <1>0, <1>4 DEF PollTake, TypeOK
  <2>. QED BY <1>1, <1>3, <2>1, <2>2, Frame
<1>. PICK b \in Nat : b = Base(s) BY PositionTypes
<1>5. /\ poll.pc = "drain" /\ b = rd[s] + poll.i /\ b < wr[s]
      /\ poll.i \in Nat /\ rd[s] \in Nat /\ wr[s] \in Nat
  <2>1. /\ poll.pc = "drain" /\ PollAvail(s) = poll.snap[s] - rd[s]
        /\ poll.snap[s] \in Nat /\ poll.snap[s] <= wr[s] /\ b = rd[s] + poll.i
        /\ PollTarget(s) <= PollAvail(s)
    BY <1>0, <1>1, PollWindow
  <2>2. poll.i \in Nat /\ rd[s] \in Nat /\ wr[s] \in Nat BY Types, PositionTypes
  <2>3. PollTarget(s) \in Int
    <3>1. PollAvail(s) \in Int BY <2>1, <2>2
    <3>. QED BY <3>1, TargetBound
  <2>. QED BY <1>1, <2>1, <2>2, <2>3
<1>6. Base(s)' = b + 1
  <2>1. Taken(s)' = poll.i + 1 BY <1>2, <1>5 DEF Taken
  <2>. QED BY <1>1, <1>5, <2>1 DEF Base
<1>. DEFINE v == cq[s][CqSlot(b)]
<1>7. /\ v.rid # 0 /\ v \in Responses /\ CqSlot(b) \in 0 .. CqCap - 1
  <2>1. CqSlot(b) \in 0 .. CqCap - 1 BY CqSlots
  <2>. QED BY <1>1, <1>5, <2>1, ShardTypes
<1>8. /\ out'[s] = Append(out[s], v)
      /\ cq'[s] = [cq[s] EXCEPT ![CqSlot(b)] = [v EXCEPT !.rid = 0]]
  BY <1>0, <1>5 DEF PollTake, ReadSlot, TypeOK
<1>. HIDE DEF v
<1>9. /\ Base(s) <= wr[s] /\ wr[s] - rd[s] <= CqCap
      /\ wr[s] <= head[s] /\ head[s] <= tail[s]
      /\ Len(log[s]) = tail[s] /\ Len(out[s]) = b
      /\ head[s] \in Nat /\ tail[s] \in Nat /\ origin[s] \in Nat
      /\ Len(batch[s]) \in Nat
      /\ tail[s] + Pending(s) - head[s] <= RingSize - 1
  BY PositionTypes DEF ShardInv, IndexInv
<1>10. Committed(s, b)
  <2>1. CASE b < Settled(s)
    <3>1. Settled(s) \in Nat BY <1>5, <1>9 DEF Settled
    <3>2. b \in Base(s) .. Settled(s) - 1 BY <2>1, <3>1
    <3>. QED BY <3>2 DEF ShardInv, CqInv
  <2>2. CASE ~(b < Settled(s))
    <3>1. kpc[s] = "write" /\ origin[s] <= b BY <1>5, <1>9, <2>2 DEF Settled
    <3>2. origin[s] + Len(batch[s]) = wr[s] BY <3>1 DEF ShardInv, CtaInv
    <3>3. PICK i \in 1 .. Len(batch[s]) : origin[s] + i - 1 = b
      <4>1. /\ b - origin[s] + 1 \in 1 .. Len(batch[s])
            /\ origin[s] + (b - origin[s] + 1) - 1 = b
        BY <1>5, <1>9, <3>1, <3>2, SMTT(60)
      <4>. QED BY <4>1
    <3>4. EntryInv(s, i) BY <3>1 DEF ShardInv, CqInv
    <3>5. phase[s][i] = "done" BY <1>7, <3>3, <3>4 DEF EntryInv, Uncommitted, v
    <3>. QED BY <3>3, <3>4, <3>5 DEF EntryInv
  <2>. QED BY <2>1, <2>2
<1>11. IndexInv(s)'
  <2>1. b + 1 <= wr[s] BY <1>5
  <2>2. Len(out'[s]) = b + 1
    <3>1. out[s] \in Seq(Responses) BY ShardTypes
    <3>. QED BY <1>7, <1>8, <1>9, <3>1
  <2>. QED BY <1>1, <1>3, <1>6, <1>9, <2>1, <2>2 DEF IndexInv
<1>12. CtaInv(s)' BY <1>1 DEF ShardInv, CtaInv
<1>13. ASSUME NEW i \in 1 .. Len(batch[s]), phase[s][i] # "done"
       PROVE  b + 1 <= origin[s] + i - 1
  <2>1. kpc[s] = "write" => Uncommitted(s, origin[s] + i - 1)
    BY <1>13 DEF ShardInv, CqInv, EntryInv
  <2>2. kpc[s] = "write" => b # origin[s] + i - 1 BY <1>7, <2>1 DEF Uncommitted, v
  <2>3. b <= origin[s] + i - 1 BY <1>13 DEF ShardInv, BatchInv
  <2>4. kpc[s] \in {"advance", "reserve", "write"} /\ i \in Nat /\ i >= 1
        /\ origin[s] + i - 1 \in Nat
    BY BatchPosition DEF ShardInv
  <2>5. kpc[s] # "write" => origin[s] = wr[s] BY <2>4 DEF ShardInv, CtaInv
  <2>6. CASE kpc[s] = "write" BY <2>2, <2>3, <2>4, <2>6
  <2>7. CASE kpc[s] # "write" BY <1>5, <2>4, <2>5, <2>7
  <2>. QED BY <2>6, <2>7
<1>14. BatchInv(s)' BY <1>1, <1>6, <1>13 DEF ShardInv, BatchInv
<1>15. RingInv(s)' BY <1>1, <1>3 DEF ShardInv, RingInv
<1>16. LogInv(s)' BY <1>1 DEF ShardInv, LogInv
<1>17. AnsweredRight(s)'
  <2>1. out[s] \in Seq(Responses) BY ShardTypes
  <2>2. \A k \in 1 .. b : out'[s][k] = out[s][k] BY <1>7, <1>8, <1>9, <2>1
  <2>3. out'[s][b + 1] = v BY <1>7, <1>8, <1>9, <2>1
  <2>4. b + 1 <= Len(log[s]) BY <1>5, <1>9
  <2>5. v.rid = log[s][b + 1].id /\ v.pay.id = log[s][b + 1].id
    BY <1>10 DEF Committed, Paid, v
  <2>6. Len(out'[s]) = b + 1 BY <1>7, <1>8, <1>9, <2>1
  <2>7. ASSUME NEW k \in 1 .. b + 1
        PROVE  /\ k <= Len(log[s])
               /\ out'[s][k].rid = log[s][k].id /\ out'[s][k].pay.id = log[s][k].id
    <3>1. CASE k \in 1 .. b BY <1>9, <2>2, <3>1, SMTT(60) DEF ShardInv, AnsweredRight
    <3>2. CASE k = b + 1 BY <2>3, <2>4, <2>5, <3>2
    <3>. QED BY <3>1, <3>2
  <2>. QED BY <1>1, <2>6, <2>7 DEF AnsweredRight
<1>18. ASSUME NEW q \in Int, b < q, q < b + CqCap
       PROVE  /\ Committed(s, q)' = Committed(s, q) /\ Paid(s, q)' = Paid(s, q)
              /\ Uncommitted(s, q)' = Uncommitted(s, q)
  <2>1. CqSlot(q) # CqSlot(b)
    <3>1. b # q /\ b <= q /\ b <= b /\ b < b + CqCap BY <1>18, Sizes
    <3>. QED BY <1>18, <3>1, CqWindow
  <2>2. CqSlot(q) \in 0 .. CqCap - 1 BY CqSlots
  <2>3. cq'[s][CqSlot(q)] = cq[s][CqSlot(q)] BY <1>8, <2>1, <2>2, ShardTypes
  <2>. QED BY <1>1, <2>3 DEF Committed, Paid, Uncommitted
<1>19. CqInv(s)'
  <2>0. wr[s] <= b + CqCap BY <1>5, <1>9, Sizes, SMTT(60)
  <2>1. ASSUME NEW q \in (b + 1) .. Settled(s) - 1 PROVE Committed(s, q)'
    <3>1. Settled(s) <= wr[s] /\ Settled(s) \in Nat
      BY <1>5, <1>9, SMTT(60) DEF Settled, ShardInv, CtaInv
    <3>2. q \in Int /\ b < q /\ q < b + CqCap BY <1>5, <2>0, <3>1, Sizes
    <3>3. q \in Base(s) .. Settled(s) - 1 BY <3>1, <3>2
    <3>4. Committed(s, q) BY <3>3 DEF ShardInv, CqInv
    <3>. QED BY <1>18, <3>2, <3>4
  <2>2. ASSUME kpc[s] = "write", NEW i \in 1 .. Len(batch[s]) PROVE EntryInv(s, i)'
    <3>1. EntryInv(s, i) BY <2>2 DEF ShardInv, CqInv
    <3>2. PICK q \in Nat : q = origin[s] + i - 1 /\ q < wr[s]
      BY <2>2, BatchPosition DEF ShardInv
    <3>3. CASE b < q
      <4>1. q < b + CqCap BY <1>5, <2>0, <3>2, Sizes
      <4>2. /\ Committed(s, q)' = Committed(s, q) /\ Paid(s, q)' = Paid(s, q)
            /\ Uncommitted(s, q)' = Uncommitted(s, q)
        BY <1>18, <3>3, <4>1
      <4>3. Base(s) <= q BY <3>3
      <4>. QED BY <1>1, <3>1, <3>2, <4>2, <4>3 DEF EntryInv
    <3>4. CASE ~(b < q)
      <4>1. phase[s][i] = "done" BY <1>13, <3>2, <3>4
      <4>2. ~(Base(s)' <= q) BY <1>6, <3>4
      <4>. QED BY <1>1, <3>2, <4>1, <4>2 DEF EntryInv
    <3>. QED BY <3>3, <3>4
  <2>3. ASSUME NEW q \in wr[s] .. (b + 1) + CqCap - 1 PROVE Uncommitted(s, q)'
    <3>0. q \in Int /\ wr[s] <= q /\ q <= b + CqCap BY <1>5, Sizes
    <3>1. CASE q < b + CqCap
      <4>1. b < q BY <1>5, <3>0
      <4>2. q \in wr[s] .. Base(s) + CqCap - 1 BY <1>5, <3>0, <3>1, Sizes
      <4>3. Uncommitted(s, q) BY <4>2 DEF ShardInv, CqInv
      <4>. QED BY <1>18, <3>0, <3>1, <4>1, <4>3
    <3>2. CASE q = b + CqCap
      <4>1. CqSlot(q) = CqSlot(b) BY <3>2, CqSlots
      <4>2. cq'[s][CqSlot(b)] = [v EXCEPT !.rid = 0] BY <1>7, <1>8, ShardTypes
      <4>3. cq'[s][CqSlot(b)].rid = 0 BY <1>7, <4>2 DEF Responses
      <4>. QED BY <4>1, <4>3 DEF Uncommitted
    <3>3. b + CqCap \in Int BY Sizes
    <3>. QED BY <3>0, <3>1, <3>2, <3>3
  <2>4. Settled(s)' = Settled(s) BY <1>1 DEF Settled
  <2>. QED BY <1>1, <1>6, <2>1, <2>2, <2>3, <2>4 DEF CqInv
<1>20. ShardInv(s)' BY <1>11, <1>12, <1>14, <1>15, <1>16, <1>17, <1>19 DEF ShardInv
<1>. QED BY <1>4, <1>20

\* Storing read_idx moves no position: Base already counted what was taken.
LEMMA PollAdvanceShards ==
  ASSUME TypeOK, PollInv, \A s \in Shards : ShardInv(s), PollAdvance
  PROVE  \A s \in Shards : ShardInv(s)'
<1>. USE DEF hostVars, submitVars, ringVars, cqVars, ctaVars
<1>0. PICK s \in Shards : s = poll.s
  BY Types, Sizes DEF PollAdvance, Draining, Shards
<1>1. /\ UNCHANGED <<ring, head, tail, cq, wr, kpc, space, batch, origin, phase, log, out>>
      /\ UNCHANGED <<nextId, rr, sub>> /\ Draining
  BY DEF PollAdvance
<1>2. poll'.s = s + 1 /\ poll'.i = 0
  <2>1. poll \in PollCalls BY DEF TypeOK
  <2>. QED BY <1>0, <2>1 DEF PollAdvance, PollCalls
<1>3. \A t \in Shards : Pending(t)' = Pending(t) /\ Written' = Written
  BY <1>1 DEF Pending, Written, SegmentShard
<1>4. \A t \in Shards : Taken(t)' = 0 BY <1>2 DEF Taken
<1>5. ASSUME NEW t \in Shards, t # s PROVE ShardInv(t)'
  <2>1. Taken(t) = 0 BY <1>0, <1>5 DEF Taken
  <2>2. rd'[t] = rd[t] BY <1>0, <1>5 DEF PollAdvance, TypeOK
  <2>. QED BY <1>1, <1>3, <1>4, <2>1, <2>2, Frame
<1>6. /\ rd[s] \in Nat /\ wr[s] \in Nat /\ poll.i \in Nat /\ space[s] \in Nat
      /\ Len(batch[s]) \in Nat
  BY PositionTypes, Types
<1>7. rd'[s] = rd[s] + poll.i BY <1>0 DEF PollAdvance, TypeOK
<1>8. Base(s)' = Base(s)
  <2>1. Base(s) = rd[s] + poll.i BY <1>0, <1>1, PollWindow
  <2>2. Base(s)' = rd'[s] + 0 BY <1>4 DEF Base
  <2>. QED BY <1>6, <1>7, <2>1, <2>2
<1>9. IndexInv(s)'
  <2>1. wr[s] - rd[s] <= CqCap BY DEF ShardInv, IndexInv
  <2>2. wr[s] - rd'[s] <= CqCap BY <1>6, <1>7, <2>1, Sizes
  <2>. QED BY <1>1, <1>3, <1>8, <2>2 DEF ShardInv, IndexInv
<1>10. CtaInv(s)'
  <2>1. CtaInv(s) BY DEF ShardInv
  <2>2. kpc[s] = "fetch" => wr[s] + space[s] - rd'[s] <= CqCap
    BY <1>6, <1>7, <2>1, Sizes, SMTT(60) DEF CtaInv
  <2>3. kpc[s] \in {"advance", "reserve"} => wr[s] + Len(batch[s]) - rd'[s] <= CqCap
    BY <1>6, <1>7, <2>1, Sizes, SMTT(60) DEF CtaInv
  <2>. QED BY <1>1, <2>1, <2>2, <2>3 DEF CtaInv
<1>11. BatchInv(s)' BY <1>1, <1>8 DEF ShardInv, BatchInv
<1>12. RingInv(s)' BY <1>1, <1>3 DEF ShardInv, RingInv
<1>13. LogInv(s)' /\ AnsweredRight(s)' BY <1>1 DEF ShardInv, LogInv, AnsweredRight
<1>14. CqInv(s)'
  BY <1>1, <1>8 DEF ShardInv, CqInv, EntryInv, Committed, Paid, Uncommitted, Settled
<1>15. ShardInv(s)' BY <1>9, <1>10, <1>11, <1>12, <1>13, <1>14 DEF ShardInv
<1>. QED BY <1>5, <1>15

\* A poll begins, and ends its round, with nothing taken and not stored.
LEMMA PollQuiet ==
  ASSUME TypeOK, PollInv, \A s \in Shards : ShardInv(s),
         \/ \E m \in PollSizes : PollBegin(m)
         \/ PollRound \/ PollSkipShard \/ PollRoundEnd
  PROVE  /\ \A s \in Shards : Taken(s)' = 0 /\ Taken(s) = 0
         /\ UNCHANGED <<hostVars, submitVars, ringVars, cqVars, ctaVars, log, out>>
         /\ poll'.pc \in {"idle", "round", "drain"}
         /\ poll'.pc = "drain" => poll'.i = 0
<1>. poll \in PollCalls BY DEF TypeOK
<1>1. ASSUME NEW m \in PollSizes, PollBegin(m)
      PROVE  /\ \A s \in Shards : Taken(s)' = 0 /\ Taken(s) = 0
             /\ UNCHANGED <<hostVars, submitVars, ringVars, cqVars, ctaVars, log, out>>
             /\ poll'.pc \in {"idle", "round", "drain"}
             /\ poll'.pc = "drain" => poll'.i = 0
  BY <1>1 DEF PollBegin, Taken, NoPoll
<1>2. CASE PollRound BY <1>2 DEF PollRound, Taken, PollCalls
<1>3. CASE PollSkipShard
  <2>1. /\ Draining /\ PollAvail(poll.s) = 0 /\ poll' = [poll EXCEPT !.s = @ + 1]
        /\ UNCHANGED <<hostVars, submitVars, ringVars, cqVars, ctaVars, log, out>>
    BY <1>3 DEF PollSkipShard
  <2>0. poll.s \in Shards BY <2>1, Types, Sizes DEF Draining, Shards
  <2>2. /\ poll.snap[poll.s] \in Nat /\ poll.snap[poll.s] - rd[poll.s] = 0
        /\ rd[poll.s] + poll.i <= poll.snap[poll.s]
        /\ rd[poll.s] \in Nat /\ poll.i \in Nat
    BY <2>0, <2>1, PollWindow, Types, PositionTypes
  <2>3. poll.i = 0 BY <2>2
  <2>4. poll'.i = 0 /\ poll'.pc = "drain" BY <2>1, <2>3 DEF PollCalls, Draining
  <2>. QED BY <2>1, <2>3, <2>4 DEF Taken
<1>4. CASE PollRoundEnd
  <2>1. poll.pc = "drain" /\ ~Draining BY <1>4 DEF PollRoundEnd
  <2>2. poll.i = 0
    <3>1. ~(poll.i > 0) BY <2>1 DEF PollInv, Draining
    <3>. QED BY <3>1, Types
  <2>3. poll'.pc \in {"idle", "round"} BY <1>4 DEF PollRoundEnd, NoPoll, PollCalls
  <2>. QED BY <1>4, <2>2, <2>3 DEF PollRoundEnd, Taken
<1>. QED BY <1>1, <1>2, <1>3, <1>4
-----------------------------------------------------------------------------
(* Start and stop.                                                         *)

\* What an idle shard of a kernel that is not running looks like.
LEMMA StartShards ==
  ASSUME TypeOK, LifeInv, \A s \in Shards : ShardInv(s), Start
  PROVE  (\A s \in Shards : ShardInv(s)') /\ LifeInv'
<1>. USE DEF submitVars, ctaVars
<1>1. /\ sub.pc = "idle" /\ poll.pc = "idle" /\ grids = 0 /\ AllExited
      /\ grids' = 1 /\ running' = TRUE
      /\ UNCHANGED <<sub, poll, ring, kpc, space, batch, origin, phase>>
  BY DEF Start, LifeInv
<1>2. ASSUME NEW s \in Shards PROVE ShardInv(s)'
  <2>1. /\ wr'[s] = 0 /\ rd'[s] = 0 /\ cq'[s] = EmptyCq /\ head'[s] = 0 /\ tail'[s] = 0
        /\ log'[s] = <<>> /\ out'[s] = <<>>
    BY DEF Start, PerShard
  <2>2. Taken(s)' = 0 /\ Pending(s)' = 0 BY <1>1 DEF Taken, Pending
  <2>3. Base(s)' = 0 BY <2>1, <2>2 DEF Base
  <2>4. kpc'[s] = "exit" /\ batch'[s] = <<>> /\ phase'[s] = NoPhase
    BY <1>1 DEF AllExited, ShardInv, CtaInv
  <2>5. IndexInv(s)' BY <2>1, <2>2, <2>3, Sizes DEF IndexInv
  <2>6. CtaInv(s)' BY <2>1, <2>4 DEF CtaInv
  <2>7. BatchInv(s)' BY <2>4 DEF BatchInv
  <2>8. RingInv(s)' BY <2>1, <2>2 DEF RingInv
  <2>9. LogInv(s)' /\ AnsweredRight(s)' BY <2>1 DEF LogInv, AnsweredRight
  <2>10. CqInv(s)'
    <3>1. Settled(s)' = 0 BY <2>1, <2>4 DEF Settled
    <3>2. ASSUME NEW q \in 0 .. 0 + CqCap - 1 PROVE Uncommitted(s, q)'
      <4>1. CqSlot(q) \in 0 .. CqCap - 1 BY CqSlots, Sizes
      <4>2. EmptyCq[CqSlot(q)].rid = 0 BY <4>1 DEF EmptyCq, Zeroed
      <4>. QED BY <2>1, <4>2 DEF Uncommitted
    <3>. QED BY <2>1, <2>3, <2>4, <3>1, <3>2 DEF CqInv
  <2>. QED BY <2>5, <2>6, <2>7, <2>8, <2>9, <2>10 DEF ShardInv
<1>3. LifeInv' BY <1>1 DEF LifeInv, AllExited
<1>. QED BY <1>2, <1>3

\* A launched grid finds the shards as the CTAs before it left them.
LEMMA GridLaunchShards ==
  ASSUME TypeOK, LifeInv, \A s \in Shards : ShardInv(s), GridLaunch
  PROVE  (\A s \in Shards : ShardInv(s)') /\ LifeInv'
<1>. USE DEF submitVars, ringVars, cqVars
<1>1. /\ grids = 1 /\ AllExited /\ grids' = 0 /\ running' = running
      /\ UNCHANGED <<nextId, rr, sub, ring, head, tail, cq, wr, rd, space, batch, origin,
                     phase, poll, log, out>>
  BY DEF GridLaunch, LifeInv
<1>2. ASSUME NEW s \in Shards PROVE ShardInv(s)'
  <2>1. kpc[s] = "exit" /\ kpc'[s] = "top" BY DEF GridLaunch, PerShard, AllExited
  <2>2. Taken(s)' = Taken(s) /\ Pending(s)' = Pending(s) /\ Written' = Written
    BY <1>1 DEF Taken, Pending, Written, SegmentShard
  <2>3. IndexInv(s)' BY <1>1, <2>2 DEF ShardInv, IndexInv, Base
  <2>4. CtaInv(s)' BY <1>1, <2>1 DEF ShardInv, CtaInv
  <2>5. BatchInv(s)' BY <1>1, <2>2 DEF ShardInv, BatchInv, Base
  <2>6. RingInv(s)' BY <1>1, <2>2 DEF ShardInv, RingInv
  <2>7. LogInv(s)' /\ AnsweredRight(s)' BY <1>1 DEF ShardInv, LogInv, AnsweredRight
  <2>8. CqInv(s)'
    BY <1>1, <2>1, <2>2 DEF ShardInv, CqInv, Committed, Paid, Uncommitted, Settled, Base
  <2>. QED BY <2>3, <2>4, <2>5, <2>6, <2>7, <2>8 DEF ShardInv
<1>3. LifeInv'
  <2>1. running' BY <1>1 DEF LifeInv, TypeOK
  <2>. QED BY <1>1, <2>1 DEF LifeInv
<1>. QED BY <1>2, <1>3
-----------------------------------------------------------------------------
(* The invariant as a whole.                                               *)

\* The shards stay right whichever CTA takes a step.
LEMMA CtaShards ==
  ASSUME TypeOK, \A t \in Shards : ShardInv(t), NEW s \in Shards, CtaStep(s)
  PROVE  \A t \in Shards : ShardInv(t)'
<1>1. ShardInv(s) OBVIOUS
<1>2. ShardInv(s)'
  <2>1. CASE LookAtCq(s) BY <1>1, <2>1, LookAtCqShard
  <2>2. CASE FindEmpty(s) BY <1>1, <2>2, FindEmptyShard
  <2>3. CASE Fetch(s) BY <1>1, <2>3, FetchShard
  <2>4. CASE AdvanceHead(s) BY <1>1, <2>4, AdvanceHeadShard
  <2>5. CASE Reserve(s) BY <1>1, <2>5, ReserveShard
  <2>6. CASE \E i \in Entries : WriteBody(s, i) BY <1>1, <2>6, WriteBodyShard
  <2>7. CASE \E i \in Entries : Commit(s, i) BY <1>1, <2>7, CommitShard
  <2>8. CASE BatchEnd(s) BY <1>1, <2>8, BatchEndShard
  <2>9. CASE CtaExit(s) BY <1>1, <2>9, CtaExitShard
  <2>. QED BY <2>1, <2>2, <2>3, <2>4, <2>5, <2>6, <2>7, <2>8, <2>9 DEF CtaStep
<1>3. ASSUME NEW t \in Shards, t # s PROVE ShardInv(t)'
  <2>1. /\ UNCHANGED <<hostVars, submitVars, poll, log, out, tail, rd, ring>>
        /\ head'[t] = head[t] /\ cq'[t] = cq[t] /\ wr'[t] = wr[t]
        /\ kpc'[t] = kpc[t] /\ batch'[t] = batch[t] /\ origin'[t] = origin[t]
        /\ space'[t] = space[t] /\ phase'[t] = phase[t]
    BY <1>3, CtaElsewhere
  <2>2. Taken(t)' = Taken(t) /\ Pending(t)' = Pending(t) /\ Written' = Written
    BY <2>1, CtaCalls
  <2>. QED BY <2>1, <2>2, Frame
<1>. QED BY <1>2, <1>3

\* A CTA that takes a step was launched, and only ever moves wr forward.
LEMMA CtaLife ==
  ASSUME TypeOK, LifeInv, PollInv, NEW s \in Shards, CtaStep(s)
  PROVE  LifeInv' /\ PollInv'
<1>1. UNCHANGED <<hostVars, submitVars, poll, log, out, tail, rd, ring>> BY CtaElsewhere
<1>2. kpc[s] # "exit"
  BY DEF CtaStep, LookAtCq, FindEmpty, Fetch, AdvanceHead, Reserve, WriteBody, Commit,
         BatchEnd, CtaExit
<1>3. running /\ grids = 0 BY <1>2 DEF LifeInv, AllExited, TypeOK
<1>4. LifeInv' BY <1>1, <1>3 DEF LifeInv, hostVars
<1>5. ASSUME NEW t \in Shards PROVE wr[t] <= wr'[t] /\ wr[t] \in Nat /\ wr'[t] \in Nat
  <2>1. wr[t] \in Nat /\ Len(batch[t]) \in Nat BY PositionTypes
  <2>2. CASE t # s BY <2>1, <2>2, CtaElsewhere
  <2>3. CASE t = s
    <3>1. wr'[t] = wr[t] \/ wr'[t] = wr[t] + Len(batch[t])
      BY <2>3 DEF CtaStep, LookAtCq, FindEmpty, Fetch, AdvanceHead, Reserve, WriteBody,
                  Commit, BatchEnd, CtaExit, cqVars, TypeOK
    <3>. QED BY <2>1, <3>1
  <2>. QED BY <2>2, <2>3
<1>6. PollInv'
  <2>1. ASSUME NEW t \in Shards, poll.pc = "drain", t >= poll.s
        PROVE  rd[t] <= poll.snap[t] /\ poll.snap[t] <= wr'[t]
    <3>1. rd[t] <= poll.snap[t] /\ poll.snap[t] <= wr[t] BY <2>1 DEF PollInv
    <3>2. poll.snap[t] \in Nat BY Types
    <3>. QED BY <1>5, <3>1, <3>2
  <2>. QED BY <1>1, <2>1 DEF PollInv
<1>. QED BY <1>4, <1>6

\* The poll's own record of how far it may go.
LEMMA PollSteps ==
  ASSUME TypeOK, PollInv, \A s \in Shards : ShardInv(s),
         \/ \E m \in PollSizes : PollBegin(m)
         \/ PollRound \/ PollSkipShard \/ PollTake \/ PollAdvance \/ PollRoundEnd
  PROVE  PollInv'
<1>. poll \in PollCalls BY DEF TypeOK
<1>1. ASSUME NEW m \in PollSizes, PollBegin(m) PROVE PollInv'
  BY <1>1 DEF PollBegin, NoPoll, PollInv
<1>2. CASE PollRound
  <2>1. /\ poll'.pc = "drain" /\ poll'.snap = wr /\ poll'.i = 0 /\ rd' = rd /\ wr' = wr
    BY <1>2 DEF PollRound, PollCalls, cqVars
  <2>2. ASSUME NEW t \in Shards PROVE rd[t] <= wr[t] /\ wr[t] <= wr[t]
    <3>1. /\ rd[t] \in Nat /\ wr[t] \in Nat /\ Taken(t) \in Nat
          /\ Base(t) = rd[t] + Taken(t) /\ Base(t) <= wr[t]
      BY PositionTypes DEF ShardInv, IndexInv
    <3>. QED BY <3>1
  <2>. QED BY <2>1, <2>2 DEF PollInv
<1>3. CASE PollSkipShard
  <2>1. /\ poll.pc = "drain" /\ poll'.pc = "drain" /\ poll'.snap = poll.snap
        /\ poll'.s = poll.s + 1 /\ rd' = rd /\ wr' = wr
    BY <1>3 DEF PollSkipShard, Draining, PollCalls, cqVars
  <2>2. poll'.i = 0 BY <1>3, <2>1, PollQuiet
  <2>3. ASSUME NEW t \in Shards, t >= poll.s + 1 PROVE t >= poll.s
    <3>1. t \in Int /\ poll.s \in Nat BY Types, Sizes DEF Shards
    <3>. QED BY <2>3, <3>1
  <2>. QED BY <2>1, <2>2, <2>3 DEF PollInv
<1>4. CASE PollTake
  <2>1. /\ Draining /\ poll.i < PollTarget(poll.s)
        /\ poll.pc = "drain" /\ poll'.pc = "drain" /\ poll'.snap = poll.snap
        /\ poll'.s = poll.s /\ poll'.i = poll.i + 1 /\ poll'.max = poll.max
        /\ poll'.got = poll.got /\ rd' = rd /\ wr' = wr
    BY <1>4 DEF PollTake, Draining, PollCalls
  <2>2. poll.s \in Shards BY <2>1, Types, Sizes DEF Draining, Shards
  <2>3. /\ PollAvail(poll.s) = poll.snap[poll.s] - rd[poll.s]
        /\ poll.snap[poll.s] \in Nat /\ rd[poll.s] \in Nat /\ poll.i \in Nat
    BY <2>1, <2>2, PollWindow, PositionTypes, Types
  <2>4. PollTarget(poll.s) \in Int /\ PollTarget(poll.s) <= PollAvail(poll.s)
    BY <2>2, <2>3, TargetBound
  <2>5. rd[poll.s] + (poll.i + 1) <= poll.snap[poll.s] BY <2>1, <2>3, <2>4
  <2>6. poll.s < NumShards /\ poll.got < poll.max BY <2>1 DEF Draining
  <2>. QED BY <2>1, <2>5, <2>6 DEF PollInv
<1>5. CASE PollAdvance
  <2>1. /\ poll.pc = "drain" /\ poll'.pc = "drain" /\ poll'.snap = poll.snap
        /\ poll'.s = poll.s + 1 /\ poll'.i = 0 /\ wr' = wr
        /\ rd' = [rd EXCEPT ![poll.s] = @ + poll.i]
    BY <1>5 DEF PollAdvance, Draining, PollCalls
  <2>2. ASSUME NEW t \in Shards, t >= poll.s + 1 PROVE t >= poll.s /\ rd'[t] = rd[t]
    <3>0. t \in Int /\ poll.s \in Nat BY Types, Sizes DEF Shards
    <3>1. t >= poll.s /\ t # poll.s BY <2>2, <3>0
    <3>. QED BY <2>1, <3>1 DEF TypeOK
  <2>. QED BY <2>1, <2>2 DEF PollInv
<1>6. CASE PollRoundEnd
  <2>1. poll'.pc \in {"idle", "round"} BY <1>6 DEF PollRoundEnd, NoPoll, PollCalls
  <2>. QED BY <2>1 DEF PollInv
<1>. QED BY <1>1, <1>2, <1>3, <1>4, <1>5, <1>6

\* A new handle has no run, no request and no response.
LEMMA IInvInit == Init => IInv
<1>. SUFFICES ASSUME Init PROVE IInv OBVIOUS
<1>1. TypeOK /\ SubmitInv BY TypeInit DEF TypeInv
<1>2. sub = NoSubmit /\ poll = NoPoll /\ ~running /\ grids = 0 BY DEF Init
<1>3. PollInv BY <1>2 DEF PollInv, NoPoll
<1>4. LifeInv BY DEF Init, LifeInv, AllExited, PerShard
<1>5. ASSUME NEW s \in Shards PROVE ShardInv(s)
  <2>1. /\ wr[s] = 0 /\ rd[s] = 0 /\ cq[s] = EmptyCq /\ head[s] = 0 /\ tail[s] = 0
        /\ log[s] = <<>> /\ out[s] = <<>> /\ kpc[s] = "exit" /\ batch[s] = <<>>
        /\ phase[s] = NoPhase
    BY DEF Init, PerShard
  <2>2. Taken(s) = 0 /\ Pending(s) = 0 BY <1>2 DEF Taken, Pending, NoPoll, NoSubmit
  <2>3. Base(s) = 0 BY <2>1, <2>2 DEF Base
  <2>4. IndexInv(s) BY <2>1, <2>2, <2>3, Sizes DEF IndexInv
  <2>5. CtaInv(s) BY <2>1 DEF CtaInv
  <2>6. BatchInv(s) /\ LogInv(s) /\ AnsweredRight(s) BY <2>1 DEF BatchInv, LogInv, AnsweredRight
  <2>7. RingInv(s) BY <2>1, <2>2 DEF RingInv
  <2>8. CqInv(s)
    <3>1. ASSUME NEW q \in 0 .. 0 + CqCap - 1 PROVE Uncommitted(s, q)
      <4>1. CqSlot(q) \in 0 .. CqCap - 1 BY CqSlots, Sizes
      <4>2. EmptyCq[CqSlot(q)].rid = 0 BY <4>1 DEF EmptyCq, Zeroed
      <4>. QED BY <2>1, <4>2 DEF Uncommitted
    <3>. QED BY <2>1, <2>3, <3>1 DEF CqInv, Settled
  <2>. QED BY <2>4, <2>5, <2>6, <2>7, <2>8 DEF ShardInv
<1>. QED BY <1>1, <1>3, <1>4, <1>5 DEF IInv

\* Every step of an engine used cleanly keeps the invariant.
LEMMA IInvStep ==
  ASSUME CleanUse, IInv, [Next]_vars
  PROVE  IInv'
<1>. USE DEF hostVars, submitVars, ringVars, cqVars, ctaVars
<1>a. TypeOK /\ TypeInv /\ SubmitInv /\ LifeInv /\ PollInv /\ \A s \in Shards : ShardInv(s)
  BY DEF IInv, TypeInv
<1>. DEFINE Shard == \A s \in Shards : ShardInv(s)
<1>b. TypeOK' /\ SubmitInv'
  <2>1. TypeInv' BY <1>a, TypeStep
  <2>. QED BY <2>1 DEF TypeInv
<1>c. sub \in SubmitCalls BY <1>a DEF TypeOK
<1>d. \A s \in Shards : ShardInv(s) BY <1>a
\* Steps that touch no shared word: all there is to show is about the calls.
<1>e. ASSUME UNCHANGED <<ringVars, cqVars, ctaVars, log, out>>,
             \A s \in Shards : Taken(s)' = Taken(s),
             (UNCHANGED <<sub, nextId, rr>>) \/ (sub.pc # "publish" /\ sub'.pc # "publish")
      PROVE  Shard'
  BY <1>a, <1>e, CallFrame
<1>f. ASSUME UNCHANGED <<poll, wr, rd>> PROVE PollInv'
  BY <1>a, <1>f DEF PollInv
<1>g. ASSUME UNCHANGED <<running, grids, kpc>> PROVE LifeInv'
  BY <1>a, <1>g DEF LifeInv, AllExited
<1>0. CASE UNCHANGED vars
  <2>1. UNCHANGED <<hostVars, submitVars, ringVars, cqVars, ctaVars, poll, log, out>>
    BY <1>0 DEF vars
  <2>2. \A s \in Shards : Taken(s)' = Taken(s) BY <2>1 DEF Taken
  <2>3. Shard' BY <1>e, <2>1, <2>2
  <2>. QED BY <1>b, <1>f, <1>g, <2>1, <2>3 DEF IInv
<1>1. ASSUME NEW n \in SubmitSizes, NEW op \in Opcodes, NEW via \in SubmitVias,
             SubmitBegin(n, op, via)
      PROVE  IInv'
  <2>1. /\ UNCHANGED <<hostVars, ringVars, cqVars, ctaVars, poll, log, out>>
        /\ sub.pc # "publish" /\ sub'.pc # "publish"
    BY <1>1 DEF SubmitBegin, NoSubmit
  <2>2. \A s \in Shards : Taken(s)' = Taken(s) BY <2>1 DEF Taken
  <2>3. Shard' BY <1>e, <2>1, <2>2
  <2>. QED BY <1>b, <1>f, <1>g, <2>1, <2>3 DEF IInv
<1>2. CASE SkipSegment \/ SubmitReturn
  <2>1. /\ UNCHANGED <<hostVars, ringVars, cqVars, ctaVars, poll, log, out>>
        /\ sub.pc # "publish" /\ sub'.pc # "publish"
    BY <1>c, <1>2 DEF SkipSegment, SubmitReturn, InSegment, NoSubmit, SubmitCalls
  <2>2. \A s \in Shards : Taken(s)' = Taken(s) BY <2>1 DEF Taken
  <2>3. Shard' BY <1>e, <2>1, <2>2
  <2>. QED BY <1>b, <1>f, <1>g, <2>1, <2>3 DEF IInv
<1>3. CASE WriteSegment
  <2>1. UNCHANGED <<hostVars, cqVars, ctaVars, poll>> BY <1>3 DEF WriteSegment
  <2>2. Shard' BY <1>a, <1>3, WriteSegmentShards
  <2>. QED BY <1>b, <1>f, <1>g, <2>1, <2>2 DEF IInv
<1>4. CASE PublishSegment
  <2>1. UNCHANGED <<hostVars, cqVars, ctaVars, poll>> BY <1>4 DEF PublishSegment
  <2>2. Shard' BY <1>a, <1>4, PublishSegmentShards
  <2>. QED BY <1>b, <1>f, <1>g, <2>1, <2>2 DEF IInv
<1>5. ASSUME NEW s \in Shards, CtaStep(s) PROVE IInv'
  <2>1. LifeInv' /\ PollInv' BY <1>a, <1>5, CtaLife
  <2>2. Shard' BY <1>a, <1>5, CtaShards
  <2>. QED BY <1>b, <2>1, <2>2 DEF IInv
<1>6. CASE \/ \E m \in PollSizes : PollBegin(m)
           \/ PollRound \/ PollSkipShard \/ PollRoundEnd
  <2>1. /\ \A s \in Shards : Taken(s)' = Taken(s)
        /\ UNCHANGED <<hostVars, submitVars, ringVars, cqVars, ctaVars, log, out>>
    BY <1>a, <1>6, PollQuiet
  <2>2. Shard' BY <1>e, <2>1
  <2>3. PollInv' BY <1>a, <1>6, PollSteps
  <2>. QED BY <1>b, <1>g, <2>1, <2>2, <2>3 DEF IInv
<1>7. CASE PollTake
  <2>1. UNCHANGED <<hostVars, ctaVars>> BY <1>7 DEF PollTake
  <2>2. Shard' BY <1>a, <1>7, PollTakeShards
  <2>3. PollInv' BY <1>a, <1>7, PollSteps
  <2>. QED BY <1>b, <1>g, <2>1, <2>2, <2>3 DEF IInv
<1>8. CASE PollAdvance
  <2>1. UNCHANGED <<hostVars, ctaVars>> BY <1>8 DEF PollAdvance
  <2>2. Shard' BY <1>a, <1>8, PollAdvanceShards
  <2>3. PollInv' BY <1>a, <1>8, PollSteps
  <2>. QED BY <1>b, <1>g, <2>1, <2>2, <2>3 DEF IInv
<1>9. CASE CountShard \/ CountReturn
  <2>1. poll.pc = "count" BY <1>9 DEF CountShard, CountReturn, Counting
  <2>. QED BY <1>a, <2>1, SMTT(60) DEF PollInv
<1>10. ASSUME "count" \in PollKinds PROVE IInv' BY <1>10 DEF CleanUse
<1>11. CASE Start
  <2>1. Shard' /\ LifeInv' BY <1>a, <1>11, StartShards
  <2>2. poll' = poll /\ poll.pc = "idle" BY <1>11 DEF Start
  <2>3. PollInv' BY <2>2 DEF PollInv
  <2>. QED BY <1>b, <2>1, <2>3 DEF IInv
<1>12. CASE GridLaunch
  <2>1. Shard' /\ LifeInv' BY <1>a, <1>12, GridLaunchShards
  <2>2. UNCHANGED <<poll, wr, rd>> BY <1>12 DEF GridLaunch
  <2>. QED BY <1>b, <1>f, <2>1, <2>2 DEF IInv
<1>13. CASE StopRequest \/ StopReturn
  <2>1. UNCHANGED <<grids, submitVars, ringVars, cqVars, ctaVars, poll, log, out>>
    BY <1>13 DEF StopRequest, StopReturn
  <2>2. \A s \in Shards : Taken(s)' = Taken(s) BY <2>1 DEF Taken
  <2>3. Shard' BY <1>e, <2>1, <2>2
  <2>4. running' = running \/ (AllExited /\ grids = 0)
    BY <1>13 DEF StopRequest, StopReturn, CleanUse
  <2>5. LifeInv' BY <1>a, <2>1, <2>4 DEF LifeInv, AllExited
  <2>. QED BY <1>b, <1>f, <2>1, <2>3, <2>5 DEF IInv
<1>. QED
  BY <1>0, <1>1, <1>2, <1>3, <1>4, <1>5, <1>6, <1>7, <1>8, <1>9, <1>10, <1>11, <1>12, <1>13
  DEF Next, ClientStep, SubmitStep, PollStep

\* The invariant holds in every state an engine used cleanly can reach.
THEOREM Invariant == CleanUse => (Spec => []IInv)
<1>. SUFFICES ASSUME CleanUse PROVE Spec => []IInv OBVIOUS
<1>1. Init => IInv BY IInvInit
<1>2. IInv /\ [Next]_vars => IInv' BY IInvStep
<1>. QED BY <1>1, <1>2, PTL DEF Spec
-----------------------------------------------------------------------------
(* What follows from it.                                                   *)

\* The k-th response taken from a shard answers the k-th request published
\* to it: in order, exactly once, with its own payload.
THEOREM Answers == CleanUse => (Spec => []OwnAnswer)
<1>. SUFFICES ASSUME CleanUse PROVE Spec => []OwnAnswer OBVIOUS
<1>1. Spec => []IInv BY Invariant
<1>2. IInv => OwnAnswer BY DEF IInv, ShardInv, OwnAnswer
<1>. QED BY <1>1, <1>2, PTL

\* No submit overwrites a request the kernel has not copied.
THEOREM RequestsIntact == CleanUse => (Spec => []LiveRequestsIntact)
<1>. SUFFICES ASSUME CleanUse PROVE Spec => []LiveRequestsIntact OBVIOUS
<1>1. Spec => []IInv BY Invariant
<1>2. IInv => LiveRequestsIntact BY DEF IInv, ShardInv, RingInv, LiveRequestsIntact
<1>. QED BY <1>1, <1>2, PTL

\* No CTA reserves a slot of the CQ that the host has not drained.
THEOREM NoOverrun == CleanUse => (Spec => []CqNeverOverrun)
<1>. SUFFICES ASSUME CleanUse PROVE Spec => []CqNeverOverrun OBVIOUS
<1>1. Spec => []IInv BY Invariant
<1>2. IInv => CqNeverOverrun BY DEF IInv, ShardInv, IndexInv, Base, CqNeverOverrun
<1>. QED BY <1>1, <1>2, PTL

\* A CTA that is between batches, or gone, has committed all it reserved.
THEOREM AllCommitted == CleanUse => (Spec => []NothingAbandoned)
<1>. SUFFICES ASSUME CleanUse PROVE Spec => []NothingAbandoned OBVIOUS
<1>1. Spec => []IInv BY Invariant
<1>2. ASSUME IInv PROVE NothingAbandoned
  <2>. SUFFICES ASSUME NEW s \in Shards, kpc[s] \in {"top", "fetch", "exit"},
                       NEW q \in Base(s) .. wr[s] - 1
                PROVE  cq[s][CqSlot(q)].rid # 0
    BY DEF NothingAbandoned, Base
  <2>1. ShardInv(s) /\ TypeOK BY <1>2 DEF IInv
  <2>2. Settled(s) = wr[s] BY DEF Settled
  <2>3. Committed(s, q) BY <2>1, <2>2 DEF ShardInv, CqInv
  <2>4. q + 1 \in 1 .. Len(log[s])
    <3>1. /\ wr[s] <= head[s] /\ head[s] <= tail[s] /\ Len(log[s]) = tail[s]
      BY <2>1 DEF ShardInv, IndexInv
    <3>2. /\ Base(s) \in Nat /\ wr[s] \in Nat /\ head[s] \in Nat /\ tail[s] \in Nat
      BY <2>1, PositionTypes
    <3>. QED BY <3>1, <3>2
  <2>5. log[s][q + 1].id > 0 BY <2>1, <2>4 DEF ShardInv, LogInv
  <2>. QED BY <2>3, <2>5 DEF Committed
<1>. QED BY <1>1, <1>2, PTL

\* From its commit until the host takes it, a response does not change.
THEOREM Stable == CleanUse => (Spec => CommittedStable)
<1>. SUFFICES ASSUME CleanUse PROVE Spec => CommittedStable OBVIOUS
<1>. USE DEF hostVars, submitVars, ringVars, cqVars, ctaVars
<1>. DEFINE Same(s, p) == cq[s][p].rid # 0 => /\ cq'[s][p].pay = cq[s][p].pay
                                              /\ cq'[s][p].rid \in {cq[s][p].rid, 0}
            Kept == starts' = starts => \A s \in Shards, p \in 0 .. CqCap - 1 : Same(s, p)
<1>1. Spec => []IInv BY Invariant
<1>2. ASSUME IInv, [Next]_vars PROVE Kept
  <2>. TypeOK /\ \A s \in Shards : ShardInv(s) BY <1>2 DEF IInv
  <2>1. ASSUME UNCHANGED cq PROVE Kept BY <2>1
  <2>2. ASSUME NEW s \in Shards, NEW i \in Entries, WriteBody(s, i) \/ Commit(s, i) PROVE Kept
    <3>1. /\ kpc[s] = "write" /\ i \in 1 .. Len(batch[s]) /\ phase[s][i] # "done"
          /\ \E r : cq' = [cq EXCEPT ![s] = [cq[s] EXCEPT ![EntrySlot(s, i)] = r]]
      BY <2>2 DEF WriteBody, Commit
    <3>2. /\ EntrySlot(s, i) \in 0 .. CqCap - 1
          /\ EntrySlot(s, i) = CqSlot(origin[s] + i - 1)
          /\ Uncommitted(s, origin[s] + i - 1)
      BY <3>1, EntrySlots
    <3>3. cq[s][EntrySlot(s, i)].rid = 0 BY <3>2 DEF Uncommitted
    <3>4. ASSUME NEW t \in Shards, NEW p \in 0 .. CqCap - 1, cq[t][p].rid # 0
          PROVE  cq'[t][p] = cq[t][p]
      <4>1. t # s \/ p # EntrySlot(s, i) BY <3>3, <3>4
      <4>2. CASE t # s BY <3>1, <4>2 DEF TypeOK
      <4>3. CASE t = s /\ p # EntrySlot(s, i)
        <5>1. \E r : cq'[s] = [cq[s] EXCEPT ![EntrySlot(s, i)] = r] BY <3>1 DEF TypeOK
        <5>2. cq[s] \in [0 .. CqCap - 1 -> Responses] BY ShardTypes
        <5>. QED BY <4>3, <5>1, <5>2
      <4>. QED BY <4>1, <4>2, <4>3
    <3>. QED BY <3>4
  <2>3. CASE PollTake
    <3>1. cq' = [cq EXCEPT ![poll.s] = [cq[poll.s] EXCEPT ![CqSlot(rd[poll.s] + poll.i)] =
                    [cq[poll.s][CqSlot(rd[poll.s] + poll.i)] EXCEPT !.rid = 0]]]
      BY <2>3 DEF PollTake
    <3>. DEFINE a == CqSlot(rd[poll.s] + poll.i)
    <3>3. ASSUME NEW t \in Shards, NEW p \in 0 .. CqCap - 1
          PROVE  cq'[t][p].pay = cq[t][p].pay /\ cq'[t][p].rid \in {cq[t][p].rid, 0}
      <4>1. cq[t] \in [0 .. CqCap - 1 -> Responses] BY ShardTypes
      <4>2. cq[t][p] \in Responses BY <4>1
      <4>. HIDE DEF a
      <4>3. CASE t # poll.s BY <3>1, <4>3 DEF TypeOK
      <4>4. CASE t = poll.s
        <5>1. cq'[t] = [cq[t] EXCEPT ![a] = [cq[t][a] EXCEPT !.rid = 0]]
          BY <3>1, <4>4 DEF TypeOK, a
        <5>2. CASE p # a BY <4>1, <5>1, <5>2
        <5>3. CASE p = a
          <6>1. cq'[t][p] = [cq[t][p] EXCEPT !.rid = 0] BY <4>1, <5>1, <5>3
          <6>. QED BY <4>2, <6>1 DEF Responses
        <5>. QED BY <5>2, <5>3
      <4>. QED BY <4>3, <4>4
    <3>. QED BY <3>3
  <2>4. CASE Start
    <3>1. starts' = starts + 1 /\ starts \in Nat BY <2>4 DEF Start, TypeOK
    <3>. QED BY <3>1
  <2>5. ASSUME NEW s \in Shards, CtaStep(s) PROVE Kept
    BY <2>1, <2>2, <2>5
    DEF CtaStep, LookAtCq, FindEmpty, Fetch, AdvanceHead, Reserve, BatchEnd, CtaExit
  <2>6. CASE SubmitStep \/ StopReturn \/ GridLaunch \/ UNCHANGED vars
    BY <2>1, <2>6, SMTT(60) DEF SubmitStep, SkipSegment, WriteSegment, PublishSegment, SubmitReturn,
                      StopReturn, GridLaunch, vars
  <2>7. CASE PollStep
    BY <2>1, <2>3, <2>7, ZenonT(60) DEF PollStep, PollRound, PollSkipShard, PollAdvance, PollRoundEnd,
                            CountShard, CountReturn
  <2>8. CASE ClientStep
    BY <2>1, <2>4, <2>8 DEF ClientStep, SubmitBegin, CountBegin, PollBegin, StopRequest
  <2>. QED BY <1>2, <2>5, <2>6, <2>7, <2>8 DEF Next
<1>. QED BY <1>1, <1>2, PTL DEF Spec, CommittedStable
-----------------------------------------------------------------------------
(***************************************************************************)
(* Proof that the FAST PATH, used cleanly, implements the abstract answer  *)
(* service: publishing a segment accepts it, taking a response answers the *)
(* oldest request that has none, starting the kernel restarts the service, *)
(* and no other step can be seen from outside.                             *)
(***************************************************************************)

\* The size of the submit in progress bounds each of its segments, and
\* nothing is published where nothing may be submitted.
CallInv ==
  /\ sub.left <= sub.count /\ sub.n <= sub.count /\ sub.count <= MaxRequests
  /\ sub.pc # "publish" => sub.n = 0
  /\ sub.pc # "idle" => sub.count > 0
  /\ MaxRequests > 0 \/ log = PerShard(<<>>)

Accepted == [s \in Shards |-> [k \in 1 .. Len(log[s]) |-> log[s][k].id]]
Answered == [s \in Shards |-> [k \in 1 .. Len(out[s]) |-> out[s][k].pay.id]]
LastId   == nextId - 1 - sub.n
-----------------------------------------------------------------------------
\* A segment is no longer than the call it belongs to.
LEMMA SegmentInCall ==
  ASSUME TypeOK, CallInv, InSegment
  PROVE  SegmentLen \in Int /\ SegmentLen <= sub.count
<1>1. /\ sub.count \in Nat /\ sub.left \in Int /\ sub.count > 0 /\ sub.left <= sub.count
      /\ sub.k < Segments
  BY Types DEF InSegment, CallInv
<1>2. SegmentWant \in Int /\ SegmentWant <= sub.count
  <2>1. CASE sub.via = "slab" BY <1>1, <2>1 DEF SegmentWant
  <2>2. CASE sub.via # "slab" /\ SubmitPolicy = "SHARD_LOCAL"
    <3>. DEFINE c == CeilDiv(sub.count, ShardsPerBatch)
                l == sub.left
    <3>1. c \in Int /\ l \in Int
      <4>1. sub.count + ShardsPerBatch - 1 \in Int /\ ShardsPerBatch \in Nat \ {0}
        BY <1>1, FastPathAssumption
      <4>. QED BY <1>1, <4>1 DEF CeilDiv
    <3>2. SegmentWant = Min({l, c}) BY <2>2 DEF SegmentWant
    <3>. HIDE DEF c, l
    <3>3. SegmentWant \in Int /\ SegmentWant <= l BY <3>1, <3>2, Min2
    <3>. QED BY <1>1, <3>1, <3>3 DEF l
  <2>3. CASE sub.via # "slab" /\ SubmitPolicy # "SHARD_LOCAL"
    <3>. DEFINE T == {i \in 0 .. sub.count - 1 : (rr + i) % NumShards = sub.k}
                R == 0 .. sub.count - 1
    <3>1. IsFiniteSet(R) /\ Cardinality(R) = sub.count
      <4>. PICK b \in Int : b = sub.count - 1 BY <1>1
      <4>1. IsFiniteSet(0 .. b) /\ Cardinality(0 .. b) = IF 0 > b THEN 0 ELSE b - 0 + 1
        BY 0 \in Int, FS_Interval
      <4>. QED BY <1>1, <4>1
    <3>2. T \subseteq R OBVIOUS
    <3>3. IsFiniteSet(T) /\ Cardinality(T) <= Cardinality(R) BY <3>1, <3>2, FS_Subset
    <3>4. Cardinality(T) \in Nat BY <3>3, FS_CardinalityType
    <3>5. SegmentWant = Cardinality(T) BY <2>3 DEF SegmentWant
    <3>. QED BY <3>1, <3>3, <3>4, <3>5
  <2>. QED BY <2>1, <2>2, <2>3
<1>3. SegmentRoom \in Int
  <2>1. tail[SegmentShard] - head[SegmentShard] \in Int
    BY <1>1, SegmentShardType, ShardTypes
  <2>2. Used(SegmentShard) \in Nat BY <2>1, U32Type DEF Used
  <2>3. U32((RingSize - 1) - Used(SegmentShard)) \in Nat BY <2>2, U32Type, Sizes
  <2>. QED BY <2>2, <2>3 DEF SegmentRoom
<1>4. SegmentLen \in Int /\ SegmentLen <= SegmentWant BY <1>2, <1>3, Min2 DEF SegmentLen
<1>. QED BY <1>1, <1>2, <1>4

LEMMA CallInvInit == Init => CallInv
BY FastPathAssumption DEF Init, NoSubmit, CallInv, PerShard

\* Every step keeps the bounds of the call.
LEMMA CallInvStep ==
  ASSUME TypeOK, SubmitInv, CallInv, [Next]_vars
  PROVE  CallInv'
<1>. USE DEF hostVars, submitVars, ringVars, cqVars, ctaVars
<1>0. /\ sub \in SubmitCalls /\ nextId \in Nat \ {0} /\ sub.n \in Nat /\ sub.count \in Nat
      /\ sub.left \in Int
  BY Types DEF TypeOK
<1>1. CASE UNCHANGED <<sub, log>> BY <1>1 DEF CallInv
<1>2. ASSUME NEW n \in SubmitSizes, NEW op \in Opcodes, NEW via \in SubmitVias,
             SubmitBegin(n, op, via)
      PROVE  CallInv'
  <2>1. n \in Nat \ {0} /\ nextId + n - 1 <= MaxRequests /\ MaxRequests \in Nat
    BY <1>2, FastPathAssumption DEF SubmitBegin
  <2>2. sub'.pc = "segment" /\ sub'.count = n /\ sub'.left = n /\ sub'.n = 0 /\ log' = log
    BY <1>2 DEF SubmitBegin, NoSubmit
  <2>. QED BY <1>0, <2>1, <2>2 DEF CallInv
<1>3. CASE SkipSegment
  <2>1. sub'.pc = sub.pc /\ sub'.count = sub.count /\ sub'.left = sub.left /\ sub'.n = sub.n
        /\ log' = log
    BY <1>0, <1>3 DEF SkipSegment, SubmitCalls
  <2>. QED BY <2>1 DEF CallInv
<1>4. CASE WriteSegment
  <2>1. /\ sub' = [sub EXCEPT !.pc = "publish", !.n = SegmentLen] /\ InSegment
    BY <1>4 DEF WriteSegment
  <2>2. SegmentLen \in Int /\ SegmentLen <= sub.count BY <2>1, SegmentInCall
  <2>. HIDE DEF SegmentLen
  <2>3. /\ sub'.pc = "publish" /\ sub'.count = sub.count /\ sub'.left = sub.left
        /\ sub'.n = SegmentLen /\ sub.pc = "segment" /\ log' = log
    BY <1>0, <1>4, <2>1 DEF SubmitCalls, InSegment, WriteSegment
  <2>. QED BY <2>2, <2>3 DEF CallInv
<1>5. CASE PublishSegment
  <2>1. /\ sub'.pc = "segment" /\ sub'.count = sub.count /\ sub'.left = sub.left - sub.n
        /\ sub'.n = 0 /\ sub.pc = "publish"
    BY <1>0, <1>5 DEF PublishSegment, SubmitCalls
  <2>2. sub.n > 0 BY <2>1 DEF SubmitInv
  <2>3. MaxRequests > 0 BY <1>0, <2>2, FastPathAssumption DEF CallInv
  <2>. QED BY <1>0, <2>1, <2>3 DEF CallInv
<1>6. CASE SubmitReturn
  <2>1. sub'.pc = "idle" /\ sub'.count = 0 /\ sub'.left = 0 /\ sub'.n = 0 /\ log' = log
    BY <1>6 DEF SubmitReturn, NoSubmit
  <2>. QED BY <2>1, FastPathAssumption DEF CallInv
<1>7. ASSUME NEW s \in Shards, CtaStep(s) PROVE UNCHANGED <<sub, log>>
  BY <1>7, CtaElsewhere, SMTT(60)
<1>8. CASE PollStep
  BY <1>1, <1>8 DEF PollStep, PollRound, PollSkipShard, PollTake, PollAdvance,
                    PollRoundEnd, CountShard, CountReturn
<1>9. CASE \/ "count" \in PollKinds /\ \E m \in PollSizes : CountBegin(m)
           \/ "poll" \in PollKinds /\ \E m \in PollSizes : PollBegin(m)
  BY <1>1, <1>9 DEF CountBegin, PollBegin
<1>10. CASE StopRequest \/ StopReturn \/ GridLaunch
  BY <1>1, <1>10 DEF StopRequest, StopReturn, GridLaunch
<1>11. CASE Start
  BY <1>11 DEF Start, CallInv
<1>. QED
  BY <1>1, <1>2, <1>3, <1>4, <1>5, <1>6, <1>7, <1>8, <1>9, <1>10, <1>11
  DEF Next, ClientStep, SubmitStep, vars
-----------------------------------------------------------------------------
(* The steps the service sees.                                             *)

\* Publishing a segment accepts its requests.
LEMMA PublishAccepts ==
  ASSUME TypeInv, CallInv, PublishSegment
  PROVE  Service!Next
<1>. USE DEF hostVars, submitVars, ringVars, cqVars, ctaVars
<1>. TypeOK BY DEF TypeInv
<1>0. PICK s \in Shards : s = SegmentShard
  <2>1. sub.k < Segments BY DEF TypeInv, SubmitInv, PublishSegment
  <2>. QED BY <2>1, SegmentShardType
<1>n. PICK n \in Nat : n = sub.n BY Types
<1>1. n \in 1 .. MaxRequests
  <2>1. n > 0 BY <1>n DEF TypeInv, SubmitInv, PublishSegment
  <2>2. sub.count \in Nat /\ MaxRequests \in Nat BY Types, FastPathAssumption
  <2>. QED BY <1>n, <2>1, <2>2 DEF CallInv
<1>2. sub'.n = 0 /\ nextId' = nextId /\ out' = out
  <2>1. sub \in SubmitCalls BY DEF TypeOK
  <2>. QED BY <2>1 DEF PublishSegment, SubmitCalls
<1>3. log' = [log EXCEPT ![s] = log[s] \o Written] BY <1>0 DEF PublishSegment
<1>4. LastId' = LastId + n /\ LastId \in Int
  BY <1>2, <1>n, Types DEF LastId
<1>5. Answered' = Answered BY <1>2 DEF Answered
<1>6. /\ Written \in Seq(Requests) /\ Len(Written) = n
      /\ \A j \in 1 .. n : Written[j].id = LastId + j
  <2>1. Written \in Seq(Requests) /\ Len(Written) = n
    BY <1>n, WrittenType DEF PublishSegment
  <2>2. \A j \in 1 .. n : Written[j].id = LastId + j
    <3>1. /\ nextId \in Nat /\ sub.n \in Nat
          /\ \A j \in 1 .. n : Written[j].id = nextId - n + j - 1
      BY <1>n, Types DEF Written, Request
    <3>. HIDE DEF Written
    <3>. QED BY <1>n, <3>1 DEF LastId
  <2>. QED BY <2>1, <2>2
<1>7. Accepted' = [Accepted EXCEPT ![s] = @ \o [j \in 1 .. n |-> LastId + j]]
  <2>. DEFINE fresh == [j \in 1 .. n |-> LastId + j]
              L == log[s]
              W == Written
              old == [k \in 1 .. Len(L) |-> L[k].id]
              new == [k \in 1 .. Len(L \o W) |-> (L \o W)[k].id]
  <2>1. L \in Seq(Requests) /\ W \in Seq(Requests) BY <1>6, ShardTypes
  <2>2. /\ Len(L \o W) = Len(L) + n
        /\ \A k \in 1 .. Len(L) + n :
             (L \o W)[k] = IF k <= Len(L) THEN L[k] ELSE W[k - Len(L)]
    BY <1>6, <2>1, ConcatProperties
  <2>3. fresh \in Seq(Int) /\ old \in Seq(Int) /\ Len(fresh) = n /\ Len(old) = Len(L)
    <3>1. ASSUME NEW k \in 1 .. Len(L) PROVE L[k].id \in Int
      <4>1. L[k] \in Requests BY <2>1
      <4>. QED BY <4>1 DEF Requests
    <3>. QED BY <1>4, <2>1, <3>1
  <2>4. /\ Len(old \o fresh) = Len(L) + n /\ old \o fresh \in Seq(Int)
        /\ \A k \in 1 .. Len(L) + n :
             (old \o fresh)[k] = IF k <= Len(L) THEN old[k] ELSE fresh[k - Len(L)]
    BY <2>3, ConcatProperties
  <2>5. new = old \o fresh
    <3>1. DOMAIN new = 1 .. Len(L) + n /\ DOMAIN (old \o fresh) = 1 .. Len(L) + n
      BY <2>2, <2>4
    <3>2. ASSUME NEW k \in 1 .. Len(L) + n PROVE new[k] = (old \o fresh)[k]
      <4>0. Len(L) \in Nat BY <2>1
      <4>1. CASE k <= Len(L) BY <2>2, <2>4, <4>0, <4>1
      <4>2. CASE ~(k <= Len(L))
        <5>1. k - Len(L) \in 1 .. n BY <4>0, <4>2
        <5>. QED BY <1>6, <2>2, <2>4, <4>2, <5>1
      <4>. QED BY <4>1, <4>2
    <3>3. new = [k \in 1 .. Len(L) + n |-> new[k]] BY <3>1
    <3>4. old \o fresh = [k \in 1 .. Len(L) + n |-> (old \o fresh)[k]] BY <2>4
    <3>. QED BY <3>2, <3>3, <3>4
  <2>6. ASSUME NEW t \in Shards
        PROVE  Accepted'[t] = IF t = s THEN Accepted[s] \o fresh ELSE Accepted[t]
    <3>1. log'[t] = IF t = s THEN L \o W ELSE log[t] BY <1>3 DEF TypeOK
    <3>2. Accepted'[t] = [k \in 1 .. Len(log'[t]) |-> log'[t][k].id] BY DEF Accepted
    <3>3. Accepted[s] = old /\ Accepted[t] = [k \in 1 .. Len(log[t]) |-> log[t][k].id]
      BY DEF Accepted
    <3>. QED BY <2>5, <3>1, <3>2, <3>3
  <2>7. Accepted' = [t \in Shards |-> Accepted'[t]] BY DEF Accepted
  <2>8. Accepted = [t \in Shards |-> Accepted[t]] BY DEF Accepted
  <2>. HIDE DEF fresh
  <2>9. [Accepted EXCEPT ![s] = Accepted[s] \o fresh]
          = [t \in Shards |-> IF t = s THEN Accepted[s] \o fresh ELSE Accepted[t]]
    BY <2>8
  <2>. QED BY <2>6, <2>7, <2>9 DEF fresh
<1>8. Service!Accept(s, n)
  BY <1>1, <1>4, <1>5, <1>7 DEF Service!Accept, Accepted, Answered, LastId
<1>. QED BY <1>1, <1>8 DEF Service!Next

\* Taking a response answers the oldest request of its shard without one.
LEMMA TakeAnswers ==
  ASSUME TypeOK, CallInv, IInv', PollTake, MaxRequests > 0
  PROVE  Service!Next
<1>. USE DEF hostVars, submitVars, ringVars, cqVars, ctaVars
<1>0. PICK s \in Shards : s = poll.s
  BY Types, Sizes DEF PollTake, Draining, Shards
<1>r. PICK r : r = ReadSlot(poll.s) OBVIOUS
<1>1. /\ out' = [out EXCEPT ![s] = Append(out[s], r)] /\ log' = log /\ nextId' = nextId
      /\ sub' = sub
  BY <1>0, <1>r DEF PollTake
<1>2. Accepted' = Accepted /\ LastId' = LastId BY <1>1 DEF Accepted, LastId
<1>3. PICK from \in Nat : from = Len(out[s]) BY PositionTypes
<1>4. /\ out' \in [Shards -> Seq(Responses)] /\ log \in [Shards -> Seq(Requests)]
      /\ out \in [Shards -> Seq(Responses)]
  BY DEF IInv, TypeOK
<1>5. out'[s] = Append(out[s], r) /\ \A t \in Shards : t # s => out'[t] = out[t]
  BY <1>1, <1>4
<1>6. Len(out'[s]) = from + 1
  <2>1. out[s] \in Seq(Responses) BY <1>4
  <2>. QED BY <1>3, <1>5, <2>1
<1>7. /\ \A k \in 1 .. from + 1 : out'[s][k].pay.id = log[s][k].id
      /\ from + 1 <= Len(log[s]) /\ Len(log[s]) \in Nat
  <2>1. AnsweredRight(s)' BY DEF IInv, ShardInv
  <2>2. /\ \A k \in 1 .. Len(out'[s]) : /\ k <= Len(log[s])
                                        /\ out'[s][k].pay.id = log[s][k].id
    BY <1>1, <2>1 DEF AnsweredRight
  <2>3. from + 1 \in 1 .. from + 1 BY <1>3
  <2>4. Len(log[s]) \in Nat BY PositionTypes
  <2>. QED BY <1>6, <2>2, <2>3, <2>4
<1>8. /\ Len(Answered[s]) = from /\ Len(Accepted[s]) = Len(log[s])
  BY <1>3, <1>7 DEF Answered, Accepted
<1>9. Answered' = [Answered EXCEPT ![s] = SubSeq(Accepted[s], 1, from + 1)]
  <2>. DEFINE ids == [k \in 1 .. Len(log[s]) |-> log[s][k].id]
  <2>1. ids \in Seq(Nat)
    <3>1. ASSUME NEW k \in 1 .. Len(log[s]) PROVE log[s][k].id \in Nat
      <4>1. log[s] \in Seq(Requests) BY <1>4
      <4>2. log[s][k] \in Requests BY <4>1
      <4>. QED BY <4>2 DEF Requests
    <3>. QED BY <1>7, <3>1
  <2>2. SubSeq(ids, 1, from + 1) = [k \in 1 .. from + 1 |-> log[s][k].id]
    <3>1. /\ SubSeq(ids, 1, from + 1) \in Seq(Nat) /\ Len(SubSeq(ids, 1, from + 1)) = from + 1
          /\ \A k \in 1 .. from + 1 : SubSeq(ids, 1, from + 1)[k] = ids[k]
      BY <1>7, <2>1
    <3>2. SubSeq(ids, 1, from + 1) = [k \in 1 .. from + 1 |-> SubSeq(ids, 1, from + 1)[k]]
      BY <3>1
    <3>3. \A k \in 1 .. from + 1 : ids[k] = log[s][k].id BY <1>7
    <3>. QED BY <3>1, <3>2, <3>3
  <2>3. Answered'[s] = SubSeq(Accepted[s], 1, from + 1)
    <3>1. Accepted[s] = ids BY DEF Accepted
    <3>2. Answered'[s] = [k \in 1 .. from + 1 |-> out'[s][k].pay.id] BY <1>6 DEF Answered
    <3>. QED BY <1>7, <2>2, <3>1, <3>2
  <2>4. \A t \in Shards : t # s => Answered'[t] = Answered[t] BY <1>5 DEF Answered
  <2>5. Answered' = [t \in Shards |-> Answered'[t]] BY DEF Answered
  <2>6. Answered = [t \in Shards |-> Answered[t]] BY DEF Answered
  <2>. PICK w : w = SubSeq(Accepted[s], 1, from + 1) OBVIOUS
  <2>7. [Answered EXCEPT ![s] = w] = [t \in Shards |-> IF t = s THEN w ELSE Answered[t]]
    BY <2>6
  <2>. QED BY <2>3, <2>4, <2>5, <2>7
<1>10. Service!Deliver(s, 1)
  <2>1. /\ Len(Answered[s]) + 1 <= Len(Accepted[s])
        /\ Answered' = [Answered EXCEPT ![s] = SubSeq(Accepted[s], 1, Len(Answered[s]) + 1)]
    BY <1>7, <1>8, <1>9
  <2>2. 1 > 0 OBVIOUS
  <2>. QED BY <1>2, <2>1, <2>2, Zenon DEF Service!Deliver, Accepted, Answered, LastId
<1>11. 1 \in 1 .. MaxRequests BY FastPathAssumption
<1>. QED BY <1>10, <1>11 DEF Service!Next

\* A start forgets every request.
LEMMA StartRestarts ==
  ASSUME Start
  PROVE  Service!Next
<1>. USE DEF submitVars
<1>1. log' = PerShard(<<>>) /\ out' = PerShard(<<>>) /\ nextId' = nextId /\ sub' = sub
  BY DEF Start
<1>2. Accepted' = [s \in Shards |-> <<>>]
  <2>1. \A s \in Shards : log'[s] = <<>> BY <1>1 DEF PerShard
  <2>2. \A s \in Shards : [k \in 1 .. Len(log'[s]) |-> log'[s][k].id] = <<>>
    BY <2>1
  <2>. QED BY <2>2 DEF Accepted
<1>3. Answered' = [s \in Shards |-> <<>>]
  <2>1. \A s \in Shards : out'[s] = <<>> BY <1>1 DEF PerShard
  <2>2. \A s \in Shards : [k \in 1 .. Len(out'[s]) |-> out'[s][k].pay.id] = <<>>
    BY <2>1
  <2>. QED BY <2>2 DEF Answered
<1>4. LastId' = LastId BY <1>1 DEF LastId
<1>5. Service!Restart BY <1>2, <1>3, <1>4 DEF Service!Restart, Accepted, Answered, LastId
<1>. QED BY <1>5 DEF Service!Next

\* The initial handle is a service that has accepted nothing.
LEMMA InitRefines == Init => Service!Init
<1>. SUFFICES ASSUME Init PROVE Service!Init OBVIOUS
<1>1. \A s \in Shards : log[s] = <<>> /\ out[s] = <<>> BY DEF Init, PerShard
<1>2. Accepted = [s \in Shards |-> <<>>] /\ Answered = [s \in Shards |-> <<>>]
  <2>1. \A s \in Shards : /\ [k \in 1 .. Len(log[s]) |-> log[s][k].id] = <<>>
                          /\ [k \in 1 .. Len(out[s]) |-> out[s][k].pay.id] = <<>>
    BY <1>1
  <2>. QED BY <2>1 DEF Accepted, Answered
<1>3. nextId - 1 - sub.n = 0 BY DEF Init, NoSubmit
<1>. QED BY <1>2, <1>3 DEF Service!Init, Accepted, Answered

\* Every step is a step of the service, or cannot be seen in it.
LEMMA StepRefines ==
  ASSUME CleanUse, IInv, IInv', CallInv, CallInv', [Next]_vars
  PROVE  Service!Next \/ UNCHANGED Service!vars
<1>. USE DEF hostVars, submitVars, ringVars, cqVars, ctaVars
<1>. TypeOK /\ TypeInv /\ PollInv /\ \A s \in Shards : ShardInv(s) BY DEF IInv, TypeInv
<1>0. /\ sub \in SubmitCalls /\ nextId \in Nat \ {0} /\ sub.n \in Nat /\ sub.count \in Nat
  BY Types DEF TypeOK
<1>s. ASSUME UNCHANGED <<log, out>>, LastId' = LastId PROVE UNCHANGED Service!vars
  BY <1>s DEF Service!vars, LastId
<1>1. CASE UNCHANGED <<log, out, nextId, sub>> BY <1>1, <1>s DEF LastId
<1>2. ASSUME NEW n \in SubmitSizes, NEW op \in Opcodes, NEW via \in SubmitVias,
             SubmitBegin(n, op, via)
      PROVE  UNCHANGED Service!vars
  <2>1. sub.n = 0 /\ sub'.n = 0 /\ UNCHANGED <<log, out, nextId>>
    BY <1>2 DEF SubmitBegin, NoSubmit, CallInv
  <2>. QED BY <1>s, <2>1 DEF LastId
<1>3. CASE SkipSegment \/ SubmitReturn
  <2>1. sub.n = 0 /\ sub'.n = 0 /\ UNCHANGED <<log, out, nextId>>
    BY <1>0, <1>3
    DEF SkipSegment, SubmitReturn, InSegment, NoSubmit, CallInv, SubmitCalls
  <2>. QED BY <1>s, <2>1 DEF LastId
<1>4. CASE WriteSegment
  <2>1. /\ sub' = [sub EXCEPT !.pc = "publish", !.n = SegmentLen]
        /\ nextId' = nextId + SegmentLen /\ UNCHANGED <<log, out>> /\ InSegment
    BY <1>4 DEF WriteSegment
  <2>2. SegmentLen \in Int BY <2>1, SegmentInCall
  <2>. HIDE DEF SegmentLen
  <2>3. sub.n = 0 /\ sub'.n = SegmentLen BY <1>0, <2>1 DEF CallInv, InSegment, SubmitCalls
  <2>. QED BY <1>0, <1>s, <2>1, <2>2, <2>3 DEF LastId
<1>5. CASE PublishSegment BY <1>5, PublishAccepts
<1>6. CASE PollTake
  <2>1. MaxRequests > 0
    <3>1. PICK s \in Shards : s = poll.s
      BY <1>6, Types, Sizes DEF PollTake, Draining, Shards
    <3>2. out'[s] = Append(out[s], ReadSlot(s)) /\ log' = log /\ out[s] \in Seq(Responses)
      BY <1>6, <3>1, ShardTypes DEF PollTake, TypeOK
    <3>3. Len(out'[s]) \in Nat \ {0} BY <3>2
    <3>4. AnsweredRight(s)' BY DEF IInv, ShardInv
    <3>5. Len(out'[s]) <= Len(log[s]) BY <3>2, <3>3, <3>4 DEF AnsweredRight
    <3>6. log # PerShard(<<>>) BY <3>3, <3>5 DEF PerShard
    <3>. QED BY <3>6 DEF CallInv
  <2>. QED BY <1>6, <2>1, TakeAnswers
<1>7. ASSUME NEW s \in Shards, CtaStep(s) PROVE UNCHANGED <<log, out, nextId, sub>>
  BY <1>7, CtaElsewhere
<1>8. CASE \/ PollRound \/ PollSkipShard \/ PollRoundEnd \/ PollAdvance
           \/ \E m \in PollSizes : PollBegin(m)
  BY <1>1, <1>8 DEF PollRound, PollSkipShard, PollRoundEnd, PollAdvance, PollBegin
<1>9. CASE CountShard \/ CountReturn
  <2>1. poll.pc = "count" BY <1>9 DEF CountShard, CountReturn, Counting
  <2>. QED BY <2>1, SMTT(60) DEF PollInv
<1>10. ASSUME "count" \in PollKinds PROVE FALSE BY <1>10 DEF CleanUse
<1>11. CASE Start BY <1>11, StartRestarts
<1>12. CASE StopRequest \/ StopReturn \/ GridLaunch
  BY <1>1, <1>12 DEF StopRequest, StopReturn, GridLaunch
<1>. QED
  BY <1>1, <1>2, <1>3, <1>4, <1>5, <1>6, <1>7, <1>8, <1>9, <1>10, <1>11, <1>12
  DEF Next, ClientStep, SubmitStep, PollStep, vars

\* The FAST PATH implements the answer service: what its client sees is FIFO
\* lanes whose requests are answered one by one, in order and exactly once,
\* under ids never used before, until a start forgets them all.
THEOREM Refines == CleanUse => (Spec => ServiceSpec)
<1>. SUFFICES ASSUME CleanUse PROVE Spec => ServiceSpec OBVIOUS
<1>1. Init => CallInv BY CallInvInit
<1>2. IInv /\ CallInv /\ [Next]_vars => CallInv' BY CallInvStep DEF IInv
<1>3. Spec => []IInv BY Invariant
<1>4. Init => Service!Init BY InitRefines
<1>5. IInv /\ IInv' /\ CallInv /\ CallInv' /\ [Next]_vars => [Service!Next]_(Service!vars)
  BY StepRefines
<1>. QED BY <1>1, <1>2, <1>3, <1>4, <1>5, PTL DEF Spec, ServiceSpec, Service!Spec
=============================================================================

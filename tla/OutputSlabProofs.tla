--------------------------- MODULE OutputSlabProofs ---------------------------
(* What holds of the output slab for every ring, region and width of the     *)
(* indices that OneStart admits.                                             *)
EXTENDS OutputSlabInv, Integers, TLAPS

-----------------------------------------------------------------------------
(* Modular arithmetic: what makes a ring buffer's slots distinct, and indices *)
(* kept modulo a power of two harmless.                                       *)

\* Quotient and remainder of any integer.
LEMMA DivMod ==
  ASSUME NEW n \in Nat \ {0}, NEW a \in Int
  PROVE  a \div n \in Int /\ a = n * (a \div n) + (a % n) /\ a % n \in 0 .. n - 1
  OBVIOUS

\* The only multiple of n strictly between -n and n is 0.
LEMMA MultBound ==
  ASSUME NEW n \in Nat \ {0}, NEW x \in Int, n * x > -n, n * x < n
  PROVE  x = 0
<1>1. CASE x >= 1
  <2>1. n * x >= n BY <1>1
  <2>. QED BY <2>1
<1>2. CASE x <= -1
  <2>1. n * x <= -n BY <1>2
  <2>. QED BY <2>1
<1>. QED BY <1>1, <1>2

\* A remainder is determined by the number it is the remainder of.
LEMMA DivUnique ==
  ASSUME NEW n \in Nat \ {0}, NEW q \in Int, NEW r \in 0 .. n - 1,
         NEW p \in Int, NEW t \in 0 .. n - 1, n * q + r = n * p + t
  PROVE  r = t
<1>1. n * (q - p) = t - r OBVIOUS
<1>2. q - p = 0 BY <1>1, MultBound
<1>. QED BY <1>1, <1>2

\* Two numbers less than n apart have different remainders: n consecutive
\* positions of a ring buffer of n slots use each slot once.
LEMMA ModInj ==
  ASSUME NEW n \in Nat \ {0}, NEW a \in Int, NEW b \in Int, a < b, b - a < n
  PROVE  a % n # b % n
<1>. SUFFICES ASSUME a % n = b % n PROVE FALSE OBVIOUS
<1>. DEFINE q == a \div n  p == b \div n
<1>1. a = n * q + (a % n) /\ b = n * p + (a % n) /\ q \in Int /\ p \in Int BY DivMod
<1>2. n * (p - q) = b - a BY <1>1
<1>3. p - q = 0 BY <1>1, <1>2, MultBound
<1>. QED BY <1>2, <1>3

\* An index kept modulo m finds the slot of the index itself, in a buffer
\* whose size n divides m (sizes here are powers of two, m is 2^32).
LEMMA ModMod ==
  ASSUME NEW n \in Nat \ {0}, NEW m \in Nat \ {0}, m % n = 0, NEW a \in Int
  PROVE  (a % m) % n = a % n
<1>. DEFINE k == m \div n  q == a \div m  r == a % m
<1>1. m = n * k /\ k \in Int BY DivMod
<1>2. a = m * q + r /\ q \in Int /\ r \in Int BY DivMod
<1>3. r = n * (r \div n) + (r % n) /\ r \div n \in Int /\ r % n \in 0 .. n - 1 BY <1>2, DivMod
<1>4. a = n * (a \div n) + (a % n) /\ a \div n \in Int /\ a % n \in 0 .. n - 1 BY DivMod
<1>. HIDE DEF k, q, r
<1>5. n * (a \div n) + (a % n) = n * (k * q + r \div n) + (r % n) BY <1>1, <1>2, <1>3, <1>4
<1>6. k * q + r \div n \in Int BY <1>1, <1>2, <1>3
<1>7. a % n = r % n BY <1>3, <1>4, <1>5, <1>6, DivUnique
<1>. QED BY <1>7 DEF r

-----------------------------------------------------------------------------
(* Constants *)

\* The sizes as numbers, for the provers.
LEMMA Sizes ==
  ASSUME OneStart
  PROVE  /\ Slots \in Nat \ {0} /\ IdxMod \in Nat \ {0}
         /\ Slots < IdxMod /\ IdxMod % Slots = 0
         /\ \A g \in Regions : /\ SegsOf(g) \in Nat \ {0} /\ SegsOf(g) >= 2
                               /\ IdxMod % SegsOf(g) = 0
         /\ "std" \in Regions /\ "seal" \in Regions /\ SegsOf("seal") = SealSegs
  BY DEF OutputSlabAssumption, OneStart, SegsOf, Regions

-----------------------------------------------------------------------------
(* Indices kept modulo their width *)

\* A remainder has the remainder of every number of its class.
LEMMA SumMod ==
  ASSUME NEW n \in Nat \ {0}, NEW a \in Int, NEW b \in Int
  PROVE  ((a % n) + b) % n = (a + b) % n
<1>. DEFINE q == a \div n  r == a % n
<1>1. a = n * q + r /\ q \in Int /\ r \in Int BY DivMod
<1>2. r + b = n * ((r + b) \div n) + ((r + b) % n) /\ (r + b) \div n \in Int
      /\ (r + b) % n \in 0 .. n - 1
  BY <1>1, DivMod, r + b \in Int
<1>3. a + b = n * ((a + b) \div n) + ((a + b) % n) /\ (a + b) \div n \in Int
      /\ (a + b) % n \in 0 .. n - 1
  BY DivMod, a + b \in Int
<1>. DEFINE x == (r + b) \div n  u == (r + b) % n  y == (a + b) \div n  v == (a + b) % n
<1>4. x \in Int /\ y \in Int /\ u \in 0 .. n - 1 /\ v \in 0 .. n - 1 BY <1>2, <1>3
<1>5. n * (q + x) + u = n * y + v
  <2>1. r + b = n * x + u /\ a + b = n * y + v BY <1>2, <1>3
  <2>2. a = n * q + r BY <1>1
  <2>. HIDE DEF q, r, x, y, u, v
  <2>3. n * (q + x) = n * q + n * x BY <1>1, <1>4
  <2>. QED BY <2>1, <2>2, <2>3, <1>1, <1>4
<1>6. q + x \in Int BY <1>1, <1>4
<1>. HIDE DEF q, r, x, y, u, v
<1>7. u = v BY <1>4, <1>5, <1>6, DivUnique
<1>. QED BY <1>7 DEF u, v, r

\* The distance of two indices is that of the numbers they stand for.
LEMMA DiffMod ==
  ASSUME NEW n \in Nat \ {0}, NEW a \in Int, NEW b \in Int
  PROVE  ((a % n) - (b % n)) % n = (a - b) % n
<1>1. a % n \in Int /\ b % n \in Int BY DivMod
<1>2. ((a % n) + (-(b % n))) % n = (a + (-(b % n))) % n BY <1>1, SumMod, -(b % n) \in Int
<1>. DEFINE q == b \div n
<1>4. b = n * q + (b % n) /\ q \in Int BY DivMod
<1>5. ASSUME NEW c \in Int, NEW k \in Int PROVE (c + n * k) % n = c % n
  <2>1. c = n * (c \div n) + (c % n) /\ c \div n \in Int /\ c % n \in 0 .. n - 1 BY DivMod
  <2>2. c + n * k \in Int OBVIOUS
  <2>3. c + n * k = n * ((c + n * k) \div n) + ((c + n * k) % n)
        /\ (c + n * k) \div n \in Int /\ (c + n * k) % n \in 0 .. n - 1
    BY <2>2, DivMod
  <2>. DEFINE x == c \div n  u == c % n  y == (c + n * k) \div n  v == (c + n * k) % n
  <2>4. n * (x + k) + u = n * y + v
    <3>1. c = n * x + u /\ c + n * k = n * y + v BY <2>1, <2>3
    <3>2. x \in Int /\ y \in Int /\ u \in Int /\ v \in Int BY <2>1, <2>3
    <3>. HIDE DEF x, y, u, v
    <3>. QED BY <3>1, <3>2
  <2>5. x + k \in Int /\ y \in Int /\ u \in 0 .. n - 1 /\ v \in 0 .. n - 1 BY <2>1, <2>3
  <2>. HIDE DEF x, y, u, v
  <2>6. u = v BY <2>4, <2>5, DivUnique
  <2>. QED BY <2>6 DEF u, v
<1>6. a + (-(b % n)) = (a - b) + n * q BY <1>1, <1>4
<1>7. ((a - b) + n * q) % n = (a - b) % n BY <1>4, <1>5, a - b \in Int
<1>8. (a % n) + (-(b % n)) = (a % n) - (b % n) BY <1>1
<1>. QED BY <1>2, <1>6, <1>7, <1>8

\* A number below n is its own remainder.
LEMMA ModSmall ==
  ASSUME NEW n \in Nat \ {0}, NEW a \in 0 .. n - 1
  PROVE  a % n = a
<1>1. a = n * (a \div n) + (a % n) /\ a \div n \in Int /\ a % n \in 0 .. n - 1 BY DivMod
<1>. DEFINE q == a \div n  r == a % n
<1>2. n * 0 + a = n * q + r BY <1>1
<1>3. q \in Int /\ r \in 0 .. n - 1 BY <1>1
<1>. HIDE DEF q, r
<1>4. a = r BY <1>2, <1>3, DivUnique
<1>. QED BY <1>4 DEF r

\* Indices less than a width apart tell how far apart the numbers are.
LEMMA LagExact ==
  ASSUME OneStart, NEW a \in Int, NEW b \in Int, a - b \in 0 .. IdxMod - 1
  PROVE  Lag(U32(a), U32(b)) = a - b
  BY Sizes, DiffMod, ModSmall DEF Lag, U32

\* An index advanced and reduced stands for the number advanced.
LEMMA Advance ==
  ASSUME OneStart, NEW a \in Int, NEW k \in Int
  PROVE  U32(U32(a) + k) = U32(a + k)
  BY Sizes, SumMod DEF U32

\* A reduced index finds the slot and the segment of the number itself.
LEMMA Reduced ==
  ASSUME OneStart, NEW a \in Int
  PROVE  /\ U32(a) \in 0 .. IdxMod - 1
         /\ HostSlot(U32(a)) = HostSlot(a) /\ HostSlot(a) \in 0 .. Slots - 1
         /\ \A g \in Regions : /\ SegmentOf(g, U32(a)) = SegmentOf(g, a)
                               /\ SegmentOf(g, a) \in 0 .. SegsOf(g) - 1
<1>1. U32(a) \in 0 .. IdxMod - 1 BY Sizes, DivMod DEF U32
<1>2. HostSlot(U32(a)) = HostSlot(a) BY Sizes, ModMod DEF U32, HostSlot
<1>3. HostSlot(a) \in 0 .. Slots - 1 BY Sizes, DivMod DEF HostSlot
<1>4. ASSUME NEW g \in Regions
      PROVE  SegmentOf(g, U32(a)) = SegmentOf(g, a) /\ SegmentOf(g, a) \in 0 .. SegsOf(g) - 1
  <2>. DEFINE n == SegsOf(g)
  <2>1. n \in Nat \ {0} /\ IdxMod % n = 0 BY Sizes
  <2>2. IdxMod \in Nat \ {0} BY Sizes
  <2>. HIDE DEF n
  <2>3. (a % IdxMod) % n = a % n BY <2>1, <2>2, ModMod
  <2>4. a % n \in 0 .. n - 1 BY <2>1, DivMod
  <2>. QED BY <2>3, <2>4 DEF U32, SegmentOf, n
<1>. QED BY <1>1, <1>2, <1>3, <1>4

-----------------------------------------------------------------------------
(* Requests, slots and segments *)

\* The window of the ring in numbers: it is never longer than the ring.
LEMMA Bounds ==
  ASSUME OneStart, Shapes, Counts
  PROVE  /\ Reserved \in Nat /\ nextId = Reserved + 1 /\ Drained \in Nat /\ taken \in Nat
         /\ Lag(wr, rd) \in Nat /\ Lag(wr, rd) = Reserved - Drained
         /\ Drained + taken <= Reserved /\ Reserved - Drained <= Slots
         /\ wr \in 0 .. IdxMod - 1 /\ rd \in 0 .. IdxMod - 1
<1>1. Reserved \in Nat /\ nextId = Reserved + 1 BY DEF Shapes, Reserved
<1>a. taken \in Nat /\ Drained \in Nat /\ Lag(wr, rd) <= Slots /\ taken <= Lag(wr, rd)
  BY DEF Shapes, Counts
<1>2. wr \in 0 .. IdxMod - 1 /\ rd \in 0 .. IdxMod - 1 BY <1>1, <1>a, Reduced DEF Counts
<1>3. Lag(wr, rd) \in Nat
  <2>1. wr - rd \in Int /\ IdxMod \in Nat \ {0} BY <1>2, Sizes
  <2>2. (wr - rd) % IdxMod \in 0 .. IdxMod - 1 BY <2>1, DivMod
  <2>. QED BY <2>1, <2>2 DEF Lag, U32
<1>4. Drained = Reserved - Lag(wr, rd) BY DEF Drained
<1>6. Slots \in Nat BY Sizes
<1>. HIDE DEF Drained, Reserved
<1>. QED BY <1>1, <1>2, <1>3, <1>4, <1>a, <1>6

\* The requests of the window are where their positions say.
LEMMA Positions ==
  ASSUME OneStart, Shapes, Counts, NEW r \in Window
  PROVE  /\ r \in Nat /\ r > Drained + taken /\ r <= Reserved /\ r - 1 \in Nat
         /\ Lag(U32(r - 1), rd) = r - 1 - Drained
         /\ Lag(wr, U32(r - 1)) = Reserved - (r - 1)
         /\ SlotOf(r) \in 0 .. Slots - 1 /\ HostSlot(U32(r - 1)) = SlotOf(r)
<1>1. r \in Nat /\ r > Drained + taken /\ r <= Reserved /\ r - 1 \in Nat
  BY Bounds DEF Window
<1>2. rd = U32(Drained) /\ wr = U32(Reserved) BY DEF Counts
<1>3. Slots \in Nat /\ IdxMod \in Nat /\ Slots < IdxMod BY Sizes
<1>4. (r - 1) - Drained \in 0 .. IdxMod - 1 /\ Reserved - (r - 1) \in 0 .. IdxMod - 1
  BY <1>1, <1>3, Bounds
<1>5. Lag(U32(r - 1), rd) = (r - 1) - Drained BY <1>1, <1>2, <1>4, Bounds, LagExact
<1>6. Lag(wr, U32(r - 1)) = Reserved - (r - 1) BY <1>1, <1>2, <1>4, Bounds, LagExact
<1>7. SlotOf(r) \in 0 .. Slots - 1 /\ HostSlot(U32(r - 1)) = SlotOf(r)
  BY <1>1, Reduced DEF SlotOf
<1>. QED BY <1>1, <1>5, <1>6, <1>7

\* Requests less than a ring apart have slots of their own.
LEMMA SlotApart ==
  ASSUME OneStart, NEW a \in Int, NEW b \in Int, a - b < Slots, b - a < Slots,
         SlotOf(a) = SlotOf(b)
  PROVE  a = b
<1>1. Slots \in Nat \ {0} BY Sizes
<1>2. CASE a < b
  <2>1. a - 1 \in Int /\ b - 1 \in Int /\ a - 1 < b - 1 /\ (b - 1) - (a - 1) < Slots BY <1>1, <1>2
  <2>2. (a - 1) % Slots # (b - 1) % Slots BY <1>1, <2>1, ModInj
  <2>. QED BY <2>2 DEF SlotOf, HostSlot
<1>3. CASE b < a
  <2>1. a - 1 \in Int /\ b - 1 \in Int /\ b - 1 < a - 1 /\ (a - 1) - (b - 1) < Slots BY <1>1, <1>3
  <2>2. (b - 1) % Slots # (a - 1) % Slots BY <1>1, <2>1, ModInj
  <2>. QED BY <2>2 DEF SlotOf, HostSlot
<1>. QED BY <1>2, <1>3

\* Requests less than a lap of a region apart have segments of their own.
LEMMA SegmentApart ==
  ASSUME OneStart, NEW g \in Regions, NEW a \in Int, NEW b \in Int,
         a - b < SegsOf(g), b - a < SegsOf(g), Home(g, a).seg = Home(g, b).seg
  PROVE  a = b
<1>. DEFINE n == SegsOf(g)
<1>1. n \in Nat \ {0} BY Sizes
<1>2. (a - 1) % n = (b - 1) % n BY DEF Home, SegmentOf
<1>3. a - b < n /\ b - a < n OBVIOUS
<1>. HIDE DEF n
<1>4. CASE a < b
  <2>1. a - 1 \in Int /\ b - 1 \in Int /\ a - 1 < b - 1 /\ (b - 1) - (a - 1) < n
    BY <1>1, <1>3, <1>4
  <2>. QED BY <1>1, <1>2, <2>1, ModInj
<1>5. CASE b < a
  <2>1. a - 1 \in Int /\ b - 1 \in Int /\ b - 1 < a - 1 /\ (a - 1) - (b - 1) < n
    BY <1>1, <1>3, <1>5
  <2>. QED BY <1>1, <1>2, <2>1, ModInj
<1>. QED BY <1>4, <1>5

\* Two requests of the window are less than a ring apart.
LEMMA WindowApart ==
  ASSUME OneStart, Shapes, Counts, NEW r \in Window, NEW q \in Window, SlotOf(r) = SlotOf(q)
  PROVE  r = q
<1>1. r - q < Slots /\ q - r < Slots BY Positions, Bounds, Sizes
<1>. QED BY <1>1, Positions, SlotApart

\* A request's segment is one of its region's.
LEMMA HomeSeg ==
  ASSUME OneStart, NEW g \in Regions, NEW r \in Int
  PROVE  /\ Home(g, r).seg \in 0 .. SegsOf(g) - 1 /\ Home(g, r).region = g
         /\ Home(g, r).seg \in Nat
         /\ SegmentOf(g, U32(r - 1)) = Home(g, r).seg
<1>1. SegmentOf(g, r - 1) \in 0 .. SegsOf(g) - 1 /\ SegmentOf(g, U32(r - 1)) = SegmentOf(g, r - 1)
  BY Reduced, r - 1 \in Int
<1>2. SegsOf(g) \in Nat BY Sizes
<1>. QED BY <1>1, <1>2 DEF Home

-----------------------------------------------------------------------------
(* Answers *)

\* What the dispatch makes of the requests of the model: whatever points into
\* the slab is OK, a sealed answer had room, and a seal that is OK is sealed.
LEMMA Answers ==
  ASSUME NEW l, l.kind \in {"digest", "digests", "signs", "seal"}
  PROVE  LET a == Answer(l)
         IN  /\ a.slab = "set" /\ a.status \in Statuses
             /\ a.region \in {"none"} \cup Regions
             /\ a.region # "none" => a.status = "OK"
             /\ a.region = "seal" => SealRoom(l.pos)
             /\ l.kind = "seal" => a.region # "std"
             /\ l.kind = "seal" /\ a.status = "OK" => a.region = "seal"
<1>1. CASE l.kind = "digest"
  <2>. DEFINE r == [opcode |-> "SHA256", ilen |-> 32, multi |-> FALSE, n |-> 0,
                    mlen |-> 0, hflags |-> 0, poff |-> 0, plen |-> 0, slot |-> 0]
  <2>1. KindRequest(l.kind) = r BY <1>1 DEF KindRequest
  <2>2. Answer(l) = Sha256(r) BY <2>1 DEF Answer, Dispatch
  <2>3. Sha256(r) = Inline(32, 32, 0) BY DEF Sha256, Digest, SingleDigest
  <2>. QED BY <1>1, <2>2, <2>3, ZenonT(60) DEF Inline, Refused, Statuses, Regions
<1>2. CASE l.kind = "digests"
  <2>. DEFINE r == [opcode |-> "SHA256", ilen |-> 32, multi |-> TRUE, n |-> 3,
                    mlen |-> 32, hflags |-> 0, poff |-> 0, plen |-> 96, slot |-> 0]
  <2>1. KindRequest(l.kind) = r BY <1>2 DEF KindRequest
  <2>2. Answer(l) = Sha256(r) BY <2>1 DEF Answer, Dispatch
  <2>3. MultiValid(r, 32, 32) BY DEF MultiValid, PayloadAvail, UsesPayload, SegmentBytes
  <2>4. Sha256(r) = [InSlab("std", 96, 8, 96) EXCEPT !.len = 64]
    BY <2>3 DEF Sha256, Digest, MultiDigest, UsesPayload, OutputBytes, HeaderBytes
  <2>. DEFINE a == Answer(l)
  <2>5. a = [InSlab("std", 96, 8, 96) EXCEPT !.len = 64] BY <2>2, <2>4
  <2>. HIDE DEF r, a
  <2>6. a.status = "OK" BY <2>5 DEF InSlab, Refused
  <2>7. a.region = "std" BY <2>5 DEF InSlab, Refused
  <2>8. a.slab = "set" BY <2>5 DEF InSlab, Refused
  <2>9. a.status = "OK" /\ a.region = "std" /\ a.slab = "set" BY <2>6, <2>7, <2>8
  <2>. QED BY <1>2, <2>9 DEF Statuses, Regions, a
<1>3. CASE l.kind = "signs"
  <2>. DEFINE r == [opcode |-> "P256_SIGN", ilen |-> 32, multi |-> TRUE, n |-> 2,
                    mlen |-> 32, hflags |-> 0, poff |-> 0, plen |-> 64, slot |-> 0]
  <2>1. KindRequest(l.kind) = r BY <1>3 DEF KindRequest
  <2>2. Answer(l) = MultiSign(r) BY <2>1 DEF Answer, Dispatch, P256Sign
  <2>3. MultiSign(r) = [InSlab("std", 128, 8, 64) EXCEPT !.len = 64, !.opcode = "garbage"]
    BY DEF MultiSign, OutputBytes, HeaderBytes
  <2>. DEFINE a == Answer(l)
  <2>5. a = [InSlab("std", 128, 8, 64) EXCEPT !.len = 64, !.opcode = "garbage"] BY <2>2, <2>3
  <2>. HIDE DEF r, a
  <2>6. a.status = "OK" BY <2>5 DEF InSlab, Refused
  <2>7. a.region = "std" BY <2>5 DEF InSlab, Refused
  <2>8. a.slab = "set" BY <2>5 DEF InSlab, Refused
  <2>9. a.status = "OK" /\ a.region = "std" /\ a.slab = "set" BY <2>6, <2>7, <2>8
  <2>. QED BY <1>3, <2>9 DEF Statuses, Regions, a
<1>4. CASE l.kind = "seal"
  <2>. DEFINE r == [opcode |-> "AES256_GCM", ilen |-> 12, multi |-> FALSE, n |-> 0,
                    mlen |-> 0, hflags |-> 0, poff |-> 0, plen |-> 100, slot |-> 0]
  <2>1. KindRequest(l.kind) = r BY <1>4 DEF KindRequest
  <2>2. Answer(l) = Seal(r, "aes", SealRoom(l.pos)) BY <2>1 DEF Answer, Dispatch, Aes256Gcm
  <2>3. KeyStatus(r, "aes") = "OK" BY DEF KeyStatus, MaxKeySlots
  <2>4. SealRange(r) BY DEF SealRange, MaxPlaintext, PayloadSlabBytes
  <2>5. Answer(l) = Echoes(IF ~SealRoom(l.pos) THEN Refused("SLAB_OVERRUN")
                           ELSE InSlab("seal", 116, 12, 100))
    BY <2>2, <2>3, <2>4 DEF Seal, NonceBytes, TagBytes
  <2>. HIDE DEF r
  <2>. DEFINE a == Answer(l)
  <2>6. CASE SealRoom(l.pos)
    <3>1. a = Echoes(InSlab("seal", 116, 12, 100)) BY <2>5, <2>6
    <3>. HIDE DEF a
    <3>2. a.status = "OK" BY <3>1 DEF Echoes, InSlab, Refused
    <3>3. a.region = "seal" BY <3>1 DEF Echoes, InSlab, Refused
    <3>4. a.slab = "set" BY <3>1 DEF Echoes, InSlab, Refused
    <3>5. a.status = "OK" /\ a.region = "seal" /\ a.slab = "set" BY <3>2, <3>3, <3>4
    <3>. QED BY <1>4, <2>6, <3>5 DEF Statuses, Regions, a
  <2>7. CASE ~SealRoom(l.pos)
    <3>1. a = Echoes(Refused("SLAB_OVERRUN")) BY <2>5, <2>7
    <3>. HIDE DEF a
    <3>2. a.status = "SLAB_OVERRUN" /\ a.region = "none" /\ a.slab = "set"
      BY <3>1 DEF Echoes, Refused
    <3>. QED BY <1>4, <2>7, <3>2 DEF Statuses, Regions, a
  <2>. QED BY <2>6, <2>7
<1>. QED BY <1>1, <1>2, <1>3, <1>4

-----------------------------------------------------------------------------
(* The invariant holds initially. *)

LEMMA InitInv ==
  ASSUME OneStart, Init
  PROVE  IInv
<1>. USE DEF Init
<1>1. /\ Slots \in Nat \ {0} /\ MaxStarts \in Nat /\ MaxRequests \in Nat
  BY DEF OneStart, OutputSlabAssumption
<1>2. Reserved = 0 BY DEF Reserved
<1>3. 0 \in 0 .. IdxMod - 1 /\ U32(0) = 0 BY Sizes, ModSmall DEF U32
<1>4. Lag(wr, rd) = 0 BY <1>3 DEF Lag
<1>5. Drained = 0 BY <1>2, <1>4 DEF Drained
<1>6. Window = {} BY <1>2, <1>5 DEF Window
<1>7. Shapes
  <2>1. Empty \in [rid : Nat, status : Statuses, line1 : Lines, before : Lines]
    BY DEF Empty, Lines, Line1, Statuses, Places
  <2>2. cq \in [0 .. Slots - 1 -> [rid : Nat, status : Statuses, line1 : Lines, before : Lines]]
    BY <2>1
  <2>3. DOMAIN slab = Regions /\ DOMAIN owner = Regions BY DEF AllSegments
  <2>4. ASSUME NEW g \in Regions
        PROVE  /\ slab[g] \in [0 .. SegsOf(g) - 1 -> Nat]
               /\ owner[g] \in [0 .. SegsOf(g) - 1 -> [rid : Nat, pos : Nat]]
    BY DEF AllSegments
  <2>5. /\ load \in Loads /\ running \in BOOLEAN /\ starts \in 0 .. MaxStarts
        /\ capacity \in 0 .. Slots /\ nextId \in 1 .. MaxRequests + 1 /\ taken \in Nat
    <3>1. load \in Loads /\ running \in BOOLEAN /\ taken \in Nat OBVIOUS
    <3>2. starts = 0 /\ capacity = 0 /\ nextId = 1 OBVIOUS
    <3>3. starts \in 0 .. MaxStarts /\ capacity \in 0 .. Slots BY <1>1, <3>2
    <3>4. nextId \in 1 .. MaxRequests + 1 BY <1>1, <3>2
    <3>. QED BY <3>1, <3>3, <3>4
  <2>. QED BY <2>2, <2>3, <2>4, <2>5 DEF Shapes
<1>8. Counts BY <1>1, <1>2, <1>3, <1>4, <1>5 DEF Counts
<1>9. Lanes BY DEF Lanes
<1>10. Slotted BY <1>6 DEF Slotted, Empty
<1>11. Placed BY <1>6 DEF Placed
<1>12. OnePlace BY <1>6 DEF OnePlace, Empty, Line1
<1>13. Slabs BY DEF Slabs, AllSegments
<1>14. Owners BY DEF Owners, AllSegments
<1>15. Returned BY DEF Returned
<1>16. Reading BY DEF Reading, Idle, Regions
<1>. QED BY <1>7, <1>8, <1>9, <1>10, <1>11, <1>12, <1>13, <1>14, <1>15, <1>16 DEF IInv

-----------------------------------------------------------------------------
(* The steps of the reader *)

\* A step of the reader leaves everything else as it was.
LEMMA ReaderOnly ==
  ASSUME IInv, Reading',
         UNCHANGED <<load, running, starts, capacity, wr, rd, nextId, todo, cq, slab,
                     owner, taken, held>>
  PROVE  IInv'
<1>1. (Reserved' = Reserved) /\ (Drained' = Drained) BY DEF Reserved, Drained, Lag, U32
<1>2. Window' = Window BY <1>1 DEF Window
<1>3. Shapes' BY DEF IInv, Shapes
<1>4. Counts' BY <1>1 DEF IInv, Counts, Lag, U32
<1>5. Lanes' BY <1>1, <1>2 DEF IInv, Lanes, U32
<1>6. Slotted' BY <1>2 DEF IInv, Slotted, InLane, LineOf
<1>7. Placed' BY <1>2 DEF IInv, Placed, Answered, LineOf
<1>8. OnePlace' BY <1>2 DEF IInv, OnePlace, Answered, LineOf
<1>9. Slabs' BY <1>1 DEF IInv, Slabs
<1>10. Owners' BY DEF IInv, Owners
<1>11. Returned' BY <1>1 DEF IInv, Returned
<1>. QED BY <1>3, <1>4, <1>5, <1>6, <1>7, <1>8, <1>9, <1>10, <1>11 DEF IInv

ReaderShape ==
  [at : {"idle", "half1", "half2", "check", "ok", "refused"}, rid : Nat,
   region : Regions, seg : Nat, pos : Nat, half1 : Nat, half2 : Nat]

\* The reader starts on a segment that names its request as the owner.
LEMMA BeginInv ==
  ASSUME OneStart, IInv, NEW h \in held, ReadBegin(h)
  PROVE  IInv'
<1>. DEFINE g == h.place.region  o == owner[g][h.place.seg]
            r == [Idle EXCEPT !.rid = h.rid, !.region = g, !.seg = h.place.seg, !.pos = o.pos]
<1>1. /\ h.rid \in 1 .. Reserved /\ g \in Regions /\ h.place = Home(g, h.rid)
      /\ slab[g][h.place.seg] >= h.rid
  BY DEF ReadBegin, Readable, IInv, Returned
<1>2. Reserved \in Nat BY DEF IInv, Shapes, Reserved
<1>3. h.place.seg \in 0 .. SegsOf(g) - 1 /\ h.place.seg \in Nat
      /\ h.place.seg = Home(g, h.rid).seg
  BY <1>1, <1>2, HomeSeg
<1>4. o \in [rid : Nat, pos : Nat] /\ (o.rid # 0 => o.pos = U32(o.rid - 1))
  BY <1>1, <1>3 DEF IInv, Shapes, Owners
<1>5. r = [at |-> "idle", rid |-> h.rid, region |-> g, seg |-> h.place.seg, pos |-> o.pos,
           half1 |-> 0, half2 |-> 0]
  <2>1. r \in [at : {"idle"}, rid : {h.rid}, region : {g}, seg : {h.place.seg},
               pos : {o.pos}, half1 : {0}, half2 : {0}]
    BY DEF Idle
  <2>. HIDE DEF r, g, o
  <2>. QED BY <2>1
<1>6. reader' = [r EXCEPT !.at = IF StillIts(r) THEN "half1" ELSE "refused"]
  BY DEF ReadBegin
<1>7. StillIts(r) => o.rid = h.rid
  BY <1>5 DEF StillIts, OwnerOf
<1>. HIDE DEF g, o, r
<1>8. CASE StillIts(r)
  <2>1. reader' = [at |-> "half1", rid |-> h.rid, region |-> g, seg |-> h.place.seg,
                   pos |-> o.pos, half1 |-> 0, half2 |-> 0]
    BY <1>5, <1>6, <1>8
  <2>2. o.pos = U32(h.rid - 1) BY <1>1, <1>2, <1>4, <1>7, <1>8
  <2>3. (Reserved' = Reserved) /\ slab' = slab BY DEF ReadBegin, Reserved
  <2>4. Reading' BY <1>1, <1>2, <1>3, <1>4, <2>1, <2>2, <2>3 DEF Reading, U32
  <2>. QED BY <2>4, ReaderOnly DEF ReadBegin
<1>9. CASE ~StillIts(r)
  <2>1. reader' = [at |-> "refused", rid |-> h.rid, region |-> g, seg |-> h.place.seg,
                   pos |-> o.pos, half1 |-> 0, half2 |-> 0]
    BY <1>5, <1>6, <1>9
  <2>2. Reading' BY <1>1, <1>2, <1>3, <1>4, <2>1 DEF Reading
  <2>. QED BY <2>2, ReaderOnly DEF ReadBegin
<1>. QED BY <1>8, <1>9

\* What the segment of a reader holds is the request's output or a later one.
LEMMA HalfCopied ==
  ASSUME OneStart, IInv, reader.at \in {"half1", "half2", "check"}
  PROVE  Copied(slab[reader.region][reader.seg]) /\ slab[reader.region][reader.seg] \in Nat
<1>. DEFINE g == reader.region  seg == reader.seg  x == slab[g][seg]
<1>1. /\ g \in Regions /\ reader.rid \in 1 .. Reserved /\ x >= reader.rid
      /\ seg = Home(g, reader.rid).seg
  BY DEF IInv, Reading
<1>2. Reserved \in Nat BY DEF IInv, Shapes, Reserved
<1>3. seg \in 0 .. SegsOf(g) - 1 BY <1>1, <1>2, HomeSeg
<1>4. x \in Nat BY <1>1, <1>3 DEF IInv, Shapes
<1>. HIDE DEF g, seg, x
<1>5. x # 0 BY <1>1, <1>2, <1>4
<1>6. x \in 1 .. Reserved /\ Home(g, x).seg = seg BY <1>1, <1>3, <1>5 DEF IInv, Slabs, x
<1>7. Home(g, x) = Home(g, reader.rid) BY <1>1, <1>6 DEF Home
<1>8. x \in reader.rid .. Reserved BY <1>1, <1>2, <1>6
<1>. QED BY <1>4, <1>7, <1>8 DEF Copied, g, seg, x

LEMMA HalfInv ==
  ASSUME OneStart, IInv, ReadHalf
  PROVE  IInv'
<1>. DEFINE x == slab[reader.region][reader.seg]
<1>1. reader \in ReaderShape BY DEF IInv, Reading, ReaderShape
<1>2. reader.at \in {"half1", "half2"} BY DEF ReadHalf
<1>3. Copied(x) /\ x \in Nat BY <1>2, HalfCopied
<1>4. Reading BY DEF IInv
<1>5. (Reserved' = Reserved) /\ slab' = slab BY DEF ReadHalf, Reserved
<1>. HIDE DEF x
<1>6. CASE reader.at = "half1"
  <2>1. reader' = [reader EXCEPT !.at = "half2", !.half1 = x] BY <1>6 DEF ReadHalf, x
  <2>2. reader' = [at |-> "half2", rid |-> reader.rid, region |-> reader.region,
                   seg |-> reader.seg, pos |-> reader.pos, half1 |-> x,
                   half2 |-> reader.half2]
    BY <1>1, <2>1 DEF ReaderShape
  <2>3. Reading' BY <1>1, <1>3, <1>4, <1>5, <1>6, <2>2 DEF Reading, Copied, ReaderShape
  <2>. QED BY <2>3, ReaderOnly DEF ReadHalf
<1>7. CASE reader.at = "half2"
  <2>1. reader' = [reader EXCEPT !.at = "check", !.half2 = x] BY <1>7 DEF ReadHalf, x
  <2>2. reader' = [at |-> "check", rid |-> reader.rid, region |-> reader.region,
                   seg |-> reader.seg, pos |-> reader.pos, half1 |-> reader.half1,
                   half2 |-> x]
    BY <1>1, <2>1 DEF ReaderShape
  <2>3. Reading' BY <1>1, <1>3, <1>4, <1>5, <1>7, <2>2 DEF Reading, Copied, ReaderShape
  <2>. QED BY <2>3, ReaderOnly DEF ReadHalf
<1>. QED BY <1>2, <1>6, <1>7

\* Less than a lap was reserved since the request: what was copied is its own.
LEMMA CopiedIsOwn ==
  ASSUME OneStart, IInv, reader.at = "check", StillIts(reader), MaxRequests < IdxMod,
         NEW half \in Nat, Copied(half)
  PROVE  half = reader.rid
<1>. DEFINE g == reader.region  r == reader.rid
<1>1. g \in Regions /\ r \in 1 .. Reserved /\ reader.pos = U32(r - 1) BY DEF IInv, Reading
<1>2. Reserved \in Nat /\ Reserved <= MaxRequests /\ MaxRequests \in Nat
  BY DEF IInv, Shapes, Reserved, OneStart, OutputSlabAssumption
<1>3. wr = U32(Reserved) BY DEF IInv, Counts
<1>4. Reserved - (r - 1) \in 0 .. IdxMod - 1 BY <1>1, <1>2, Sizes
<1>5. Lag(wr, reader.pos) = Reserved - (r - 1) BY <1>1, <1>2, <1>3, <1>4, LagExact
<1>6. Reserved - (r - 1) < SegsOf(g) BY <1>5 DEF StillIts
<1>7. half \in r .. Reserved /\ Home(g, half) = Home(g, r) BY DEF Copied
<1>8. SegsOf(g) \in Nat BY <1>1, Sizes
<1>. HIDE DEF g, r
<1>9. half - r < SegsOf(g) /\ r - half < SegsOf(g) /\ half \in Int /\ r \in Int
  BY <1>1, <1>2, <1>6, <1>7, <1>8
<1>10. half = r BY <1>1, <1>7, <1>9, SegmentApart
<1>. QED BY <1>10 DEF r

LEMMA EndInv ==
  ASSUME OneStart, IInv, ReadEnd
  PROVE  IInv'
<1>1. reader \in ReaderShape BY DEF IInv, Reading, ReaderShape
<1>2. reader.at = "check" BY DEF ReadEnd
<1>3. Copied(reader.half1) /\ Copied(reader.half2) BY <1>2 DEF IInv, Reading
<1>4. reader.half1 \in Nat /\ reader.half2 \in Nat BY <1>1 DEF ReaderShape
<1>5. CASE StillIts(reader)
  <2>1. reader' = [reader EXCEPT !.at = "ok"] BY <1>5 DEF ReadEnd
  <2>2. MaxRequests < IdxMod => reader.half1 = reader.rid /\ reader.half2 = reader.rid
    BY <1>2, <1>3, <1>4, <1>5, CopiedIsOwn
  <2>3. Reading' BY <1>1, <2>1, <2>2 DEF Reading, ReaderShape
  <2>. QED BY <2>3, ReaderOnly DEF ReadEnd
<1>6. CASE ~StillIts(reader)
  <2>1. reader' = [reader EXCEPT !.at = "refused"] BY <1>6 DEF ReadEnd
  <2>2. Reading' BY <1>1, <2>1 DEF Reading, ReaderShape
  <2>. QED BY <2>2, ReaderOnly DEF ReadEnd
<1>. QED BY <1>5, <1>6

LEMMA ReturnInv ==
  ASSUME OneStart, IInv, ReadReturn
  PROVE  IInv'
<1>1. reader' = Idle BY DEF ReadReturn
<1>2. Reading' BY <1>1 DEF Reading, Idle, Regions
<1>. QED BY <1>2, ReaderOnly DEF ReadReturn

-----------------------------------------------------------------------------
(* The steps of the lifecycle *)

\* A step that leaves the queue, the slab and the host's records as they were.
LEMMA LifecycleOnly ==
  ASSUME IInv, Shapes', Counts',
         UNCHANGED <<load, wr, rd, nextId, todo, cq, slab, owner, taken, held, reader>>
  PROVE  IInv'
<1>1. (Reserved' = Reserved) /\ (Drained' = Drained) BY DEF Reserved, Drained, Lag, U32
<1>2. Window' = Window BY <1>1 DEF Window
<1>3. Lanes' BY <1>1, <1>2 DEF IInv, Lanes, U32
<1>4. Slotted' BY <1>2 DEF IInv, Slotted, InLane, LineOf
<1>5. Placed' BY <1>2 DEF IInv, Placed, Answered, LineOf
<1>6. OnePlace' BY <1>2 DEF IInv, OnePlace, Answered, LineOf
<1>7. Slabs' BY <1>1 DEF IInv, Slabs
<1>8. Owners' BY DEF IInv, Owners
<1>9. Returned' BY <1>1 DEF IInv, Returned
<1>10. Reading' BY <1>1 DEF IInv, Reading, Copied, U32
<1>. QED BY <1>3, <1>4, <1>5, <1>6, <1>7, <1>8, <1>9, <1>10 DEF IInv

LEMMA CapacityInv ==
  ASSUME OneStart, IInv, NEW c \in Capacities, SetCapacity(c)
  PROVE  IInv'
<1>. USE DEF SetCapacity
<1>1. c \in 0 .. Slots
  <2>1. Capacities \subseteq 1 .. Slots BY DEF OneStart, OutputSlabAssumption
  <2>2. Slots \in Nat BY Sizes
  <2>3. c \in 1 .. Slots BY <2>1
  <2>. QED BY <2>2, <2>3
<1>2. Shapes' BY <1>1 DEF IInv, Shapes
<1>3. Counts' BY DEF IInv, Counts, Reserved, Drained, Lag, U32
<1>. QED BY <1>2, <1>3, LifecycleOnly

LEMMA StopInv ==
  ASSUME OneStart, IInv, Stop
  PROVE  IInv'
<1>. USE DEF Stop
<1>1. Shapes' BY DEF IInv, Shapes
<1>2. Counts' BY DEF IInv, Counts, Reserved, Drained, Lag, U32
<1>. QED BY <1>1, <1>2, LifecycleOnly

\* The kernel starts on an empty ring of full size: nothing was ever reserved.
LEMMA StartInv ==
  ASSUME OneStart, IInv, Start
  PROVE  IInv'
<1>1. starts = 0
  <2>1. starts \in 0 .. MaxStarts /\ starts < MaxStarts BY DEF IInv, Shapes, Start
  <2>2. MaxStarts \in Nat /\ MaxStarts <= 1 BY DEF OneStart, OutputSlabAssumption
  <2>. QED BY <2>1, <2>2
<1>2. nextId = 1 /\ todo = {} /\ taken = 0 BY <1>1 DEF IInv, Counts, Start
<1>3. capacity' = Slots BY DEF Start, ActiveCapacity, ZeroedTelemetry
<1>4. (Reserved' = 0) /\ Reserved = 0 BY <1>2 DEF Start, Reserved
<1>5. 0 \in 0 .. IdxMod - 1 /\ U32(0) = 0 BY Sizes, ModSmall DEF U32
<1>6. (wr' = 0) /\ (rd' = 0) /\ 0 - 0 = 0 BY DEF Start
<1>7. Lag(wr', rd') = 0 BY <1>5, <1>6 DEF Lag
<1>8. Drained' = 0 BY <1>4, <1>7 DEF Drained
<1>9. Window' = {} BY <1>2, <1>4, <1>8 DEF Window, Start
<1>10. Shapes'
  <2>1. Empty \in [rid : Nat, status : Statuses, line1 : Lines, before : Lines]
    BY DEF Empty, Lines, Line1, Statuses, Places
  <2>2. cq' \in [0 .. Slots - 1 -> [rid : Nat, status : Statuses, line1 : Lines, before : Lines]]
    BY <2>1 DEF Start
  <2>3. starts' \in 0 .. MaxStarts
    BY <1>1 DEF Start, OneStart, OutputSlabAssumption
  <2>4. capacity' \in 0 .. Slots BY <1>3, Sizes
  <2>5. running' \in BOOLEAN BY DEF Start
  <2>. QED BY <2>2, <2>3, <2>4, <2>5 DEF IInv, Shapes, Start
<1>11. Counts'
  <2>1. running' /\ starts' = 1 BY <1>1 DEF Start
  <2>2. (wr' = U32(Reserved')) /\ rd' = U32(Drained') /\ Drained' \in Nat
    BY <1>4, <1>5, <1>6, <1>8
  <2>3. Lag(wr', rd') <= Slots /\ taken' <= Lag(wr', rd') BY <1>2, <1>7, Sizes DEF Start
  <2>. QED BY <1>3, <2>1, <2>2, <2>3 DEF Counts
<1>12. Lanes' BY <1>2 DEF Lanes, Start
<1>13. Slotted' BY <1>2, <1>9 DEF Slotted, Start, Empty
<1>14. Placed' BY <1>9 DEF Placed
<1>15. OnePlace'
  <2>1. \A s \in 0 .. Slots - 1 : cq'[s] = Empty BY DEF Start
  <2>. QED BY <1>9, <2>1 DEF OnePlace, Empty, Line1
<1>16. Slabs' BY <1>4 DEF IInv, Slabs, Start
<1>17. Owners' BY DEF IInv, Owners, Start
<1>18. Returned' BY <1>4 DEF IInv, Returned, Start
<1>19. Reading' BY <1>4 DEF IInv, Reading, Start, Copied, U32
<1>. QED BY <1>10, <1>11, <1>12, <1>13, <1>14, <1>15, <1>16, <1>17, <1>18, <1>19 DEF IInv

-----------------------------------------------------------------------------
(* The kernel reserves a batch *)

\* The lanes of the new batch, by request.
LEMMA NewLanes ==
  ASSUME OneStart, IInv, NEW k, NEW n \in 1 .. 2, Reserve(k, n)
  PROVE  /\ \A l \in todo' : \E i \in 0 .. n - 1 :
              l = [rid |-> Reserved + 1 + i, kind |-> k, pos |-> U32(Reserved + i),
                   at |-> "compute"]
         /\ \A r \in Reserved + 1 .. Reserved + n : \E l \in todo' :
              l.rid = r /\ l.at = "compute"
         /\ (Reserved' = Reserved + n) /\ (Drained' = Drained)
         /\ (Lag(wr', rd') = Reserved + n - Drained)
         /\ Reserved + n - Drained <= Slots
         /\ wr' = U32(Reserved + n)
<1>1. Shapes /\ Counts /\ running /\ n \in Nat BY DEF IInv, Reserve
<1>2. capacity = Slots BY <1>1 DEF Counts
<1>3. Reserved \in Nat /\ nextId = Reserved + 1 /\ Lag(wr, rd) = Reserved - Drained
      /\ Drained \in Nat
  BY <1>1, Bounds
<1>4. wr = U32(Reserved) /\ rd = U32(Drained) BY <1>1 DEF Counts
<1>5. ASSUME NEW i \in Int PROVE U32(wr + i) = U32(Reserved + i)
  BY <1>3, <1>4, Advance
<1>6. todo' = {[rid |-> nextId + i, kind |-> k, pos |-> U32(wr + i), at |-> "compute"] :
                 i \in 0 .. n - 1}
  BY DEF Reserve
<1>7. ASSUME NEW l \in todo'
      PROVE  \E i \in 0 .. n - 1 :
               l = [rid |-> Reserved + 1 + i, kind |-> k, pos |-> U32(Reserved + i),
                    at |-> "compute"]
  <2>1. PICK i \in 0 .. n - 1 :
          l = [rid |-> nextId + i, kind |-> k, pos |-> U32(wr + i), at |-> "compute"]
    BY <1>6
  <2>2. U32(wr + i) = U32(Reserved + i) BY <1>5, <2>1
  <2>3. nextId + i = Reserved + 1 + i BY <1>3, <2>1
  <2>. QED BY <2>1, <2>2, <2>3
<1>8. ASSUME NEW r \in Reserved + 1 .. Reserved + n
      PROVE  \E l \in todo' : l.rid = r /\ l.at = "compute"
  <2>. DEFINE i == r - nextId
              l == [rid |-> nextId + i, kind |-> k, pos |-> U32(wr + i), at |-> "compute"]
  <2>1. i \in 0 .. n - 1 /\ nextId + i = r BY <1>1, <1>3
  <2>2. l \in todo' BY <1>6, <2>1
  <2>3. l.rid = r /\ l.at = "compute" BY <2>1
  <2>. QED BY <2>2, <2>3
<1>9. (nextId' = nextId + n) /\ (rd' = rd) /\ wr' = U32(wr + n) BY DEF Reserve
<1>10. Reserved' = Reserved + n BY <1>1, <1>3, <1>9 DEF Reserved
<1>11. wr' = U32(Reserved + n) BY <1>1, <1>5, <1>9
<1>12. n <= Slots - (Reserved - Drained) BY <1>2, <1>3 DEF Reserve
<1>13. Reserved + n - Drained <= Slots BY <1>1, <1>3, <1>12, Sizes
<1>14. (Reserved + n) - Drained \in 0 .. IdxMod - 1
  BY <1>1, <1>3, <1>13, Sizes, Bounds
<1>15. Lag(wr', rd') = Reserved + n - Drained
  BY <1>1, <1>3, <1>4, <1>9, <1>11, <1>14, LagExact
<1>16. Drained' = Drained
  <2>1. Lag(wr, rd)' = Reserved + n - Drained BY <1>15 DEF Lag, U32
  <2>. QED BY <1>1, <1>3, <1>10, <2>1 DEF Drained
<1>. QED BY <1>7, <1>8, <1>10, <1>11, <1>13, <1>15, <1>16

LEMMA ReserveInv ==
  ASSUME OneStart, IInv, NEW k \in load.kinds, NEW n \in 1 .. 2, Reserve(k, n)
  PROVE  IInv'
<1>. DEFINE R == Reserved  D == Drained
<1>1. Shapes /\ Counts /\ Slotted /\ running /\ n \in Nat /\ n >= 1 /\ n <= 2
  BY DEF IInv, Reserve
<1>2. R \in Nat /\ nextId = R + 1 /\ D \in Nat /\ taken \in Nat /\ D + taken <= R
  BY <1>1, Bounds
<1>3. /\ (Reserved' = R + n) /\ (Drained' = D) /\ R + n - D <= Slots
      /\ wr' = U32(R + n) /\ Lag(wr', rd') = R + n - D
  BY NewLanes
<1>4. \A l \in todo' : \E i \in 0 .. n - 1 :
         l = [rid |-> R + 1 + i, kind |-> k, pos |-> U32(R + i), at |-> "compute"]
  BY NewLanes
<1>5. \A r \in R + 1 .. R + n : \E l \in todo' : l.rid = r /\ l.at = "compute"
  BY NewLanes
<1>6. todo = {} BY DEF Reserve
<1>7. (cq' = cq) /\ (slab' = slab) /\ (taken' = taken) /\ (rd' = rd) /\ (load' = load)
      /\ (owner' = owner) /\ (held' = held) /\ (reader' = reader)
      /\ (capacity' = capacity) /\ (running' = running) /\ (starts' = starts)
  BY DEF Reserve
<1>8. (Window' = D + taken + 1 .. R + n) /\ Window = D + taken + 1 .. R
  BY <1>3, <1>7 DEF Window
<1>. HIDE DEF R, D
<1>9. \A r \in Window : r \in Window' /\ r \in Nat /\ r <= R /\ Answered(r) /\ ~InLane(r)
  BY <1>1, <1>2, <1>6, <1>8 DEF Answered, InLane
<1>10. \A r \in Window' : r \in Nat /\ r >= D + 1 /\ r <= R + n /\ (r <= R => r \in Window)
  BY <1>1, <1>2, <1>8
<1>11. \A r \in Window' : r <= R => (~InLane(r)')
  <2>1. SUFFICES ASSUME NEW r \in Window', r <= R, NEW l \in todo', l.rid = r PROVE FALSE
    BY DEF InLane
  <2>2. PICK i \in 0 .. n - 1 :
          l = [rid |-> R + 1 + i, kind |-> k, pos |-> U32(R + i), at |-> "compute"]
    BY <1>4
  <2>3. l.rid = R + 1 + i BY <2>2
  <2>. QED BY <1>1, <1>2, <2>1, <2>3
<1>12. \A r \in Window' : r > R => (InLane(r)' /\ ~(Answered(r)'))
  <2>1. SUFFICES ASSUME NEW r \in Window', r > R PROVE InLane(r)' /\ ~(Answered(r)') OBVIOUS
  <2>2. r \in R + 1 .. R + n BY <1>1, <1>2, <1>10, <2>1
  <2>3. PICK l \in todo' : l.rid = r /\ l.at = "compute" BY <1>5, <2>2
  <2>. QED BY <2>3 DEF InLane, Answered
<1>13. Shapes'
  <2>1. nextId' = nextId + n /\ nextId + n <= MaxRequests + 1 BY DEF Reserve
  <2>2. MaxRequests \in Nat BY DEF OneStart, OutputSlabAssumption
  <2>3. nextId' \in 1 .. MaxRequests + 1 BY <1>1, <1>2, <2>1, <2>2
  <2>. QED BY <1>7, <2>3 DEF IInv, Shapes
<1>14. Counts'
  <2>1. (rd' = U32(D)) BY <1>7 DEF IInv, Counts, D
  <2>2. taken' <= R + n - D BY <1>1, <1>2, <1>7
  <2>3. capacity' = Slots /\ running' BY <1>1, <1>7 DEF Counts
  <2>4. starts' # 0 BY <1>1, <1>7 DEF Counts
  <2>5. (wr' = U32(Reserved')) /\ (rd' = U32(Drained')) BY <1>3, <2>1
  <2>6. Lag(wr, rd)' = R + n - D BY <1>3 DEF Lag, U32
  <2>. QED BY <1>2, <1>3, <2>2, <2>3, <2>4, <2>5, <2>6 DEF Counts, U32
<1>15. Lanes'
  <2>1. SUFFICES ASSUME NEW l \in todo'
        PROVE  /\ l = [rid |-> l.rid, kind |-> l.kind, pos |-> U32(l.rid - 1), at |-> l.at]
               /\ l.rid \in Window' /\ l.rid >= Reserved' - 1
               /\ l.kind \in load'.kinds /\ l.at \in {"compute"} \cup Statuses
               /\ \A m \in todo' : m.rid = l.rid => m = l
    BY DEF Lanes, U32
  <2>2. PICK i \in 0 .. n - 1 :
          l = [rid |-> R + 1 + i, kind |-> k, pos |-> U32(R + i), at |-> "compute"]
    BY <1>4
  <2>3. i \in Nat /\ i <= n - 1 BY <1>1
  <2>4. l.rid = R + 1 + i /\ l.kind = k /\ l.at = "compute" /\ l.pos = U32(R + i) BY <2>2
  <2>5. l.rid - 1 = R + i BY <1>2, <2>3, <2>4
  <2>6. l = [rid |-> l.rid, kind |-> l.kind, pos |-> U32(l.rid - 1), at |-> l.at]
    BY <2>2, <2>4, <2>5
  <2>7. l.rid \in Window' BY <1>1, <1>2, <1>8, <2>3, <2>4, SMTT(60)
  <2>8. l.rid >= Reserved' - 1 BY <1>1, <1>2, <1>3, <2>3, <2>4
  <2>9. ASSUME NEW m \in todo', m.rid = l.rid PROVE m = l
    <3>1. PICK j \in 0 .. n - 1 :
            m = [rid |-> R + 1 + j, kind |-> k, pos |-> U32(R + j), at |-> "compute"]
      BY <1>4
    <3>2. R + 1 + j = R + 1 + i BY <2>4, <2>9, <3>1
    <3>3. j = i BY <1>2, <2>3, <3>1, <3>2
    <3>. QED BY <2>2, <3>1, <3>3
  <2>. QED BY <1>7, <2>4, <2>6, <2>7, <2>8, <2>9
<1>16. Slotted'
  <2>1. ASSUME NEW r \in Window'
        PROVE  cq[SlotOf(r)].rid = IF InLane(r)' THEN 0 ELSE r
    <3>1. CASE r <= R
      <4>1. r \in Window /\ ~(InLane(r)') BY <1>10, <1>11, <3>1
      <4>. QED BY <1>1, <1>9, <4>1 DEF Slotted
    <3>2. CASE r > R
      <4>. DEFINE s == SlotOf(r)  q == cq[s].rid
      <4>1. r \in Nat /\ r >= D + 1 /\ r <= R + n BY <1>10
      <4>2. s \in 0 .. Slots - 1 BY <4>1, Reduced, r - 1 \in Int DEF SlotOf
      <4>3. ASSUME q # 0 PROVE FALSE
        <5>1. q \in Window /\ SlotOf(q) = s BY <1>1, <4>2, <4>3 DEF Slotted
        <5>2. q \in Nat /\ q <= R /\ q >= D + 1 BY <1>2, <1>8, <1>9, <5>1
        <5>. HIDE DEF s, q
        <5>3. q - r < Slots /\ r - q < Slots /\ q \in Int /\ r \in Int
          BY <1>1, <1>2, <1>3, <3>2, <4>1, <5>2, Sizes
        <5>4. SlotOf(q) = SlotOf(r) BY <5>1 DEF s
        <5>5. q = r BY <5>3, <5>4, SlotApart
        <5>. QED BY <1>2, <3>2, <5>2, <5>5
      <4>. QED BY <1>12, <3>2, <4>3
    <3>. QED BY <1>2, <1>10, <3>1, <3>2
  <2>2. ASSUME NEW s \in 0 .. Slots - 1, cq[s].rid # 0
        PROVE  /\ cq[s].rid \in Window' /\ SlotOf(cq[s].rid) = s
               /\ cq[s].status = cq[s].line1.status
    BY <1>1, <1>9, <2>2 DEF Slotted
  <2>3. ASSUME NEW l \in todo' PROVE l.at = "compute" BY <1>4
  <2>. QED BY <1>7, <2>1, <2>2, <2>3 DEF Slotted, LineOf
<1>17. Placed'
  <2>1. ASSUME NEW r \in Window', Answered(r)' PROVE r \in Window /\ Answered(r)
    BY <1>2, <1>9, <1>10, <1>12, <2>1
  <2>. QED BY <1>7, <2>1 DEF IInv, Placed, LineOf
<1>18. OnePlace'
  <2>1. ASSUME NEW r \in Window', Answered(r)' PROVE r \in Window /\ Answered(r)
    BY <1>2, <1>9, <1>10, <1>12, <2>1
  <2>. QED BY <1>7, <2>1 DEF IInv, OnePlace, LineOf
<1>19. \A x : x \in 1 .. R => x \in 1 .. Reserved' BY <1>1, <1>2, <1>3
<1>20. Slabs' BY <1>7, <1>19 DEF IInv, Slabs, R
<1>21. Owners' BY <1>7 DEF IInv, Owners, U32
<1>22. Returned' BY <1>7, <1>19 DEF IInv, Returned, R
<1>23. Reading'
  <2>1. \A x, r : x \in r .. R /\ r \in Nat => x \in r .. Reserved' BY <1>1, <1>2, <1>3
  <2>2. ASSUME NEW x, reader.rid \in Nat, Copied(x) PROVE Copied(x)'
    BY <1>7, <2>1, <2>2 DEF Copied, R
  <2>3. reader.rid \in Nat BY DEF IInv, Reading
  <2>. QED BY <1>7, <1>19, <2>2, <2>3 DEF IInv, Reading, R, U32
<1>. QED BY <1>13, <1>14, <1>15, <1>16, <1>17, <1>18, <1>20, <1>21, <1>22, <1>23 DEF IInv

-----------------------------------------------------------------------------
(* A lane writes its answer *)

\* What a lane writes, and where.
Body(l) == Line1(Answer(l).status,
                 IF Answer(l).region = "none" THEN NoPlace ELSE Home(Answer(l).region, l.rid))

\* A lane of the batch: its request, its slot and what its slot shows.
LEMMA LaneFacts ==
  ASSUME OneStart, IInv, NEW l \in todo
  PROVE  /\ l.rid \in Window /\ l.rid \in 1 .. Reserved /\ l.rid >= Reserved - 1
         /\ running /\ capacity = Slots
         /\ l.pos = U32(l.rid - 1) /\ KernelSlot(l.pos) = SlotOf(l.rid)
         /\ SlotOf(l.rid) \in 0 .. Slots - 1
         /\ cq[SlotOf(l.rid)].rid = 0
         /\ Lag(l.pos, rd) = l.rid - 1 - Drained
         /\ l.kind \in {"digest", "digests", "signs", "seal"}
         /\ load.reorder => l.kind = "seal" /\ Slots % SealSegs = 0
<1>1. Shapes /\ Counts /\ Lanes /\ Slotted BY DEF IInv
<1>2. /\ l = [rid |-> l.rid, kind |-> l.kind, pos |-> U32(l.rid - 1), at |-> l.at]
      /\ l.rid \in Window /\ l.rid >= Reserved - 1 /\ l.kind \in load.kinds
  BY <1>1 DEF Lanes
<1>3. l.pos = U32(l.rid - 1) BY <1>2
<1>4. running /\ capacity = Slots BY <1>1 DEF Counts
<1>5. l.rid \in 1 .. Reserved BY <1>1, <1>2, Positions, Bounds
<1>6. /\ SlotOf(l.rid) \in 0 .. Slots - 1 /\ HostSlot(l.pos) = SlotOf(l.rid)
      /\ Lag(l.pos, rd) = l.rid - 1 - Drained
  BY <1>1, <1>2, <1>3, Positions
<1>7. KernelSlot(l.pos) = SlotOf(l.rid) BY <1>4, <1>6 DEF KernelSlot, HostSlot
<1>8. InLane(l.rid) BY DEF InLane
<1>9. cq[SlotOf(l.rid)].rid = 0 BY <1>1, <1>2, <1>8 DEF Slotted
<1>10. /\ l.kind \in {"digest", "digests", "signs", "seal"}
       /\ load.reorder => l.kind = "seal" /\ Slots % SealSegs = 0
  <2>1. load \in Loads BY <1>1 DEF Shapes
  <2>2. /\ load.kinds \subseteq {"digest", "digests", "signs", "seal"}
        /\ load.reorder => load.kinds \subseteq {"seal"} /\ Slots % SealSegs = 0
    BY <2>1 DEF OneStart
  <2>. QED BY <1>2, <2>2
<1>. QED BY <1>2, <1>3, <1>4, <1>5, <1>6, <1>7, <1>9, <1>10

\* What the write changes: line 1 of the lane's slot and the segment it uses.
LEMMA BodyWrites ==
  ASSUME OneStart, IInv, NEW l \in todo, WriteBody(l)
  PROVE  LET a == Answer(l)
             s == SlotOf(l.rid)
         IN  /\ cq' = [cq EXCEPT ![s].line1 = Body(l), ![s].before = cq[s].line1]
             /\ slab' = IF a.region = "none" THEN slab
                        ELSE [slab EXCEPT ![a.region][Home(a.region, l.rid).seg] = l.rid]
             /\ todo' = (todo \ {l}) \cup {[l EXCEPT !.at = a.status]}
<1>. DEFINE a == Answer(l)  s == SlotOf(l.rid)
            p == PlaceOf(a, l.pos, cq[s].line1.place)
<1>1. KernelSlot(l.pos) = s /\ l.pos = U32(l.rid - 1) /\ l.rid \in Int
  <2>1. l.rid \in 1 .. Reserved BY LaneFacts
  <2>2. l.rid \in Int BY <2>1, Bounds DEF IInv
  <2>. QED BY <2>2, LaneFacts
<1>2. a.slab = "set" /\ a.region \in {"none"} \cup Regions BY LaneFacts, Answers
<1>3. p = IF a.region = "none" THEN NoPlace
          ELSE [region |-> a.region, seg |-> SegmentOf(a.region, l.pos)]
  BY <1>2 DEF PlaceOf
<1>4. a.region # "none" => SegmentOf(a.region, l.pos) = Home(a.region, l.rid).seg
  BY <1>1, <1>2, HomeSeg
<1>5. a.region # "none" => [region |-> a.region, seg |-> SegmentOf(a.region, l.pos)]
                           = Home(a.region, l.rid)
  BY <1>4 DEF Home
<1>6. Line1(a.status, p) = Body(l) BY <1>3, <1>5 DEF Body, Line1
<1>7. /\ slab' = IF a.region = "none" THEN slab
                 ELSE [slab EXCEPT ![a.region][SegmentOf(a.region, l.pos)] = l.rid]
      /\ cq' = [cq EXCEPT ![s].line1 = Line1(a.status, p), ![s].before = cq[s].line1]
      /\ todo' = (todo \ {l}) \cup {[l EXCEPT !.at = a.status]}
  BY <1>1 DEF WriteBody
<1>. HIDE DEF a, s, p
<1>8. CASE a.region = "none" BY <1>6, <1>7, <1>8 DEF a, s
<1>9. CASE a.region # "none" BY <1>4, <1>6, <1>7, <1>9 DEF a, s
<1>. QED BY <1>8, <1>9

\* The body of a lane is a line of its slot's type.
LEMMA BodyLine ==
  ASSUME OneStart, IInv, NEW l \in todo
  PROVE  /\ Body(l) \in Lines /\ Body(l).status = Answer(l).status
         /\ Body(l).place = IF Answer(l).region = "none" THEN NoPlace
                            ELSE Home(Answer(l).region, l.rid)
         /\ Body(l).place.region = Answer(l).region
<1>. DEFINE a == Answer(l)  p == IF a.region = "none" THEN NoPlace ELSE Home(a.region, l.rid)
<1>1. a.status \in Statuses /\ a.region \in {"none"} \cup Regions BY LaneFacts, Answers
<1>2. l.rid \in Int
  <2>1. l.rid \in 1 .. Reserved BY LaneFacts
  <2>. QED BY <2>1, Bounds DEF IInv
<1>3. a.region # "none" => Home(a.region, l.rid).region = a.region /\ Home(a.region, l.rid).seg \in Nat
  BY <1>1, <1>2, HomeSeg
<1>4. Body(l) = [status |-> a.status, place |-> p] BY DEF Body, Line1
<1>. HIDE DEF a
<1>5. p \in Places /\ p.region = a.region
  <2>1. CASE a.region = "none" BY <2>1 DEF Places, NoPlace
  <2>2. CASE a.region # "none" BY <1>1, <1>3, <2>2 DEF Places, Home
  <2>. QED BY <2>1, <2>2
<1>. HIDE DEF p
<1>6. Body(l) \in Lines BY <1>1, <1>4, <1>5 DEF Lines
<1>7. Body(l).status = a.status /\ Body(l).place = p BY <1>4
<1>. QED BY <1>5, <1>6, <1>7 DEF a, p

\* An output can only replace an older one: the requests of a batch have
\* segments of their own, and no later request than the batch exists.
LEMMA OnlyOlder ==
  ASSUME OneStart, IInv, NEW l \in todo, NEW g \in Regions, NEW q \in 1 .. Reserved,
         Home(g, q).seg = Home(g, l.rid).seg
  PROVE  q <= l.rid
<1>1. l.rid \in 1 .. Reserved /\ l.rid >= Reserved - 1 BY LaneFacts
<1>2. Reserved \in Nat BY Bounds DEF IInv
<1>3. SegsOf(g) \in Nat /\ SegsOf(g) >= 2 BY Sizes
<1>4. CASE q > l.rid
  <2>1. q \in Int /\ l.rid \in Int /\ q - l.rid < SegsOf(g) /\ l.rid - q < SegsOf(g)
    BY <1>1, <1>2, <1>3, <1>4
  <2>2. q = l.rid BY <2>1, SegmentApart
  <2>. QED BY <1>4, <2>1, <2>2
<1>. QED BY <1>1, <1>2, <1>4

\* One segment changes, to an output of its class.
LEMMA SlabAfter ==
  ASSUME OneStart, IInv, NEW l \in todo, WriteBody(l)
  PROVE  /\ DOMAIN slab' = Regions
         /\ \A g \in Regions :
              /\ slab'[g] \in [0 .. SegsOf(g) - 1 -> Nat]
              /\ \A seg \in 0 .. SegsOf(g) - 1 :
                   slab'[g][seg] = IF Answer(l).region = g /\ seg = Home(g, l.rid).seg
                                   THEN l.rid ELSE slab[g][seg]
<1>. DEFINE G == Answer(l).region  z == Home(G, l.rid).seg
<1>1. slab' = IF G = "none" THEN slab ELSE [slab EXCEPT ![G][z] = l.rid] BY BodyWrites
<1>2. G \in {"none"} \cup Regions BY LaneFacts, Answers
<1>3. l.rid \in Nat
  <2>1. l.rid \in 1 .. Reserved BY LaneFacts
  <2>. QED BY <2>1, Bounds DEF IInv
<1>4. DOMAIN slab = Regions /\ \A g \in Regions : slab[g] \in [0 .. SegsOf(g) - 1 -> Nat]
  BY DEF IInv, Shapes
<1>5. "none" \notin Regions BY DEF Regions
<1>. HIDE DEF G
<1>6. CASE G = "none" BY <1>1, <1>4, <1>5, <1>6 DEF G
<1>7. CASE G # "none"
  <2>1. G \in Regions BY <1>2, <1>7
  <2>2. z \in 0 .. SegsOf(G) - 1 BY <1>3, <2>1, HomeSeg
  <2>. HIDE DEF z
  <2>3. slab' = [slab EXCEPT ![G] = [slab[G] EXCEPT ![z] = l.rid]] BY <1>1, <1>7
  <2>4. DOMAIN slab' = Regions BY <1>4, <2>3
  <2>5. ASSUME NEW g \in Regions
        PROVE  /\ slab'[g] \in [0 .. SegsOf(g) - 1 -> Nat]
               /\ \A seg \in 0 .. SegsOf(g) - 1 :
                    slab'[g][seg] = IF G = g /\ seg = Home(g, l.rid).seg
                                    THEN l.rid ELSE slab[g][seg]
    <3>1. CASE g = G
      <4>1. slab'[g] = [slab[g] EXCEPT ![z] = l.rid] BY <1>4, <2>3, <3>1
      <4>2. slab[g] \in [0 .. SegsOf(g) - 1 -> Nat] BY <1>4
      <4>3. z = Home(g, l.rid).seg BY <3>1 DEF z
      <4>. QED BY <1>3, <3>1, <4>1, <4>2, <4>3, ZenonT(60)
    <3>2. CASE g # G
      <4>1. slab'[g] = slab[g] BY <1>4, <2>3, <3>2
      <4>. QED BY <1>4, <3>2, <4>1
    <3>. QED BY <3>1, <3>2
  <2>. QED BY <2>4, <2>5 DEF G
<1>. QED BY <1>6, <1>7

\* The output of a request is never replaced by an older one.
LEMMA SlabGrows ==
  ASSUME OneStart, IInv, NEW l \in todo, WriteBody(l), NEW g \in Regions,
         NEW q \in 1 .. Reserved, slab[g][Home(g, q).seg] >= q
  PROVE  slab'[g][Home(g, q).seg] >= q
<1>1. Reserved \in Nat BY Bounds DEF IInv
<1>2. q \in Int /\ l.rid \in Int
  <2>1. l.rid \in 1 .. Reserved BY LaneFacts
  <2>. QED BY <1>1, <2>1
<1>3. Home(g, q).seg \in 0 .. SegsOf(g) - 1 BY <1>2, HomeSeg
<1>4. slab'[g][Home(g, q).seg] =
        IF Answer(l).region = g /\ Home(g, q).seg = Home(g, l.rid).seg
        THEN l.rid ELSE slab[g][Home(g, q).seg]
  BY <1>3, SlabAfter
<1>5. Home(g, q).seg = Home(g, l.rid).seg => q <= l.rid BY OnlyOlder
<1>. QED BY <1>2, <1>4, <1>5

\* Only the lane's slot changes, and only what is not on its line 0.
LEMMA SlotAfter ==
  ASSUME OneStart, IInv, NEW l \in todo, WriteBody(l)
  PROVE  /\ cq' \in [0 .. Slots - 1 ->
                       [rid : Nat, status : Statuses, line1 : Lines, before : Lines]]
         /\ \A t \in 0 .. Slots - 1 :
              /\ (cq'[t].rid = cq[t].rid) /\ cq'[t].status = cq[t].status
              /\ cq'[t].line1 = IF t = SlotOf(l.rid) THEN Body(l) ELSE cq[t].line1
              /\ cq'[t].before = IF t = SlotOf(l.rid) THEN cq[t].line1 ELSE cq[t].before
<1>. DEFINE s == SlotOf(l.rid)
            T == [rid : Nat, status : Statuses, line1 : Lines, before : Lines]
<1>1. cq' = [cq EXCEPT ![s].line1 = Body(l), ![s].before = cq[s].line1] BY BodyWrites
<1>2. s \in 0 .. Slots - 1 BY LaneFacts
<1>3. cq \in [0 .. Slots - 1 -> T] BY DEF IInv, Shapes
<1>4. Body(l) \in Lines BY BodyLine
<1>5. cq[s] \in T BY <1>2, <1>3
<1>. HIDE DEF s
<1>6. cq'[s] = [[cq[s] EXCEPT !.line1 = Body(l)] EXCEPT !.before = cq[s].line1]
  BY <1>1, <1>2, <1>3
<1>7. cq'[s] = [rid |-> cq[s].rid, status |-> cq[s].status, line1 |-> Body(l),
                before |-> cq[s].line1]
  BY <1>5, <1>6
<1>8. cq'[s] \in T BY <1>4, <1>5, <1>7
<1>9. ASSUME NEW t \in 0 .. Slots - 1, t # s PROVE cq'[t] = cq[t]
  BY <1>1, <1>2, <1>3, <1>9
<1>10. DOMAIN cq' = 0 .. Slots - 1 BY <1>1, <1>3
<1>11. cq' = [t \in 0 .. Slots - 1 |-> cq'[t]] BY <1>1, <1>3
<1>12. \A t \in 0 .. Slots - 1 : cq'[t] \in T BY <1>3, <1>8, <1>9
<1>13. cq' \in [0 .. Slots - 1 -> T] BY <1>11, <1>12
<1>14. ASSUME NEW t \in 0 .. Slots - 1
       PROVE  /\ (cq'[t].rid = cq[t].rid) /\ cq'[t].status = cq[t].status
              /\ cq'[t].line1 = IF t = s THEN Body(l) ELSE cq[t].line1
              /\ cq'[t].before = IF t = s THEN cq[t].line1 ELSE cq[t].before
  BY <1>7, <1>9
<1>. QED BY <1>13, <1>14 DEF s

\* The lane has answered; the others are where they were.
LEMMA LanesAfter ==
  ASSUME OneStart, IInv, NEW l \in todo, WriteBody(l)
  PROVE  LET m == [l EXCEPT !.at = Answer(l).status]
         IN  /\ m.rid = l.rid /\ m.at = Answer(l).status /\ m.at \in Statuses
             /\ m = [rid |-> m.rid, kind |-> m.kind, pos |-> U32(m.rid - 1), at |-> m.at]
             /\ m.kind = l.kind /\ m \in todo'
             /\ \A k \in todo' : k = m \/ (k \in todo /\ k.rid # l.rid)
             /\ \A q : InLane(q)' <=> InLane(q)
             /\ \A q \in Window : Answered(q)' => q = l.rid \/ Answered(q)
<1>. DEFINE m == [l EXCEPT !.at = Answer(l).status]
<1>1. todo' = (todo \ {l}) \cup {m} BY BodyWrites
<1>2. Lanes BY DEF IInv
<1>3. l = [rid |-> l.rid, kind |-> l.kind, pos |-> U32(l.rid - 1), at |-> l.at]
  BY <1>2 DEF Lanes
<1>4. Answer(l).status \in Statuses BY LaneFacts, Answers
<1>5. m = [rid |-> l.rid, kind |-> l.kind, pos |-> U32(l.rid - 1), at |-> Answer(l).status]
  BY <1>3
<1>. HIDE DEF m
<1>6. m.rid = l.rid /\ m.kind = l.kind /\ m.at = Answer(l).status BY <1>5
<1>7. \A k \in todo' : k = m \/ (k \in todo /\ k.rid # l.rid) BY <1>1, <1>2 DEF Lanes
<1>8. ASSUME NEW q PROVE InLane(q)' <=> InLane(q) BY <1>1, <1>6 DEF InLane
<1>9. ASSUME NEW q \in Window, Answered(q)', q # l.rid PROVE Answered(q)
  BY <1>1, <1>9 DEF Answered
<1>10. m \in todo' BY <1>1
<1>11. m = [rid |-> m.rid, kind |-> m.kind, pos |-> U32(m.rid - 1), at |-> m.at]
  BY <1>5, <1>6
<1>12. m.at \in Statuses BY <1>4, <1>6
<1>. QED BY <1>6, <1>7, <1>8, <1>9, <1>10, <1>11, <1>12 DEF m

LEMMA BodyInv ==
  ASSUME OneStart, IInv, NEW l \in todo, WriteBody(l)
  PROVE  IInv'
<1>. DEFINE a == Answer(l)  s == SlotOf(l.rid)  m == [l EXCEPT !.at = a.status]
<1>1. Shapes /\ Counts /\ Lanes /\ Slotted /\ Placed /\ OnePlace /\ Slabs BY DEF IInv
<1>2. /\ (load' = load) /\ (running' = running) /\ (starts' = starts)
      /\ (capacity' = capacity) /\ (wr' = wr) /\ (rd' = rd) /\ (nextId' = nextId)
      /\ (owner' = owner) /\ (taken' = taken) /\ (held' = held) /\ reader' = reader
  BY DEF WriteBody
<1>3. (Reserved' = Reserved) /\ (Drained' = Drained) BY <1>2 DEF Reserved, Drained, Lag, U32
<1>4. Window' = Window BY <1>2, <1>3 DEF Window
<1>5. Reserved \in Nat /\ Drained \in Nat /\ taken \in Nat BY <1>1, Bounds
<1>6. /\ l.rid \in Window /\ l.rid \in 1 .. Reserved /\ l.rid >= Reserved - 1 /\ running
      /\ s \in 0 .. Slots - 1 /\ cq[s].rid = 0 /\ Lag(l.pos, rd) = l.rid - 1 - Drained
      /\ load.reorder => l.kind = "seal" /\ Slots % SealSegs = 0
  BY LaneFacts
<1>7. /\ a.status \in Statuses /\ a.region \in {"none"} \cup Regions
      /\ a.region # "none" => a.status = "OK"
      /\ a.region = "seal" => SealRoom(l.pos)
      /\ l.kind = "seal" => a.region # "std"
      /\ l.kind = "seal" /\ a.status = "OK" => a.region = "seal"
  BY LaneFacts, Answers
<1>8. /\ m.rid = l.rid /\ m.at = a.status /\ m.at \in Statuses
      /\ m = [rid |-> m.rid, kind |-> m.kind, pos |-> U32(m.rid - 1), at |-> m.at]
      /\ m.kind = l.kind /\ m \in todo'
      /\ \A k \in todo' : k = m \/ (k \in todo /\ k.rid # l.rid)
      /\ \A q : InLane(q)' <=> InLane(q)
      /\ \A q \in Window : Answered(q)' => q = l.rid \/ Answered(q)
  BY LanesAfter
<1>9. /\ cq' \in [0 .. Slots - 1 ->
                    [rid : Nat, status : Statuses, line1 : Lines, before : Lines]]
      /\ \A t \in 0 .. Slots - 1 :
           /\ (cq'[t].rid = cq[t].rid) /\ cq'[t].status = cq[t].status
           /\ cq'[t].line1 = IF t = s THEN Body(l) ELSE cq[t].line1
           /\ cq'[t].before = IF t = s THEN cq[t].line1 ELSE cq[t].before
  BY SlotAfter
<1>10. /\ Body(l).status = a.status
       /\ Body(l).place = IF a.region = "none" THEN NoPlace ELSE Home(a.region, l.rid)
       /\ Body(l).place.region = a.region
  BY BodyLine
<1>11. /\ DOMAIN slab' = Regions
       /\ \A g \in Regions :
            /\ slab'[g] \in [0 .. SegsOf(g) - 1 -> Nat]
            /\ \A seg \in 0 .. SegsOf(g) - 1 :
                 slab'[g][seg] = IF a.region = g /\ seg = Home(g, l.rid).seg
                                 THEN l.rid ELSE slab[g][seg]
  BY SlabAfter
<1>. HIDE DEF a, s, m
<1>12. \A q \in Window : q \in 1 .. Reserved /\ SlotOf(q) \in 0 .. Slots - 1
  BY <1>1, <1>5, Positions
<1>13. \A q \in Window : q # l.rid => (SlotOf(q) # s /\ LineOf(q)' = LineOf(q))
  <2>1. ASSUME NEW q \in Window, q # l.rid PROVE SlotOf(q) # s /\ LineOf(q)' = LineOf(q)
    <3>1. SlotOf(q) # s BY <1>1, <1>6, <2>1, WindowApart DEF s
    <3>. QED BY <1>9, <1>12, <2>1, <3>1 DEF LineOf
  <2>. QED BY <2>1
<1>14. LineOf(l.rid)' = Body(l) BY <1>6, <1>9 DEF LineOf, s
<1>15. Shapes' BY <1>1, <1>2, <1>9, <1>11 DEF Shapes
<1>16. Counts'
  <2>1. running' BY <1>2, <1>6
  <2>2. Lag(wr, rd)' = Lag(wr, rd) BY <1>2 DEF Lag, U32
  <2>. QED BY <1>1, <1>2, <1>3, <1>6, <2>1, <2>2 DEF Counts, U32
<1>17. Lanes'
  <2>1. SUFFICES ASSUME NEW k \in todo'
        PROVE  /\ k = [rid |-> k.rid, kind |-> k.kind, pos |-> U32(k.rid - 1), at |-> k.at]
               /\ k.rid \in Window /\ k.rid >= Reserved - 1
               /\ k.kind \in load.kinds /\ k.at \in {"compute"} \cup Statuses
               /\ \A j \in todo' : j.rid = k.rid => j = k
    BY <1>2, <1>3, <1>4 DEF Lanes, U32
  <2>2. l.kind \in load.kinds BY <1>1 DEF Lanes
  <2>3. CASE k = m
    BY <1>6, <1>8, <2>2, <2>3
  <2>4. CASE k # m
    BY <1>1, <1>8, <2>4 DEF Lanes
  <2>. QED BY <2>3, <2>4
<1>18. Slotted'
  <2>1. ASSUME NEW r \in Window PROVE cq'[SlotOf(r)].rid = IF InLane(r)' THEN 0 ELSE r
    <3>1. cq'[SlotOf(r)].rid = cq[SlotOf(r)].rid BY <1>9, <1>12
    <3>2. cq[SlotOf(r)].rid = IF InLane(r) THEN 0 ELSE r BY <1>1 DEF Slotted
    <3>3. InLane(r)' <=> InLane(r) BY <1>8
    <3>. QED BY <3>1, <3>2, <3>3
  <2>2. ASSUME NEW t \in 0 .. Slots - 1, cq'[t].rid # 0
        PROVE  /\ cq'[t].rid \in Window /\ SlotOf(cq'[t].rid) = t
               /\ cq'[t].status = cq'[t].line1.status
    <3>1. cq'[t].rid = cq[t].rid /\ t # s BY <1>6, <1>9, <2>2
    <3>2. cq'[t].line1 = cq[t].line1 /\ cq'[t].status = cq[t].status BY <1>9, <3>1
    <3>. QED BY <1>1, <2>2, <3>1, <3>2 DEF Slotted
  <2>3. ASSUME NEW k \in todo', k.at # "compute" PROVE LineOf(k.rid)'.status = k.at
    <3>1. CASE k = m BY <1>8, <1>10, <1>14, <3>1
    <3>2. CASE k # m
      <4>1. k \in todo /\ k.rid # l.rid BY <1>8, <3>2
      <4>2. k.rid \in Window /\ LineOf(k.rid).status = k.at
        BY <1>1, <2>3, <4>1 DEF Lanes, Slotted
      <4>3. LineOf(k.rid)' = LineOf(k.rid) BY <1>13, <4>1, <4>2
      <4>. QED BY <4>2, <4>3
    <3>. QED BY <3>1, <3>2
  <2>. QED BY <1>4, <2>1, <2>2, <2>3 DEF Slotted, LineOf
<1>19. Placed'
  <2>1. SUFFICES ASSUME NEW q \in Window, Answered(q)', LineOf(q)'.place.region # "none"
        PROVE  LET line == LineOf(q)'
                   g    == line.place.region
               IN  /\ line.status = "OK" /\ line.place = Home(g, q)
                   /\ slab'[g][line.place.seg] >= q
                   /\ g = "seal" => slab'[g][line.place.seg] = q
    BY <1>4 DEF Placed, LineOf
  <2>2. CASE q = l.rid
    <3>1. LineOf(q)' = Body(l) BY <1>14, <2>2
    <3>2. a.region # "none" /\ a.region \in Regions BY <1>7, <1>10, <2>1, <3>1
    <3>3. Body(l).place = Home(a.region, q) /\ Body(l).status = "OK"
      BY <1>7, <1>10, <2>2, <3>2
    <3>4. Home(a.region, q).seg \in 0 .. SegsOf(a.region) - 1 /\ q \in Nat
      BY <1>5, <1>12, <2>2, <3>2, HomeSeg
    <3>5. slab'[a.region][Home(a.region, q).seg] = q BY <1>11, <2>2, <3>2, <3>4
    <3>. QED BY <1>10, <3>1, <3>3, <3>4, <3>5
  <2>3. CASE q # l.rid
    <3>. DEFINE g == LineOf(q).place.region
    <3>1. LineOf(q)' = LineOf(q) /\ Answered(q) BY <1>8, <1>13, <2>1, <2>3
    <3>2. /\ LineOf(q).status = "OK" /\ LineOf(q).place = Home(g, q)
          /\ slab[g][LineOf(q).place.seg] >= q
          /\ g = "seal" => slab[g][LineOf(q).place.seg] = q
      BY <1>1, <2>1, <3>1 DEF Placed
    <3>3. g \in Regions
      <4>1. cq[SlotOf(q)] \in [rid : Nat, status : Statuses, line1 : Lines, before : Lines]
        BY <1>1, <1>12 DEF Shapes
      <4>2. LineOf(q).place \in Places BY <4>1 DEF LineOf, Lines
      <4>3. g # "none" BY <2>1, <3>1
      <4>. QED BY <4>2, <4>3 DEF Places, NoPlace
    <3>4. q \in 1 .. Reserved BY <1>12
    <3>5. slab'[g][Home(g, q).seg] >= q BY <3>2, <3>3, <3>4, SlabGrows
    <3>. HIDE DEF g
    <3>6. ASSUME g = "seal" PROVE slab'[g][Home(g, q).seg] = q
      <4>1. q \in Int /\ l.rid \in Int BY <1>5, <1>6, <3>4
      <4>2. Home(g, q).seg \in 0 .. SegsOf(g) - 1 BY <3>3, <4>1, HomeSeg
      <4>3. CASE a.region = g /\ Home(g, q).seg = Home(g, l.rid).seg
        <5>1. l.rid - 1 - Drained < SealSegs BY <1>6, <1>7, <3>6, <4>3 DEF SealRoom
        <5>2. q <= l.rid BY <3>3, <3>4, <4>3, OnlyOlder
        <5>3. q > Drained BY <1>1, <1>5, Positions
        <5>4. SegsOf(g) = SealSegs /\ SegsOf(g) \in Nat BY <3>3, <3>6, Sizes DEF SegsOf
        <5>5. l.rid - q < SegsOf(g) /\ q - l.rid < SegsOf(g)
          BY <1>5, <4>1, <5>1, <5>2, <5>3, <5>4, Sizes
        <5>6. q = l.rid BY <3>3, <4>1, <4>3, <5>5, SegmentApart
        <5>. QED BY <2>3, <5>6
      <4>4. CASE ~(a.region = g /\ Home(g, q).seg = Home(g, l.rid).seg)
        <5>1. slab'[g][Home(g, q).seg] = slab[g][Home(g, q).seg] BY <1>11, <3>3, <4>2, <4>4
        <5>. QED BY <3>2, <3>6, <5>1
      <4>. QED BY <4>3, <4>4
    <3>. QED BY <3>1, <3>2, <3>5, <3>6 DEF g
  <2>. QED BY <2>2, <2>3
<1>20. OnePlace'
  <2>1. SUFFICES ASSUME load.reorder
        PROVE  /\ \A t \in 0 .. Slots - 1 : \A line \in {cq'[t].line1, cq'[t].before} :
                    line.place = NoPlace \/ line.place = Home("seal", t + 1)
               /\ \A r \in Window : Answered(r)' /\ LineOf(r)'.status = "OK"
                    => LineOf(r)'.place.region = "seal"
    BY <1>2, <1>4 DEF OnePlace, LineOf
  <2>2. l.kind = "seal" /\ Slots % SealSegs = 0 BY <1>6, <2>1
  <2>3. a.region # "std" BY <1>7, <2>2
  <2>4. Home("seal", l.rid) = Home("seal", s + 1)
    <3>. DEFINE z == l.rid - 1
    <3>1. z \in Int /\ s = z % Slots BY <1>5, <1>6 DEF s, SlotOf, HostSlot
    <3>2. SealSegs \in Nat \ {0} /\ Slots \in Nat \ {0}
      BY Sizes
    <3>. HIDE DEF z
    <3>3. (z % Slots) % SealSegs = z % SealSegs BY <2>2, <3>1, <3>2, ModMod
    <3>4. s \in Int BY <1>6, <3>2
    <3>5. (s + 1) - 1 = s BY <3>4
    <3>6. s % SealSegs = z % SealSegs BY <3>1, <3>3
    <3>7. ((s + 1) - 1) % SealSegs = z % SealSegs BY <3>5, <3>6
    <3>. QED BY <3>7 DEF Home, SegmentOf, SegsOf, z
  <2>5. Body(l).place = NoPlace \/ Body(l).place = Home("seal", s + 1)
    <3>1. CASE a.region = "none" BY <1>10, <3>1
    <3>2. CASE a.region # "none"
      <4>1. a.region = "seal" BY <1>7, <2>3, <3>2 DEF Regions
      <4>. QED BY <1>10, <2>4, <4>1
    <3>. QED BY <3>1, <3>2
  <2>6. ASSUME NEW t \in 0 .. Slots - 1, NEW line \in {cq'[t].line1, cq'[t].before}
        PROVE  line.place = NoPlace \/ line.place = Home("seal", t + 1)
    <3>1. \A x \in {cq[t].line1, cq[t].before} :
            x.place = NoPlace \/ x.place = Home("seal", t + 1)
      BY <1>1, <2>1 DEF OnePlace
    <3>. QED BY <1>9, <2>5, <2>6, <3>1
  <2>7. ASSUME NEW r \in Window, Answered(r)', LineOf(r)'.status = "OK"
        PROVE  LineOf(r)'.place.region = "seal"
    <3>1. CASE r = l.rid BY <1>7, <1>10, <1>14, <2>2, <2>7, <3>1
    <3>2. CASE r # l.rid
      <4>1. LineOf(r)' = LineOf(r) /\ Answered(r) BY <1>8, <1>13, <2>7, <3>2
      <4>. QED BY <1>1, <2>1, <2>7, <4>1 DEF OnePlace
    <3>. QED BY <3>1, <3>2
  <2>. QED BY <2>6, <2>7
<1>21. Slabs'
  <2>1. ASSUME NEW g \in Regions, NEW seg \in 0 .. SegsOf(g) - 1, slab'[g][seg] # 0
        PROVE  slab'[g][seg] \in 1 .. Reserved /\ Home(g, slab'[g][seg]).seg = seg
    <3>1. CASE a.region = g /\ seg = Home(g, l.rid).seg BY <1>6, <1>11, <3>1
    <3>2. CASE ~(a.region = g /\ seg = Home(g, l.rid).seg)
      <4>1. slab'[g][seg] = slab[g][seg] BY <1>11, <3>2
      <4>. QED BY <1>1, <2>1, <4>1 DEF Slabs
    <3>. QED BY <3>1, <3>2
  <2>. QED BY <1>3, <2>1 DEF Slabs
<1>22. Owners' BY <1>2 DEF IInv, Owners, U32
<1>23. Returned'
  <2>1. SUFFICES ASSUME NEW h \in held, h.status = "OK", h.place.region # "none"
        PROVE  slab'[h.place.region][h.place.seg] >= h.rid
    BY <1>2, <1>3 DEF IInv, Returned
  <2>2. /\ h.rid \in 1 .. Reserved /\ h.place.region \in Regions
        /\ h.place = Home(h.place.region, h.rid)
        /\ slab[h.place.region][h.place.seg] >= h.rid
    BY <2>1 DEF IInv, Returned
  <2>3. slab'[h.place.region][Home(h.place.region, h.rid).seg] >= h.rid
    BY <2>2, SlabGrows
  <2>. QED BY <2>2, <2>3
<1>24. Reading'
  <2>. DEFINE r == reader
  <2>1. ASSUME r.at \in {"half1", "half2", "check"}
        PROVE  slab'[r.region][r.seg] >= r.rid
    <3>1. /\ r.rid \in 1 .. Reserved /\ r.region \in Regions
          /\ r.seg = Home(r.region, r.rid).seg /\ slab[r.region][r.seg] >= r.rid
      BY <2>1 DEF IInv, Reading
    <3>. QED BY <3>1, SlabGrows
  <2>. HIDE DEF r
  <2>2. ASSUME NEW x, Copied(x) PROVE Copied(x)' BY <1>2, <1>3, <2>2 DEF Copied
  <2>. QED BY <1>2, <1>3, <2>1, <2>2 DEF IInv, Reading, U32, r
<1>. QED BY <1>15, <1>16, <1>17, <1>18, <1>19, <1>20, <1>21, <1>22, <1>23, <1>24 DEF IInv

-----------------------------------------------------------------------------
(* A lane commits *)

LEMMA StoreInv ==
  ASSUME OneStart, IInv, NEW l \in todo, CommitStore(l)
  PROVE  IInv'
<1>. DEFINE s == SlotOf(l.rid)
            T == [rid : Nat, status : Statuses, line1 : Lines, before : Lines]
<1>1. Shapes /\ Counts /\ Lanes /\ Slotted /\ Placed /\ OnePlace /\ Slabs BY DEF IInv
<1>2. /\ (load' = load) /\ (running' = running) /\ (starts' = starts)
      /\ (capacity' = capacity) /\ (wr' = wr) /\ (rd' = rd) /\ (nextId' = nextId)
      /\ (owner' = owner) /\ (taken' = taken) /\ (held' = held) /\ reader' = reader
      /\ slab' = slab /\ todo' = todo \ {l} /\ l.at # "compute"
  BY DEF CommitStore
<1>3. (Reserved' = Reserved) /\ (Drained' = Drained) BY <1>2 DEF Reserved, Drained, Lag, U32
<1>4. Window' = Window BY <1>2, <1>3 DEF Window
<1>5. Reserved \in Nat /\ Drained \in Nat /\ taken \in Nat BY <1>1, Bounds
<1>6. /\ l.rid \in Window /\ l.rid \in 1 .. Reserved /\ running
      /\ s \in 0 .. Slots - 1 /\ cq[s].rid = 0 /\ KernelSlot(l.pos) = s
  BY LaneFacts
<1>7. l.at \in Statuses /\ LineOf(l.rid).status = l.at
  BY <1>1, <1>2 DEF Lanes, Slotted
<1>8. cq \in [0 .. Slots - 1 -> T] BY <1>1 DEF Shapes
<1>9. cq' = [cq EXCEPT ![s].rid = l.rid, ![s].status = l.at] BY <1>6 DEF CommitStore
<1>10. cq[s] \in T /\ l.rid \in Nat BY <1>5, <1>6, <1>8
<1>. HIDE DEF s
<1>11. cq'[s] = [[cq[s] EXCEPT !.rid = l.rid] EXCEPT !.status = l.at] BY <1>6, <1>8, <1>9
<1>12. cq'[s] = [rid |-> l.rid, status |-> l.at, line1 |-> cq[s].line1,
                 before |-> cq[s].before]
  BY <1>10, <1>11
<1>13. \A t \in 0 .. Slots - 1 : t # s => cq'[t] = cq[t] BY <1>6, <1>8, <1>9
<1>14. cq' \in [0 .. Slots - 1 -> T]
  <2>1. cq' = [t \in 0 .. Slots - 1 |-> cq'[t]] BY <1>8, <1>9
  <2>2. cq'[s] \in T BY <1>7, <1>10, <1>12
  <2>3. \A t \in 0 .. Slots - 1 : cq'[t] \in T BY <1>8, <1>13, <2>2
  <2>. QED BY <2>1, <2>3
<1>15. \A t \in 0 .. Slots - 1 : (cq'[t].line1 = cq[t].line1) /\ cq'[t].before = cq[t].before
  BY <1>12, <1>13
<1>16. \A q \in Window : q \in 1 .. Reserved /\ SlotOf(q) \in 0 .. Slots - 1
  BY <1>1, <1>5, Positions
<1>17. \A q \in Window : LineOf(q)' = LineOf(q) BY <1>15, <1>16 DEF LineOf
<1>18. \A q \in Window : Answered(q)' => Answered(q)
  BY <1>1, <1>2 DEF Answered, Lanes
<1>19. \A q \in Window : q # l.rid => (InLane(q)' <=> InLane(q)) BY <1>2 DEF InLane
<1>20. ~(InLane(l.rid)') BY <1>1, <1>2 DEF InLane, Lanes
<1>21. Shapes' BY <1>1, <1>2, <1>14 DEF Shapes
<1>22. Counts'
  <2>1. running' BY <1>2, <1>6
  <2>2. Lag(wr, rd)' = Lag(wr, rd) BY <1>2 DEF Lag, U32
  <2>. QED BY <1>1, <1>2, <1>3, <1>6, <2>1, <2>2 DEF Counts, U32
<1>23. Lanes' BY <1>1, <1>2, <1>3, <1>4 DEF Lanes, U32
<1>24. Slotted'
  <2>1. ASSUME NEW r \in Window PROVE cq'[SlotOf(r)].rid = IF InLane(r)' THEN 0 ELSE r
    <3>1. CASE r = l.rid BY <1>12, <1>20, <3>1 DEF s
    <3>2. CASE r # l.rid
      <4>1. SlotOf(r) # s BY <1>1, <1>6, <3>2, WindowApart DEF s
      <4>2. cq'[SlotOf(r)] = cq[SlotOf(r)] BY <1>13, <1>16, <4>1
      <4>3. cq[SlotOf(r)].rid = IF InLane(r) THEN 0 ELSE r BY <1>1 DEF Slotted
      <4>4. InLane(r)' <=> InLane(r) BY <1>19, <3>2
      <4>. QED BY <4>2, <4>3, <4>4
    <3>. QED BY <3>1, <3>2
  <2>2. ASSUME NEW t \in 0 .. Slots - 1, cq'[t].rid # 0
        PROVE  /\ cq'[t].rid \in Window /\ SlotOf(cq'[t].rid) = t
               /\ cq'[t].status = cq'[t].line1.status
    <3>1. CASE t = s
      <4>1. LineOf(l.rid) = cq[s].line1 BY DEF LineOf, s
      <4>2. cq'[s].rid = l.rid /\ cq'[s].status = l.at /\ cq'[s].line1 = cq[s].line1 BY <1>12
      <4>3. SlotOf(l.rid) = s BY DEF s
      <4>. QED BY <1>6, <1>7, <3>1, <4>1, <4>2, <4>3
    <3>2. CASE t # s
      <4>1. cq'[t] = cq[t] BY <1>13, <3>2
      <4>. QED BY <1>1, <2>2, <4>1 DEF Slotted
    <3>. QED BY <3>1, <3>2
  <2>3. ASSUME NEW k \in todo', k.at # "compute" PROVE LineOf(k.rid)'.status = k.at
    <3>1. k \in todo /\ k.rid \in Window BY <1>1, <1>2 DEF Lanes
    <3>2. LineOf(k.rid).status = k.at BY <1>1, <2>3, <3>1 DEF Slotted
    <3>3. LineOf(k.rid)' = LineOf(k.rid) BY <1>17, <3>1
    <3>. QED BY <3>2, <3>3
  <2>. QED BY <1>4, <2>1, <2>2, <2>3 DEF Slotted, LineOf
<1>25. Placed' BY <1>1, <1>2, <1>4, <1>17, <1>18 DEF Placed, LineOf
<1>26. OnePlace'
  <2>1. SUFFICES ASSUME load.reorder
        PROVE  /\ \A t \in 0 .. Slots - 1 : \A line \in {cq'[t].line1, cq'[t].before} :
                    line.place = NoPlace \/ line.place = Home("seal", t + 1)
               /\ \A r \in Window : Answered(r)' /\ LineOf(r)'.status = "OK"
                    => LineOf(r)'.place.region = "seal"
    BY <1>2, <1>4 DEF OnePlace, LineOf
  <2>2. ASSUME NEW t \in 0 .. Slots - 1, NEW line \in {cq'[t].line1, cq'[t].before}
        PROVE  line.place = NoPlace \/ line.place = Home("seal", t + 1)
    BY <1>1, <1>15, <2>1, <2>2 DEF OnePlace
  <2>3. ASSUME NEW r \in Window, Answered(r)', LineOf(r)'.status = "OK"
        PROVE  LineOf(r)'.place.region = "seal"
    <3>1. LineOf(r)' = LineOf(r) /\ Answered(r) BY <1>17, <1>18, <2>3
    <3>. QED BY <1>1, <2>1, <2>3, <3>1 DEF OnePlace
  <2>. QED BY <2>2, <2>3
<1>27. Slabs' BY <1>1, <1>2, <1>3 DEF Slabs
<1>28. Owners' BY <1>2 DEF IInv, Owners, U32
<1>29. Returned' BY <1>2, <1>3 DEF IInv, Returned
<1>30. Reading' BY <1>2, <1>3 DEF IInv, Reading, Copied, U32
<1>. QED BY <1>21, <1>22, <1>23, <1>24, <1>25, <1>26, <1>27, <1>28, <1>29, <1>30 DEF IInv

-----------------------------------------------------------------------------
(* The host takes a response *)

\* The response the poll looks at is that of the first request of the window.
LEMMA NextTaken ==
  ASSUME OneStart, IInv, running, taken < Lag(wr, rd)
  PROVE  LET r   == Drained + taken + 1
             pos == U32(rd + taken)
         IN  /\ r \in Window /\ r \in Nat /\ r >= 1 /\ r <= Reserved
             /\ pos = U32(r - 1) /\ HostSlot(pos) = SlotOf(r)
             /\ SlotOf(r) \in 0 .. Slots - 1 /\ Lag(wr, pos) = Reserved - (r - 1)
             /\ cq[SlotOf(r)].rid # 0 => cq[SlotOf(r)].rid = r /\ ~InLane(r) /\ Answered(r)
<1>. DEFINE r == Drained + taken + 1
<1>1. Shapes /\ Counts /\ Slotted BY DEF IInv
<1>2. /\ Reserved \in Nat /\ Drained \in Nat /\ taken \in Nat
      /\ Lag(wr, rd) = Reserved - Drained
  BY <1>1, Bounds
<1>3. r \in Window /\ r \in Nat /\ r >= 1 /\ r <= Reserved /\ r - 1 = Drained + taken
  BY <1>2 DEF Window
<1>4. rd = U32(Drained) BY <1>1 DEF Counts
<1>5. U32(rd + taken) = U32(Drained + taken) BY <1>2, <1>4, Advance
<1>6. U32(rd + taken) = U32(r - 1) BY <1>3, <1>5
<1>. HIDE DEF r
<1>7. /\ SlotOf(r) \in 0 .. Slots - 1 /\ HostSlot(U32(r - 1)) = SlotOf(r)
      /\ Lag(wr, U32(r - 1)) = Reserved - (r - 1)
  BY <1>1, <1>3, Positions
<1>8. cq[SlotOf(r)].rid # 0 => cq[SlotOf(r)].rid = r /\ ~InLane(r) BY <1>1, <1>3 DEF Slotted
<1>9. ~InLane(r) => Answered(r) BY DEF InLane, Answered
<1>. QED BY <1>3, <1>6, <1>7, <1>8, <1>9 DEF r

\* What the poll may see of the place of a committed response.
LEMMA SeenPlace ==
  ASSUME OneStart, IInv, NEW r \in Window, cq[SlotOf(r)].rid = r, Answered(r),
         NEW seen \in Seen(cq[SlotOf(r)])
  PROVE  LET c == cq[SlotOf(r)]
             p == seen.place
         IN  p.region # "none" =>
               /\ p.region \in Regions /\ p = Home(p.region, r)
               /\ c.status = "OK" => slab[p.region][p.seg] >= r
<1>. DEFINE s == SlotOf(r)  c == cq[s]  p == seen.place
<1>1. Shapes /\ Counts /\ Slotted /\ Placed /\ OnePlace BY DEF IInv
<1>2. s \in 0 .. Slots - 1 /\ r \in Nat /\ r >= 1 /\ r - 1 \in Int
  BY <1>1, Positions, Bounds
<1>3. c \in [rid : Nat, status : Statuses, line1 : Lines, before : Lines]
  BY <1>1, <1>2 DEF Shapes
<1>4. c.line1 = LineOf(r) BY DEF LineOf
<1>5. c.status = c.line1.status BY <1>1, <1>2 DEF Slotted
<1>6. CASE seen = c.line1
  <2>1. p \in Places BY <1>3, <1>6 DEF Lines
  <2>2. p.region # "none" => p.region \in Regions BY <2>1 DEF Places, NoPlace
  <2>. QED BY <1>1, <1>4, <1>6, <2>2 DEF Placed
<1>7. CASE seen # c.line1
  <2>1. load.reorder /\ seen = c.before BY <1>7 DEF Seen
  <2>2. load \in Loads BY <1>1 DEF Shapes
  <2>3. Slots % SealSegs = 0 BY <2>1, <2>2 DEF OneStart
  <2>4. p = NoPlace \/ p = Home("seal", s + 1) BY <1>1, <1>2, <2>1 DEF OnePlace
  <2>5. Home("seal", s + 1) = Home("seal", r)
    <3>. DEFINE z == r - 1
    <3>1. z \in Int /\ s = z % Slots BY <1>2 DEF SlotOf, HostSlot
    <3>2. SealSegs \in Nat \ {0} /\ Slots \in Nat \ {0}
      BY Sizes
    <3>3. s \in Int BY <1>2, <3>2
    <3>. HIDE DEF z, s
    <3>4. (z % Slots) % SealSegs = z % SealSegs BY <2>3, <3>1, <3>2, ModMod
    <3>5. (s + 1) - 1 = s BY <3>3
    <3>6. s % SealSegs = z % SealSegs BY <3>1, <3>4
    <3>7. ((s + 1) - 1) % SealSegs = z % SealSegs BY <3>5, <3>6
    <3>. QED BY <3>7 DEF Home, SegmentOf, SegsOf, z
  <2>6. ASSUME p.region # "none" PROVE p = Home("seal", r) /\ p.region = "seal"
    BY <2>4, <2>5, <2>6 DEF NoPlace, Home
  <2>7. ASSUME p.region # "none", c.status = "OK" PROVE slab[p.region][p.seg] >= r
    <3>1. LineOf(r).status = "OK" BY <1>4, <1>5, <2>7
    <3>2. LineOf(r).place.region = "seal" BY <1>1, <2>1, <3>1 DEF OnePlace
    <3>3. LineOf(r).place = Home("seal", r) /\ slab["seal"][LineOf(r).place.seg] >= r
      BY <1>1, <3>2 DEF Placed
    <3>. QED BY <2>6, <2>7, <3>3
  <2>. QED BY <2>6, <2>7 DEF Regions
<1>. QED BY <1>6, <1>7

\* A segment that the audit trusts holds the response's own output.
LEMMA TrustedIsOwn ==
  ASSUME OneStart, IInv, NEW r \in Window, NEW g \in Regions,
         slab[g][Home(g, r).seg] >= r, Reserved - (r - 1) < SegsOf(g)
  PROVE  slab[g][Home(g, r).seg] = r
<1>. DEFINE x == slab[g][Home(g, r).seg]
<1>1. Shapes /\ Counts /\ Slabs BY DEF IInv
<1>2. r \in Nat /\ r >= 1 /\ r <= Reserved /\ Reserved \in Nat BY <1>1, Positions, Bounds
<1>3. Home(g, r).seg \in 0 .. SegsOf(g) - 1 BY <1>2, HomeSeg
<1>4. x \in Nat BY <1>1, <1>3 DEF Shapes
<1>5. x # 0 BY <1>2, <1>4
<1>6. x \in 1 .. Reserved /\ Home(g, x).seg = Home(g, r).seg BY <1>1, <1>3, <1>5 DEF Slabs
<1>7. SegsOf(g) \in Nat BY Sizes
<1>8. x >= r OBVIOUS
<1>. HIDE DEF x
<1>9. x - r < SegsOf(g) /\ r - x < SegsOf(g) /\ x \in Int /\ r \in Int
  BY <1>2, <1>4, <1>6, <1>7, <1>8
<1>10. x = r BY <1>6, <1>9, SegmentApart
<1>. QED BY <1>10 DEF x

\* An interval without its first number.
LEMMA Shorter ==
  ASSUME NEW a \in Nat, NEW b \in Nat
  PROVE  /\ \A q \in a + 2 .. b : q \in a + 1 .. b /\ q # a + 1
         /\ \A q \in a + 1 .. b : q # a + 1 => q \in a + 2 .. b
  OBVIOUS

LEMMA TakeInv ==
  ASSUME OneStart, IInv, PollTake
  PROVE  IInv'
<1>. DEFINE r == Drained + taken + 1  s == SlotOf(r)  pos == U32(rd + taken)
            T == [rid : Nat, status : Statuses, line1 : Lines, before : Lines]
<1>1. Shapes /\ Counts /\ Lanes /\ Slotted /\ Placed /\ OnePlace /\ Slabs /\ Owners
  BY DEF IInv
<1>2. running /\ taken < Lag(wr, rd) BY DEF PollTake
<1>3. /\ r \in Window /\ r \in Nat /\ r >= 1 /\ r <= Reserved
      /\ pos = U32(r - 1) /\ HostSlot(pos) = s
      /\ s \in 0 .. Slots - 1 /\ Lag(wr, pos) = Reserved - (r - 1)
      /\ cq[s].rid # 0 => cq[s].rid = r /\ ~InLane(r) /\ Answered(r)
  BY <1>2, NextTaken, SMTT(60)
<1>. DEFINE c == cq[s]
<1>4. PICK seen \in Seen(c) :
        LET p      == seen.place
            st     == TakenStatus(c, seen)
            points == st = "OK" /\ p.region # "none"
            bad    == points /\ Untrusted(p, pos)
        IN  /\ c.rid # 0
            /\ cq' = [cq EXCEPT ![s].rid = 0]
            /\ owner' = IF ~points THEN owner
                        ELSE [owner EXCEPT ![p.region][p.seg] =
                               IF bad THEN [@ EXCEPT !.rid = 0]
                                      ELSE [rid |-> c.rid, pos |-> pos]]
            /\ held' = (IF taken = 0 THEN {} ELSE held) \cup
                 {[rid    |-> c.rid,
                   status |-> IF bad THEN "SLAB_OVERRUN" ELSE st,
                   ran    |-> c.status,
                   place  |-> IF bad THEN NoPlace ELSE p,
                   own    |-> p.region # "none" /\ slab[p.region][p.seg] = c.rid]}
  BY <1>3, ZenonT(60) DEF PollTake
<1>. DEFINE p      == seen.place
            points == c.status = "OK" /\ p.region # "none"
            bad    == points /\ Untrusted(p, pos)
            new    == [rid    |-> r,
                       status |-> IF bad THEN "SLAB_OVERRUN" ELSE c.status,
                       ran    |-> c.status,
                       place  |-> IF bad THEN NoPlace ELSE p,
                       own    |-> p.region # "none" /\ slab[p.region][p.seg] = r]
<1>5. c.rid = r /\ ~InLane(r) /\ Answered(r) BY <1>3, <1>4
<1>6. /\ cq' = [cq EXCEPT ![s].rid = 0]
      /\ owner' = IF ~points THEN owner
                  ELSE [owner EXCEPT ![p.region][p.seg] =
                         IF bad THEN [@ EXCEPT !.rid = 0] ELSE [rid |-> r, pos |-> pos]]
      /\ held' = (IF taken = 0 THEN {} ELSE held) \cup {new}
  BY <1>4, <1>5 DEF TakenStatus
<1>7. /\ (load' = load) /\ (running' = running) /\ (starts' = starts)
      /\ (capacity' = capacity) /\ (wr' = wr) /\ (rd' = rd) /\ (nextId' = nextId)
      /\ (todo' = todo) /\ (slab' = slab) /\ (reader' = reader) /\ taken' = taken + 1
  BY DEF PollTake
<1>8. p.region # "none" => /\ p.region \in Regions /\ p = Home(p.region, r)
                           /\ c.status = "OK" => slab[p.region][p.seg] >= r
  BY <1>3, <1>5, SeenPlace
<1>9. Reserved \in Nat /\ Drained \in Nat /\ taken \in Nat /\ Lag(wr, rd) = Reserved - Drained
  BY <1>1, Bounds
<1>10. (Reserved' = Reserved) /\ (Drained' = Drained)
  BY <1>7 DEF Reserved, Drained, Lag, U32
<1>11. Window' = Drained + taken + 2 .. Reserved
  <2>1. Drained + (taken + 1) + 1 = Drained + taken + 2 BY <1>9
  <2>. QED BY <1>7, <1>10, <2>1 DEF Window
<1>. HIDE DEF p, c, pos, new, bad, points
<1>a. Window = Drained + taken + 1 .. Reserved BY DEF Window
<1>b. Drained + taken \in Nat BY <1>9
<1>12. \A q \in Window' : q \in Window /\ q # r
  BY <1>9, <1>11, <1>a, <1>b, Shorter
<1>13. \A q \in Window : q # r => q \in Window'
  BY <1>9, <1>11, <1>a, <1>b, Shorter
<1>. HIDE DEF r
<1>14. \A q \in Window' : SlotOf(q) # s /\ SlotOf(q) \in 0 .. Slots - 1
  <2>1. ASSUME NEW q \in Window' PROVE SlotOf(q) # s /\ SlotOf(q) \in 0 .. Slots - 1
    <3>1. q \in Window /\ q # r BY <1>12
    <3>. QED BY <1>1, <1>3, <3>1, WindowApart, Positions DEF s
  <2>. QED BY <2>1
<1>. HIDE DEF s
<1>15. cq \in [0 .. Slots - 1 -> T] BY <1>1 DEF Shapes
<1>16. cq'[s] = [cq[s] EXCEPT !.rid = 0] /\ \A t \in 0 .. Slots - 1 : t # s => cq'[t] = cq[t]
  BY <1>3, <1>6, <1>15
<1>17. cq'[s] = [rid |-> 0, status |-> cq[s].status, line1 |-> cq[s].line1,
                 before |-> cq[s].before]
  <2>1. cq[s] \in T BY <1>3, <1>15
  <2>. QED BY <1>16, <2>1
<1>18. cq' \in [0 .. Slots - 1 -> T]
  <2>1. cq' = [t \in 0 .. Slots - 1 |-> cq'[t]] BY <1>6, <1>15
  <2>2. cq[s] \in T BY <1>3, <1>15
  <2>3. cq'[s] \in T BY <1>17, <2>2
  <2>4. \A t \in 0 .. Slots - 1 : cq'[t] \in T BY <1>15, <1>16, <2>3
  <2>. QED BY <2>1, <2>4
<1>19. \A q \in Window' : cq'[SlotOf(q)] = cq[SlotOf(q)] BY <1>14, <1>16
<1>20. \A q \in Window' : LineOf(q)' = LineOf(q) BY <1>19 DEF LineOf
<1>21. \A q : (InLane(q)' <=> InLane(q)) /\ (Answered(q)' <=> Answered(q))
  BY <1>7 DEF InLane, Answered
<1>22. /\ DOMAIN owner' = Regions
       /\ \A g \in Regions :
            /\ owner'[g] \in [0 .. SegsOf(g) - 1 -> [rid : Nat, pos : Nat]]
            /\ \A seg \in 0 .. SegsOf(g) - 1 :
                 \/ owner'[g][seg] = owner[g][seg]
                 \/ owner'[g][seg] = [owner[g][seg] EXCEPT !.rid = 0]
                 \/ owner'[g][seg] = [rid |-> r, pos |-> pos]
  <2>1. DOMAIN owner = Regions
        /\ \A g \in Regions : owner[g] \in [0 .. SegsOf(g) - 1 -> [rid : Nat, pos : Nat]]
    BY <1>1 DEF Shapes
  <2>2. CASE ~points BY <1>6, <2>1, <2>2
  <2>3. CASE points
    <3>. DEFINE G == p.region  z == p.seg  old == owner[G][z]
                o == IF bad THEN [old EXCEPT !.rid = 0] ELSE [rid |-> r, pos |-> pos]
    <3>1. G \in Regions /\ p = Home(G, r) BY <1>8, <2>3 DEF points
    <3>2. z \in 0 .. SegsOf(G) - 1 BY <1>3, <3>1, HomeSeg
    <3>3. old \in [rid : Nat, pos : Nat] BY <2>1, <3>1, <3>2
    <3>4. pos \in Nat
      <4>1. r - 1 \in Int BY <1>3
      <4>2. U32(r - 1) \in 0 .. IdxMod - 1 BY <4>1, Reduced
      <4>. QED BY <1>3, <4>2, Sizes
    <3>. HIDE DEF old
    <3>5. o \in [rid : Nat, pos : Nat] BY <1>3, <3>3, <3>4
    <3>6. owner' = [owner EXCEPT ![G][z] = o]
      <4>1. owner' = [owner EXCEPT ![p.region][p.seg] =
                        IF bad THEN [@ EXCEPT !.rid = 0] ELSE [rid |-> r, pos |-> pos]]
        BY <1>6, <2>3
      <4>. QED BY <4>1 DEF old
    <3>. HIDE DEF G, z, o
    <3>7. owner' = [owner EXCEPT ![G] = [owner[G] EXCEPT ![z] = o]] BY <3>6
    <3>8. DOMAIN owner' = Regions BY <2>1, <3>7
    <3>9. ASSUME NEW g \in Regions
          PROVE  /\ owner'[g] \in [0 .. SegsOf(g) - 1 -> [rid : Nat, pos : Nat]]
                 /\ \A seg \in 0 .. SegsOf(g) - 1 :
                      \/ owner'[g][seg] = owner[g][seg]
                      \/ owner'[g][seg] = [owner[g][seg] EXCEPT !.rid = 0]
                      \/ owner'[g][seg] = [rid |-> r, pos |-> pos]
      <4>1. CASE g = G
        <5>1. owner'[g] = [owner[g] EXCEPT ![z] = o] BY <2>1, <3>7, <4>1
        <5>2. owner[g] \in [0 .. SegsOf(g) - 1 -> [rid : Nat, pos : Nat]] BY <2>1
        <5>3. owner'[g] \in [0 .. SegsOf(g) - 1 -> [rid : Nat, pos : Nat]]
          BY <3>5, <5>1, <5>2
        <5>4. ASSUME NEW seg \in 0 .. SegsOf(g) - 1, seg # z
              PROVE  owner'[g][seg] = owner[g][seg]
          BY <5>1, <5>2, <5>4
        <5>5. owner'[g][z] = o BY <3>2, <4>1, <5>1, <5>2
        <5>6. o = [owner[g][z] EXCEPT !.rid = 0] \/ o = [rid |-> r, pos |-> pos]
          BY <4>1 DEF o, old, z, G
        <5>. QED BY <5>3, <5>4, <5>5, <5>6
      <4>2. CASE g # G
        <5>1. owner'[g] = owner[g] BY <2>1, <3>7, <4>2
        <5>. QED BY <2>1, <5>1
      <4>. QED BY <4>1, <4>2
    <3>. QED BY <3>8, <3>9
  <2>. QED BY <2>2, <2>3
<1>23. Shapes'
  <2>1. taken' \in Nat BY <1>7, <1>9
  <2>. QED BY <1>1, <1>7, <1>18, <1>22, <2>1 DEF Shapes
<1>24. Counts'
  <2>1. running' BY <1>2, <1>7
  <2>2. Lag(wr, rd)' = Lag(wr, rd) BY <1>7 DEF Lag, U32
  <2>3. taken' <= Lag(wr, rd) BY <1>2, <1>7, <1>9
  <2>. QED BY <1>1, <1>2, <1>7, <1>10, <2>1, <2>2, <2>3 DEF Counts, U32
<1>25. Lanes'
  <2>1. ASSUME NEW l \in todo PROVE l.rid \in Window'
    <3>1. l.rid \in Window BY <1>1 DEF Lanes
    <3>2. l.rid # r BY <1>5 DEF InLane
    <3>. QED BY <1>13, <3>1, <3>2
  <2>. QED BY <1>1, <1>7, <1>10, <2>1 DEF Lanes, U32
<1>26. Slotted'
  <2>1. ASSUME NEW q \in Window' PROVE cq'[SlotOf(q)].rid = IF InLane(q)' THEN 0 ELSE q
    <3>1. cq[SlotOf(q)].rid = IF InLane(q) THEN 0 ELSE q BY <1>1, <1>12 DEF Slotted
    <3>. QED BY <1>19, <1>21, <3>1
  <2>2. ASSUME NEW t \in 0 .. Slots - 1, cq'[t].rid # 0
        PROVE  /\ cq'[t].rid \in Window' /\ SlotOf(cq'[t].rid) = t
               /\ cq'[t].status = cq'[t].line1.status
    <3>1. t # s BY <1>17, <2>2
    <3>2. cq'[t] = cq[t] BY <1>16, <3>1
    <3>3. cq[t].rid \in Window /\ SlotOf(cq[t].rid) = t /\ cq[t].status = cq[t].line1.status
      BY <1>1, <2>2, <3>2 DEF Slotted
    <3>4. cq[t].rid # r BY <3>1, <3>3 DEF s
    <3>. QED BY <1>13, <3>2, <3>3, <3>4
  <2>3. ASSUME NEW k \in todo', k.at # "compute" PROVE LineOf(k.rid)'.status = k.at
    <3>1. k \in todo BY <1>7
    <3>2. LineOf(k.rid).status = k.at BY <1>1, <2>3, <3>1 DEF Slotted
    <3>3. k.rid \in Window' BY <1>25 DEF Lanes
    <3>. QED BY <1>20, <3>2, <3>3
  <2>. QED BY <2>1, <2>2, <2>3 DEF Slotted, LineOf
<1>27. Placed'
  <2>1. ASSUME NEW q \in Window', Answered(q)'
        PROVE  q \in Window /\ Answered(q) /\ LineOf(q)' = LineOf(q)
    BY <1>12, <1>20, <1>21, <2>1
  <2>. QED BY <1>1, <1>7, <2>1 DEF Placed
<1>28. OnePlace'
  <2>1. ASSUME NEW q \in Window', Answered(q)'
        PROVE  q \in Window /\ Answered(q) /\ LineOf(q)' = LineOf(q)
    BY <1>12, <1>20, <1>21, <2>1
  <2>2. \A t \in 0 .. Slots - 1 : (cq'[t].line1 = cq[t].line1) /\ cq'[t].before = cq[t].before
    BY <1>16, <1>17
  <2>3. ASSUME load.reorder, NEW t \in 0 .. Slots - 1,
               NEW line \in {cq'[t].line1, cq'[t].before}
        PROVE  line.place = NoPlace \/ line.place = Home("seal", t + 1)
    BY <1>1, <2>2, <2>3 DEF OnePlace
  <2>4. ASSUME load.reorder, NEW q \in Window', Answered(q)', LineOf(q)'.status = "OK"
        PROVE  LineOf(q)'.place.region = "seal"
    BY <1>1, <2>1, <2>4 DEF OnePlace
  <2>. QED BY <1>7, <2>3, <2>4 DEF OnePlace
<1>29. Slabs' BY <1>1, <1>7, <1>10 DEF Slabs
<1>30. Owners'
  <2>1. ASSUME NEW g \in Regions, NEW seg \in 0 .. SegsOf(g) - 1, owner'[g][seg].rid # 0
        PROVE  owner'[g][seg].pos = U32(owner'[g][seg].rid - 1)
    <3>1. owner[g][seg] \in [rid : Nat, pos : Nat] BY <1>1 DEF Shapes
    <3>2. CASE owner'[g][seg] = owner[g][seg] BY <1>1, <2>1, <3>2 DEF Owners
    <3>3. CASE owner'[g][seg] = [owner[g][seg] EXCEPT !.rid = 0] BY <2>1, <3>1, <3>3
    <3>4. CASE owner'[g][seg] = [rid |-> r, pos |-> pos] BY <1>3, <3>4
    <3>. QED BY <1>22, <3>2, <3>3, <3>4
  <2>. QED BY <2>1 DEF Owners, U32
<1>31. Returned'
  <2>1. new.rid = r /\ new.ran = c.status /\ new.status = (IF bad THEN "SLAB_OVERRUN" ELSE c.status)
        /\ new.place = (IF bad THEN NoPlace ELSE p)
    BY DEF new
  <2>2. new.own = (p.region # "none" /\ slab[p.region][p.seg] = r) BY DEF new
  <2>3. ASSUME new.status = "OK", new.place.region # "none"
        PROVE  /\ new.own /\ p.region \in Regions /\ new.place = p
               /\ p = Home(p.region, r) /\ slab[p.region][p.seg] >= r
    <3>1. ~bad /\ c.status = "OK" /\ new.place = p BY <2>1, <2>3
    <3>2. p.region # "none" BY <2>3, <3>1
    <3>3. p.region \in Regions /\ p = Home(p.region, r) /\ slab[p.region][p.seg] >= r
      BY <1>8, <3>1, <3>2
    <3>4. ~Untrusted(p, pos) BY <3>1, <3>2 DEF bad, points
    <3>5. SegsOf(p.region) \in Nat BY <3>3, Sizes
    <3>6. Reserved - (r - 1) < SegsOf(p.region)
      BY <1>3, <1>9, <3>4, <3>5 DEF Untrusted
    <3>7. slab[p.region][Home(p.region, r).seg] = r BY <1>3, <3>3, <3>6, TrustedIsOwn
    <3>8. slab[p.region][p.seg] = r BY <3>3, <3>7
    <3>9. new.own BY <2>2, <3>2, <3>8
    <3>. QED BY <3>1, <3>3, <3>9
  <2>4. \A h \in held' : h \in held \/ h = new BY <1>6
  <2>5. SUFFICES ASSUME NEW h \in held'
        PROVE  /\ h.rid \in 1 .. Reserved
               /\ h.status \in {h.ran, "SLAB_OVERRUN"}
               /\ h.status = "OK" /\ h.place.region # "none" =>
                    /\ h.own /\ h.place.region \in Regions
                    /\ h.place = Home(h.place.region, h.rid)
                    /\ slab[h.place.region][h.place.seg] >= h.rid
    BY <1>7, <1>10 DEF Returned
  <2>6. CASE h \in held BY <2>6 DEF IInv, Returned
  <2>7. CASE h = new
    <3>. HIDE DEF new
    <3>. QED BY <1>3, <1>9, <2>1, <2>3, <2>7
  <2>. QED BY <2>4, <2>5, <2>6, <2>7
<1>32. Reading' BY <1>7, <1>10 DEF IInv, Reading, Copied, U32
<1>. QED BY <1>23, <1>24, <1>25, <1>26, <1>27, <1>28, <1>29, <1>30, <1>31, <1>32 DEF IInv

\* The poll releases the slots it has taken: the window stays where it is.
LEMMA PublishInv ==
  ASSUME OneStart, IInv, PollPublish
  PROVE  IInv'
<1>1. Shapes /\ Counts BY DEF IInv
<1>2. /\ Reserved \in Nat /\ Drained \in Nat /\ taken \in Nat /\ Lag(wr, rd) = Reserved - Drained
      /\ Drained + taken <= Reserved /\ Reserved - Drained <= Slots
  BY <1>1, Bounds
<1>3. /\ (load' = load) /\ (running' = running) /\ (starts' = starts)
      /\ (capacity' = capacity) /\ (wr' = wr) /\ (nextId' = nextId) /\ (todo' = todo)
      /\ (cq' = cq) /\ (slab' = slab) /\ (owner' = owner) /\ (held' = held)
      /\ (reader' = reader) /\ (taken' = 0) /\ rd' = U32(rd + taken) /\ taken > 0
  BY DEF PollPublish
<1>4. wr = U32(Reserved) /\ rd = U32(Drained) BY <1>1 DEF Counts
<1>5. rd' = U32(Drained + taken) BY <1>2, <1>3, <1>4, Advance
<1>6. Reserved - (Drained + taken) \in 0 .. IdxMod - 1 BY <1>2, Sizes
<1>7. Lag(wr', rd') = Reserved - (Drained + taken)
  BY <1>2, <1>3, <1>4, <1>5, <1>6, LagExact
<1>8. Reserved' = Reserved BY <1>3 DEF Reserved
<1>9. Lag(wr, rd)' = Reserved - (Drained + taken) BY <1>7 DEF Lag, U32
<1>10. Drained' = Drained + taken BY <1>2, <1>8, <1>9 DEF Drained
<1>11. Window' = Window
  <2>1. (Drained + taken) + 0 + 1 = Drained + taken + 1 BY <1>2
  <2>. QED BY <1>3, <1>8, <1>10, <2>1 DEF Window
<1>12. Shapes' BY <1>1, <1>3 DEF Shapes
<1>13. Counts'
  <2>1. running BY <1>1, <1>2, <1>3 DEF Counts
  <2>2. capacity = Slots /\ starts # 0 BY <1>1, <2>1 DEF Counts
  <2>3. Reserved - (Drained + taken) <= Slots /\ 0 <= Reserved - (Drained + taken)
    BY <1>2, Sizes
  <2>4. Drained + taken \in Nat BY <1>2
  <2>. QED BY <1>3, <1>4, <1>5, <1>8, <1>9, <1>10, <2>1, <2>2, <2>3, <2>4 DEF Counts, U32
<1>14. Lanes' BY <1>3, <1>8, <1>11 DEF IInv, Lanes, U32
<1>15. Slotted' BY <1>3, <1>11 DEF IInv, Slotted, InLane, LineOf
<1>16. Placed' BY <1>3, <1>11 DEF IInv, Placed, Answered, LineOf
<1>17. OnePlace' BY <1>3, <1>11 DEF IInv, OnePlace, Answered, LineOf
<1>18. Slabs' BY <1>3, <1>8 DEF IInv, Slabs
<1>19. Owners' BY <1>3 DEF IInv, Owners, U32
<1>20. Returned' BY <1>3, <1>8 DEF IInv, Returned
<1>21. Reading' BY <1>3, <1>8 DEF IInv, Reading, Copied, U32
<1>. QED BY <1>12, <1>13, <1>14, <1>15, <1>16, <1>17, <1>18, <1>19, <1>20, <1>21 DEF IInv

-----------------------------------------------------------------------------
(* The invariant is inductive. *)

LEMMA NextInv ==
  ASSUME OneStart, IInv, [Next]_vars
  PROVE  IInv'
<1>1. ASSUME NEW c \in Capacities, SetCapacity(c) PROVE IInv' BY <1>1, CapacityInv
<1>2. CASE Start BY <1>2, StartInv
<1>3. CASE Stop BY <1>3, StopInv
<1>4. ASSUME NEW k \in load.kinds, NEW n \in 1 .. 2, Reserve(k, n) PROVE IInv'
  BY <1>4, ReserveInv
<1>5. ASSUME NEW l \in todo, WriteBody(l) PROVE IInv' BY <1>5, BodyInv
<1>6. ASSUME NEW l \in todo, CommitStore(l) PROVE IInv' BY <1>6, StoreInv
<1>7. CASE PollTake BY <1>7, TakeInv
<1>8. CASE PollPublish BY <1>8, PublishInv
<1>9. ASSUME NEW h \in held, ReadBegin(h) PROVE IInv' BY <1>9, BeginInv
<1>10. CASE ReadHalf BY <1>10, HalfInv
<1>11. CASE ReadEnd BY <1>11, EndInv
<1>12. CASE ReadReturn BY <1>12, ReturnInv
<1>13. CASE UNCHANGED vars
  <2>. USE <1>13 DEF vars
  <2>1. Shapes' BY DEF IInv, Shapes
  <2>2. Counts' BY DEF IInv, Counts, Reserved, Drained, Lag, U32
  <2>. QED BY <2>1, <2>2, LifecycleOnly
<1>. QED BY <1>1, <1>2, <1>3, <1>4, <1>5, <1>6, <1>7, <1>8, <1>9, <1>10, <1>11, <1>12,
            <1>13 DEF Next

\* The inductive invariant holds in every reachable state.
THEOREM SlabInvariant == OneStart => (Spec => []IInv)
<1>. SUFFICES ASSUME OneStart PROVE Spec => []IInv OBVIOUS
<1>1. Init => IInv BY InitInv
<1>2. IInv /\ [Next]_vars => IInv' BY NextInv
<1>. QED BY <1>1, <1>2, PTL DEF Spec

-----------------------------------------------------------------------------
(* The properties follow from it. *)

LEMMA TypesFollow ==
  ASSUME OneStart, IInv
  PROVE  TypeOK
<1>1. Shapes /\ Counts /\ Lanes /\ Slotted BY DEF IInv
<1>2. /\ Reserved \in Nat /\ nextId = Reserved + 1 /\ Drained \in Nat /\ taken \in Nat
      /\ Lag(wr, rd) \in Nat /\ Lag(wr, rd) <= Slots /\ taken <= Lag(wr, rd)
      /\ wr \in 0 .. IdxMod - 1 /\ rd \in 0 .. IdxMod - 1
  BY <1>1, Bounds DEF Counts
<1>3. ASSUME NEW l \in todo
      PROVE  /\ l.rid \in 1 .. nextId - 1 /\ l.kind \in load.kinds
             /\ l.pos \in 0 .. IdxMod - 1
             /\ l.at \in {"compute", "OK", "SLAB_OVERRUN"}
  <2>1. l.rid \in 1 .. Reserved /\ l.pos = U32(l.rid - 1) BY LaneFacts
  <2>2. l.rid - 1 \in Int BY <1>2, <2>1
  <2>3. l.pos \in 0 .. IdxMod - 1 BY <2>1, <2>2, Reduced
  <2>4. l.kind \in load.kinds /\ l.at \in {"compute"} \cup Statuses BY <1>1 DEF Lanes
  <2>. QED BY <2>1, <2>3, <2>4 DEF Statuses, Reserved
<1>4. ASSUME NEW s \in 0 .. Slots - 1 PROVE cq[s].rid \in 0 .. nextId - 1
  <2>1. CASE cq[s].rid = 0 BY <1>2, <2>1
  <2>2. CASE cq[s].rid # 0
    <3>1. cq[s].rid \in Window BY <1>1, <2>2 DEF Slotted
    <3>2. cq[s].rid \in Nat /\ cq[s].rid <= Reserved BY <1>1, <3>1, Positions
    <3>. QED BY <3>2 DEF Reserved
  <2>. QED BY <2>1, <2>2
<1>5. taken \in 0 .. Slots BY <1>2, Sizes
<1>6. \A h \in held : h.rid \in 1 .. nextId - 1 BY DEF IInv, Returned, Reserved
<1>7. reader.at \in {"idle", "half1", "half2", "check", "ok", "refused"}
  BY DEF IInv, Reading
<1>8. /\ running \in BOOLEAN /\ starts \in 0 .. MaxStarts /\ capacity \in 0 .. Slots
      /\ nextId \in 1 .. MaxRequests + 1
  BY <1>1 DEF Shapes
<1>. QED BY <1>2, <1>3, <1>4, <1>5, <1>6, <1>7, <1>8 DEF TypeOK

LEMMA OwnFollows ==
  ASSUME OneStart, IInv
  PROVE  OutputIsOwn /\ StatusIsOwn /\ (MaxRequests < IdxMod => CheckedReadIsOwn)
<1>1. OutputIsOwn BY DEF IInv, Returned, OutputIsOwn
<1>2. StatusIsOwn BY DEF IInv, Returned, StatusIsOwn
<1>3. MaxRequests < IdxMod => CheckedReadIsOwn BY DEF IInv, Reading, CheckedReadIsOwn
<1>. QED BY <1>1, <1>2, <1>3

\* A position that is committed and not taken is that of a request of the
\* window that no lane works on any more.
LEMMA UndrainedRequest ==
  ASSUME OneStart, IInv, NEW pos \in Undrained
  PROVE  \E r \in Window : pos = U32(r - 1) /\ HostSlot(pos) = SlotOf(r) /\ ~InLane(r)
<1>1. Shapes /\ Counts /\ Lanes BY DEF IInv
<1>2. /\ Reserved \in Nat /\ Drained \in Nat /\ taken \in Nat
      /\ Lag(wr, rd) = Reserved - Drained
  BY <1>1, Bounds
<1>3. IdxMod \in Nat \ {0} BY Sizes
<1>4. pos \in 0 .. IdxMod - 1 /\ Lag(pos, rd) \in taken .. Lag(wr, rd) - 1
      /\ pos \notin {l.pos : l \in todo}
  BY DEF Undrained
<1>. DEFINE d == Lag(pos, rd)  r == Drained + d + 1
<1>5. d \in Nat /\ d >= taken /\ d <= Reserved - Drained - 1 BY <1>2, <1>4
<1>6. r \in Window /\ r - 1 = Drained + d /\ r - 1 \in Int BY <1>2, <1>5 DEF Window
<1>7. U32(r - 1) = pos
  <2>1. pos \in Int /\ rd = Drained % IdxMod /\ rd \in Int
    BY <1>1, <1>2, <1>3, <1>4, DivMod DEF Counts, U32
  <2>2. d = (pos - rd) % IdxMod BY DEF Lag, U32
  <2>. DEFINE x == pos - rd  y == pos + Drained
  <2>a. x \in Int /\ y \in Int /\ -rd \in Int /\ Drained \in Int BY <1>2, <2>1
  <2>3. (((pos - rd) % IdxMod) + Drained) % IdxMod = ((pos - rd) + Drained) % IdxMod
    <3>. HIDE DEF x
    <3>1. ((x % IdxMod) + Drained) % IdxMod = (x + Drained) % IdxMod BY <1>3, <2>a, SumMod
    <3>. QED BY <3>1 DEF x
  <2>4. (((pos + Drained) % IdxMod) + (-rd)) % IdxMod = ((pos + Drained) + (-rd)) % IdxMod
    <3>. HIDE DEF y
    <3>1. ((y % IdxMod) + (-rd)) % IdxMod = (y + (-rd)) % IdxMod BY <1>3, <2>a, SumMod
    <3>. QED BY <3>1 DEF y
  <2>5. (((pos + Drained) % IdxMod) - (Drained % IdxMod)) % IdxMod
          = ((pos + Drained) - Drained) % IdxMod
    <3>. HIDE DEF y
    <3>1. ((y % IdxMod) - (Drained % IdxMod)) % IdxMod = (y - Drained) % IdxMod
      BY <1>3, <2>a, DiffMod
    <3>. QED BY <3>1 DEF y
  <2>6. (pos + Drained) % IdxMod \in Int
    BY <1>2, <1>3, <2>1, DivMod, pos + Drained \in Int
  <2>7. pos % IdxMod = pos BY <1>3, <1>4, ModSmall
  <2>8. (pos + Drained) - Drained = pos /\ (pos - rd) + Drained = (pos + Drained) + (-rd)
    BY <1>2, <2>1
  <2>9. ((pos + Drained) % IdxMod) + (-rd) = ((pos + Drained) % IdxMod) - (Drained % IdxMod)
    BY <2>1, <2>6
  <2>10. d + Drained = r - 1 BY <1>2, <1>5, <1>6
  <2>. HIDE DEF r, d
  <2>11. (d + Drained) % IdxMod = pos
    BY <2>2, <2>3, <2>4, <2>5, <2>7, <2>8, <2>9
  <2>. QED BY <2>10, <2>11 DEF U32
<1>. HIDE DEF r
<1>8. HostSlot(pos) = SlotOf(r) BY <1>6, <1>7, Reduced DEF SlotOf
<1>9. ~InLane(r)
  <2>1. SUFFICES ASSUME NEW l \in todo, l.rid = r PROVE FALSE BY DEF InLane
  <2>2. l.pos = U32(r - 1) BY <2>1, LaneFacts
  <2>. QED BY <1>4, <1>7, <2>2
<1>. QED BY <1>6, <1>7, <1>8, <1>9

LEMMA KeptFollows ==
  ASSUME OneStart, IInv
  PROVE  CommittedIsFound /\ SealedOutputKept
<1>1. Shapes /\ Counts /\ Slotted /\ Placed BY DEF IInv
<1>2. ASSUME NEW pos \in Undrained PROVE cq[HostSlot(pos)].rid # 0
  <2>1. PICK r \in Window : HostSlot(pos) = SlotOf(r) /\ ~InLane(r) BY UndrainedRequest
  <2>2. cq[SlotOf(r)].rid = r BY <1>1, <2>1 DEF Slotted
  <2>3. r \in Nat /\ r > Drained + taken /\ Drained \in Nat /\ taken \in Nat
    BY <1>1, <2>1, Positions, Bounds
  <2>. QED BY <2>1, <2>2, <2>3
<1>3. ASSUME NEW pos \in Undrained, cq[HostSlot(pos)].rid # 0,
             cq[HostSlot(pos)].line1.place.region = "seal"
      PROVE  slab["seal"][cq[HostSlot(pos)].line1.place.seg] = cq[HostSlot(pos)].rid
  <2>1. PICK r \in Window : HostSlot(pos) = SlotOf(r) /\ ~InLane(r) BY UndrainedRequest
  <2>2. cq[SlotOf(r)].rid = r BY <1>1, <2>1 DEF Slotted
  <2>3. Answered(r) BY <2>1 DEF InLane, Answered
  <2>4. LineOf(r) = cq[HostSlot(pos)].line1 BY <2>1 DEF LineOf
  <2>5. LineOf(r).place.region = "seal" BY <1>3, <2>4
  <2>6. slab["seal"][LineOf(r).place.seg] = r BY <1>1, <2>1, <2>3, <2>5 DEF Placed
  <2>. QED BY <2>1, <2>2, <2>4, <2>6
<1>4. CommittedIsFound BY <1>2 DEF CommittedIsFound
<1>5. SealedOutputKept BY <1>3 DEF SealedOutputKept
<1>. QED BY <1>4, <1>5

\* Every index stays below its width, every slot, lane and held response
\* names a request that was reserved.
THEOREM SlabTypes == OneStart => (Spec => []TypeOK)
<1>. SUFFICES ASSUME OneStart PROVE Spec => []TypeOK OBVIOUS
<1>1. IInv => TypeOK BY TypesFollow
<1>. QED BY <1>1, SlabInvariant, PTL

\* An answer that fast_path_poll returns as OK with an output in the slab
\* points at its own output, whatever the sizes of the ring and the regions.
THEOREM ReturnedOutputIsOwn == OneStart => (Spec => []OutputIsOwn)
<1>. SUFFICES ASSUME OneStart PROVE Spec => []OutputIsOwn OBVIOUS
<1>1. IInv => OutputIsOwn BY OwnFollows
<1>. QED BY <1>1, SlabInvariant, PTL

\* The status of a response is its lane's, or the audit's, however late the
\* other cache lines of its slot arrive.
THEOREM ReturnedStatusIsOwn == OneStart => (Spec => []StatusIsOwn)
<1>. SUFFICES ASSUME OneStart PROVE Spec => []StatusIsOwn OBVIOUS
<1>1. IInv => StatusIsOwn BY OwnFollows
<1>. QED BY <1>1, SlabInvariant, PTL

\* A checked read that succeeds returns the bytes of its response, whatever
\* the kernel writes during the copy, while positions have not come round.
THEOREM CheckedReads == OneStart /\ MaxRequests < IdxMod => (Spec => []CheckedReadIsOwn)
<1>. SUFFICES ASSUME OneStart, MaxRequests < IdxMod PROVE Spec => []CheckedReadIsOwn OBVIOUS
<1>1. IInv => CheckedReadIsOwn BY OwnFollows
<1>. QED BY <1>1, SlabInvariant, PTL

\* The host finds every response the kernel has committed: the slot
\* arithmetic of the two sides agrees.
THEOREM CommittedFound == OneStart => (Spec => []CommittedIsFound)
<1>. SUFFICES ASSUME OneStart PROVE Spec => []CommittedIsFound OBVIOUS
<1>1. IInv => CommittedIsFound BY KeptFollows
<1>. QED BY <1>1, SlabInvariant, PTL

\* The seal gate: a sealed output stays in its segment until the host has
\* taken its response.
THEOREM SealedKept == OneStart => (Spec => []SealedOutputKept)
<1>. SUFFICES ASSUME OneStart PROVE Spec => []SealedOutputKept OBVIOUS
<1>1. IInv => SealedOutputKept BY KeptFollows
<1>. QED BY <1>1, SlabInvariant, PTL
===============================================================================

-------------------------------- MODULE Rsa --------------------------------
(* RSA signing by the Chinese remainder theorem and verification: the        *)
(* functions of rsa2048_crt.cuh and rsa2048_mont.cuh and the kernels around  *)
(* them.  A half-size number is Limbs words of WordBits bits, a full-size    *)
(* number twice as many, least significant word first.  A modulus is a       *)
(* record of its words n, of R2 (the square of Base ^ words modulo n) and of *)
(* the negated inverse prime of its lowest word, all computed by the host.   *)
EXTENDS Loops

CONSTANTS WordBits,         \* 32 in the code
          Limbs,            \* 32 in the code, one for each lane of a warp
          Narrow, Wide,     \* 4 and 5 in the code: the windows of the exponentiations
          VerifySquarings   \* 16 in the code: the public exponent is 2^16 + 1

Base == 2 ^ WordBits
Lane == 0 .. Limbs - 1
Words(k, x) == [i \in 0 .. k - 1 |-> (x \div Base ^ i) % Base]
ValueOf(v, k) == Loop(k, 0, LAMBDA s, i : s + v[i] * Base ^ i)
Zeros(k) == [i \in 0 .. k - 1 |-> 0]
One(k) == Words(k, 1)
Bit(v, i) == (v[i \div WordBits] \div 2 ^ (i % WordBits)) % 2
HalfBits == Limbs * WordBits
-----------------------------------------------------------------------------
(* One thread's arithmetic on k words.                                       *)

\* cmp_1024: the first difference from the top decides.
Compare(a, b, k) ==
  LET differ == {i \in 0 .. k - 1 : a[i] # b[i]}
      top    == CHOOSE i \in differ : \A j \in differ : j <= i
  IN  IF differ = {} THEN 0 ELSE IF a[top] < b[top] THEN -1 ELSE 1

AddWords(a, b, k) ==
  Loop(k, [v |-> Zeros(k), c |-> 0],
       LAMBDA s, i : LET u == a[i] + b[i] + s.c
                     IN  [v |-> [s.v EXCEPT ![i] = u % Base], c |-> u \div Base])

SubtractWords(a, b, k) ==
  Loop(k, [v |-> Zeros(k), c |-> 0],
       LAMBDA s, i : LET u == a[i] - b[i] - s.c
                     IN  [v |-> [s.v EXCEPT ![i] = u % Base], c |-> IF u < 0 THEN 1 ELSE 0])

\* t + x * b from word "at" of t, and the carry out of the row.
AddRow(t, at, x, b, k) ==
  Loop(k, [v |-> t, c |-> 0],
       LAMBDA s, j : LET u == s.v[at + j] + x * b[j] + s.c
                     IN  [v |-> [s.v EXCEPT ![at + j] = u % Base], c |-> u \div Base])

ShiftLeft(r) ==
  Loop(Limbs, [v |-> r, c |-> 0],
       LAMBDA s, i : [v |-> [s.v EXCEPT ![i] = ((2 * r[i]) % Base) + s.c], c |-> (2 * r[i]) \div Base])
-----------------------------------------------------------------------------
(* Montgomery products of one thread.                                        *)

\* One turn: t + x * a, then the multiple of n that clears the lowest word, and
\* a shift by one word.  The accumulator has a word beyond the k of a number.
MontTurn(t, x, a, m, k) ==
  LET AddMultiple(w, y, b) == Once(AddRow(w, 0, y, b, k), LAMBDA r : [r.v EXCEPT ![k] = @ + r.c])
      Shifted(w) == [i \in 0 .. k |-> IF i = k THEN w[k] \div Base ELSE w[i + 1] % Base]
  IN  Once(AddMultiple(t, x, a),
           LAMBDA w : Once(AddMultiple(w, (w[0] * m.prime) % Base, m.n), Shifted))

\* The comparison of the last reduction is strict: a result equal to n stays.
Reduced(t, n, k) ==
  IF t[k] > 0 \/ Compare(t, n, k) > 0 THEN SubtractWords(t, n, k).v
  ELSE [i \in 0 .. k - 1 |-> t[i]]

MontWords(a, b, m, k) ==
  Once(Loop(k, Zeros(k + 1), LAMBDA t, i : MontTurn(t, b[i], a, m, k)), LAMBDA t : Reduced(t, m.n, k))

MontMulSerial(a, b, m) == MontWords(a, b, m, Limbs)
MontMulLane0Only(a, b, m) == MontWords(a, b, m, Limbs)
MontMul2048(a, b, m) == MontWords(a, b, m, 2 * Limbs)
-----------------------------------------------------------------------------
(* The Montgomery product of a warp, a word in each lane.                    *)

\* Mutant: the overflow replaces the carry a lane already has.
RippleReplaces(T, carry) ==
  Loop(Limbs - 1, [T |-> T, c |-> carry],
       LAMBDA s, j : LET u == s.T[j + 1] + s.c[j]
                     IN  [T |-> [s.T EXCEPT ![j + 1] = u % Base],
                          c |-> [s.c EXCEPT ![j + 1] = u \div Base]])

\* Lane j + 1 takes the carry of lane j, in turn: what overflows joins its own.
Ripple(T, carry) ==
  Loop(Limbs - 1, [T |-> T, c |-> carry],
       LAMBDA s, j : LET u == s.T[j + 1] + s.c[j]
                     IN  [T |-> [s.T EXCEPT ![j + 1] = u % Base],
                          c |-> [s.c EXCEPT ![j + 1] = @ + u \div Base]])

WarpAddMultiple(T, x, b) ==
  LET sum == [l \in Lane |-> T[l] + x * b[l]]
  IN  Ripple([l \in Lane |-> sum[l] % Base], [l \in Lane |-> sum[l] \div Base])

\* Lane 0 keeps the word above the lanes; it is one word wide.
WarpTurn(s, x, a, m) ==
  LET Next(w) ==
        Once(WarpAddMultiple(w.T, (w.T[0] * m.prime) % Base, m.n),
             LAMBDA z : LET high == ((s.above + w.c[Limbs - 1]) % Base) + z.c[Limbs - 1]
                        IN  [T |-> [l \in Lane |-> IF l = Limbs - 1 THEN high % Base ELSE z.T[l + 1]],
                             above |-> high \div Base])
  IN  Once(WarpAddMultiple(s.T, x, a), Next)

\* Every lane subtracts, then hands its borrow up, Limbs rounds over; lane 0
\* has none to hand on after the first.
WarpSubtract(T, n) ==
  LET Take(v, b) == [v |-> [l \in Lane |-> (v[l] - b[l]) % Base],
                     b |-> [l \in Lane |-> IF v[l] < b[l] THEN 1 ELSE 0]]
      Round(s) == Once(Take(s.v, [l \in Lane |-> IF l = 0 THEN 0 ELSE s.b[l - 1]]),
                       LAMBDA t : [t EXCEPT !.b[0] = 0])
  IN  Loop(Limbs, Take(T, n), LAMBDA s, round : Round(s)).v

MontMulWarp(a, b, m) ==
  Once(Loop(Limbs, [T |-> Zeros(Limbs), above |-> 0], LAMBDA s, i : WarpTurn(s, b[i], a, m)),
       LAMBDA s : IF s.above > 0 \/ Compare(s.T, m.n, Limbs) > 0 THEN WarpSubtract(s.T, m.n) ELSE s.T)

-----------------------------------------------------------------------------
(* Exponentiation.                                                           *)

\* Into Montgomery form; square, multiply, and keep the product where the
\* exponent has a bit, from the highest; and out again.
Power(x, exp, bits, m, k) ==
  LET Mul(a, b) == MontWords(a, b, m, k)
      Turn(acc, b, bit) == Once(Mul(acc, acc), LAMBDA sq : IF bit = 1 THEN Mul(sq, b) ELSE sq)
      Turns(one, b) == Loop(bits, one, LAMBDA acc, i : Turn(acc, b, Bit(exp, bits - 1 - i)))
  IN  Mul(Once(Mul(x, m.R2), LAMBDA b : Turns(Mul(One(k), m.R2), b)), One(k))

ModExp1024(x, exp, bits, m) == Power(x, exp, bits, m, Limbs)
ModExp2048(x, exp, bits, m) == Power(x, exp, bits, m, 2 * Limbs)

\* The same by the product of a warp.
ModExp1024Warp(x, exp, bits, m) ==
  LET Mul(a, b) == MontMulWarp(a, b, m)
      Turn(acc, b, bit) == Once(Mul(acc, acc), LAMBDA sq : IF bit = 1 THEN Mul(sq, b) ELSE sq)
      Turns(one, b) == Loop(bits, one, LAMBDA acc, i : Turn(acc, b, Bit(exp, bits - 1 - i)))
  IN  Mul(Once(Mul(x, m.R2), LAMBDA b : Turns(Mul(One(Limbs), m.R2), b)), One(Limbs))

\* Mutant: a window ends with its word.
WindowOfOneWord(exp, at, width) ==
  LET word == at \div WordBits IN (exp[word] \div 2 ^ (at % WordBits)) % 2 ^ width

\* The window that starts at a bit may lie across two words.
Window(exp, at, width) ==
  LET word == at \div WordBits
      next == IF word + 1 < Limbs THEN exp[word + 1] ELSE 0
  IN  ((exp[word] + next * Base) \div 2 ^ (at % WordBits)) % 2 ^ width

\* A table of the first 2^width powers; width squarings and at most one product
\* for a window, from the highest.
WindowPower(x, exp, bits, width, m) ==
  LET Mul(a, b) == MontMulLane0Only(a, b, m)
      windows == (bits + width - 1) \div width
      Table(one, b) == Loop(2 ^ width - 2, <<one, b>>, LAMBDA t, w : Append(t, Mul(t[w + 2], b)))
      Turn(acc, table, w) ==
        Once(Loop(width, acc, LAMBDA s, k : Mul(s, s)), LAMBDA s : IF w = 0 THEN s ELSE Mul(s, table[w + 1]))
  IN  Once(Table(MontMulSerial(One(Limbs), m.R2, m), MontMulSerial(x, m.R2, m)),
           LAMBDA table :
             MontMulSerial(Loop(windows, table[1],
                                LAMBDA acc, i : Turn(acc, table, Window(exp, (windows - 1 - i) * width, width))),
                           One(Limbs), m))

ModExpWindow4(x, exp, bits, m) == WindowPower(x, exp, bits, Narrow, m)
ModExpWindow5(x, exp, bits, m) == WindowPower(x, exp, bits, Wide, m)
-----------------------------------------------------------------------------
(* Between half size and full size.                                          *)

\* Mutant: the bit shifted out is forgotten.
Reduce2048NoCarry(x, p) ==
  LET Less(v) == IF Compare(v, p, Limbs) >= 0 THEN SubtractWords(v, p, Limbs).v ELSE v
  IN  Loop(2 * HalfBits, Zeros(Limbs),
           LAMBDA r, i : Less([ShiftLeft(r).v EXCEPT ![0] = @ + Bit(x, 2 * HalfBits - 1 - i)]))

\* Bit by bit from the top: a carry out of the shift calls for a subtraction too.
Reduce2048Binary(x, p) ==
  LET Less(v, c) == IF c = 1 \/ Compare(v, p, Limbs) >= 0 THEN SubtractWords(v, p, Limbs).v ELSE v
  IN  Loop(2 * HalfBits, Zeros(Limbs),
           LAMBDA r, i : Once(ShiftLeft(r),
                              LAMBDA s : Less([s.v EXCEPT ![0] = @ + Bit(x, 2 * HalfBits - 1 - i)], s.c)))

\* Word by word: the modulus moved up some words is subtracted while the rest
\* is larger, at most Base times; unmoved, also when it is equal.
Reduce2048Words(x, p) ==
  LET Moved(s) == [j \in 0 .. 2 * Limbs - 1 |-> IF j - s \in Lane THEN p[j - s] ELSE 0]
      Least(s) == IF s = 0 THEN 0 ELSE 1
      Drain(work, s) ==
        Loop(Base, work, LAMBDA w, j : IF Compare(w, Moved(s), 2 * Limbs) >= Least(s)
                                       THEN SubtractWords(w, Moved(s), 2 * Limbs).v ELSE w)
  IN  Once(Loop(Limbs + 1, x, LAMBDA w, i : Drain(w, Limbs - i)), LAMBDA w : [l \in Lane |-> w[l]])

\* One modulus is added at most, and its carry dropped.
ModSub1024(a, b, p) ==
  Once(SubtractWords(a, b, Limbs), LAMBDA d : IF d.c = 1 THEN AddWords(d.v, p, Limbs).v ELSE d.v)

MulTo2048(a, b) ==
  Loop(Limbs, Zeros(2 * Limbs),
       LAMBDA t, i : Once(AddRow(t, i, a[i], b, Limbs), LAMBDA r : [r.v EXCEPT ![i + Limbs] = (@ + r.c) % Base]))

Add2048(a, b) == AddWords(a, b, 2 * Limbs).v
Extended(a) == [i \in 0 .. 2 * Limbs - 1 |-> IF i < Limbs THEN a[i] ELSE 0]
-----------------------------------------------------------------------------
(* Signing.  A key has its moduli p and q, the exponents dp and dq and the   *)
(* inverse qinv of q modulo p.                                               *)

\* h = qinv * diff modulo p, by way of Montgomery form; then sq + q * h.
Recombine(sp, sq, key) ==
  LET Mul(a, b) == MontMulSerial(a, b, key.p)
      Quotient(diff) == Mul(Mul(Mul(key.qinv, key.p.R2), Mul(diff, key.p.R2)), One(Limbs))
  IN  Once(Quotient(ModSub1024(sp, sq, key.p.n)), LAMBDA h : Add2048(Extended(sq), MulTo2048(key.q.n, h)))

\* The build chooses the exponentiation: by windows of some width, or plain.
ModExp(x, exp, m, width) ==
  IF width = 0 THEN ModExp1024(x, exp, HalfBits, m) ELSE WindowPower(x, exp, HalfBits, width, m)

SignPrereduced(mp, mq, key, width) ==
  LET Half == [p |-> [x |-> mp, exp |-> key.dp, m |-> key.p], q |-> [x |-> mq, exp |-> key.dq, m |-> key.q]]
  IN  Once([h \in {"p", "q"} |-> ModExp(Half[h].x, Half[h].exp, Half[h].m, width)],
           LAMBDA s : Recombine(s.p, s.q, key))

CrtSign(x, key, width) ==
  SignPrereduced(Reduce2048Binary(x, key.p.n), Reduce2048Binary(x, key.q.n), key, width)

\* The two halves are computed by a warp each, into shared memory; both have
\* written theirs before the first warp joins them.
CrtSignTwoWarps(x, key, width) ==
  LET Branch == [p |-> [exp |-> key.dp, m |-> key.p], q |-> [exp |-> key.dq, m |-> key.q]]
      Computed(b) == ModExp(Reduce2048Binary(x, b.m.n), b.exp, b.m, width)
  IN  Once([warp \in {"p", "q"} |-> Computed(Branch[warp])],
           LAMBDA shared : Recombine(shared.p, shared.q, key))

\* The cooperative signer leaves sq in shared memory, a word from each lane, and
\* lane 0 subtracts all of it with no barrier between: the words of the lanes in
\* "late" are still what that memory held before.  The later sum reads it whole.
CrtSignWarp(x, key, late, before) ==
  LET Mul(a, b) == MontMulWarp(a, b, key.p)
      Quotient(diff) == Mul(Mul(Mul(key.qinv, key.p.R2), Mul(diff, key.p.R2)), One(Limbs))
      Branch(exp, m) == ModExp1024Warp(Reduce2048Binary(x, m.n), exp, HalfBits, m)
      Seen(sq) == [l \in Lane |-> IF l \in late THEN before[l] ELSE sq[l]]
      Joined(sp, sq) == Add2048(Extended(sq), MulTo2048(key.q.n, Quotient(ModSub1024(sp, Seen(sq), key.p.n))))
  IN  Once([p |-> Branch(key.dp, key.p), q |-> Branch(key.dq, key.q)], LAMBDA s : Joined(s.p, s.q))

\* The public exponent is an argument that is not used.
Verify2048(sig, m) ==
  LET Mul(a, b) == MontMul2048(a, b, m)
  IN  Once(Mul(sig, m.R2),
           LAMBDA s : Mul(Mul(Loop(VerifySquarings, s, LAMBDA acc, i : Mul(acc, acc)), s), One(2 * Limbs)))

\* The persistent engine's signer: big-endian bytes, four to a word.
ByteBase == 2 ^ (WordBits \div 4)
FromBytes(bytes) ==
  [i \in 0 .. 2 * Limbs - 1 |->
     Loop(4, 0, LAMBDA s, j : s * ByteBase + bytes[4 * (2 * Limbs - 1 - i) + j + 1])]
ToBytes(v) ==
  [n \in 1 .. 8 * Limbs |-> (v[2 * Limbs - 1 - (n - 1) \div 4] \div ByteBase ^ (3 - ((n - 1) % 4))) % ByteBase]
SignKeyslot(bytes, key, width) == ToBytes(CrtSign(FromBytes(bytes), key, width))
-----------------------------------------------------------------------------
(* The batches: a warp for each message, "perBlock" warps to a block, into an *)
(* output that starts as zeros.                                              *)
Launch(batch, perBlock, answer) ==
  LET warps == ((batch + perBlock - 1) \div perBlock) * perBlock
  IN  Loop(warps, [i \in 1 .. batch |-> Zeros(2 * Limbs)],
           LAMBDA out, warp : IF warp >= batch THEN out ELSE [out EXCEPT ![warp + 1] = answer[warp + 1]])

SignBatch(xs, key, width) == Launch(Len(xs), 4, [i \in DOMAIN xs |-> CrtSign(xs[i], key, width)])
SignWarpBatch(xs, key, late, before) ==
  Launch(Len(xs), 1, [i \in DOMAIN xs |-> CrtSignWarp(xs[i], key, late, before)])
SignPrereducedBatch(ws, key, width) ==
  Launch(Len(ws), 4, [i \in DOMAIN ws |-> SignPrereduced(ws[i].mp, ws[i].mq, key, width)])
SignTwoWarpsBatch(xs, key, width) == Launch(Len(xs), 1, [i \in DOMAIN xs |-> CrtSignTwoWarps(xs[i], key, width)])
ModExpBatch(xs, exp, bits, m) == Launch(Len(xs), 4, [i \in DOMAIN xs |-> ModExp2048(xs[i], exp, bits, m)])
VerifyBatch(sigs, m) == Launch(Len(sigs), 4, [i \in DOMAIN sigs |-> Verify2048(sigs[i], m)])
===============================================================================

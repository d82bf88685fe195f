------------------------------ MODULE P256Curve ------------------------------
(* The points of the P-256 kernels and the signatures made from them: the    *)
(* warp signer the engine runs (a windowed comb over a table of multiples of *)
(* G, one inversion for a whole micro-batch) and the single-thread signer.   *)
(* Field elements are values here; P256Field relates them to their limbs.    *)
(* A Jacobian point [x, y, z] stands for (x / z^2, y / z^3), z = 0 for the   *)
(* point at infinity.                                                        *)
EXTENDS Loops

CONSTANTS Prime,    \* p
          Order,    \* n, the number of points
          Bits,     \* 256 in the code: the width of a scalar
          Window,   \* 8 in the code: W, which divides Bits
          G,        \* the base point, [x, y]
          Retries   \* 100 in the code: the candidates an RFC 6979 nonce may take

Mul(a, b) == (a * b) % Prime
Sqr(a) == Mul(a, a)
Add(a, b) == (a + b) % Prime
Sub(a, b) == (a - b) % Prime

\* x^(p - 2), square and multiply: 0 for 0.
Inv(x) ==
  Loop(Bits, 1, LAMBDA r, i :
         IF ((Prime - 2) \div 2 ^ (Bits - 1 - i)) % 2 = 1 THEN Mul(Sqr(r), x) ELSE Sqr(r))

Infinity == [x |-> 0, y |-> 0, z |-> 0]
AtZ1(q) == [x |-> q.x, y |-> q.y, z |-> 1]
-----------------------------------------------------------------------------
(* The group the formulas are meant to compute in: affine points.            *)

Nowhere == [x |-> Prime, y |-> Prime]

Plus(a, b) ==
  LET slope == IF a = b THEN Mul(Sub(Mul(3, Sqr(a.x)), 3), Inv(Add(a.y, a.y)))
               ELSE Mul(Sub(b.y, a.y), Inv(Sub(b.x, a.x)))
      x     == Sub(Sub(Sqr(slope), a.x), b.x)
  IN  IF a = Nowhere THEN b
      ELSE IF b = Nowhere THEN a
      ELSE IF a.x = b.x /\ Add(a.y, b.y) = 0 THEN Nowhere
      ELSE [x |-> x, y |-> Sub(Mul(slope, Sub(a.x, x)), a.y)]

\* m * G by doublings and additions, low bit first.
MultipleOf(q, m) ==
  Loop(Bits, [sum |-> Nowhere, q |-> q],
       LAMBDA s, i : [sum |-> IF (m \div 2 ^ i) % 2 = 1 THEN Plus(s.sum, s.q) ELSE s.sum,
                      q |-> Plus(s.q, s.q)]).sum
TimesG(m) == MultipleOf(G, m)

\* The point a Jacobian triple stands for.
Affine(P) ==
  LET zi == Inv(P.z) IN
  IF P.z = 0 THEN Nowhere
  ELSE [x |-> Mul(P.x, Sqr(zi)), y |-> Mul(P.y, Mul(zi, Sqr(zi)))]
-----------------------------------------------------------------------------
(* p256_scalar_ref_golden.cuh: the formulas the warp signer uses.  Neither   *)
(* tests for a special case.                                                 *)

PointDoubleScalar(P) ==
  LET s == Mul(4, Mul(P.x, Sqr(P.y)))
      m == Mul(3, Mul(Sub(P.x, Sqr(P.z)), Add(P.x, Sqr(P.z))))
      x == Sub(Sqr(m), Add(s, s))
  IN  [x |-> x, y |-> Sub(Mul(m, Sub(s, x)), Mul(8, Sqr(Sqr(P.y)))),
       z |-> Mul(2, Mul(P.y, P.z))]

PointAddMixedScalar(P, q) ==
  LET zz == Sqr(P.z)
      h  == Sub(Mul(q.x, zz), P.x)
      i  == Sqr(Add(h, h))
      j  == Mul(h, i)
      r  == Mul(2, Sub(Mul(Mul(q.y, zz), P.z), P.y))
      v  == Mul(P.x, i)
      x  == Sub(Sub(Sqr(r), j), Add(v, v))
  IN  [x |-> x, y |-> Sub(Mul(r, Sub(v, x)), Mul(2, Mul(P.y, j))),
       z |-> Sub(Sub(Sqr(Add(P.z, h)), zz), Sqr(h))]

\* jacobian_double_ref_scalar: infinity stays, as (0, 0, 0).
JacobianDouble(P) == IF P.z = 0 THEN Infinity ELSE PointDoubleScalar(P)

\* jacobian_double_oracle_compat: the limbs of the first group's lanes are
\* gathered in lane 0 and its result is handed back to those lanes.
DoubleCompat(P) == JacobianDouble(P)

\* jacobian_add_affine_ref_scalar, and its warp wrapper.
JacobianAddAffine(P, q) == PointAddMixedScalar(P, q)
AddAffineCompat(P, q) == JacobianAddAffine(P, q)
-----------------------------------------------------------------------------
(* p256_sign_warp_coop.cuh: k * G.                                           *)

\* Mutant: the carry out of the last window is lost.
RecodeNoLastCarry(k) ==
  LET Digit(s, i) ==
        LET w == ((k \div 2 ^ (i * Window)) % 2 ^ Window) + s.carry
        IN  IF w >= 2 ^ (Window - 1)
            THEN [digits |-> Append(s.digits, w - 2 ^ Window), carry |-> 1]
            ELSE [digits |-> Append(s.digits, w), carry |-> 0]
  IN  Loop(Bits \div Window, [digits |-> <<>>, carry |-> 0], Digit).digits

\* The digits of k, low first, each in -2^(W-1) .. 2^(W-1) - 1; a carry out of
\* the last window is a digit of its own.
RecodeSigned(k) ==
  LET Digit(s, i) ==
        LET w == ((k \div 2 ^ (i * Window)) % 2 ^ Window) + s.carry
        IN  IF w >= 2 ^ (Window - 1)
            THEN [digits |-> Append(s.digits, w - 2 ^ Window), carry |-> 1]
            ELSE [digits |-> Append(s.digits, w), carry |-> 0]
      s == Loop(Bits \div Window, [digits |-> <<>>, carry |-> 0], Digit)
  IN  IF s.carry = 1 THEN Append(s.digits, 1) ELSE s.digits

Magnitude(d) == IF d < 0 THEN -d ELSE d
Negate(q) == [q EXCEPT !.y = Sub(0, q.y)]

\* A digit's share of the sum: its entry, negated for a negative digit.
Entry(q, d) == IF d < 0 THEN Negate(q) ELSE q

\* soa_lookup_bucket_warp: entry e of the comb table is e * G.
CombEntry(e) == TimesG(e)

\* fullwindow_lookup_warp: entry (w, e) of the full table is e * 2^(W w) * G.
FullEntry(w, e) == TimesG((e * 2 ^ (Window * w)) % Order)

\* The first point is copied, the others are added.
Accumulate(s, q) ==
  IF s.initialized THEN [s EXCEPT !.R = AddAffineCompat(s.R, q)]
  ELSE [R |-> AtZ1(q), initialized |-> TRUE]

Start == [R |-> Infinity, initialized |-> FALSE]

\* scalar_mul_g_warp_coop: high to low, W doublings a window once started.
ScalarMulWarp(k) ==
  LET digits == RecodeSigned(k)
      Turn(s, i) ==
        LET d == digits[Len(digits) - i]
            t == IF s.initialized
                 THEN [s EXCEPT !.R = Loop(Window, s.R, LAMBDA P, j : DoubleCompat(P))] ELSE s
        IN  IF d = 0 THEN t ELSE Accumulate(t, Entry(CombEntry(Magnitude(d)), d))
  IN  Loop(Len(digits), Start, Turn).R

\* scalar_mul_g_fullwindow_warp: low to high, no doublings.
ScalarMulFull(k) ==
  LET digits == RecodeSigned(k)
      Turn(s, i) ==
        LET d == digits[i + 1]
        IN  IF d = 0 THEN s ELSE Accumulate(s, Entry(FullEntry(i, Magnitude(d)), d))
  IN  Loop(Len(digits), Start, Turn).R

\* jacobian_to_affine_with_zinv_warp and jacobian_to_affine_warp, the x of it.
ToAffineWithZinv(P, zinv) ==
  [x |-> Mul(P.x, Sqr(zinv)), y |-> Mul(P.y, Mul(Sqr(zinv), zinv))]
ToAffineWarp(P) == ToAffineWithZinv(P, Inv(P.z))
-----------------------------------------------------------------------------
(* p256_batch_zinv_card14.cuh: the inverses of a micro-batch from one        *)
(* inversion of the product of its Z.                                        *)

PrefixProducts(Z) ==
  Loop(Len(Z) - 1, <<Z[1]>>, LAMBDA s, i : Append(s, Mul(s[i + 1], Z[i + 2])))

\* Mutant: the accumulator moves on before the inverse is taken from it.
BatchInverseSwapped(Z) ==
  LET pre  == PrefixProducts(Z)
      n    == Len(Z)
      Turn(s, i) ==
        LET at == n - i
        IN  IF at = 1 THEN s
            ELSE [s EXCEPT ![at] = Mul(Mul(s[1], Z[at]), pre[at - 1]), ![1] = Mul(s[1], Z[at])]
  IN  Loop(n, [i \in 1 .. n |-> IF i = 1 THEN Inv(pre[n]) ELSE 0], Turn)

\* The scratch accumulator is Zinv[0] itself, so the last turn leaves it there.
BatchInverse(Z) ==
  LET pre  == PrefixProducts(Z)
      n    == Len(Z)
      Turn(s, i) ==
        LET at == n - i
        IN  IF at = 1 THEN s
            ELSE [s EXCEPT ![at] = Mul(s[1], pre[at - 1]), ![1] = Mul(s[1], Z[at])]
  IN  Loop(n, [i \in 1 .. n |-> IF i = 1 THEN Inv(pre[n]) ELSE 0], Turn)

\* The first version overwrites Z with the products and never updates the
\* accumulator: a placeholder by its own comment, which nothing calls.
BatchInverseV1(Z) ==
  LET pre == PrefixProducts(Z)
      acc == Inv(pre[Len(Z)])
  IN  [i \in 1 .. Len(Z) |-> IF i = 1 THEN acc ELSE Mul(acc, pre[i - 1])]
-----------------------------------------------------------------------------
(* Arithmetic modulo the order, as P256Field gives it on values: a product   *)
(* or a sum that is zero modulo the order but not zero is the order itself.  *)

TimesN(a, b) == IF (a * b) % Order = 0 /\ a * b # 0 THEN Order ELSE (a * b) % Order
PlusN(a, b) == IF a + b > Order THEN a + b - Order ELSE a + b
InvN(a) ==
  Loop(Bits, [r |-> 1, b |-> a],
       LAMBDA s, i : [r |-> IF ((Order - 2) \div 2 ^ i) % 2 = 1 THEN TimesN(s.r, s.b) ELSE s.r,
                      b |-> TimesN(s.b, s.b)]).r
ReduceX(x) == IF x > Order THEN x - Order ELSE x

Refused == [ok |-> FALSE, r |-> 0, s |-> 0]

\* ecdsa_sign_from_r_warp: h is any value of Bits bits, d and k scalars.
SignFromR(x, k, h, d) ==
  LET r == ReduceX(x)
      z == PlusN(TimesN(h, 1), TimesN(r, TimesN(d, 1)))
      s == TimesN(TimesN(InvN(TimesN(k, 1)), z), 1)
  IN  IF r = 0 THEN Refused
      ELSE [ok |-> s # 0, r |-> r, s |-> s]

\* p256_sign_warp_coop: one signature by itself.
SignWarp(k, kValid, h, d) ==
  IF ~kValid THEN Refused
  ELSE SignFromR(ToAffineWarp(ScalarMulWarp(k)).x, k, h, d)

\* p256_sign_warp_coop_phase1: the point, unless there is no nonce.
Phase1(q) == [valid |-> q.kValid, R |-> IF q.kValid THEN ScalarMulWarp(q.k) ELSE Infinity]

\* p256_sign_warp_coop_phase3; low_s_enabled is not looked at.
Phase3(state, zinv, q) ==
  IF ~state.valid THEN Refused ELSE SignFromR(ToAffineWithZinv(state.R, zinv).x, q.k, q.h, q.d)

\* The kernel's micro-batch.  The Z of a request without a nonce is whatever
\* the last batch left in its place of the workspace.
SignBatch(batch, workspace) ==
  LET states == [i \in 1 .. Len(batch) |-> Phase1(batch[i])]
      Z      == [i \in 1 .. Len(batch) |-> IF states[i].valid THEN states[i].R.z ELSE workspace[i]]
      Zinv   == BatchInverse(Z)
  IN  [i \in 1 .. Len(batch) |-> Phase3(states[i], Zinv[i], batch[i])]
-----------------------------------------------------------------------------
(* p256_persistent.cuh: the single-thread signer, whose formulas do test for *)
(* the special cases.                                                        *)

SetInfinity == [x |-> 1, y |-> 1, z |-> 0]

PointDouble(P) ==
  LET delta == Sqr(P.z)
      gamma == Sqr(P.y)
      beta  == Mul(P.x, gamma)
      alpha == Mul(3, Mul(Sub(P.x, delta), Add(P.x, delta)))
      x     == Sub(Sqr(alpha), Mul(8, beta))
  IN  IF P.z = 0 THEN SetInfinity
      ELSE [x |-> x, y |-> Sub(Mul(alpha, Sub(Mul(4, beta), x)), Mul(8, Sqr(gamma))),
            z |-> Sub(Sub(Sqr(Add(P.y, P.z)), gamma), delta)]

PointAddMixed(P, q) ==
  LET zz == Sqr(P.z)
      h  == Sub(Mul(q.x, zz), P.x)
      r  == Mul(2, Sub(Mul(q.y, Mul(P.z, zz)), P.y))
      i  == Mul(4, Sqr(h))
      j  == Mul(h, i)
      v  == Mul(P.x, i)
      x  == Sub(Sub(Sqr(r), j), Add(v, v))
  IN  IF P.z = 0 THEN AtZ1(q)
      ELSE IF h = 0 /\ r = 0 THEN PointDouble(P)
      ELSE IF h = 0 THEN SetInfinity
      ELSE [x |-> x, y |-> Sub(Mul(r, Sub(v, x)), Mul(2, Mul(P.y, j))),
            z |-> Sub(Sub(Sqr(Add(P.z, h)), zz), Sqr(h))]

\* scalar_mul_g: double and add from the top bit.
ScalarMulG(k) ==
  Loop(Bits, SetInfinity,
       LAMBDA Q, i : LET D == PointDouble(Q)
                     IN  IF (k \div 2 ^ (Bits - 1 - i)) % 2 = 1 THEN PointAddMixed(D, G) ELSE D)

\* mod_sub_from_n, on the upper half.
LowS(s) == IF s > Order \div 2 THEN Order - s ELSE s

\* p256_sign_persistent, from its nonce on.
SignPersistent(k, kValid, h, d, lowS) ==
  LET R == ScalarMulG(k)
      t == SignFromR(ToAffineWithZinv(R, Inv(R.z)).x, k, h, d)
  IN  IF ~kValid \/ R.z = 0 \/ ~t.ok THEN Refused
      ELSE IF lowS THEN [t EXCEPT !.s = LowS(t.s)] ELSE t
-----------------------------------------------------------------------------
(* The nonces.  A stream of candidates stands for what HMAC or ChaCha20      *)
(* yields; what they are fed is kept as a term.                              *)

Hmac(key, data) == <<"hmac", key, data>>

\* rfc6979_generate_k_device, and rfc6979_generate_k of the host: the key and
\* value registers after the set-up, and after one refused candidate.
NonceStart(d, h) ==
  LET K1 == Hmac(<<"00">>, <<<<"01">>, 0, d, h>>)
      V1 == Hmac(K1, <<"01">>)
      K2 == Hmac(K1, <<V1, 1, d, h>>)
  IN  [K |-> K2, V |-> Hmac(K2, V1)]

NonceNext(s) == [s EXCEPT !.V = Hmac(s.K, s.V)]

NonceRefused(s) ==
  LET K == Hmac(s.K, <<s.V, 0>>) IN [K |-> K, V |-> Hmac(K, s.V)]

\* The candidate is the value register; value[V] is its number.
Rfc6979(d, h, value) ==
  LET Turn(s, i) ==
        LET t == NonceNext(s.reg)
            c == value[t.V]
        IN  IF s.ok THEN s
            ELSE IF c # 0 /\ c < Order THEN [ok |-> TRUE, k |-> c, reg |-> t]
            ELSE [ok |-> FALSE, k |-> c, reg |-> NonceRefused(t)]
  IN  Loop(Retries, [ok |-> FALSE, k |-> 0, reg |-> NonceStart(d, h)], Turn)

\* Mutant: one block only.
RandomKOnce(stream) ==
  LET k == IF stream[1] > Order THEN stream[1] - Order ELSE stream[1] IN [ok |-> k # 0, k |-> k]

\* p256_generate_random_k: three blocks of the stream; the order itself stays.
RandomK(stream) ==
  LET Turn(s, i) ==
        LET k == IF stream[i + 1] > Order THEN stream[i + 1] - Order ELSE stream[i + 1]
        IN  IF s.ok THEN s ELSE [ok |-> k # 0, k |-> k]
  IN  Loop(3, [ok |-> FALSE, k |-> 0], Turn)

\* p256_rng_next_limbs: block number "counter", kept as two words.
RngNext(counter, word) ==
  LET low == (counter[1] + 1) % word
  IN  <<low, IF low = 0 THEN (counter[2] + 1) % word ELSE counter[2]>>
=============================================================================

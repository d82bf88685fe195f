----------------------------- MODULE MldsaFormats -----------------------------
(* The transforms and the byte formats of ML-DSA: the number-theoretic       *)
(* transform (dilithium_ntt.cu), the samplers, and the packing of keys,      *)
(* masks and hints (engine_host.cpp, dilithium_pack.cu).  Bytes have 8 bits  *)
(* and coefficients their real width; polynomials are shorter.  A sequence   *)
(* of coefficients is a function from 0.                                     *)
EXTENDS Loops

CONSTANTS N,       \* 256: the coefficients of a polynomial
          NttQ,    \* the modulus of the transforms, with 2N-th roots of one
          Zeta,    \* a primitive 2N-th root
          Lanes,   \* 32: the threads that share a polynomial
          Q        \* 8380417: the modulus of the packed coefficients

Index == 0 .. N - 1
Half(n) == CHOOSE h \in 0 .. n : 2 * h = n
\* The levels of the transform: N = 2^Levels.
Levels == CHOOSE e \in 0 .. N : 2 ^ e = N
Pow(b, e) == Loop(e, 1, LAMBDA r, i : (r * b) % NttQ)

\* k with its Levels bits in the opposite order.
BitRev(k) ==
  Loop(Levels, 0, LAMBDA r, i : r + ((k \div 2 ^ i) % 2) * 2 ^ (Levels - 1 - i))

Zetas(k) == Pow(Zeta, BitRev(k))
ZetasInv(k) == (NttQ - Zetas(k)) % NttQ
NInv == CHOOSE x \in 1 .. NttQ - 1 : (x * N) % NttQ = 1

AddMod(a, b) == IF a + b >= NttQ THEN a + b - NttQ ELSE a + b
SubMod(a, b) == IF a >= b THEN a - b ELSE NttQ + a - b
MulMod(a, b) == (a * b) % NttQ
-----------------------------------------------------------------------------
(* One thread for a polynomial.                                              *)

Forward(a, j, len, zeta) ==
  LET t == MulMod(zeta, a[j + len])
  IN  [a EXCEPT ![j] = AddMod(a[j], t), ![j + len] = SubMod(a[j], t)]

Backward(a, j, len, zeta) ==
  [a EXCEPT ![j] = AddMod(a[j], a[j + len]), ![j + len] = MulMod(zeta, SubMod(a[j], a[j + len]))]

\* The butterflies of a group: len of them from start, with the k-th root.
NttForward(a) ==
  LET Level(s, e) ==
        LET len == 2 ^ (Levels - 1 - e)
            Group(u, g) ==
              [k |-> u.k + 1,
               a |-> Loop(len, u.a, LAMBDA p, j : Forward(p, g * 2 * len + j, len, Zetas(u.k + 1)))]
        IN  Loop(N \div (2 * len), s, Group)
  IN  Loop(Levels, [k |-> 0, a |-> a], Level).a

NttInverse(a) ==
  LET Level(s, e) ==
        LET len == 2 ^ e
            Group(u, g) ==
              [k |-> u.k - 1,
               a |-> Loop(len, u.a, LAMBDA p, j : Backward(p, g * 2 * len + j, len, ZetasInv(u.k - 1)))]
        IN  Loop(N \div (2 * len), s, Group)
      out == Loop(Levels, [k |-> N, a |-> a], Level).a
  IN  [i \in Index |-> MulMod(out[i], NInv)]
-----------------------------------------------------------------------------
(* A warp for a polynomial: between two barriers a lane has butterflies in   *)
(* every group of the level, and the lanes may run in any order.             *)

LaneShare(len, lane) == {j \in 0 .. len - 1 : j % Lanes = lane}

\* The first root of a level, counting groups from 0.
LevelWarp(a, len, first, order, Step(_, _, _, _)) ==
  LET groups == N \div (2 * len)
      OfLane(p, n) ==
        Loop(groups, p, LAMBDA u, g :
          Loop(len, u, LAMBDA v, j : IF j \in LaneShare(len, order[n + 1])
                                     THEN Step(v, g * 2 * len + j, len, first + g) ELSE v))
  IN  Loop(Lanes, a, OfLane)

WarpForward(a, order) ==
  Loop(Levels, a, LAMBDA s, e :
    LevelWarp(s, 2 ^ (Levels - 1 - e), 2 ^ e, order,
              LAMBDA v, j, len, k : Forward(v, j, len, Zetas(k))))

\* Mutant: the roots of the forward order.
WarpInverseForwardRoots(a, order) ==
  LET out == Loop(Levels, a, LAMBDA s, e :
               LevelWarp(s, 2 ^ e, 0, order,
                         LAMBDA v, j, len, g : Backward(v, j, len, ZetasInv(N \div (2 * len) + g))))
  IN  [i \in Index |-> MulMod(out[i], NInv)]

WarpInverse(a, order) ==
  LET out == Loop(Levels, a, LAMBDA s, e :
               LevelWarp(s, 2 ^ e, 0, order,
                         LAMBDA v, j, len, g : Backward(v, j, len, ZetasInv(N \div len - 1 - g))))
  IN  [i \in Index |-> MulMod(out[i], NInv)]

\* ntt_forward_batch and ntt_inverse_batch: AUTO is the warp form.
NttForwardBatch(polys, impl, order) ==
  [b \in DOMAIN polys |-> IF impl = "BASELINE" THEN NttForward(polys[b]) ELSE WarpForward(polys[b], order)]
NttInverseBatch(polys, impl, order) ==
  [b \in DOMAIN polys |-> IF impl = "BASELINE" THEN NttInverse(polys[b]) ELSE WarpInverse(polys[b], order)]

Pointwise(a, b) == [i \in Index |-> MulMod(a[i], b[i])]
PointwiseAdd(a, b) == [i \in Index |-> AddMod(a[i], b[i])]
PointwiseSub(a, b) == [i \in Index |-> SubMod(a[i], b[i])]
-----------------------------------------------------------------------------
(* Bit fields.  Values of the same width follow each other, low bit first,   *)
(* and every 8 bits are a byte.                                              *)

Bit(v, i) == (v \div 2 ^ i) % 2
PackFields(v, count, width) ==
  LET Stream(i) == IF i < count * width THEN Bit(v[i \div width], i % width) ELSE 0
  IN  [b \in 0 .. (count * width + 7) \div 8 - 1 |->
         Loop(8, 0, LAMBDA s, i : s + Stream(8 * b + i) * 2 ^ i)]

Field(bytes, width, c) ==
  Loop(width, 0, LAMBDA s, i : s + Bit(bytes[(c * width + i) \div 8], (c * width + i) % 8) * 2 ^ i)

Mod(v) == IF v >= 0 THEN v ELSE Q + v
ToCentered(v) == IF v > Q \div 2 THEN v - Q ELSE v
-----------------------------------------------------------------------------
(* engine_host.cpp: the masks and the secret key.                            *)

\* pack_z_coeffs_mldsa*: gamma1 - z in one bit more than gamma1's exponent.
PackZ65(z, count) == PackFields([i \in DOMAIN z |-> 2 ^ 19 - ToCentered(z[i])], count, 20)
\* Mutant: the coefficient is not centred first.
PackZ44Raw(z, count) == PackFields([i \in DOMAIN z |-> (2 ^ 17 - z[i]) % 2 ^ 18], count, 17)
PackZ44(z, count) == PackFields([i \in DOMAIN z |-> 2 ^ 17 - ToCentered(z[i])], count, 18)
PackZ87(z, count) == PackFields([i \in DOMAIN z |-> 2 ^ 19 - ToCentered(z[i])], count, 20)

\* unpack_z_coeffs_mldsa*
UnpackZ65(bytes, count) == [i \in 0 .. count - 1 |-> Mod(2 ^ 19 - Field(bytes, 20, i))]
UnpackZ44(bytes, count) == [i \in 0 .. count - 1 |-> Mod(2 ^ 17 - Field(bytes, 18, i))]
UnpackZ87(bytes, count) == [i \in 0 .. count - 1 |-> Mod(2 ^ 19 - Field(bytes, 20, i))]

\* unpack_eta4_coeffs, unpack_eta2_coeffs, unpack_t0_13bit_coeffs
UnpackEta4(bytes, count) == [i \in 0 .. count - 1 |-> Mod(4 - Field(bytes, 4, i))]
UnpackEta2(bytes, count) == [i \in 0 .. count - 1 |-> Mod(2 - Field(bytes, 3, i))]
UnpackT0(bytes, count) == [i \in 0 .. count - 1 |-> Mod(2 ^ 12 - Field(bytes, 13, i))]

\* unpack_sk_fips204: mode 0 has eta 2, the others eta 4; where each part starts.
Eta(mode) == IF mode = 0 THEN 2 ELSE 4
SkOffsets(mode, k, l, n) ==
  LET bits == IF Eta(mode) = 2 THEN 3 ELSE 4
      s1   == 128
      s2   == s1 + (l * n * bits + 7) \div 8
      t0   == s2 + (k * n * bits + 7) \div 8
  IN  [s1 |-> s1, s2 |-> s2, t0 |-> t0, total |-> t0 + (k * n * 13 + 7) \div 8]
-----------------------------------------------------------------------------
(* The hints: the places of the ones, poly after poly, then how many ones    *)
(* there are up to and with each poly.  Places beyond omega are not written, *)
(* but are counted, in a byte.                                               *)

OnesBefore(h, i, n) == Loop(i, 0, LAMBDA s, j : s + (IF h[j] # 0 THEN 1 ELSE 0))

\* Mutant: a polynomial's ones are counted by themselves.
EncodeHintPerPoly(h, k, n, omega) ==
  LET Places == Loop(k * n, <<>>, LAMBDA s, i :
                       IF h[i] # 0 /\ Len(s) < omega THEN Append(s, i % n) ELSE s)
  IN  [i \in 0 .. omega + k - 1 |->
         IF i < omega THEN IF i < Len(Places) THEN Places[i + 1] ELSE 0
         ELSE OnesBefore(h, (i - omega + 1) * n, n) - OnesBefore(h, (i - omega) * n, n)]

EncodeHint(h, k, n, omega) ==
  LET Places == Loop(k * n, <<>>, LAMBDA s, i :
                       IF h[i] # 0 /\ Len(s) < omega THEN Append(s, i % n) ELSE s)
  IN  [i \in 0 .. omega + k - 1 |->
         IF i < omega THEN IF i < Len(Places) THEN Places[i + 1] ELSE 0
         ELSE OnesBefore(h, (i - omega + 1) * n, n) % 256]

DecodeHint(bytes, k, n, omega) ==
  LET Offset(i) == IF i = 0 THEN 0 ELSE bytes[omega + i - 1]
  IN  [i \in 0 .. k * n - 1 |->
         IF \E p \in 0 .. omega - 1 :
              Offset(i \div n) <= p /\ p < Offset(i \div n + 1) /\ bytes[p] = i % n
         THEN 1 ELSE 0]

\* The three modes of the code.
Modes == {44, 65, 87}
Gamma1Bits(mode) == IF mode = 44 THEN 18 ELSE 20
HintShape(mode) ==
  CASE mode = 44 -> [k |-> 4, omega |-> 80, section |-> 84]
    [] mode = 65 -> [k |-> 6, omega |-> 55, section |-> 77]
    [] mode = 87 -> [k |-> 8, omega |-> 75, section |-> 115]

\* pack_signature_fips204: c_tilde, the masks and the hints with their padding.
SignatureLength(mode, l) ==
  32 + (l * 256 * Gamma1Bits(mode)) \div 8 + HintShape(mode).section
-----------------------------------------------------------------------------
(* The samplers.                                                             *)

\* poly_eta_sample_device: the low nibble of a byte first, zeros at the end.
PolyEtaSample(bytes, eta, n) ==
  LET Take(s, v) == IF v <= 2 * eta /\ Len(s) < n THEN Append(s, Mod(v - eta)) ELSE s
      Turn(s, p) == IF Len(s) >= n THEN s ELSE Take(Take(s, bytes[p + 1] % 16), bytes[p + 1] \div 16)
      taken == Loop(Len(bytes), <<>>, Turn)
  IN  [i \in 1 .. n |-> IF i <= Len(taken) THEN taken[i] ELSE 0]

\* Mutant: a place that is taken is signed again.
SampleChallengeAgain(bytes, n, tau) ==
  LET half == Half(Len(bytes))
      Turn(s, p) == IF s.used >= tau THEN s
                    ELSE [used |-> s.used + 1,
                          c |-> [s.c EXCEPT ![bytes[p + 1] % n] =
                                   IF bytes[half + s.used + 1] % 2 = 0 THEN 1 ELSE -1]]
  IN  Loop(half, [used |-> 0, c |-> [i \in 0 .. n - 1 |-> 0]], Turn).c

\* kernel_sample_challenge_from_shake: places from the first half of the
\* bytes, signs from the second, one sign a new place.
SampleChallenge(bytes, n, tau) ==
  LET half == Half(Len(bytes))
      Turn(s, p) ==
        LET pos == bytes[p + 1] % n
        IN  IF s.used >= tau \/ s.used >= half \/ s.c[pos] # 0 THEN s
            ELSE [used |-> s.used + 1,
                  c |-> [s.c EXCEPT ![pos] = IF bytes[half + s.used + 1] % 2 = 0 THEN 1 ELSE -1]]
  IN  Loop(half, [used |-> 0, c |-> [i \in 0 .. n - 1 |-> 0]], Turn).c

\* sample_in_ball_generic: the host's; without a hash its bytes are zeros.
SampleInBallGeneric(bytes, hashed, n, tau) ==
  SampleChallenge(IF hashed THEN bytes ELSE [i \in 1 .. Len(bytes) |-> 0], n, tau)
=============================================================================

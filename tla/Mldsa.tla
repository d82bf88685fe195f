-------------------------------- MODULE Mldsa --------------------------------
(* ML-DSA as the CUDA files compute it: keys, a batch of lanes that reject   *)
(* and try again, and the host's verification.  A polynomial has one         *)
(* coefficient here (X = -1 in the ring), kept in 0 .. Q - 1 as in the code; *)
(* a challenge is 1 or -1.  MldsaFormats has the transforms of longer        *)
(* polynomials.  Hashes are terms; Xof and Ball give the numbers drawn from  *)
(* them.                                                                     *)
EXTENDS Loops

CONSTANTS Q,          \* 8380417
          K, L,       \* the shape of the matrix
          Gamma1,     \* the range of the masks y
          Gamma2,     \* half the width of a class of high bits
          Beta,       \* tau * eta
          D,          \* the bits dropped from t
          Omega,      \* the hints a signature may have
          NonceWidth, \* 2^16: the values of an XOF nonce
          Xof(_, _),  \* the masked bytes drawn for a seed and a nonce
          Ball(_)     \* SampleInBall of a commitment hash

Rows == 1 .. K
Columns == 1 .. L
Alpha == 2 * Gamma2

Decode(v) == IF v > Q \div 2 THEN v - Q ELSE v
Size(v) == IF v < 0 THEN -v ELSE v
AddQ(u, v) == [i \in DOMAIN u |-> (u[i] + v[i]) % Q]
SubQ(u, v) == [i \in DOMAIN u |-> (u[i] - v[i]) % Q]

\* A v, row by row.
MatVec(A, v) ==
  [i \in Rows |-> Loop(L, 0, LAMBDA s, j : (s + A[i][j + 1] * v[j + 1]) % Q)]

\* Mutant: the top class is not joined to class 0.
DecomposeTopKept(r) ==
  LET p   == r % Alpha
      low == IF p > Alpha \div 2 THEN p - Alpha ELSE p
  IN  [high |-> (r - low) \div Alpha, low |-> low]

\* The high bits count from 0 to (Q - 1) / Alpha - 1; the top class joins class 0.
DecomposeCoeff(r) ==
  LET p   == r % Alpha
      low == IF p > Alpha \div 2 THEN p - Alpha ELSE p
  IN  IF r - low = Q - 1 THEN [high |-> 0, low |-> low - 1]
      ELSE [high |-> (r - low) \div Alpha, low |-> low]

HighBits(v) == [i \in DOMAIN v |-> DecomposeCoeff(v[i]).high]

\* Rounds up at the half, so that the low part is in -2^(D-1) .. 2^(D-1) - 1.
Power2Round(a) ==
  LET high == (a + 2 ^ (D - 1)) \div 2 ^ D
  IN  [high |-> high, low |-> (a - high * 2 ^ D) % Q]
-----------------------------------------------------------------------------
(* dilithium_keygen.cu, dilithium_decompose.cu, dilithium_pack.cu            *)

ComputeT(A, s1, s2) == AddQ(MatVec(A, s1), s2)
Power2RoundVec(t) == [t1 |-> [i \in Rows |-> Power2Round(t[i]).high],
                      t0 |-> [i \in Rows |-> Power2Round(t[i]).low]]

\* rho, the seed of A, stands for A itself in the keys.
PackPk(rho, t1) == [A |-> rho, t1 |-> t1]
PackSk(rho, rhoprime, s1, s2, t0) ==
  [A |-> rho, rhoprime |-> rhoprime, s1 |-> s1, s2 |-> s2, t0 |-> t0]

\* A key pair from its seeds: seeds.A is ExpandA of rho, seeds.s1 and s2 what
\* rhoprime gives.
KeygenFull(seeds) ==
  LET t == Power2RoundVec(ComputeT(seeds.A, seeds.s1, seeds.s2))
  IN  [pk |-> PackPk(seeds.A, t.t1),
       sk |-> PackSk(seeds.A, seeds.rhoprime, seeds.s1, seeds.s2, t.t0)]

\* keygen_full_batch_gpu rounds lane after lane and packs all lanes at the end.
PackPkBatch(rhos, t1s) == [b \in DOMAIN rhos |-> PackPk(rhos[b], t1s[b])]
PackSkBatch(seeds, t0s) ==
  [b \in DOMAIN seeds |-> PackSk(seeds[b].A, seeds[b].rhoprime, seeds[b].s1, seeds[b].s2, t0s[b])]
KeygenFullBatch(seeds) ==
  LET t   == [b \in DOMAIN seeds |-> Power2RoundVec(ComputeT(seeds[b].A, seeds[b].s1, seeds[b].s2))]
      pks == PackPkBatch([b \in DOMAIN seeds |-> seeds[b].A], [b \in DOMAIN seeds |-> t[b].t1])
      sks == PackSkBatch(seeds, [b \in DOMAIN seeds |-> t[b].t0])
  IN  [b \in DOMAIN seeds |-> [pk |-> pks[b], sk |-> sks[b]]]

\* The hash of the public key, which the caller puts into the secret key, and
\* what a message is hashed to.
Tr(pk) == <<"tr", pk>>
Mu(tr, msg) == <<tr, msg>>
-----------------------------------------------------------------------------
(* dilithium_sign_batch.cu: every kernel runs over all lanes of the batch    *)
(* and leaves those that are no longer active alone.                         *)

EachActive(lanes, Kernel(_)) ==
  [b \in DOMAIN lanes |-> IF lanes[b].active THEN Kernel(lanes[b]) ELSE lanes[b]]

\* One mask: the seed is one for the whole batch, the nonce is the lane's
\* attempt and the column.
SeedNonce(attempt, j) == (attempt * L + j - 1) % NonceWidth
Sampled(bytes) == ((bytes % (2 * Gamma1 - 1)) - (Gamma1 - 1)) % Q
SampleY(seed, attempt) == [j \in Columns |-> Sampled(Xof(seed, SeedNonce(attempt, j)))]

SampleYBatch(seed, lanes) == EachActive(lanes, LAMBDA s : [s EXCEPT !.y = SampleY(seed, s.attempts)])
MatvecBatch(A, lanes) == EachActive(lanes, LAMBDA s : [s EXCEPT !.w = MatVec(A, s.y)])
DecomposeBatch(lanes) == EachActive(lanes, LAMBDA s : [s EXCEPT !.w1 = HighBits(s.w)])

RoundA(key, seed, lanes) == DecomposeBatch(MatvecBatch(key.A, SampleYBatch(seed, lanes)))

\* dilithium_challenge.cu: c is the hash of mu and w1, the challenge its Ball.
CommitHash(mu, w1) == <<mu, w1>>
SampleChallengeBatch(mus, lanes) ==
  [b \in DOMAIN lanes |-> IF lanes[b].active THEN [lanes[b] EXCEPT !.c = CommitHash(mus[b], lanes[b].w1)]
                          ELSE lanes[b]]

\* kernel_convert_c_batch: -1 is Q - 1; then the product, coefficient by coefficient.
ConvertC(c) == IF c >= 0 THEN c ELSE Q + c
PointwiseMul(c, v) == [i \in DOMAIN v |-> (ConvertC(c) * v[i]) % Q]

ComputeZBatch(key, lanes) ==
  EachActive(lanes, LAMBDA s : [s EXCEPT !.z = AddQ(s.y, PointwiseMul(Ball(s.c), key.s1))])
\* Mutant: the bound without beta.
CheckZNormWide(lanes) ==
  EachActive(lanes, LAMBDA s : [s EXCEPT !.pass = \A j \in Columns : Size(Decode(s.z[j])) < Gamma1])
CheckZNormBatch(lanes) ==
  EachActive(lanes, LAMBDA s :
    [s EXCEPT !.pass = \A j \in Columns : Size(Decode(s.z[j])) < Gamma1 - Beta])
ComputeRBatch(key, lanes) ==
  EachActive(lanes, LAMBDA s : [s EXCEPT !.r = SubQ(s.w, PointwiseMul(Ball(s.c), key.s2))])
\* Mutant: the low part is not checked.
CheckNoR0Norm(lanes) == lanes
CheckR0NormBatch(lanes) ==
  EachActive(lanes, LAMBDA s :
    [s EXCEPT !.pass = s.pass /\ \A i \in Rows : Size(DecomposeCoeff(s.r[i]).low) < Gamma2 - Beta])
ComputeCt0Batch(key, lanes) ==
  EachActive(lanes, LAMBDA s : [s EXCEPT !.ct0 = PointwiseMul(Ball(s.c), key.t0)])

\* Where adding "shift" changes the high bits; all counts are reset first.
MakeHint(shift, r) ==
  LET moved == [i \in Rows |-> (r[i] + Decode(shift[i])) % Q]
  IN  [i \in Rows |-> IF HighBits(r)[i] # HighBits(moved)[i] THEN 1 ELSE 0]
Negated(v) == SubQ([i \in DOMAIN v |-> 0], v)
HintCount(h) == Loop(K, 0, LAMBDA s, i : s + h[i + 1])
\* Mutant: the counts of the last round stay.
MakeHintNoReset(lanes) ==
  LET Kernel(s) == IF ~s.pass THEN s
                   ELSE LET h == MakeHint(Negated(s.ct0), AddQ(s.r, s.ct0))
                        IN  [s EXCEPT !.h = h, !.hints = @ + HintCount(h)]
  IN  EachActive(lanes, Kernel)

MakeHintBatch(lanes) ==
  LET reset == [b \in DOMAIN lanes |-> [lanes[b] EXCEPT !.hints = 0]]
      Kernel(s) == IF ~s.pass THEN s
                   ELSE LET h == MakeHint(Negated(s.ct0), AddQ(s.r, s.ct0))
                        IN  [s EXCEPT !.h = h, !.hints = @ + HintCount(h)]
  IN  EachActive(reset, Kernel)
\* Mutant: the hints are not counted.
CheckNoOmega(lanes) == lanes

CheckOmegaBatch(lanes) ==
  EachActive(lanes, LAMBDA s : [s EXCEPT !.pass = s.pass /\ s.hints <= Omega])

\* Mutant: a lane that has passed goes on.
UpdateNeverDone(lanes, maxAttempts) ==
  EachActive(lanes, LAMBDA s : [s EXCEPT !.attempts = @ + 1, !.active = s.attempts + 1 < maxAttempts])

\* A lane stops when it has passed or has no attempt left.
UpdateActiveBatch(lanes, maxAttempts) ==
  LET Failed(s) == [s EXCEPT !.attempts = s.attempts + 1, !.active = s.attempts + 1 < maxAttempts]
  IN  EachActive(lanes, LAMBDA s : IF s.pass THEN [s EXCEPT !.active = FALSE] ELSE Failed(s))
CountActive(lanes) == Loop(Len(lanes), 0, LAMBDA s, b : s + (IF lanes[b + 1].active THEN 1 ELSE 0))

RoundB(key, lanes, maxAttempts) ==
  LET masked  == CheckZNormBatch(ComputeZBatch(key, lanes))
      rounded == CheckR0NormBatch(ComputeRBatch(key, masked))
      hinted  == CheckOmegaBatch(MakeHintBatch(ComputeCt0Batch(key, rounded)))
  IN  UpdateActiveBatch(hinted, maxAttempts)

LaneStart == [active |-> TRUE, pass |-> FALSE, attempts |-> 0, hints |-> 0, c |-> <<>>,
              y |-> <<>>, w |-> <<>>, w1 |-> <<>>, r |-> <<>>, ct0 |-> <<>>, z |-> <<>>, h |-> <<>>]

\* sign_full_batch_gpu: the rounds run and the lanes they leave.
SignFull(key, seed, mus, maxAttempts) ==
  LET Round(s) ==
        RoundB(key, SampleChallengeBatch(mus, RoundA(key, seed, s)), maxAttempts)
      Turn(s, i) == IF CountActive(s.lanes) = 0 THEN s
                    ELSE [rounds |-> s.rounds + 1, lanes |-> Round(s.lanes)]
  IN  Loop(maxAttempts, [rounds |-> 0, lanes |-> [b \in DOMAIN mus |-> LaneStart]], Turn)
-----------------------------------------------------------------------------
(* dilithium_sign.cu and dilithium_w1.cu: the same steps for one lane, with  *)
(* checks of their own; the low parts are encoded in 0 .. Q - 1.             *)

SampleYGamma1(seed, kappa) == SampleY(seed, kappa)
ComputeW(A, y) == MatVec(A, y)
DecomposeW(w) == [w1 |-> HighBits(w), w0 |-> [i \in DOMAIN w |-> DecomposeCoeff(w[i]).low % Q]]
Recomposes(w, w1, w0) == (w1 * Alpha + Decode(w0)) % Q = w
PolyMulC(c, v) == [i \in DOMAIN v |-> ((IF c >= 0 THEN c ELSE Q + c) * v[i]) % Q]
ComputeZ(y, c, s1) == AddQ(y, PolyMulC(c, s1))
ComputeR(w, c, s2) == SubQ(w, PolyMulC(c, s2))
ComputeCt0(c, t0) == PolyMulC(c, t0)

\* check_norms_gpu finds the largest coefficient and compares it once.
MaxNorm(v) == Loop(Len(v), 0, LAMBDA s, i : IF Size(Decode(v[i + 1])) > s THEN Size(Decode(v[i + 1])) ELSE s)
CheckNorms(z, r0) == MaxNorm(z) < Gamma1 - Beta /\ MaxNorm(r0) < Gamma2 - Beta
MakeHintOne(shift, r) == [h |-> MakeHint(shift, r), ones |-> HintCount(MakeHint(shift, r))]

\* One attempt put together from them.
SignAttempt(key, seed, mu, kappa) ==
  LET y   == SampleYGamma1(seed, kappa)
      w   == ComputeW(key.A, y)
      c   == CommitHash(mu, DecomposeW(w).w1)
      z   == ComputeZ(y, Ball(c), key.s1)
      r   == ComputeR(w, Ball(c), key.s2)
      ct0 == ComputeCt0(Ball(c), key.t0)
      h   == MakeHintOne(Negated(ct0), AddQ(r, ct0))
  IN  [pass |-> CheckNorms(z, DecomposeW(r).w0) /\ h.ones <= Omega, c |-> c, z |-> z, h |-> h.h]
-----------------------------------------------------------------------------
(* mldsa_verify_host_dispatch                                                *)

\* use_hint_gpu
UseHint(h, r) ==
  LET m == (Q - 1) \div Alpha
      One(hint, d) == IF hint = 0 THEN d.high
                      ELSE IF d.low > 0 THEN (d.high + 1) % m
                      ELSE (d.high + m - 1) % m
  IN  [i \in Rows |-> One(h[i], DecomposeCoeff(r[i]))]

\* compute_ct_gpu and compute_w_prime_gpu
ComputeCt(c, t1) == PolyMulC(c, [i \in Rows |-> (t1[i] * 2 ^ D) % Q])
ComputeWPrime(Az, ct) == SubQ(Az, ct)

Verify(pk, msg, sig) ==
  LET w == ComputeWPrime(ComputeW(pk.A, sig.z), ComputeCt(Ball(sig.c), pk.t1))
  IN  /\ MaxNorm(sig.z) < Gamma1 - Beta
      /\ CommitHash(Mu(Tr(pk), msg), UseHint(sig.h, w)) = sig.c
=============================================================================

------------------------------ MODULE MCMldsa ------------------------------
(* Jobs for the ML-DSA modules: whole signatures in a ring of one            *)
(* coefficient over 97, transforms of eight coefficients over 17, packing    *)
(* with the code's widths.                                                   *)
EXTENDS MCJobs, Integers, Sequences, FiniteSets, TLC

XofTable(seed, n) == (seed * 37 + n * 53 + n * n * 7) % 32
BallOf(c) == IF (c[1][2] * 5 + c[2][1] * 3 + c[2][2]) % 4 < 2 THEN 1 ELSE -1
S == INSTANCE Mldsa WITH Q <- 97, K <- 2, L <- 1, Gamma1 <- 16, Gamma2 <- 8, Beta <- 2, D <- 3,
                         Omega <- 1, NonceWidth <- 4, Xof <- XofTable, Ball <- BallOf
P == INSTANCE MldsaFormats WITH N <- 8, NttQ <- 17, Zeta <- 3, Lanes <- 2, Q <- 8380417
-----------------------------------------------------------------------------
LatticeJobs ==
  {[kind |-> "mldsa", w |-> <<(5 * x) % 97, y>>, s |-> <<s, u, t>>, seed |-> x % 4] :
     x \in 0 .. 96, y \in {20, 40}, s \in {0, 1, 96}, u \in {0, 1}, t \in {0, 95}}

Unit(i) == [j \in 0 .. 7 |-> IF j = i THEN 1 ELSE 0]
Dense(x) == [j \in 0 .. 7 |-> (x * x * j + 3 * j * j + x) % 17]
NttJobs == {[kind |-> "ntt", p |-> Unit(i), q |-> Unit(j)] : i \in 0 .. 7, j \in 0 .. 7}
             \cup {[kind |-> "ntt", p |-> Dense(x), q |-> Dense(y)] : x \in 0 .. 4, y \in 0 .. 4}

Edge == {-2 ^ 17 + 1, -131000, -4095, -2, -1, 0, 1, 2, 4095, 4096, 70001, 2 ^ 17 - 1, 2 ^ 17}
ZJobs == {[kind |-> "pack", z |-> <<a, b, c, d>>] : a \in Edge, b \in {-2 ^ 17 + 1, 5, 2 ^ 17}, c \in {0, -77}, d \in Edge}
HintJobs == {[kind |-> "hint", ones |-> h] : h \in [0 .. 8 -> {0, 1}]}
DrawJobs == {[kind |-> "draw", bytes |-> <<a, b, c, d, e, f, 1, 8>>] :
               a \in {0, 1, 9, 10, 144}, b \in {0, 16, 152}, c \in {1, 153, 255}, d \in {2, 137}, e \in {0, 1}, f \in {0, 3}}

Seeds(j) == [A |-> <<<<j.w[1]>>, <<j.w[2]>>>>, rhoprime |-> j.seed,
             s1 |-> <<j.s[1]>>, s2 |-> <<j.s[2], j.s[3]>>]
OtherSeeds == [A |-> <<<<3>>, <<50>>>>, rhoprime |-> 1, s1 |-> <<96>>, s2 |-> <<1, 0>>]
Key(j) == S!KeygenFull(Seeds(j))
Mus(key) == [m \in 1 .. 2 |-> S!Mu(S!Tr(key.pk), m)]

RunMldsa(j) ==
  LET key == Key(j) IN
  [keys |-> S!KeygenFullBatch(<<OtherSeeds, Seeds(j)>>), other |-> S!KeygenFull(OtherSeeds),
   batch |-> S!SignFull(key.sk, j.seed, Mus(key), 3),
   alone |-> [m \in 1 .. 2 |-> S!SignFull(key.sk, j.seed, <<Mus(key)[m]>>, 3)],
   attempt |-> [m \in 1 .. 2 |-> [n \in 0 .. 2 |-> S!SignAttempt(key.sk, j.seed, Mus(key)[m], n)]],
   parts |-> S!DecomposeW(j.w)]

RunNtt(a, b) ==
  LET orders == {<<0, 1>>, <<1, 0>>}
      fa == P!NttForward(a) fb == P!NttForward(b) IN
  [forward |-> {fa} \cup {P!NttForwardBatch(<<a>>, "AUTO", o)[1] : o \in orders},
   product |-> {P!NttInverse(P!Pointwise(fa, fb))}
                 \cup {P!NttInverseBatch(<<P!Pointwise(fa, fb)>>, "WARP", o)[1] : o \in orders},
   sum |-> P!NttInverse(P!PointwiseAdd(fa, fb)), minus |-> P!NttInverse(P!PointwiseSub(fa, fb))]

RunPack(z) ==
  LET v == [i \in 0 .. 3 |-> P!Mod(z[i + 1])] IN
  [z44 |-> P!UnpackZ44(P!PackZ44(v, 4), 4), z65 |-> P!UnpackZ65(P!PackZ65(v, 4), 4),
   z87 |-> P!UnpackZ87(P!PackZ87(v, 4), 4),
   t0 |-> P!UnpackT0(P!PackFields([i \in 0 .. 3 |-> (2 ^ 12 - z[i + 1]) % 2 ^ 13], 4, 13), 4),
   eta4 |-> P!UnpackEta4(P!PackFields([i \in 0 .. 3 |-> (4 - z[i + 1]) % 16], 4, 4), 4),
   eta2 |-> P!UnpackEta2(P!PackFields([i \in 0 .. 3 |-> (2 - z[i + 1]) % 8], 4, 3), 4)]

RunHint(h) == [sparse |-> P!EncodeHint(h, 3, 3, 4),
               dense |-> P!DecodeHint(P!EncodeHint(h, 3, 3, 4), 3, 3, 4)]
RunDraw(bytes) ==
  [eta |-> [e \in {2, 4} |-> P!PolyEtaSample(bytes, e, 6)],
   ball |-> P!SampleChallenge(bytes, 4, 3), host |-> P!SampleInBallGeneric(bytes, TRUE, 4, 3),
   unhashed |-> P!SampleInBallGeneric(bytes, FALSE, 4, 3)]
-----------------------------------------------------------------------------
\* A signature that a lane of sign_full_batch_gpu accepts is accepted by
\* mldsa_verify_host_dispatch for its message and no other, and has no more hints than fit, although the signer
\* only checks norms and never recomputes the commitment; a batch of key pairs
\* is the key pairs made one at a time; and high and low parts recompose.
MldsaVerifies ==
  Done("mldsa") =>
    LET key == Key(job) IN
    /\ out.keys = <<out.other, key>>
    /\ \A i \in 1 .. 2 : S!Recomposes(job.w[i], out.parts.w1[i], out.parts.w0[i])
    /\ \A m \in 1 .. 2 :
      LET lane == out.batch.lanes[m] IN
      lane.pass => /\ S!HintCount(lane.h) <= 1
                   /\ S!Verify(key.pk, m, lane)
                   /\ ~S!Verify(key.pk, 3 - m, lane)

\* A lane's result does not depend on the lanes it is batched with: rejected
\* lanes go on while others have finished, all in the same buffers, and every
\* lane ends as it would alone: with the first attempt that passes when it is
\* made by the one-lane functions of dilithium_sign.cu, or with none.  The rounds
\* are those of the slowest lane.
MldsaLanesIndependent ==
  Done("mldsa") =>
    /\ \A m \in 1 .. 2 :
         /\ \A f \in {"active", "pass", "attempts", "c", "z", "h"} :
              out.batch.lanes[m][f] = out.alone[m].lanes[1][f]
         /\ out.batch.lanes[m].active => FALSE
         /\ LET lane == out.batch.lanes[m]
                good == {n \in 0 .. 2 : out.attempt[m][n].pass}
            IN  /\ lane.pass <=> good # {}
                /\ ~lane.pass => lane.attempts = 3
                /\ lane.pass =>
                     /\ lane.attempts \in good
                     /\ \A n \in good : lane.attempts <= n
                     /\ \A f \in {"c", "z", "h"} : out.attempt[m][lane.attempts][f] = lane[f]
    /\ out.batch.rounds = (IF out.alone[1].rounds >= out.alone[2].rounds
                           THEN out.alone[1].rounds ELSE out.alone[2].rounds)

Negacyclic(a, b) ==
  LET Term(i, j) == IF j <= i THEN a[j] * b[i - j] ELSE 17 - ((a[j] * b[8 + i - j]) % 17)
  IN  [i \in 0 .. 7 |-> P!Loop(8, 0, LAMBDA s, j : (s + Term(i, j)) % 17)]

Nibbles(bytes) == [i \in 1 .. 2 * Len(bytes) |->
                     (bytes[(i + 1) \div 2] \div (IF i % 2 = 1 THEN 1 ELSE 16)) % 16]
\* The transforms of one thread and of a warp, in any order of its lanes, agree
\* and multiply polynomials modulo X^N + 1; unpacking gives back what packing
\* was given, in range; a hint survives its coding exactly when it has at most
\* omega ones; the samplers keep what they should, and without hash bytes the
\* host's challenge has a single one.
MldsaFormatsRight ==
  /\ Done("ntt") => /\ Cardinality(out.forward) = 1
                    /\ out.product = {Negacyclic(job.p, job.q)}
                    /\ out.sum = [i \in 0 .. 7 |-> (job.p[i] + job.q[i]) % 17]
                    /\ out.minus = [i \in 0 .. 7 |-> (job.p[i] - job.q[i]) % 17]
  /\ Done("pack") =>
       LET v == [i \in 0 .. 3 |-> P!Mod(job.z[i + 1])] IN
       /\ out.z44 = v /\ out.z65 = v /\ out.z87 = v
       /\ \A i \in 0 .. 3 :
            /\ job.z[i + 1] \in -4095 .. 4096 => out.t0[i] = v[i]
            /\ job.z[i + 1] \in -2 .. 2 => out.eta2[i] = v[i] /\ out.eta4[i] = v[i]
  /\ Done("hint") =>
       LET ones == {i \in 0 .. 8 : job.ones[i] = 1} IN
       /\ out.dense = job.ones <=> Cardinality(ones) <= 4
       /\ \A i \in 0 .. 8 : out.dense[i] = 1 => i \in ones
  /\ Done("draw") =>
       /\ \A e \in {2, 4} :
            LET kept == SelectSeq(Nibbles(job.bytes), LAMBDA v : v <= 2 * e) IN
            out.eta[e] = [i \in 1 .. 6 |-> IF i <= Len(kept) THEN P!Mod(kept[i] - e) ELSE 0]
       /\ out.host = out.ball
       /\ LET Ones(c) == Cardinality({i \in 0 .. 3 : c[i] # 0})
              places == Cardinality({job.bytes[i] % 4 : i \in 1 .. 4})
          IN  /\ Ones(out.ball) = IF places < 3 THEN places ELSE 3
              /\ Ones(out.unhashed) = 1
=============================================================================

------------------------------- MODULE MCRsa -------------------------------
(* Jobs for the RSA module: half-size numbers of three words of four bits,   *)
(* windows of two and three bits, the public exponent of the code.  The      *)
(* primes have twelve bits; the highest word of 4093 is all ones.            *)
EXTENDS MCJobs, Integers, Sequences, TLC

Rs == INSTANCE Rsa WITH WordBits <- 4, Limbs <- 3, Narrow <- 2, Wide <- 3, VerifySquarings <- 16

Half(x) == Rs!Words(3, x)
Full(x) == Rs!Words(6, x)
HalfNum(v) == Rs!ValueOf(v, 3)
FullNum(v) == Rs!ValueOf(v, 6)

Doubled(x, times, n) == Rs!Loop(times, x % n, LAMBDA s, i : (2 * s) % n)
PowMod(x, e, n) ==
  Rs!Loop(24, 1, LAMBDA s, i : (((s * s) % n) * (IF (e \div 2 ^ (23 - i)) % 2 = 1 THEN x % n ELSE 1)) % n)
Inverse(x, n) == CHOOSE y \in 0 .. n - 1 : (x * y) % n = 1

Modulus(n, k) == [n |-> Rs!Words(k, n), R2 |-> Rs!Words(k, Doubled(1, 8 * k, n)),
                  prime |-> CHOOSE w \in 0 .. 15 : (w * n + 1) % 16 = 0]
RsaKey(p, q) == [p |-> Modulus(p, 3), q |-> Modulus(q, 3), dp |-> Half(Inverse(65537 % (p - 1), p - 1)),
              dq |-> Half(Inverse(65537 % (q - 1), q - 1)), qinv |-> Half(Inverse(q % p, p))]

Primes == {2053, 3347, 4093}
Pairs == {<<3347, 2053>>, <<4093, 3347>>, <<2053, 3347>>}
Moduli == [p \in Primes |-> Modulus(p, 3)]
Keys == [w \in Pairs |-> RsaKey(w[1], w[2])]
Products == [w \in Pairs |-> Modulus(w[1] * w[2], 6)]

-----------------------------------------------------------------------------
MontJobs == {[kind |-> "mont", p |-> p, a |-> a % p, b |-> b % p] :
               p \in Primes, a \in {0, 1, 15, 16, 1027, 2052, 3346, 4077, 4088, 4092},
               b \in {0, 1, 3, 255, 256, 1029, 2051, 3345, 3945, 4023, 4091}}
PowerJobs == {[kind |-> "power", p |-> p, x |-> x, e |-> e] :
                p \in Primes, x \in {0, 2, 2052}, e \in {0, 1, 64, 1755, 2730, 4095}}
ReduceJobs == {[kind |-> "reduce", p |-> p, x |-> x] :
                 p \in Primes, x \in {0, 4095, 4096, 2 ^ 24 - 1}
                                   \cup UNION {{16 * r, 16 * r - 1, 3333 * r + 7, 4096 * r} : r \in Primes}}
Messages(w) == {0, 1, 2, w[1], w[2] * 5, 123456, w[1] * w[2] - 1, w[1] * w[2] + 3}
BatchKey == <<3347, 2053>>
Batches == {SubSeq(<<5, 123456, 77, 0, 3347>>, 1, n) : n \in 2 .. 5}
RsaJobs == {[kind |-> "rsa", key |-> w, xs |-> <<x>>, width |-> width, late |-> {}] :
              w \in Pairs, x \in UNION {Messages(v) : v \in Pairs}, width \in {0, 2, 3}}
           \cup {[kind |-> "rsa", key |-> BatchKey, xs |-> xs, width |-> 0, late |-> late] :
                   xs \in Batches, late \in SUBSET {1, 2}}

RunMont(j) == LET m == Moduli[j.p] a == Half(j.a) b == Half(j.b) IN
  [serial |-> {Rs!MontMulSerial(a, b, m), Rs!MontMulLane0Only(a, b, m)}, warp |-> Rs!MontMulWarp(a, b, m)]

RunPower(j) == LET m == Moduli[j.p] x == Half(j.x % j.p) e == Half(j.e) IN
  [serial |-> {Rs!ModExp1024(x, e, 12, m), Rs!ModExpWindow4(x, e, 12, m), Rs!ModExpWindow5(x, e, 12, m)},
   warp |-> Rs!ModExp1024Warp(x, e, 12, m)]

RunReduce(j) ==
  [both |-> {Rs!Reduce2048Binary(Full(j.x), Half(j.p)), Rs!Reduce2048Words(Full(j.x), Half(j.p))}]

\* Every signer of the batch, then what the verifier and the plain power make
\* of its signatures.
SignAll(key, xs, pairs, width) ==
  [sigs |-> Rs!SignBatch(xs, key, width), reduced |-> Rs!SignPrereducedBatch(pairs, key, width),
   two |-> Rs!SignTwoWarpsBatch(xs, key, width),
   slot |-> [i \in {1} |-> Rs!FromBytes(Rs!SignKeyslot(Rs!ToBytes(xs[i]), key, width))]]
RunRsa(j) ==
  SignAll(Keys[j.key], [i \in DOMAIN j.xs |-> Full(j.xs[i])],
          [i \in DOMAIN j.xs |-> [mp |-> Half(j.xs[i] % j.key[1]), mq |-> Half(j.xs[i] % j.key[2])]], j.width)
Recovered(sigs, j, n) ==
  [sigs |-> sigs,
   warp |-> Rs!SignWarpBatch([i \in DOMAIN j.xs |-> Full(j.xs[i])], Keys[j.key], j.late, Rs!Zeros(3)),
   verified |-> Rs!VerifyBatch(sigs.sigs, n), power |-> Rs!ModExpBatch(sigs.sigs, Full(65537), 17, n)]
-----------------------------------------------------------------------------
AllOnes(p) == p \div 256 = 15
PrivateExponent(p) == Inverse(65537 % (p - 1), p - 1)
\* The residues of a message's signature.
RootMod(x, p) == PowMod(x % p, PrivateExponent(p), p)
IsSignature(sig, x, w) ==
  FullNum(sig) < w[1] * w[2] /\ \A p \in {w[1], w[2]} : FullNum(sig) % p = RootMod(x, p)
\* The difference of the halves is within one modulus p.
OneModulus(x, w) == RootMod(x, w[2]) - RootMod(x, w[1]) <= w[1]
\* What lane 0 sees of the second half while the words of some lanes are late.
SeenNum(v, late) == HalfNum([l \in 0 .. 2 |-> IF l \in late THEN 0 ELSE v[l]])

\* Every product, exponentiation and reduction gives the residue it stands for,
\* and every signer the root of its message, which the verifier takes back to
\* the message; a batch gives each message its own.  The exceptions are exactly
\* these: the warp's product may be wrong for a modulus whose highest word is
\* all ones, the recombination is wrong when p is too small for the difference
\* of the halves, and the cooperative signer, when a word of the second half
\* comes too late, gives a value that is right modulo q alone.
RsaVerifies ==
  /\ Done("mont") =>
       LET p == job.p residue == (((job.a * job.b) % p) * Inverse(4096 % p, p)) % p IN
       /\ {HalfNum(v) : v \in out.serial} = {residue}
       /\ AllOnes(p) \/ HalfNum(out.warp) = residue
  /\ Done("power") =>
       LET root == PowMod(job.x, job.e, job.p) IN
       /\ {HalfNum(v) : v \in out.serial} = {root}
       /\ AllOnes(job.p) \/ HalfNum(out.warp) = root
  /\ Done("reduce") => {HalfNum(v) : v \in out.both} = {job.x % job.p}
  /\ Done("rsa") =>
       \A i \in DOMAIN job.xs :
         LET x == job.xs[i] w == job.key good == OneModulus(x, w) half == Half(RootMod(x, w[2])) IN
         /\ \A s \in DOMAIN out.sigs : i \in DOMAIN out.sigs[s] => (IsSignature(out.sigs[s][i], x, w) <=> good)
         /\ good => {FullNum(out.verified[i]), FullNum(out.power[i])} = {x % (w[1] * w[2])}
         /\ AllOnes(w[1]) \/
              /\ FullNum(out.warp[i]) % w[2] = RootMod(x, w[2])
              /\ good => (IsSignature(out.warp[i], x, w) <=> SeenNum(half, job.late) = HalfNum(half))
              /\ job.late = {} => out.warp[i] = out.sigs.sigs[i]
===============================================================================

------------------------------ MODULE MCP256 ------------------------------
(* Jobs for the P-256 modules: every pair of a field of 199 with four limbs  *)
(* of two bits, a warp of eight limbs over 53311, and signatures on the      *)
(* curve over 199 whose order is the prime 197.                              *)
EXTENDS MCJobs, Integers, Sequences, TLC

Fd == INSTANCE P256Field WITH Base <- 4, Limbs <- 4, Prime <- 199, Order <- 197
Wd == INSTANCE P256Field WITH Base <- 4, Limbs <- 8, Prime <- 53311, Order <- 53309
Cv == INSTANCE P256Curve WITH Prime <- 199, Order <- 197, Bits <- 8, Window <- 2,
                             G <- [x |-> 1, y |-> 2], Retries <- 3

-----------------------------------------------------------------------------
Some8 == {0, 1, 2, 57, 98, 99, 100, 195, 196, 197, 198, 199, 255}

FieldJobs == {[kind |-> "field", a |-> a, b |-> b] : a \in 0 .. 198, b \in Some8 \cap 0 .. 198}
WarpJobs == {[kind |-> "warp", a |-> (a * 257) % 65536, b |-> (b * 321 + a * 7) % 65536, x |-> a % 4] :
               a \in 0 .. 254, b \in {0, 1, 100, 197}}
SignJobs == {[kind |-> "sign", k |-> k, h |-> h, d |-> 77] : k \in 1 .. 196, h \in {0, 5}}
              \cup {[kind |-> "sign", k |-> k, h |-> h, d |-> d] :
                      k \in {1, 2, 98, 99, 118, 195, 196}, h \in Some8, d \in {1, 196}}
Requests == {[k |-> k, kValid |-> v, h |-> 5, d |-> 77] : k \in {7, 195}, v \in BOOLEAN}
BatchJobs == {[kind |-> "batch", reqs |-> <<a, b, [k |-> 33, kValid |-> TRUE, h |-> 250, d |-> 2]>>,
               workspace |-> <<z, 4, 9>>] : a \in Requests, b \in Requests, z \in {0, 5}}
NonceJobs == {[kind |-> "nonce", drawn |-> <<a, b, c>>] : a \in Some8, b \in {0, 196, 197, 255}, c \in {0, 7, 255}}

V(x) == Fd!ToLimbs(x)

RunField(a, b) ==
  [mulScalar |-> Fd!MontMulScalar(V(a), V(b)), mulOracle |-> Fd!MontMulOracle(V(a), V(b)),
   mulP |-> Fd!MontMulP(V(a), V(b)), mulN |-> Fd!MontMulN(V(a), V(b)),
   mulNP |-> Fd!MontMulNP(V(a), V(b)),
   round |-> Fd!FromMontScalar(Fd!ToMontScalar(V(a))), roundN |-> Fd!FromMontN(Fd!ToMontN(V(a))),
   add |-> {Fd!FeAdd(V(a), V(b)), Fd!ModAddP(V(a), V(b))},
   sub |-> {Fd!FeSub(V(a), V(b)), Fd!ModSubP(V(a), V(b))},
   addN |-> {Fd!MontAddN(V(a), V(b)), Fd!ModAddN(V(a), V(b))}, subN |-> Fd!MontSubN(V(a), V(b)),
   inv |-> {Fd!FermatLane0(V(a)), Fd!FermatInvP(V(a))}, warpInv |-> Fd!WarpFermat(V(a)),
   invN |-> {Fd!FermatN(V(a)), Fd!FermatInvN(V(a))},
   reduced |-> Fd!ReduceXModN(V(a)), lowS |-> Fd!LowS(V(a))]

\* The lanes of two groups hold a and b, each with rubbish in the limbs of others.
Spread(a, b) ==
  [l \in Wd!WarpLanes |->
     [i \in Wd!Lane |-> IF i = l % 8 THEN Wd!ToLimbs(IF l < 8 THEN a ELSE b)[i] ELSE (l + i) % 4]]

RunWarp(a, b, x) ==
  LET T == Wd!ToLimbs(a) u == Wd!ToLimbs(b) IN
  [scan |-> Wd!CombaStepA(T, x, u), turn |-> Wd!CombaTurn(T, x, u),
   sub |-> {Wd!CondSubWarp(T, 0), Wd!CondSubScalar(T, 0)}, neg |-> Wd!WarpNegate(T),
   compat |-> Wd!MontMulOracleCompat(Spread(a, b), Spread(b, b)),
   group |-> {Wd!MontMulOracleCompatGroup(Spread(a, b), Spread(b, b)),
              Wd!MontMulSerialGather(Spread(a, b), Spread(b, b))}]

\* The registers after i refused candidates and one more draw.
Candidate(i) ==
  Cv!NonceNext(Fd!Loop(i, Cv!NonceStart(1, 2), LAMBDA s, j : Cv!NonceRefused(Cv!NonceNext(s)))).V
RunNonce(drawn) ==
  LET value == [v \in {Candidate(i) : i \in 0 .. 2} |-> drawn[CHOOSE i \in 1 .. 3 : Candidate(i - 1) = v]]
  IN  [rfc |-> Cv!Rfc6979(1, 2, value), random |-> Cv!RandomK(drawn),
      blocks |-> [i \in 0 .. 3 |-> Fd!Loop(i, <<drawn[1] % 2, 0>>, LAMBDA c, j : Cv!RngNext(c, 2))]]

RunSign(j) == [warp |-> Cv!SignWarp(j.k, TRUE, j.h, j.d), full |-> Cv!ScalarMulFull(j.k),
               single |-> Cv!SignPersistent(j.k, TRUE, j.h, j.d, TRUE)]
RunBatch(j) == [sigs |-> Cv!SignBatch(j.reqs, j.workspace)]
-----------------------------------------------------------------------------
Num(x) == Fd!ValueOf(x)
InverseOf(x, m) == CHOOSE y \in 1 .. m - 1 : (x * y) % m = 1
OverR(x, m) == ((x % m) * InverseOf(Fd!R % m, m)) % m
\* Every multiplication, addition, subtraction and inversion of the kernels
\* gives the residue it stands for (a Montgomery product is a * b / R), in the
\* scalar files, the order's file, the single-thread signer and the warp
\* functions, and the differences between the tiers are exactly these: a result
\* congruent to zero modulo the order comes out as the order, the wide
\* inversion is wrong for the literal one, the fast tier's turn agrees with the
\* oracle's when step A leaves a zero limb 0, and the warp's subtraction is
\* wrong when a borrow must pass a limb equal to the prime's.
FieldRight ==
  /\ Done("field") =>
       LET a == job.a b == job.b IN
       /\ Num(out.mulScalar) = OverR(a * b, 199)
       /\ Num(out.mulOracle) = OverR(a * b, 199)
       /\ Num(out.mulP) = OverR(a * b, 199)
       /\ Num(out.round) = a
       /\ out.add = {V((a + b) % 199)}
       /\ out.sub = {V((a - b) % 199)}
       /\ out.inv = {IF a = 0 THEN Fd!Zero
                     ELSE Fd!ToMontScalar(V(InverseOf(OverR(a, 199), 199)))}
       /\ {out.warpInv} = out.inv <=> a # 1
       /\ out.reduced = V(IF a <= 197 THEN a ELSE a - 197)
       /\ b < 197 => 
          /\ Num(out.mulN) % 197 = OverR(a * b, 197)
          /\ Num(out.mulN) = 197 <=> a * b # 0 /\ (a * b) % 197 = 0
          /\ out.mulNP = out.mulN
          /\ a < 197 =>
               /\ out.addN = {V(Fd!PlusN(a, b))}
               /\ out.subN = V((a - b) % 197)
               /\ a # 0 => /\ out.roundN = V(a)
                           /\ out.invN = {Fd!ToMontN(V(InverseOf(OverR(a, 197), 197)))}
                           /\ out.lowS = V(IF a <= 98 THEN a ELSE 197 - a)
  /\ Done("warp") =>
       LET T == Wd!ToLimbs(job.a) u == Wd!ToLimbs(job.b) IN
       /\ out.scan = Wd!OracleStepA(T, job.x, u)
       /\ out.turn = Wd!OracleTurn(T, job.x, u) <=> out.scan[0] = 0
       /\ job.a # 53311 => out.sub = {Wd!ToLimbs(job.a % 53311)}
       /\ job.a < 53311 =>
            (out.neg = Wd!ToLimbs(53311 - job.a)
               <=> ~\E l \in 1 .. 7 : Wd!PLimbs[l] = T[l] /\ Wd!PLimbs[l - 1] < T[l - 1])
       /\ \A l \in Wd!WarpLanes :
            /\ out.compat[l] = IF l < 8 THEN Wd!MontMulOracle(T, u)[l] ELSE 0
            /\ \A g \in out.group :
                 g[l] = Wd!MontMulOracle(IF l < 8 THEN T ELSE u, u)[l % 8]

AtNonce(k) == Cv!TimesG(k).x
\* No value on the way is zero modulo the order without being zero.
Regular(x, h, d) == (h + x * d) % 197 # 0 /\ x # 197
Verifies(sig, h, d) ==
  /\ sig.r \in 1 .. 196
  /\ sig.s \in 1 .. 196
  /\ LET w  == InverseOf(sig.s, 197)
         u1 == (h * w) % 197
         u2 == (sig.r * w) % 197
         P  == Cv!Plus(Cv!TimesG(u1), Cv!MultipleOf(Cv!TimesG(d), u2))
     IN  P # Cv!Nowhere /\ P.x % 197 = sig.r

\* A signature either signer reports good is in range and verifies for its
\* hash and key, except when a value on the way is a multiple of the order; a
\* signer refuses only for a nonce whose point it cannot add up or whose x is
\* zero; and the nonce is the first candidate in range.
EcdsaVerifies ==
  /\ Done("sign") =>
       LET x == AtNonce(job.k) good == Regular(x, job.h, job.d) IN
       /\ out.warp.ok <=> job.k # 195 /\ x # 0
       /\ out.warp.ok /\ good => Verifies(out.warp, job.h, job.d)
       /\ job.k # 118 => Cv!Affine(out.full) = Cv!TimesG(job.k)
       /\ out.single.ok <=> x # 0
       /\ out.single.ok /\ good => Verifies(out.single, job.h, job.d) /\ out.single.s <= 98
  /\ Done("nonce") =>
       LET good == {i \in 1 .. 3 : job.drawn[i] \in 1 .. 196} IN
       /\ out.rfc.ok <=> good # {}
       /\ out.rfc.ok => out.rfc.k = job.drawn[CHOOSE i \in good : \A j \in good : i <= j]
       /\ out.random.ok => out.random.k \in 1 .. 197
       /\ out.random.k = 197 => \E i \in 1 .. 3 : job.drawn[i] = 197
       /\ \A i, j \in 0 .. 3 : out.blocks[i] = out.blocks[j] => i = j
       /\ ~out.random.ok => \A i \in 1 .. 3 : job.drawn[i] = 0

\* In a micro-batch with one inversion for all lanes, every request with a nonce
\* gets its own good signature, unless one Z of the batch is zero: then none does.
BatchRight ==
  Done("batch") =>
    LET n == 1 .. Len(job.reqs)
        poisoned == \E i \in n : IF job.reqs[i].kValid THEN job.reqs[i].k = 195
                                 ELSE job.workspace[i] = 0
    IN  \A i \in n :
          LET q == job.reqs[i] IN
          /\ out.sigs[i].ok <=> q.kValid /\ ~poisoned
          /\ out.sigs[i].ok => Verifies(out.sigs[i], q.h, q.d)
=============================================================================

------------------------------ MODULE P256Field ------------------------------
(* Multi-limb modular arithmetic of the P-256 kernels.  A 256-bit number is  *)
(* Limbs words below Base, least significant first; the code has 8 words of  *)
(* 32 bits.  Every function is kept as the code has it, a copy for each      *)
(* file: the production signer multiplies with mont_mul_oracle_lane0 (field) *)
(* and mont_mul_scalar_n (scalars) and adds with the scalar reference; the   *)
(* warp functions spread one number over the lanes of a group, a limb each.  *)
EXTENDS Loops

CONSTANTS Base,     \* 2^32 in the code
          Limbs,    \* 8 in the code: the lanes of a group
          Prime,    \* p, with -1/p = 1 modulo Base
          Order     \* n, the order of the curve

R == Base ^ Limbs
Lane == 0 .. Limbs - 1
ToLimbs(x) == [i \in Lane |-> (x \div Base ^ i) % Base]

\* The value of a vector of limbs.
ValueOf(v) == Loop(Limbs, 0, LAMBDA s, i : s + v[i] * Base ^ i)
PLimbs == ToLimbs(Prime)
NLimbs == ToLimbs(Order)
Zero == [i \in Lane |-> 0]
One == [i \in Lane |-> IF i = 0 THEN 1 ELSE 0]
\* The negated inverse of a modulus in one word.
WordInverse(m) == CHOOSE w \in 0 .. Base - 1 : (w * m + 1) % Base = 0
PrimeWord == WordInverse(Prime)
OrderWord == WordInverse(Order)
-----------------------------------------------------------------------------
(* Chains of carries and borrows over the limbs of one thread.               *)

\* Compare from the top limb: the first difference decides.
FeCmp(a, b) ==
  LET diff == {i \in Lane : a[i] # b[i]}
      top  == CHOOSE i \in diff : \A j \in diff : j <= i
  IN  IF diff = {} THEN 0 ELSE IF a[top] < b[top] THEN -1 ELSE 1

AddChain(a, b) ==
  Loop(Limbs, [v |-> Zero, c |-> 0],
       LAMBDA s, i : LET u == a[i] + b[i] + s.c
                     IN  [v |-> [s.v EXCEPT ![i] = u % Base], c |-> u \div Base])

SubChain(a, b) ==
  Loop(Limbs, [v |-> Zero, c |-> 0],
       LAMBDA s, i : LET u == a[i] - b[i] - s.c
                     IN  [v |-> [s.v EXCEPT ![i] = u % Base], c |-> IF u < 0 THEN 1 ELSE 0])

\* t + x * b from limb "at": the row of a schoolbook product, and its carry.
MulAddRow(t, at, x, b) ==
  Loop(Limbs, [v |-> t, c |-> 0],
       LAMBDA s, j : LET u == s.v[at + j] + x * b[j] + s.c
                     IN  [v |-> [s.v EXCEPT ![at + j] = u % Base], c |-> u \div Base])
-----------------------------------------------------------------------------
(* p256_scalar_ref_golden.cuh: the arithmetic under the Jacobian formulas.   *)

FeSub(a, b) ==
  LET d == SubChain(a, b) IN IF d.c = 1 THEN AddChain(d.v, PLimbs).v ELSE d.v

FeAdd(a, b) ==
  LET s == AddChain(a, b)
  IN  IF s.c = 1 \/ FeCmp(s.v, PLimbs) >= 0 THEN SubChain(s.v, PLimbs).v ELSE s.v

\* Mutant: the carry of a row stops at its limb.
SettleOneLimb(s, at) == [s.v EXCEPT ![at] = (@ + s.c) % Base]

\* A carry beyond limb "at" goes one limb further, and no further.
Settle(s, at) ==
  LET acc == s.v[at] + s.c
  IN  [s.v EXCEPT ![at] = acc % Base, ![at + 1] = @ + acc \div Base]

MinusPrime(v, carry) == IF carry # 0 \/ FeCmp(v, PLimbs) >= 0 THEN SubChain(v, PLimbs).v ELSE v

\* The schoolbook product of 2 * Limbs words, then one word cleared a turn.
MontMulScalar(a, b) ==
  LET wide == [i \in 0 .. 2 * Limbs |-> 0]
      prod == Loop(Limbs, wide, LAMBDA t, i : Settle(MulAddRow(t, i, b[i], a), i + Limbs))
      red  == Loop(Limbs, prod,
                   LAMBDA t, i : Settle(MulAddRow(t, i, (t[i] * PrimeWord) % Base, PLimbs),
                                        i + Limbs))
  IN  Once(red, LAMBDA w : MinusPrime([i \in Lane |-> w[i + Limbs]], w[2 * Limbs]))

ToMontScalar(a) == MontMulScalar(a, ToLimbs((R * R) % Prime))
FromMontScalar(a) == MontMulScalar(a, One)
-----------------------------------------------------------------------------
(* The interleaved product (CIOS) of the other files.  The top word of the   *)
(* accumulator is 64 bits wide there, so the shift may leave a limb beyond   *)
(* Base, which the next turn and the last subtraction absorb.  The last comparison *)
(* is strict: a result equal to the modulus stays.                           *)

RowAndTop(t, x, b) == Once(MulAddRow(t, 0, x, b), LAMBDA row : [row.v EXCEPT ![Limbs] = @ + row.c])
CiosTurn(t, x, b, m, word) ==
  LET Cleared(w) == RowAndTop(w, ((w[0] % Base) * word) % Base, m)
  IN  Once(RowAndTop(t, x, b),
           LAMBDA w : Once(Cleared(w), LAMBDA z : [i \in 0 .. Limbs |-> IF i = Limbs THEN 0 ELSE z[i + 1]]))

\* Mutant: the last subtraction looks at the carry only.
CiosCarryOnly(a, b, m, word) ==
  LET t == Loop(Limbs, [i \in 0 .. Limbs |-> 0], LAMBDA s, i : CiosTurn(s, a[i], b, m, word))
  IN  SubChain(t, IF t[Limbs] # 0 THEN m ELSE Zero).v

Cios(a, b, m, word) ==
  LET t == Loop(Limbs, [i \in 0 .. Limbs |-> 0], LAMBDA s, i : CiosTurn(s, a[i], b, m, word))
  IN  Once(t, LAMBDA w : SubChain(w, IF w[Limbs] # 0 \/ FeCmp(w, m) > 0 THEN m ELSE Zero).v)

\* Square and multiply from the lowest bit of the exponent.
FermatUp(a, exponent, one, Mul(_, _)) ==
  LET bits == CHOOSE n \in 1 .. 32 : 2 ^ n > exponent /\ 2 ^ (n - 1) <= exponent
  IN  Loop(bits, [r |-> one, b |-> a],
           LAMBDA s, i : [r |-> IF (exponent \div 2 ^ i) % 2 = 1 THEN Mul(s.r, s.b) ELSE s.r,
                          b |-> Mul(s.b, s.b)]).r

\* Square and multiply from the highest bit down.
FermatDown(a, exponent, one, Mul(_, _)) ==
  LET bits == CHOOSE n \in 1 .. 32 : 2 ^ n > exponent /\ 2 ^ (n - 1) <= exponent
  IN  Loop(bits, one,
           LAMBDA r, i : Once(Mul(r, r),
                              LAMBDA sq : IF (exponent \div 2 ^ (bits - 1 - i)) % 2 = 1 THEN Mul(sq, a) ELSE sq))

PrimeOne == ToLimbs(R % Prime)     \* P256_MONT_ONE
OrderOne == ToLimbs(R % Order)     \* P256_N_R
-----------------------------------------------------------------------------
(* p256_field_warp_coop.cuh, lane 0: the production field multiplication and *)
(* the one inversion of a batch.                                             *)

MontMulOracle(a, b) == Cios(a, b, PLimbs, 1)

FermatLane0(z) ==
  IF z = Zero THEN Zero
  ELSE IF z = PrimeOne THEN PrimeOne
  ELSE FermatDown(z, Prime - 2, PrimeOne, MontMulOracle)

\* warp_fermat_inverse_p256: the literal 1 is taken for one as well.
WarpFermat(z) ==
  IF z = Zero THEN Zero
  ELSE IF z = One \/ z = PrimeOne THEN PrimeOne
  ELSE FermatDown(z, Prime - 2, PrimeOne, MontMulOracle)

CondSubScalar(t, carry) ==
  IF carry # 0 \/ FeCmp(t, PLimbs) > 0 THEN SubChain(t, PLimbs).v ELSE t
-----------------------------------------------------------------------------
(* p256_scalar_order.cuh: arithmetic modulo the order, lane 0.               *)

MontMulN(a, b) == Cios(a, b, NLimbs, OrderWord)

MontAddN(a, b) ==
  LET s == AddChain(a, b)
  IN  SubChain(s.v, IF s.c # 0 \/ FeCmp(s.v, NLimbs) > 0 THEN NLimbs ELSE Zero).v

MontSubN(a, b) ==
  LET d == SubChain(a, b) IN IF d.c = 1 THEN AddChain(d.v, NLimbs).v ELSE d.v

ToMontN(a) == MontMulN(a, ToLimbs((R * R) % Order))
FromMontN(a) == MontMulN(a, One)
FermatN(a) == FermatUp(a, Order - 2, OrderOne, MontMulN)

\* x < p < 2n: one subtraction is enough, and x = n stays.
ReduceXModN(x) == IF FeCmp(x, NLimbs) > 0 THEN SubChain(x, NLimbs).v ELSE x
-----------------------------------------------------------------------------
(* p256_persistent.cuh: the single-thread signer, 32-bit accumulator words.  *)

\* Step A drops what the top word cannot hold.
MontMulPTurn(t, x, b) ==
  LET StepA(row) == [row.v EXCEPT ![Limbs] = (@ + row.c) % Base]
      StepB(w) == [row |-> MulAddRow(w, 0, (w[0] * PrimeWord) % Base, PLimbs), top |-> w[Limbs]]
      Shifted(z) == LET hi == z.top + z.row.c
                    IN  [i \in 0 .. Limbs |-> IF i = Limbs THEN hi \div Base
                                              ELSE IF i = Limbs - 1 THEN hi % Base ELSE z.row.v[i + 1]]
  IN  Once(Once(Once(MulAddRow(t, 0, x, b), StepA), StepB), Shifted)

MontMulP(a, b) ==
  LET t == Loop(Limbs, [i \in 0 .. Limbs |-> 0], LAMBDA s, i : MontMulPTurn(s, a[i], b))
  IN  Once(t, LAMBDA w : CondSubScalar([i \in Lane |-> w[i]], w[Limbs]))

ModAddP(a, b) ==
  LET s == AddChain(a, b)
  IN  IF s.c # 0 \/ FeCmp(s.v, PLimbs) >= 0 THEN SubChain(s.v, PLimbs).v ELSE s.v

ModSubP(a, b) ==
  LET d == SubChain(a, b) IN IF d.c = 1 THEN AddChain(d.v, PLimbs).v ELSE d.v

MontMulNP(a, b) == Cios(a, b, NLimbs, OrderWord)

ModAddN(a, b) ==
  LET s == AddChain(a, b)
  IN  SubChain(s.v, IF s.c # 0 \/ FeCmp(s.v, NLimbs) > 0 THEN NLimbs ELSE Zero).v

ModSubFromN(a) == SubChain(NLimbs, a).v
LowS(s) == IF FeCmp(s, ToLimbs(Order \div 2)) > 0 THEN ModSubFromN(s) ELSE s
FermatInvN(a) == FermatUp(a, Order - 2, OrderOne, MontMulNP)
FermatInvP(a) == FermatUp(a, Prime - 2, PrimeOne, MontMulP)
-----------------------------------------------------------------------------
(* What the functions above stand for, on values.  A number that is zero     *)
(* modulo the order but not zero comes out as the order itself, because the  *)
(* last comparison of the product and of the sum is strict.                  *)

TimesP(a, b) == (a * b) % Prime
TimesN(a, b) == IF (a * b) % Order = 0 /\ a * b # 0 THEN Order ELSE (a * b) % Order
PlusN(a, b) == IF a + b > Order THEN a + b - Order ELSE a + b
-----------------------------------------------------------------------------
(* The warp functions: a group of lanes holds a number, one limb a lane.     *)
(* Lane l of a warp is lane l % Limbs of group l \div Limbs.                 *)

WarpLanes == 0 .. 2 * Limbs - 1

\* Every lane has an array, of which only its own limb is the number's.
Gathered(arr, group) == [i \in Lane |-> arr[group * Limbs + i][i]]

\* Mutant: every group takes the first one's operand.
MontMulGroupZero(A, B) ==
  LET out == [g \in 0 .. 1 |-> MontMulOracle(Gathered(A, 0), Gathered(B, g))]
  IN  [l \in WarpLanes |-> out[l \div Limbs][l % Limbs]]

\* The full-warp form serves the first group only.
MontMulOracleCompat(A, B) ==
  LET out == MontMulOracle(Gathered(A, 0), Gathered(B, 0))
  IN  [l \in WarpLanes |-> IF l < Limbs THEN out[l] ELSE 0]

\* The group form serves every group from its own leader.
MontMulOracleCompatGroup(A, B) ==
  LET out == [g \in 0 .. 1 |-> MontMulOracle(Gathered(A, g), Gathered(B, g))]
  IN  [l \in WarpLanes |-> out[l \div Limbs][l % Limbs]]

\* mont_mul_serial_gather: the same, every leader's result in registers.
MontMulSerialGather(A, B) == MontMulOracleCompatGroup(A, B)

\* warp_mont_mul_comba_smem8: the leader reads its operands from memory.
CombaSmem8(a, b) == MontMulOracle(a, b)

\* scan_excl_8: a lane gets the sum over the lanes below it.
ScanExcl(x) == [k \in Lane |-> Loop(k, 0, LAMBDA s, j : (s + x[j]) % Base)]
-----------------------------------------------------------------------------
(* CiosOracle: the reference the fast tier is compared with, a turn being    *)
(* three steps.  Step A drops the carry out of the top limb.                 *)

OracleStepA(T, x, b) == MulAddRow(T, 0, x, b).v

OracleStepB(T) == MulAddRow(T, 0, T[0], PLimbs)

OracleTurn(T, x, b) ==
  LET w == OracleStepB(OracleStepA(T, x, b))
  IN  [k \in Lane |-> IF k = Limbs - 1 THEN w.c ELSE w.v[k + 1]]

\* mont_mul_oracle_prefix: the turns 0 .. last.
OraclePrefix(a, b, last) == Loop(last + 1, Zero, LAMBDA T, i : OracleTurn(T, a[i], b))
-----------------------------------------------------------------------------
(* warp_mont_mul_comba_fast.  Each lane turns the carry it receives into the *)
(* carry it sends: f(c) = base, plus one if the lane passes carries on and   *)
(* c >= thr.  Functions of that shape compose to functions of that shape,    *)
(* so a prefix scan of three stages gives every lane its carry.              *)

Composed(self, up) ==
  LET low  == self.pass /\ up.base >= self.thr
      high == self.pass /\ up.base + 1 >= self.thr
      base == (self.base + (IF low THEN 1 ELSE 0)) % Base
  IN  IF low = high THEN [self EXCEPT !.base = base, !.pass = FALSE]
                    ELSE [base |-> base, pass |-> up.pass, thr |-> up.thr]

\* The stages combine at distances 1, 2, 4.
CarryScan(f) ==
  LET Stage(g, ofs) == [k \in Lane |-> IF k >= ofs THEN Composed(g[k], g[k - ofs]) ELSE g[k]]
  IN  Loop(CHOOSE n \in 0 .. Limbs : 2 ^ n >= Limbs /\ \A m \in 0 .. n - 1 : 2 ^ m < Limbs,
           f, LAMBDA g, s : Stage(g, 2 ^ s))

\* Low words "low" and high words "high": the sum of the chain, and its carry.
Propagated(low, high) ==
  LET f == CarryScan([k \in Lane |-> [base |-> high[k], pass |-> low[k] # 0,
                                      thr |-> (Base - low[k]) % Base]])
  IN  [v |-> [k \in Lane |-> (low[k] + (IF k = 0 THEN 0 ELSE f[k - 1].base)) % Base],
       c |-> f[Limbs - 1].base]

CombaStepA(T, x, b) ==
  LET sum == [k \in Lane |-> T[k] + ((x * b[k]) % Base)]
  IN  Propagated([k \in Lane |-> sum[k] % Base],
                 [k \in Lane |-> (x * b[k]) \div Base + sum[k] \div Base]).v

\* Every lane adds the carries of all the lanes below it.
CombaStepB(T) ==
  LET sum  == [k \in Lane |-> T[k] + ((T[0] * PLimbs[k]) % Base)]
      up   == ScanExcl([k \in Lane |-> sum[k] \div Base])
      low  == [k \in Lane |-> (sum[k] % Base) + up[k]]
  IN  Propagated([k \in Lane |-> low[k] % Base],
                 [k \in Lane |-> (T[0] * PLimbs[k]) \div Base + low[k] \div Base])

CombaTurn(T, x, b) ==
  LET w == CombaStepB(CombaStepA(T, x, b))
  IN  [k \in Lane |-> IF k = Limbs - 1 THEN w.c ELSE w.v[k + 1]]

\* Mutant: only the next lane below is asked for a borrow.
CondSubWarpOneStage(T, carry) ==
  IF FeCmp(T, PLimbs) < 0 /\ carry = 0 THEN T
  ELSE [k \in Lane |-> (T[k] - PLimbs[k] - (IF k > 0 /\ T[k - 1] < PLimbs[k - 1] THEN 1 ELSE 0)) % Base]

\* p256_cond_sub_warp_parallel: borrow look-ahead, g a borrow made, q one passed.
CondSubWarp(T, carry) ==
  LET start == [k \in Lane |-> [g |-> T[k] < PLimbs[k], q |-> T[k] = PLimbs[k]]]
      Stage(s, ofs) ==
        [k \in Lane |-> IF k < ofs THEN s[k]
                        ELSE [g |-> s[k].g \/ (s[k].q /\ s[k - ofs].g), q |-> s[k].q /\ s[k - ofs].q]]
      scan  == Loop(CHOOSE n \in 0 .. Limbs : 2 ^ n >= Limbs /\ \A m \in 0 .. n - 1 : 2 ^ m < Limbs,
                    start, LAMBDA s, i : Stage(s, 2 ^ i))
  IN  IF FeCmp(T, PLimbs) < 0 /\ carry = 0 THEN T
      ELSE [k \in Lane |->
              (T[k] - PLimbs[k] - (IF k > 0 /\ scan[k - 1].g THEN 1 ELSE 0)) % Base]

\* warp_sub_mod_p_u32: the borrow of a lane is replaced at every stage.
BorrowStages(d) ==
  LET Stage(s, ofs) ==
        [k \in Lane |-> IF k < ofs THEN s[k]
                        ELSE [v |-> (s[k].v - s[k - ofs].c) % Base,
                              c |-> IF s[k].v < s[k - ofs].c THEN 1 ELSE 0]]
  IN  Stage(Stage(Stage(d, 1), 2), 4)

CarryStages(d) ==
  LET Stage(s, ofs) ==
        [k \in Lane |-> IF k < ofs THEN s[k]
                        ELSE [v |-> (s[k].v + s[k - ofs].c) % Base,
                              c |-> (s[k].v + s[k - ofs].c) \div Base]]
  IN  Stage(Stage(Stage(d, 1), 2), 4)

WarpSubModP(a, b) ==
  LET d == BorrowStages([k \in Lane |-> [v |-> (a[k] - b[k]) % Base,
                                         c |-> IF a[k] < b[k] THEN 1 ELSE 0]])
      s == CarryStages([k \in Lane |-> [v |-> (d[k].v + PLimbs[k]) % Base,
                                        c |-> (d[k].v + PLimbs[k]) \div Base]])
  IN  [k \in Lane |-> IF d[Limbs - 1].c = 1 THEN s[k].v ELSE d[k].v]

\* The production path subtracts from p only, to negate a table entry.
WarpNegate(y) == WarpSubModP(PLimbs, y)
=============================================================================

--------------------------- MODULE KeyRotationProofs ---------------------------
(***************************************************************************)
(* Proof that key rotation from one thread is safe: IInv of KeyRotationInv *)
(* is inductive, for any calls, key types, algorithms and number of calls. *)
(* The lemmas about Path come first; they are inductions on the position   *)
(* in a sequence, each by its least counterexample.                        *)
(***************************************************************************)
EXTENDS KeyRotationInv, WellFoundedInduction, TLAPS

\* A non-empty set of natural numbers has a least element.
LEMMA LeastNat ==
  ASSUME NEW T, T \subseteq Nat, T # {}
  PROVE  \E x \in T : \A y \in T : x <= y
<1>. DEFINE L == OpToRel(<, Nat)
<1>1. IsWellFoundedOn(L, Nat) BY NatLessThanWellFounded
<1>2. \A x, y \in Nat : y < x => <<y, x>> \in L BY Zenon DEF OpToRel
<1>. HIDE DEF L
<1>3. PICK x \in T : \A y \in T : ~ (<<y, x>> \in L) BY <1>1, WFMin
<1>4. \A y \in T : ~ (y < x) BY <1>2, <1>3
<1>. QED BY <1>4

-----------------------------------------------------------------------------
(* The path through a sequence of copies.                                  *)

IsPath(p, d, str, n) ==
  p = [k \in 0 .. n |-> IF k = 0 THEN d ELSE Apply(p[k - 1], str[k])]

\* A path exists: one step can always be added.
LEMMA PathExists ==
  ASSUME NEW d, NEW str, NEW n \in Nat
  PROVE  \E p : IsPath(p, d, str, n)
<1>. DEFINE Bad == {k \in 0 .. n : ~ \E p : IsPath(p, d, str, k)}
<1>1. SUFFICES ASSUME Bad # {} PROVE FALSE OBVIOUS
<1>2. Bad \subseteq Nat OBVIOUS
<1>3. PICK k \in Bad : \A j \in Bad : k <= j BY <1>1, <1>2, LeastNat
<1>4. CASE k = 0
  <2>. DEFINE p == [i \in 0 .. 0 |-> d]
  <2>1. p = [i \in 0 .. 0 |-> IF i = 0 THEN d ELSE Apply(p[i - 1], str[i])]
    OBVIOUS
  <2>2. IsPath(p, d, str, 0) BY <2>1 DEF IsPath
  <2>. QED BY <1>4, <2>2
<1>5. CASE k # 0
  <2>1. k - 1 \in 0 .. n /\ k - 1 \notin Bad BY <1>3, <1>5
  <2>2. PICK q : IsPath(q, d, str, k - 1) BY <2>1
  <2>. DEFINE p == [i \in 0 .. k |-> IF i = k THEN Apply(q[k - 1], str[k]) ELSE q[i]]
              step(i) == IF i = 0 THEN d ELSE Apply(p[i - 1], str[i])
  <2>3. ASSUME NEW i \in 0 .. k PROVE p[i] = step(i)
    <3>1. CASE i = k
      <4>1. k - 1 \in 0 .. k /\ k - 1 # k BY <2>1
      <4>2. p[k - 1] = q[k - 1] BY <4>1
      <4>. QED BY <1>5, <3>1, <4>2
    <3>2. CASE i # k
      <4>1. i \in 0 .. k - 1 BY <3>2
      <4>2. q[i] = IF i = 0 THEN d ELSE Apply(q[i - 1], str[i]) BY <2>2, <4>1 DEF IsPath
      <4>3. i # 0 => i - 1 \in 0 .. k /\ i - 1 # k BY <4>1
      <4>4. i # 0 => p[i - 1] = q[i - 1] BY <4>3
      <4>. QED BY <3>2, <4>2, <4>4
    <3>. QED BY <3>1, <3>2
  <2>4. p = [i \in 0 .. k |-> step(i)]
    <3>1. p = [i \in 0 .. k |-> p[i]] OBVIOUS
    <3>. HIDE DEF p
    <3>. QED BY <2>3, <3>1
  <2>5. IsPath(p, d, str, k) BY <2>4 DEF IsPath
  <2>. QED BY <2>5
<1>. QED BY <1>4, <1>5

\* Path is such a path ...
LEMMA PathIsPath ==
  ASSUME NEW d, NEW str, Len(str) \in Nat
  PROVE  IsPath(Path(d, str), d, str, Len(str))
<1>1. PICK p : IsPath(p, d, str, Len(str)) BY PathExists
<1>. DEFINE P(q) == q = [k \in 0 .. Len(str) |-> IF k = 0 THEN d ELSE Apply(q[k - 1], str[k])]
<1>2. P(p) BY <1>1 DEF IsPath
<1>3. P(CHOOSE q : P(q)) BY <1>2
<1>4. Path(d, str) = CHOOSE q : P(q) BY DEF Path
<1>. QED BY <1>3, <1>4 DEF IsPath

LEMMA PathSteps ==
  ASSUME NEW d, NEW str, Len(str) \in Nat
  PROVE  /\ Path(d, str)[0] = d
         /\ \A k \in 1 .. Len(str) : Path(d, str)[k] = Apply(Path(d, str)[k - 1], str[k])
<1>. PICK n \in Nat : n = Len(str) OBVIOUS
<1>. PICK p : p = Path(d, str) OBVIOUS
<1>1. p = [k \in 0 .. n |-> IF k = 0 THEN d ELSE Apply(p[k - 1], str[k])]
  BY PathIsPath DEF IsPath
<1>2. \A k \in 0 .. n : p[k] = IF k = 0 THEN d ELSE Apply(p[k - 1], str[k]) BY <1>1
<1>. QED BY <1>2

\* ... and there is no other.
LEMMA PathUnique ==
  ASSUME NEW d, NEW str, Len(str) \in Nat, NEW p, NEW n \in 0 .. Len(str),
         p[0] = d, \A k \in 1 .. n : p[k] = Apply(p[k - 1], str[k])
  PROVE  \A k \in 0 .. n : p[k] = Path(d, str)[k]
<1>. DEFINE q == Path(d, str)
            Bad == {k \in 0 .. n : p[k] # q[k]}
<1>1. q[0] = d /\ \A k \in 1 .. n : q[k] = Apply(q[k - 1], str[k]) BY PathSteps
<1>. HIDE DEF q
<1>2. SUFFICES ASSUME Bad # {} PROVE FALSE BY DEF q
<1>3. Bad \subseteq Nat OBVIOUS
<1>4. PICK k \in Bad : \A j \in Bad : k <= j BY <1>2, <1>3, LeastNat
<1>5. k # 0 BY <1>1
<1>6. k - 1 \in 0 .. n /\ k - 1 \notin Bad /\ k \in 1 .. n BY <1>4, <1>5
<1>7. p[k - 1] = q[k - 1] BY <1>6
<1>. QED BY <1>1, <1>6, <1>7

\* A copy appended adds one state at the end.
LEMMA PathAppend ==
  ASSUME NEW S, NEW d, NEW str \in Seq(S), NEW c \in S
  PROVE  /\ Len(Append(str, c)) = Len(str) + 1 /\ Len(str) \in Nat
         /\ \A k \in 0 .. Len(str) : Path(d, Append(str, c))[k] = Path(d, str)[k]
         /\ Path(d, Append(str, c))[Len(str) + 1] = Apply(Path(d, str)[Len(str)], c)
         /\ \A i \in 1 .. Len(str) : Append(str, c)[i] = str[i]
         /\ Append(str, c)[Len(str) + 1] = c
<1>. PICK n \in Nat : n = Len(str) OBVIOUS
<1>. DEFINE new == Append(str, c)
<1>1. Len(new) = n + 1 /\ \A i \in 1 .. n + 1 : new[i] = IF i <= n THEN str[i] ELSE c
  OBVIOUS
<1>. HIDE DEF new
<1>. DEFINE p == Path(d, new)
<1>2. p[0] = d /\ \A k \in 1 .. n + 1 : p[k] = Apply(p[k - 1], new[k])
  <2>1. Len(new) \in Nat BY <1>1
  <2>. QED BY <1>1, <2>1, PathSteps
<1>. HIDE DEF p
<1>3. \A k \in 1 .. n : p[k] = Apply(p[k - 1], str[k]) BY <1>1, <1>2
<1>4. \A k \in 0 .. n : p[k] = Path(d, str)[k]
  <2>1. n \in 0 .. Len(str) OBVIOUS
  <2>. QED BY <1>2, <1>3, <2>1, PathUnique, SMTT(60)
<1>5. p[n + 1] = Apply(p[n], c) BY <1>1, <1>2
<1>. QED BY <1>1, <1>4, <1>5 DEF p, new

\* Once the first copy is applied, the rest of the path is ahead.
LEMMA PathTail ==
  ASSUME NEW S, NEW d, NEW str \in Seq(S), str # <<>>
  PROVE  /\ Len(Tail(str)) = Len(str) - 1 /\ Len(str) \in Nat \ {0}
         /\ \A k \in 0 .. Len(str) - 1 :
              Path(Apply(d, Head(str)), Tail(str))[k] = Path(d, str)[k + 1]
         /\ \A i \in 1 .. Len(str) - 1 : Tail(str)[i] = str[i + 1]
         /\ Head(str) = str[1]
<1>. PICK n \in Nat \ {0} : n = Len(str) OBVIOUS
<1>. PICK e : e = Apply(d, Head(str)) OBVIOUS
<1>. DEFINE new == Tail(str)
<1>1. Len(new) = n - 1 /\ Head(str) = str[1] /\ \A i \in 1 .. n - 1 : new[i] = str[i + 1]
  OBVIOUS
<1>. HIDE DEF new
<1>. DEFINE q == Path(d, str)
            p == [k \in 0 .. n - 1 |-> q[k + 1]]
<1>2. q[0] = d /\ \A k \in 1 .. n : q[k] = Apply(q[k - 1], str[k]) BY PathSteps
<1>. HIDE DEF q
<1>3. p[0] = e
  <2>1. 1 \in 1 .. n /\ q[1] = Apply(q[0], str[1]) BY <1>2
  <2>. QED BY <1>1, <1>2, <2>1
<1>4. ASSUME NEW k \in 1 .. n - 1 PROVE p[k] = Apply(p[k - 1], new[k])
  <2>1. k + 1 \in 1 .. n /\ q[k + 1] = Apply(q[k], str[k + 1]) BY <1>2
  <2>2. p[k] = q[k + 1] /\ p[k - 1] = q[k] OBVIOUS
  <2>. QED BY <1>1, <2>1, <2>2
<1>5. \A k \in 0 .. n - 1 : p[k] = Path(e, new)[k]
  <2>1. n - 1 \in 0 .. Len(new) /\ Len(new) \in Nat BY <1>1
  <2>. HIDE DEF p
  <2>. QED BY <1>3, <1>4, <2>1, PathUnique
<1>6. \A k \in 0 .. n - 1 : p[k] = q[k + 1] OBVIOUS
<1>. QED BY <1>1, <1>5, <1>6 DEF q, new

-----------------------------------------------------------------------------
(* The one call and its steps.                                             *)

\* With one thread, Cur is its call.
LEMMA OneCall ==
  ASSUME CleanUse, NEW t \in Threads
  PROVE  /\ Cur = call[t] /\ Cur' = call'[t] /\ Threads = {t}
         /\ \A u \in Threads : u = t
<1>1. PICK u : Threads = {u} BY DEF CleanUse
<1>2. (CHOOSE v \in Threads : TRUE) = t BY <1>1
<1>. QED BY <1>1, <1>2 DEF Cur

\* The parts of a call.
LEMMA CallTypes ==
  ASSUME NEW c \in Calls
  PROVE  /\ c.op \in AllOps \cup {"none"} /\ c.at \in 0 .. 5 /\ c.slot \in Slots
         /\ c.type \in {"P256", "AES"} /\ c.key \in Keys /\ c.ver \in Keys
         /\ c.n \in 0 .. 7 /\ c.left \in Nat
         /\ c = [op |-> c.op, at |-> c.at, slot |-> c.slot, type |-> c.type, key |-> c.key,
                 ver |-> c.ver, n |-> c.n, left |-> c.left]
BY DEF Calls

LEMMA OpNames ==
  AllOps = {"load", "prepare", "prepare_typed", "prepare_typed_async", "prepare_async",
            "commit", "commit_async", "rollback", "rotate", "fence", "recover"}
BY DEF AllOps, Steps

\* Each call's steps, by name.
LEMMA StepsOf ==
  /\ Steps["load"] = <<"copy", "mirror", "sync">>
  /\ Steps["prepare"] = <<"probe", "sync", "copy", "mirror", "sync">>
  /\ Steps["prepare_typed"] = <<"copy", "mirror", "sync">>
  /\ Steps["prepare_typed_async"] = <<"close", "copy", "mirror", "latch">>
  /\ Steps["prepare_async"] = <<"copy", "mirror", "latch", "close">>
  /\ Steps["commit"] = <<"copy", "mirror", "sync">>
  /\ Steps["commit_async"] = <<"copy", "mirror", "latch", "close">>
  /\ Steps["rollback"] = <<"copy", "sync", "mirror">>
  /\ Steps["rotate"] = <<"copy", "sync", "flip", "sync", "mirror">>
  /\ Steps["fence"] = <<"sync", "unlatch", "open">>
  /\ Steps["recover"] = <<"sync", "resync", "open">>
BY DEF Steps

LEMMA StepCount ==
  ASSUME NEW o \in AllOps
  PROVE  Len(Steps[o]) \in 3 .. 5
<1>1. CASE o = "load" BY <1>1, StepsOf
<1>2. CASE o = "prepare" BY <1>2, StepsOf
<1>3. CASE o = "prepare_typed" BY <1>3, StepsOf
<1>4. CASE o = "prepare_typed_async" BY <1>4, StepsOf
<1>5. CASE o = "prepare_async" BY <1>5, StepsOf
<1>6. CASE o = "commit" BY <1>6, StepsOf
<1>7. CASE o = "commit_async" BY <1>7, StepsOf
<1>8. CASE o = "rollback" BY <1>8, StepsOf
<1>9. CASE o = "rotate" BY <1>9, StepsOf
<1>10. CASE o = "fence" BY <1>10, StepsOf
<1>11. CASE o = "recover" BY <1>11, StepsOf, SMTT(60)
<1>. QED
  BY <1>1, <1>2, <1>3, <1>4, <1>5, <1>6, <1>7, <1>8, <1>9, <1>10, <1>11, OpNames

\* At which place of which call each kind of step stands.
LEMMA Table ==
  ASSUME NEW c \in Calls, c.op # "none", c.at \in 1 .. Len(Steps[c.op])
  PROVE  /\ Step(c) = Steps[c.op][c.at]
         /\ Len(Steps[c.op]) \in 3 .. 5
         /\ c.op \in {"fence", "recover"} => Len(Steps[c.op]) = 3
         /\ Step(c) = "copy" <=> c.at = CopyAt[c.op]
         /\ Step(c) = "mirror" <=> c.at = MirrorAt[c.op]
         /\ Step(c) = "sync" <=>
              \/ c.op \in {"load", "prepare_typed", "commit"} /\ c.at = 3
              \/ c.op \in {"prepare", "rotate"} /\ c.at = 2
              \/ c.op = "prepare" /\ c.at = 5
              \/ c.op = "rollback" /\ c.at = 2
              \/ c.op = "rotate" /\ c.at = 4
              \/ c.op \in {"fence", "recover"} /\ c.at = 1
         /\ Step(c) = "probe" <=> c.op = "prepare" /\ c.at = 1
         /\ Step(c) = "flip" <=> c.op = "rotate" /\ c.at = 3
         /\ Step(c) = "latch" <=>
              \/ c.op = "prepare_typed_async" /\ c.at = 4
              \/ c.op \in {"prepare_async", "commit_async"} /\ c.at = 3
         /\ Step(c) = "close" <=>
              \/ c.op = "prepare_typed_async" /\ c.at = 1
              \/ c.op \in {"prepare_async", "commit_async"} /\ c.at = 4
         /\ Step(c) = "unlatch" <=> c.op = "fence" /\ c.at = 2
         /\ Step(c) = "resync" <=> c.op = "recover" /\ c.at = 2
         /\ Step(c) = "open" <=> c.op \in {"fence", "recover"} /\ c.at = 3
         /\ Finishes(c) <=>
              \/ c.op \in {"load", "prepare_typed", "commit", "rollback", "fence", "recover"}
                 /\ c.at = 3
              \/ c.op \in {"prepare_typed_async", "prepare_async", "commit_async"} /\ c.at = 4
              \/ c.op \in {"prepare", "rotate"} /\ c.at = 5
<1>. USE DEF Step, Finishes, CopyAt, MirrorAt
<1>0. c.op \in AllOps /\ c.at \in 0 .. 5 BY CallTypes
<1>1. CASE c.op = "load" BY <1>1, StepsOf
<1>2. CASE c.op = "prepare" BY <1>2, StepsOf
<1>3. CASE c.op = "prepare_typed" BY <1>3, StepsOf
<1>4. CASE c.op = "prepare_typed_async" BY <1>4, StepsOf
<1>5. CASE c.op = "prepare_async" BY <1>5, StepsOf
<1>6. CASE c.op = "commit" BY <1>6, StepsOf
<1>7. CASE c.op = "commit_async" BY <1>7, StepsOf
<1>8. CASE c.op = "rollback" BY <1>8, StepsOf
<1>9. CASE c.op = "rotate" BY <1>9, StepsOf, SMTT(60)
<1>10. CASE c.op = "fence" BY <1>10, StepsOf
<1>11. CASE c.op = "recover" BY <1>11, StepsOf
<1>. QED
  BY <1>0, <1>1, <1>2, <1>3, <1>4, <1>5, <1>6, <1>7, <1>8, <1>9, <1>10, <1>11, OpNames

\* The fields a call copies, each once, the version before what is made of it.
LEMMA FieldFacts ==
  ASSUME NEW c \in Calls, c.op \in TypedOps \cup {"rotate"}
  PROVE  /\ Len(Fields(c)) \in 4 .. 7
         /\ \A i \in 1 .. Len(Fields(c)) :
              /\ Fields(c)[i] \in FieldNames
              /\ \A j \in 1 .. Len(Fields(c)) :
                   /\ Fields(c)[i] = Fields(c)[j] => i = j
                   /\ Fields(c)[i] \in {"epoch", "tag"} /\ Fields(c)[j] = "ver" => j < i
         /\ \A f \in {"key", "mirror", "ver", "tag"} :
              \E i \in 1 .. Len(Fields(c)) : Fields(c)[i] = f
         /\ c.op \in TypedOps =>
              \A f \in {"type", "epoch"} : \E i \in 1 .. Len(Fields(c)) : Fields(c)[i] = f
         /\ c.op \in TypedOps /\ c.type = "AES" =>
              \E i \in 1 .. Len(Fields(c)) : Fields(c)[i] = "rk"
         /\ c.op = "rotate" =>
              \A i \in 1 .. Len(Fields(c)) : Fields(c)[i] \notin {"type", "rk", "epoch"}
<1>. USE DEF FieldNames
<1>1. CASE c.op \in TypedOps /\ c.type = "AES"
  <2>1. Fields(c) = <<"type", "key", "mirror", "rk", "ver", "epoch", "tag">>
    BY <1>1 DEF Fields, TypedFields
  <2>2. c.op # "rotate" BY <1>1 DEF TypedOps
  <2>. PICK fs : fs = Fields(c) OBVIOUS
  <2>3. /\ Len(fs) = 7 /\ fs[1] = "type" /\ fs[2] = "key" /\ fs[3] = "mirror" /\ fs[4] = "rk"
        /\ fs[5] = "ver" /\ fs[6] = "epoch" /\ fs[7] = "tag"
    BY <2>1
  <2>. QED BY <2>2, <2>3
<1>2. CASE c.op \in TypedOps /\ c.type # "AES"
  <2>1. Fields(c) = <<"type", "key", "mirror", "ver", "epoch", "tag">>
    BY <1>2 DEF Fields, TypedFields
  <2>2. c.op # "rotate" BY <1>2 DEF TypedOps
  <2>. PICK fs : fs = Fields(c) OBVIOUS
  <2>3. /\ Len(fs) = 6 /\ fs[1] = "type" /\ fs[2] = "key" /\ fs[3] = "mirror"
        /\ fs[4] = "ver" /\ fs[5] = "epoch" /\ fs[6] = "tag"
    BY <2>1
  <2>. QED BY <1>2, <2>2, <2>3
<1>3. CASE c.op = "rotate"
  <2>1. c.op \notin TypedOps BY <1>3 DEF TypedOps
  <2>2. Fields(c) = <<"key", "mirror", "ver", "tag">> BY <1>3, <2>1 DEF Fields
  <2>. PICK fs : fs = Fields(c) OBVIOUS
  <2>3. Len(fs) = 4 /\ fs[1] = "key" /\ fs[2] = "mirror" /\ fs[3] = "ver" /\ fs[4] = "tag"
    BY <2>2
  <2>. QED BY <2>1, <2>3
<1>. QED BY <1>1, <1>2, <1>3

\* The other calls copy one thing.
LEMMA OtherFields ==
  ASSUME NEW c \in Calls
  PROVE  /\ c.op = "rollback" => Len(Fields(c)) = 1 /\ Fields(c)[1] = "all"
         /\ c.op \in Commits => Len(Fields(c)) = 1 /\ Fields(c)[1] = "active"
BY DEF Fields, TypedOps, Commits

LEMMA SomeFields ==
  ASSUME NEW c \in Calls, c.op \in AllOps, c.op \notin {"fence", "recover"}
  PROVE  Len(Fields(c)) > 0
<1>1. CASE c.op \in TypedOps \cup {"rotate"}
  <2>1. PICK n \in 4 .. 7 : n = Len(Fields(c)) BY <1>1, FieldFacts
  <2>2. \A k \in 4 .. 7 : k > 0 OBVIOUS
  <2>. QED BY <2>1, <2>2
<1>2. CASE c.op \in Commits \cup {"rollback"}
  <2>1. Len(Fields(c)) = 1 BY <1>2, OtherFields
  <2>. QED BY <2>1
<1>. QED BY <1>1, <1>2, OpNames DEF TypedOps, Commits

\* A call goes on to its next step, or is over.
LEMMA GotoFacts ==
  ASSUME NEW c \in Calls, NEW str, Len(str) \in Nat, c.op # "none",
         c.at \in 1 .. Len(Steps[c.op])
  PROVE  /\ Goto(c, str) \in Calls
         /\ Finishes(c) => Goto(c, str) = NoCall
         /\ ~Finishes(c) =>
              LET d == Goto(c, str) IN
              /\ d.op = c.op /\ d.slot = c.slot /\ d.type = c.type /\ d.key = c.key
              /\ d.ver = c.ver /\ d.at = c.at + 1 /\ d.n = 0
              /\ d.at \in 1 .. Len(Steps[d.op])
              /\ d.left = IF Step(d) = "sync" THEN Len(str) ELSE 0
<1>1. NoCall \in Calls
  <2>1. 0 \in Keys BY KeyRotationAssumption DEF Keys
  <2>. QED BY <2>1 DEF NoCall, Calls, Slots
<1>2. CASE Finishes(c) BY <1>1, <1>2 DEF Goto
<1>3. CASE ~Finishes(c)
  <2>. PICK l \in Nat : l = IF Steps[c.op][c.at + 1] = "sync" THEN Len(str) ELSE 0 OBVIOUS
  <2>1. Goto(c, str) = [c EXCEPT !.at = c.at + 1, !.n = 0, !.left = l] BY <1>3 DEF Goto
  <2>. PICK d : d = Goto(c, str) OBVIOUS
  <2>2. c.at + 1 \in 1 .. Len(Steps[c.op]) /\ Len(Steps[c.op]) \in 3 .. 5
    BY <1>3, Table DEF Finishes
  <2>3. d \in Calls /\ d.op = c.op /\ d.slot = c.slot /\ d.type = c.type /\ d.key = c.key
        /\ d.ver = c.ver /\ d.at = c.at + 1 /\ d.n = 0 /\ d.left = l
    <3>1. c.at + 1 \in 0 .. 5 BY <2>2, SMTT(60)
    <3>2. d = [c EXCEPT !.at = c.at + 1, !.n = 0, !.left = l] BY <2>1
    <3>3. /\ d.op = c.op /\ d.slot = c.slot /\ d.type = c.type /\ d.key = c.key
          /\ d.ver = c.ver /\ d.at = c.at + 1 /\ d.n = 0 /\ d.left = l
      BY <3>2 DEF Calls
    <3>4. d = [op |-> c.op, at |-> c.at + 1, slot |-> c.slot, type |-> c.type, key |-> c.key,
               ver |-> c.ver, n |-> 0, left |-> l]
      BY <3>2 DEF Calls
    <3>5. d \in Calls BY <3>1, <3>4, CallTypes DEF Calls
    <3>. QED BY <3>3, <3>5
  <2>4. Step(d) = Steps[c.op][c.at + 1] BY <2>3 DEF Step
  <2>. QED BY <1>3, <2>2, <2>3, <2>4
<1>. QED BY <1>2, <1>3

-----------------------------------------------------------------------------
(* Copies and the states they make.                                        *)

\* A slot is its fields.
LEMMA SlotFields ==
  ASSUME NEW a \in SlotStates
  PROVE  /\ DOMAIN a = FieldNames
         /\ a.type \in {"EMPTY", "P256", "AES"} /\ a.key \in Keys /\ a.mirror \in Keys
         /\ a.rk \in Keys /\ a.ver \in Keys /\ a.epoch \in Keys /\ a.tag \in Keys \X Keys
BY DEF SlotStates, FieldNames

LEMMA EmptyIsSlot == EmptySlot \in SlotStates
<1>1. 0 \in Keys BY KeyRotationAssumption DEF Keys
<1>. QED BY <1>1 DEF EmptySlot, SlotStates

\* A write of one field of a slot.
LEMMA FieldWrite ==
  ASSUME NEW a \in SlotStates, NEW f \in FieldNames, NEW v,
         f = "type" => v \in {"P256", "AES"}, f = "tag" => v \in Keys \X Keys,
         f \notin {"type", "tag"} => v \in Keys
  PROVE  /\ [a EXCEPT ![f] = v] \in SlotStates
         /\ [a EXCEPT ![f] = v][f] = v
         /\ \A g \in FieldNames : g # f => [a EXCEPT ![f] = v][g] = a[g]
<1>. USE DEF SlotStates, FieldNames
<1>1. CASE f = "type" BY <1>1
<1>2. CASE f = "tag" BY <1>2
<1>3. CASE f = "key" BY <1>3
<1>4. CASE f = "mirror" BY <1>4
<1>5. CASE f = "rk" BY <1>5
<1>6. CASE f = "ver" BY <1>6
<1>7. CASE f = "epoch" BY <1>7
<1>. QED BY <1>1, <1>2, <1>3, <1>4, <1>5, <1>6, <1>7

\* What each kind of copy is, and what it does to a state.
LEMMA CopyTypes ==
  ASSUME NEW cp \in Copies
  PROVE  /\ cp.slot \in Slots /\ cp.by \in Threads /\ cp.async \in BOOLEAN
         /\ cp.f \in {"probe", "active", "all"} \cup FieldNames
         /\ cp.f = "probe" => cp.v \in Keys \ {0}
         /\ cp.f = "active" => cp.v \in Slots
         /\ cp.f = "all" => cp.v = EmptySlot
         /\ cp.f = "type" => cp.v \in {"P256", "AES"}
         /\ cp.f = "tag" => cp.v \in Keys \X Keys
         /\ cp.f \in FieldNames \ {"type", "tag"} => cp.v \in Keys
         /\ Writes(cp) <=> cp.f = "all" \/ cp.f \in FieldNames
BY DEF Copies, FieldNames, Writes

LEMMA ApplyFacts ==
  ASSUME NEW d \in States, NEW cp \in Copies
  PROVE  /\ Apply(d, cp) \in States
         /\ cp.f = "probe" => Apply(d, cp) = d
         /\ cp.f = "active" => Apply(d, cp).active = cp.v /\ Apply(d, cp).slot = d.slot
         /\ Writes(cp) =>
              /\ Apply(d, cp).active = d.active
              /\ \A s \in Slots : s # cp.slot => Apply(d, cp).slot[s] = d.slot[s]
         /\ cp.f = "all" => Apply(d, cp).slot[cp.slot] = EmptySlot
         /\ cp.f \in FieldNames =>
              /\ Apply(d, cp).slot[cp.slot][cp.f] = cp.v
              /\ \A g \in FieldNames :
                   g # cp.f => Apply(d, cp).slot[cp.slot][g] = d.slot[cp.slot][g]
<1>. PICK e : e = Apply(d, cp) OBVIOUS
<1>0. /\ cp.slot \in Slots /\ cp.f \in {"probe", "active", "all"} \cup FieldNames
      /\ d = [slot |-> d.slot, active |-> d.active]
      /\ d.slot \in [Slots -> SlotStates] /\ d.active \in Slots
      /\ "probe" \notin FieldNames /\ "active" \notin FieldNames /\ "all" \notin FieldNames
  BY CopyTypes DEF States, FieldNames
<1>1. CASE cp.f = "probe"
  <2>1. e = d BY <1>1 DEF Apply
  <2>. QED BY <1>0, <1>1, <2>1 DEF Writes
<1>2. CASE cp.f = "active"
  <2>1. e = [d EXCEPT !.active = cp.v] /\ cp.v \in Slots BY <1>2, CopyTypes DEF Apply
  <2>2. e = [slot |-> d.slot, active |-> cp.v] BY <1>0, <2>1
  <2>3. e \in States BY <1>0, <2>1, <2>2 DEF States
  <2>. QED BY <1>0, <1>2, <2>2, <2>3 DEF Writes
<1>3. CASE cp.f = "all"
  <2>1. e = [d EXCEPT !.slot = [d.slot EXCEPT ![cp.slot] = EmptySlot]]
    BY <1>3, CopyTypes DEF Apply
  <2>2. e = [slot |-> [d.slot EXCEPT ![cp.slot] = EmptySlot], active |-> d.active]
    BY <1>0, <2>1
  <2>3. e.slot \in [Slots -> SlotStates] BY <1>0, <2>2, EmptyIsSlot
  <2>4. e \in States BY <1>0, <2>2, <2>3 DEF States
  <2>. QED BY <1>0, <1>3, <2>2, <2>4
<1>4. CASE cp.f \in FieldNames
  <2>. DEFINE a == [d.slot[cp.slot] EXCEPT ![cp.f] = cp.v]
  <2>1. /\ a \in SlotStates /\ a[cp.f] = cp.v
        /\ \A g \in FieldNames : g # cp.f => a[g] = d.slot[cp.slot][g]
    <3>0. PICK b, f, v : b = d.slot[cp.slot] /\ f = cp.f /\ v = cp.v OBVIOUS
    <3>1. b \in SlotStates /\ f \in FieldNames BY <1>0, <1>4, <3>0
    <3>2. /\ f = "type" => v \in {"P256", "AES"}
          /\ f = "tag" => v \in Keys \X Keys
          /\ f \notin {"type", "tag"} => v \in Keys
      BY <1>4, <3>0, CopyTypes
    <3>. DEFINE c == [b EXCEPT ![f] = v]
    <3>3. c \in SlotStates /\ c[f] = v /\ \A g \in FieldNames : g # f => c[g] = b[g]
      BY <3>1, <3>2, FieldWrite
    <3>4. c = a BY <3>0
    <3>. QED BY <3>0, <3>3, <3>4
  <2>2. e = [d EXCEPT !.slot = [d.slot EXCEPT ![cp.slot] = a]]
    BY <1>0, <1>4 DEF Apply
  <2>. HIDE DEF a
  <2>3. e = [slot |-> [d.slot EXCEPT ![cp.slot] = a], active |-> d.active]
    BY <1>0, <2>2
  <2>4. e.slot \in [Slots -> SlotStates] BY <1>0, <2>1, <2>3
  <2>5. e \in States BY <1>0, <2>3, <2>4 DEF States
  <2>. QED BY <1>0, <1>4, <2>1, <2>3, <2>5
<1>. QED BY <1>0, <1>1, <1>2, <1>3, <1>4

\* The path while nothing is enqueued or applied,
LEMMA PathKept ==
  ASSUME UNCHANGED <<dev, stream>>
  PROVE  Final' = Final /\ \A k \in 0 .. Len(stream) : At(k)' = At(k)
BY DEF Final, At

\* when a copy is enqueued,
LEMMA PathGrows ==
  ASSUME Typed, NEW cp \in Copies, dev' = dev, stream' = Append(stream, cp)
  PROVE  /\ stream' \in Seq(Copies)
         /\ Len(stream) \in Nat /\ Len(stream') = Len(stream) + 1
         /\ \A i \in 1 .. Len(stream) : stream'[i] = stream[i]
         /\ stream'[Len(stream) + 1] = cp
         /\ \A k \in 0 .. Len(stream) : At(k)' = At(k)
         /\ \A k : k = Len(stream) + 1 => At(k)' = Apply(Final, cp)
         /\ Final' = Apply(Final, cp) /\ Final = At(Len(stream))
<1>1. stream \in Seq(Copies) BY DEF Typed
<1>2. /\ Len(stream') = Len(stream) + 1 /\ Len(stream) \in Nat
      /\ \A k \in 0 .. Len(stream) : Path(dev', stream')[k] = Path(dev, stream)[k]
      /\ Path(dev', stream')[Len(stream) + 1] = Apply(Path(dev, stream)[Len(stream)], cp)
      /\ \A i \in 1 .. Len(stream) : stream'[i] = stream[i]
      /\ stream'[Len(stream) + 1] = cp
  BY <1>1, PathAppend
<1>3. stream' \in Seq(Copies) BY <1>1
<1>4. Final' = Path(dev', stream')[Len(stream) + 1] BY <1>2 DEF Final
<1>5. \A k : At(k)' = Path(dev', stream')[k] BY DEF At
<1>6. \A k \in 0 .. Len(stream) : At(k)' = Path(dev', stream')[k] /\ At(k) = Path(dev, stream)[k]
  BY DEF At
<1>7. Final = Path(dev, stream)[Len(stream)] BY DEF Final
<1>8. Len(stream) \in 0 .. Len(stream) BY <1>2
<1>. QED BY <1>2, <1>3, <1>4, <1>5, <1>6, <1>7, <1>8

\* and when the first is applied.
LEMMA PathShrinks ==
  ASSUME Typed, stream # <<>>, dev' = Apply(dev, Head(stream)), stream' = Tail(stream)
  PROVE  /\ stream' \in Seq(Copies) /\ Head(stream) = stream[1]
         /\ Len(stream) \in Nat \ {0} /\ Len(stream') = Len(stream) - 1
         /\ \A i \in 1 .. Len(stream') : stream'[i] = stream[i + 1]
         /\ \A k \in 0 .. Len(stream') : At(k)' = At(k + 1)
         /\ Final' = Final /\ dev' = At(1) /\ At(0) = dev
<1>1. stream \in Seq(Copies) BY DEF Typed
<1>2. /\ Len(stream') = Len(stream) - 1 /\ Len(stream) \in Nat \ {0}
      /\ \A k \in 0 .. Len(stream) - 1 : Path(dev', stream')[k] = Path(dev, stream)[k + 1]
      /\ \A i \in 1 .. Len(stream) - 1 : stream'[i] = stream[i + 1]
      /\ Head(stream) = stream[1]
  BY <1>1, PathTail
<1>3. stream' \in Seq(Copies) BY <1>1
<1>4. Path(dev, stream)[0] = dev BY <1>2, PathSteps
<1>5. dev' = Path(dev, stream)[1]
  <2>1. 1 \in 1 .. Len(stream) BY <1>2
  <2>2. Path(dev, stream)[1] = Apply(Path(dev, stream)[1 - 1], stream[1])
    BY <1>2, <2>1, PathSteps
  <2>. QED BY <1>2, <1>4, <2>2
<1>6. Final' = Final
  <2>1. Len(stream) - 1 \in 0 .. Len(stream) - 1 BY <1>2
  <2>. QED BY <1>2, <2>1 DEF Final
<1>. QED BY <1>2, <1>3, <1>4, <1>5, <1>6 DEF At

\* A slot to which nothing is on its way is as the device will have it.
LEMMA Untouched ==
  ASSUME Typed, PathInv, NEW s \in Slots,
         \A i \in 1 .. Len(stream) : Writes(stream[i]) => stream[i].slot # s
  PROVE  Final.slot[s] = dev.slot[s]
<1>. PICK n \in Nat : n = Len(stream) BY DEF Typed
<1>1. \A k \in 1 .. n : stream[k] \in Copies BY DEF Typed
<1>. DEFINE Bad == {k \in 0 .. n : At(k).slot[s] # dev.slot[s]}
<1>2. /\ At(0) = dev /\ \A k \in 1 .. n : At(k) = Apply(At(k - 1), stream[k])
  BY PathSteps DEF At
<1>3. CASE Bad # {}
  <2>1. Bad \subseteq Nat OBVIOUS
  <2>2. PICK k \in Bad : \A j \in Bad : k <= j BY <1>3, <2>1, LeastNat
  <2>3. k # 0 BY <1>2
  <2>4. k - 1 \in 0 .. n /\ k - 1 \notin Bad /\ k \in 1 .. n BY <2>2, <2>3
  <2>5. At(k) = Apply(At(k - 1), stream[k]) /\ At(k - 1) \in States /\ stream[k] \in Copies
    BY <1>1, <1>2, <2>4 DEF PathInv
  <2>6. At(k).slot[s] = At(k - 1).slot[s]
    <3>1. CASE Writes(stream[k]) BY <2>4, <2>5, <3>1, ApplyFacts
    <3>2. CASE ~Writes(stream[k])
      <4>1. stream[k].f = "probe" \/ stream[k].f = "active" BY <3>2 DEF Writes
      <4>. QED BY <2>5, <4>1, ApplyFacts
    <3>. QED BY <3>1, <3>2
  <2>. QED BY <2>4, <2>6
<1>4. CASE Bad = {}
  <2>1. n \notin Bad /\ n \in 0 .. n BY <1>4
  <2>. QED BY <2>1 DEF Final, At
<1>. QED BY <1>3, <1>4

-----------------------------------------------------------------------------
(* Steps that neither enqueue nor apply a copy.                            *)

\* What the parts of the state are.
LEMMA Setting ==
  ASSUME CleanUse, IInv
  PROVE  /\ Cur \in Calls /\ Len(stream) \in Nat
         /\ Final \in States /\ dev \in States /\ mir \in States
         /\ Final.active \in Slots /\ mir.active \in Slots
         /\ Final.slot \in [Slots -> SlotStates] /\ mir.slot \in [Slots -> SlotStates]
         /\ known \in [Slots -> Knowledge]
         /\ calls \in 1 .. MaxCalls /\ MaxCalls \in Nat \ {0} /\ 0 \in Keys
         /\ \A i \in 1 .. Len(stream) : stream[i] \in Copies
<1>1. PICK t \in Threads : TRUE BY DEF CleanUse
<1>2. Cur = call[t] /\ call \in [Threads -> Calls] BY <1>1, OneCall DEF IInv, Typed
<1>3. Len(stream) \in Nat /\ \A i \in 1 .. Len(stream) : stream[i] \in Copies
  BY DEF IInv, Typed
<1>4. Final \in States BY <1>3 DEF IInv, PathInv, Final, At
<1>5. mir \in States /\ dev \in States /\ calls \in 1 .. MaxCalls /\ known \in [Slots -> Knowledge]
  BY DEF IInv, Typed
<1>. QED BY <1>2, <1>3, <1>4, <1>5, KeyRotationAssumption DEF States, Keys

LEMMA OtherSlot ==
  /\ \A s \in Slots : Other(s) = 1 - s /\ Other(s) \in Slots /\ Other(s) # s
  /\ \A s, r \in Slots : s # r => s = Other(r)
BY DEF Other, Slots

LEMMA NoCallFacts ==
  /\ NoCall \in Calls /\ NoCall.op = "none" /\ NoCall.key = 0 /\ NoCall.left = 0
  /\ "none" \notin AllOps /\ "none" \notin TypedOps /\ "none" \notin Writers
  /\ "none" \notin Commits
<1>1. 0 \in Keys BY KeyRotationAssumption DEF Keys
<1>. QED BY <1>1, OpNames DEF NoCall, Calls, Slots, TypedOps, Writers, Commits

\* The records a client keeps of a slot after a call that succeeded.
LEMMA LearntType ==
  ASSUME CleanUse, IInv, Cur.op # "none"
  PROVE  /\ Learnt(Cur) \in [Slots -> Knowledge]
         /\ Cur.op \notin Writers => Learnt(Cur) = known
         /\ \A s \in Slots : s # Cur.slot => Learnt(Cur)[s] = known[s]
         /\ Cur.op \in TypedOps => Learnt(Cur)[Cur.slot] = [type |-> Cur.type, key |-> Cur.key]
         /\ Cur.op = "rollback" => Learnt(Cur)[Cur.slot] = Nothing
         /\ Cur.op = "rotate" =>
              Learnt(Cur)[Cur.slot] = [type |-> mir.slot[Cur.slot].type, key |-> Cur.key]
<1>. PICK c \in Calls : c = Cur BY Setting
<1>1. /\ c.slot \in Slots /\ c.type \in {"P256", "AES"} /\ c.key \in Keys
      /\ mir.slot[c.slot].type \in {"EMPTY", "P256", "AES"} /\ 0 \in Keys
      /\ known \in [Slots -> Knowledge]
  BY Setting, SlotFields, CallTypes
<1>2. /\ Nothing \in Knowledge /\ [type |-> c.type, key |-> c.key] \in Knowledge
      /\ [type |-> mir.slot[c.slot].type, key |-> c.key] \in Knowledge
  BY <1>1 DEF Nothing, Knowledge
<1>3. /\ c.op \in TypedOps => c.op # "rollback" /\ c.op # "rotate"
      /\ c.op \in Writers <=> c.op \in TypedOps \/ c.op = "rollback" \/ c.op = "rotate"
  BY DEF TypedOps, Writers
<1>. DEFINE new == CASE c.op = "rollback" -> Nothing
                     [] c.op = "rotate" -> [type |-> mir.slot[c.slot].type, key |-> c.key]
                     [] OTHER -> [type |-> c.type, key |-> c.key]
<1>4. new \in Knowledge BY <1>2
<1>5. CASE c.op \in Writers
  <2>1. Learnt(c) = [known EXCEPT ![c.slot] = new] BY <1>5 DEF Learnt
  <2>2. /\ c.op \in TypedOps => new = [type |-> c.type, key |-> c.key]
        /\ c.op = "rollback" => new = Nothing
        /\ c.op = "rotate" => new = [type |-> mir.slot[c.slot].type, key |-> c.key]
    BY <1>3
  <2>. HIDE DEF new
  <2>. QED BY <1>1, <1>4, <1>5, <2>1, <2>2
<1>6. CASE c.op \notin Writers BY <1>1, <1>3, <1>6 DEF Learnt
<1>. QED BY <1>5, <1>6

\* A slot whose typed copies have all been enqueued and mirrored is as the
\* client is told it is.
LEMMA TypedDone ==
  ASSUME CleanUse, IInv, Cur.op \in TypedOps, Cur.at > MirrorAt[Cur.op],
         Cur.at \in 1 .. Len(Steps[Cur.op])
  PROVE  LET a == Final.slot[Cur.slot] IN
         /\ a.key = Cur.key /\ a.type = Cur.type /\ a.key # 0
         /\ Cur.type = "AES" => a.rk = Cur.key
         /\ Whole(a) /\ Same(a, mir.slot[Cur.slot])
<1>. PICK c \in Calls : c = Cur BY Setting
<1>0. /\ c.slot \in Slots /\ Len(Steps[c.op]) \in 3 .. 5 BY Table, CallTypes, NoCallFacts
<1>. PICK a \in SlotStates : a = Final.slot[c.slot] BY <1>0, Setting
<1>. PICK m \in SlotStates : m = mir.slot[c.slot] BY <1>0, Setting
<1>1. c.at > CopyAt[c.op] /\ CopyAt[c.op] \in Nat
  BY <1>0 DEF CopyAt, MirrorAt, TypedOps
<1>2. Enqueued(c) = Len(Fields(c)) BY <1>0, <1>1 DEF Enqueued
<1>3. \A i \in 1 .. Len(Fields(c)) : a[Fields(c)[i]] = Value(c, Fields(c)[i])
  BY <1>2 DEF IInv, WriteInv
<1>4. \A f \in {"key", "mirror", "ver", "tag", "type", "epoch"} : a[f] = Value(c, f)
  BY <1>3, FieldFacts, SMTT(60)
<1>5. c.type = "AES" => a["rk"] = Value(c, "rk") BY <1>3, FieldFacts, SMTT(60)
<1>6. /\ a.key = c.key /\ a.mirror = c.key /\ a.ver = c.ver /\ a.tag = <<c.ver, c.key>>
      /\ a.type = c.type /\ a.epoch = c.ver /\ (c.type = "AES" => a.rk = c.key)
  BY <1>4, <1>5 DEF Value
<1>7. m = Loaded(m, c.type, c.key, c.ver) BY DEF IInv, WriteInv
<1>8. /\ m.type = c.type /\ m.key = c.key /\ m.mirror = c.key /\ m.ver = c.ver
      /\ m.epoch = c.ver /\ m.tag = <<c.ver, c.key>> /\ (c.type = "AES" => m.rk = c.key)
  BY <1>7 DEF Loaded
<1>9. Same(a, m)
  <2>1. DOMAIN a = {"type", "key", "mirror", "rk", "ver", "epoch", "tag"}
    BY SlotFields DEF FieldNames
  <2>. QED BY <1>6, <1>8, <2>1 DEF Same
<1>10. c.key # 0
  <2>1. c.op # "none" BY NoCallFacts
  <2>2. c.key = calls /\ calls > 1 BY <2>1 DEF IInv, CallInv
  <2>. QED BY <2>2
<1>. QED BY <1>6, <1>9, <1>10 DEF Whole

\* The places of the steps, for the call in progress.
LEMMA CurStep ==
  ASSUME CleanUse, IInv, Cur.op # "none"
  PROVE  /\ Cur.at \in 1 .. Len(Steps[Cur.op]) /\ Cur.op \in AllOps
         /\ Len(Steps[Cur.op]) \in 3 .. 5
         /\ Cur.key = calls /\ calls > 1 /\ Cur.op \in Ops
<1>1. Cur \in Calls BY Setting
<1>2. Cur.at \in 1 .. Len(Steps[Cur.op]) /\ Cur.key = calls /\ calls > 1 /\ Cur.op \in Ops
  BY DEF IInv, CallInv
<1>. QED BY <1>1, <1>2, Table, CallTypes

\* Waiting, and setting or clearing a latch.
LEMMA QuietStep ==
  ASSUME CleanUse, IInv, NEW t \in Threads, Cur.op # "none",
         UNCHANGED <<dev, stream, mir, calls, req>>,
         call' = [call EXCEPT ![t] = Goto(Cur, stream)],
         known' = IF Finishes(Cur) THEN Learnt(Cur) ELSE known,
         Step(Cur) \in {"sync", "latch", "close", "unlatch", "resync", "open"},
         Step(Cur) = "sync" => stream = <<>>,
         inner' \in BOOLEAN,
         outer' = IF Step(Cur) = "close" THEN TRUE
                  ELSE IF Step(Cur) = "open" THEN FALSE ELSE outer
  PROVE  IInv'
<1>. PICK c \in Calls : c = Cur BY Setting
<1>. PICK d : d = Cur' OBVIOUS
<1>. DEFINE N == Len(stream)
<1>1. /\ Cur' = Goto(c, stream) /\ Cur = call[t] /\ call \in [Threads -> Calls]
      /\ \A u \in Threads : u = t
  BY OneCall DEF IInv, Typed
<1>2. c.at \in 1 .. Len(Steps[c.op]) /\ c.op \in AllOps /\ c.key = calls /\ calls > 1
      /\ Len(Steps[c.op]) \in 3 .. 5 /\ c.op \in Ops
  BY CurStep
<1>3. /\ N \in Nat /\ d \in Calls
      /\ Finishes(c) => d = NoCall
      /\ ~Finishes(c) =>
           /\ d.op = c.op /\ d.slot = c.slot /\ d.type = c.type /\ d.key = c.key
           /\ d.ver = c.ver /\ d.at = c.at + 1 /\ d.n = 0
           /\ d.at \in 1 .. Len(Steps[d.op])
           /\ d.left = IF Step(d) = "sync" THEN N ELSE 0
  BY <1>1, <1>2, GotoFacts, Setting
<1>4. Final' = Final /\ \A k \in 0 .. N : At(k)' = At(k) BY PathKept
<1>5. /\ Step(c) \in {"sync", "latch", "close", "unlatch", "resync", "open"}
      /\ c.at # CopyAt[c.op] /\ c.at # MirrorAt[c.op]
  BY <1>2, Table
<1>6. /\ c.op \in {"load", "prepare_typed", "commit"} => c.at = 3 /\ stream = <<>>
      /\ c.op = "prepare" => c.at \in {2, 5} /\ stream = <<>>
      /\ c.op = "rotate" => c.at \in {2, 4} /\ stream = <<>>
      /\ c.op = "rollback" => c.at = 2 /\ stream = <<>>
      /\ c.op = "prepare_typed_async" => c.at \in {1, 4}
      /\ c.op \in {"prepare_async", "commit_async"} => c.at \in {3, 4}
      /\ c.op \in {"fence", "recover"} => stream = <<>>
  <2>1. stream = <<>> \/ c.op \notin {"fence", "recover"} \/ c.at = 1
    BY <1>2 DEF IInv, CallInv
  <2>. QED BY <1>2, <1>5, <2>1, Table
<1>7. Finishes(c) <=>
        \/ c.op \in {"load", "prepare_typed", "commit", "fence", "recover"} /\ c.at = 3
        \/ c.op \in {"prepare_typed_async", "prepare_async", "commit_async"} /\ c.at = 4
        \/ c.op = "prepare" /\ c.at = 5
  <2>1. Finishes(c) <=>
          \/ c.op \in {"load", "prepare_typed", "commit", "rollback", "fence", "recover"}
             /\ c.at = 3
          \/ c.op \in {"prepare_typed_async", "prepare_async", "commit_async"} /\ c.at = 4
          \/ c.op \in {"prepare", "rotate"} /\ c.at = 5
    BY <1>2, Table
  <2>. QED BY <1>6, <2>1
<1>8. known' \in [Slots -> Knowledge] /\ known \in [Slots -> Knowledge]
  BY Setting, LearntType
<1>9. Typed'
  <2>1. call' \in [Threads -> Calls] BY <1>1, <1>3
  <2>2. outer' \in BOOLEAN BY DEF IInv, Typed
  <2>. QED BY <1>8, <2>1, <2>2 DEF IInv, Typed
<1>10. CallInv'
  <2>1. \A s \in Slots : mir'.slot[s].ver <= calls' BY DEF IInv, CallInv
  <2>2. CASE Finishes(c)
    <3>1. Cur' = NoCall BY <1>1, <1>3, <2>2
    <3>. QED BY <2>1, <3>1, NoCallFacts DEF CallInv
  <2>3. CASE ~Finishes(c)
    <3>1. /\ d.op # "none" /\ d.op \in Ops /\ d.at \in 1 .. Len(Steps[d.op])
          /\ d.key = calls' /\ calls' > 1
      BY <1>2, <1>3, <2>3, NoCallFacts
    <3>2. IF Step(d) = "copy" THEN d.n < Len(Fields(d)) ELSE d.n = 0
      <4>1. Len(Fields(d)) > 0 \/ Step(d) # "copy"
        <5>1. CASE d.op \in TypedOps \cup {"rotate"} BY <1>3, <5>1, FieldFacts
        <5>2. CASE d.op \in Commits \cup {"rollback"} BY <1>3, <5>2, OtherFields
        <5>3. CASE d.op \in {"fence", "recover"}
          <6>1. CopyAt[d.op] = 5 BY <5>3 DEF CopyAt
          <6>2. Len(Steps[d.op]) = 3 BY <1>3, <3>1, <5>3, Table
          <6>3. d.at \in 1 .. 3 BY <3>1, <6>2
          <6>. QED BY <1>3, <3>1, <6>1, <6>3, Table
        <5>4. d.op \in TypedOps \cup {"rotate"} \/ d.op \in Commits \cup {"rollback"}
              \/ d.op \in {"fence", "recover"}
          BY <1>2, <1>3, <2>3, OpNames DEF TypedOps, Commits
        <5>. QED BY <5>1, <5>2, <5>3, <5>4
      <4>. QED BY <1>3, <2>3, <4>1
    <3>3. IF Step(d) = "sync" THEN d.left = Len(stream') ELSE d.left = 0 BY <1>3, <2>3
    <3>4. d.ver <= calls' BY <1>2, <1>3, <2>3 DEF IInv, CallInv
    <3>5. d.op \in Writers /\ d.at <= CopyAt[d.op] => \A s \in Slots : mir'.slot[s].ver < calls'
      <4>1. CopyAt[c.op] \in Nat BY <1>2, OpNames DEF CopyAt
      <4>2. d.at <= CopyAt[d.op] => c.at <= CopyAt[c.op] BY <1>2, <1>3, <2>3, <4>1
      <4>. QED BY <1>2, <1>3, <2>3, <4>2 DEF IInv, CallInv
    <3>6. d.op = "rotate" \/ d.op = "rollback" => d.type = "P256"
      BY <1>2, <1>3, <2>3 DEF IInv, CallInv
    <3>7. /\ d.op \in {"fence", "recover"} => stream' = <<>>
          /\ d.op = "rotate" => stream' = <<>>
          /\ d.op = "rollback" => stream' = <<>>
      BY <1>3, <1>6, <2>3
    <3>8. d.op = "prepare_typed_async" /\ d.at >= 2 => outer'
      BY <1>2, <1>3, <1>6, <1>7, <2>3, Table
    <3>. QED BY <2>1, <3>1, <3>2, <3>3, <3>4, <3>5, <3>6, <3>7, <3>8 DEF CallInv
  <2>. QED BY <2>2, <2>3
<1>11. /\ Flipped' <=> Flipped
       /\ d.op # "none" => d.op = c.op /\ d.slot = c.slot /\ d.key = c.key /\ d.at = c.at + 1
       /\ d.op = "none" \/ ~Finishes(c)
  <2>1. CASE Finishes(c)
    <3>1. ~Flipped BY <1>6, <1>7, <2>1 DEF Flipped, Commits
    <3>2. ~Flipped' BY <1>1, <1>3, <2>1, NoCallFacts DEF Flipped
    <3>. QED BY <1>3, <2>1, <3>1, <3>2, NoCallFacts
  <2>2. CASE ~Finishes(c)
    <3>1. ~Flipped \/ (c.op = "rotate" /\ c.at = 4) BY <1>6 DEF Flipped, Commits
    <3>2. Flipped' <=> (c.op = "rotate" /\ c.at = 4)
      BY <1>1, <1>2, <1>3, <1>6, <2>2 DEF Flipped, Commits
    <3>3. Flipped' <=> Flipped BY <3>1, <3>2 DEF Flipped
    <3>. QED BY <1>3, <2>2, <3>3
  <2>. QED BY <2>1, <2>2
<1>12. ActiveInv'
  <2>1. Final'.active = IF Flipped' THEN Cur'.slot ELSE mir'.active
    <3>1. Flipped => d.op # "none"
      BY <1>3, <1>6, <1>7, <1>2, NoCallFacts DEF Flipped, Commits
    <3>. QED BY <1>4, <1>11, <3>1 DEF IInv, ActiveInv
  <2>2. Cur'.op \in Writers \ {"load"} /\ ~Flipped' => Cur'.slot = Other(Final'.active)
    BY <1>4, <1>11, NoCallFacts DEF IInv, ActiveInv
  <2>3. ~(Cur'.op \in Commits /\ Cur'.at = 1) BY <1>2, <1>11, NoCallFacts
  <2>4. ASSUME NEW i \in 1 .. N, stream[i].f = "probe"
        PROVE  stream[i].v <= calls /\ stream[i].v # Cur'.key
    <3>1. stream[i].v <= calls BY <2>4 DEF IInv, ActiveInv
    <3>2. stream[i].v # 0 BY <2>4, CopyTypes, Setting
    <3>3. CASE d.op = "none" BY <1>3, <1>11, <1>2, <3>1, <3>2, <3>3, NoCallFacts
    <3>4. CASE d.op # "none"
      <4>1. stream[i].v = c.key => c.op = "prepare" BY <2>4 DEF IInv, ActiveInv
      <4>2. c.op # "prepare" BY <1>6, <2>4
      <4>. QED BY <1>11, <3>1, <3>4, <4>1, <4>2
    <3>. QED BY <3>3, <3>4
  <2>. QED BY <2>1, <2>2, <2>3, <2>4 DEF ActiveInv
<1>13. ASSUME Finishes(c), c.op \in Writers
       PROVE  /\ c.op \in TypedOps /\ c.at > MirrorAt[c.op]
              /\ stream = <<>> \/ outer'
  <2>1. /\ c.op \in TypedOps /\ c.at > MirrorAt[c.op]
        /\ c.op \in {"load", "prepare", "prepare_typed"} \/ c.op = "prepare_typed_async"
           \/ (c.op = "prepare_async" /\ c.at = 4)
    BY <1>6, <1>7, <1>13 DEF Writers, TypedOps, MirrorAt
  <2>2. CASE c.op = "prepare_typed_async"
    <3>1. outer BY <1>7, <1>13, <2>2 DEF IInv, CallInv
    <3>. QED BY <1>2, <2>1, <2>2, <3>1, Table
  <2>3. CASE c.op = "prepare_async" /\ c.at = 4 BY <1>2, <2>1, <2>3, Table
  <2>. QED BY <1>6, <2>1, <2>2, <2>3
<1>14. KnownInv'
  <2>1. ASSUME NEW s \in Slots, ~Writing(s)', known'[s] # Unsure
        PROVE  /\ Final.slot[s].key = known'[s].key /\ Final.slot[s].type = known'[s].type
               /\ known'[s].type = "AES" => Final.slot[s].rk = known'[s].key
               /\ known'[s].key # 0 => Whole(Final.slot[s])
               /\ Same(Final.slot[s], mir.slot[s])
    <3>1. CASE ~Writing(s)
      <4>1. known'[s] = known[s]
        <5>1. CASE ~Finishes(c) BY <5>1
        <5>2. CASE Finishes(c) /\ c.op \notin Writers BY <5>2, <1>2, LearntType, NoCallFacts
        <5>3. CASE Finishes(c) /\ c.slot # s BY <5>3, <1>2, LearntType, NoCallFacts
        <5>. QED BY <3>1, <5>1, <5>2, <5>3 DEF Writing
      <4>. QED BY <2>1, <3>1, <4>1 DEF IInv, KnownInv
    <3>2. CASE Writing(s)
      <4>1. c.op \in Writers /\ c.slot = s BY <3>2 DEF Writing
      <4>2. Finishes(c) BY <2>1, <1>3, <4>1 DEF Writing
      <4>3. c.op \in TypedOps /\ c.at > MirrorAt[c.op] BY <1>13, <4>1, <4>2
      <4>4. known'[s] = [type |-> c.type, key |-> c.key]
        BY <1>2, <4>1, <4>2, <4>3, LearntType, NoCallFacts
      <4>5. LET a == Final.slot[c.slot] IN
            /\ a.key = c.key /\ a.type = c.type /\ a.key # 0
            /\ c.type = "AES" => a.rk = c.key
            /\ Whole(a) /\ Same(a, mir.slot[c.slot])
        BY <1>2, <4>3, TypedDone
      <4>. QED BY <4>1, <4>4, <4>5
    <3>. QED BY <3>1, <3>2
  <2>2. ASSUME NEW s \in Slots
        PROVE  /\ known'[s].type = "UNSURE" => known'[s] = Unsure
               /\ known'[s] = Unsure => known[s] = Unsure
    <3>1. CASE known'[s] = known[s] BY <3>1 DEF IInv, KnownInv
    <3>2. CASE known'[s] # known[s]
      <4>1. Finishes(c) /\ c.op \in Writers /\ c.slot = s
        BY <1>2, <3>2, LearntType, NoCallFacts
      <4>2. c.op \in TypedOps BY <1>13, <4>1
      <4>3. known'[s] = [type |-> c.type, key |-> c.key]
        BY <1>2, <4>1, <4>2, LearntType, NoCallFacts
      <4>. QED BY <4>3, CallTypes DEF Unsure
    <3>. QED BY <3>1, <3>2
  <2>. QED BY <1>4, <2>1, <2>2 DEF IInv, KnownInv
<1>15. WriteInv'
  <2>1. CASE d.op = "none" BY <2>1, NoCallFacts, OpNames DEF WriteInv
  <2>2. CASE d.op # "none"
    <3>1. /\ d.op = c.op /\ d.slot = c.slot /\ d.at = c.at + 1 /\ d.n = 0
          /\ d.type = c.type /\ d.key = c.key /\ d.ver = c.ver
      BY <1>3, <1>11, <2>2
    <3>2. CopyAt[c.op] \in Nat /\ MirrorAt[c.op] \in Nat BY <1>2, OpNames DEF CopyAt, MirrorAt
    <3>3. Enqueued(d) = Enqueued(c) \/ Enqueued(d) = 0
      BY <1>2, <1>5, <3>1, <3>2 DEF Enqueued, Fields
    <3>4. Fields(d) = Fields(c) /\ \A f : Value(d, f) = Value(c, f)
      BY <3>1 DEF Fields, Value
    <3>5. c.op \in TypedOps \cup {"rotate"} =>
            \A i \in 1 .. Enqueued(d) : Final'.slot[d.slot][Fields(d)[i]] = Value(d, Fields(d)[i])
      BY <1>4, <3>1, <3>3, <3>4 DEF IInv, WriteInv
    <3>6. /\ d.at > MirrorAt[d.op] => c.at > MirrorAt[c.op]
          /\ d.at > CopyAt[d.op] => c.at > CopyAt[c.op]
      BY <1>2, <1>5, <3>1, <3>2
    <3>7. /\ d.op \in TypedOps /\ d.at > MirrorAt[d.op] =>
               mir'.slot[d.slot] = Loaded(mir'.slot[d.slot], d.type, d.key, d.ver)
          /\ d.op = "rollback" /\ d.at > CopyAt[d.op] => Final'.slot[d.slot] = EmptySlot
          /\ d.op = "rotate" => /\ Final'.slot[d.slot].type = mir'.slot[d.slot].type
                                /\ Final'.slot[d.slot].type # "AES"
                                /\ Final'.slot[d.slot].epoch = mir'.slot[d.slot].epoch
      BY <1>4, <3>1, <3>6 DEF IInv, WriteInv
    <3>. QED BY <3>1, <3>5, <3>7 DEF WriteInv
  <2>. QED BY <2>1, <2>2
<1>16. PathInv'
  <2>1. CASE c.op = "load" /\ Finishes(c)
    <3>1. N = 0 /\ stream = <<>> BY <1>6, <2>1
    <3>2. At(0)' = Final /\ At(0) = Final BY <1>4, <3>1 DEF Final, At
    <3>3. Whole(Final.slot[Final.active])
      <4>1. CASE c.slot = Final.active
        <5>1. c.op \in TypedOps /\ c.at > MirrorAt[c.op] BY <1>13, <2>1 DEF Writers, TypedOps
        <5>. QED BY <1>2, <4>1, <5>1, TypedDone
      <4>2. CASE c.slot # Final.active
        BY <3>1, <3>2, <4>2 DEF IInv, PathInv, Loaded1
      <4>. QED BY <4>1, <4>2
    <3>4. Final \in States BY Setting
    <3>. QED BY <3>1, <3>2, <3>3, <3>4 DEF PathInv
  <2>2. CASE ~(c.op = "load" /\ Finishes(c))
    <3>1. \A s : Loaded1(s)' <=> Loaded1(s)
      BY <1>3, <1>2, <2>2, NoCallFacts DEF Loaded1
    <3>. QED BY <1>4, <3>1 DEF IInv, PathInv
  <2>. QED BY <2>1, <2>2
<1>17. LatchInv'
  <2>. SUFFICES ASSUME NEW i \in 1 .. N, ~outer'
                PROVE  /\ ~stream[i].async \/ Cur'.op = "prepare_async"
                          \/ (Cur'.op = "commit_async" /\ Cur'.at >= 2)
                       /\ Writes(stream[i]) =>
                            \/ Writing(stream[i].slot)'
                            \/ known'[stream[i].slot] = Unsure
    BY DEF LatchInv
  <2>1. stream # <<>> /\ stream[i].slot \in Slots BY Setting, CopyTypes
  <2>2. ~outer
    <3>1. Step(c) # "open" BY <1>2, <1>6, <2>1, Table
    <3>. QED BY <3>1
  <2>3. /\ ~stream[i].async \/ c.op = "prepare_async" \/ (c.op = "commit_async" /\ c.at >= 2)
        /\ Writes(stream[i]) =>
             \/ Writing(stream[i].slot) \/ known[stream[i].slot] = Unsure
    BY <2>2 DEF IInv, LatchInv
  <2>4. c.op \in {"prepare_async", "commit_async"} => ~Finishes(c)
    BY <1>2, <1>7, Table
  <2>5. ~stream[i].async \/ Cur'.op = "prepare_async"
           \/ (Cur'.op = "commit_async" /\ Cur'.at >= 2)
    BY <1>2, <1>3, <2>3, <2>4
  <2>6. ASSUME Writes(stream[i])
        PROVE  Writing(stream[i].slot)' \/ known'[stream[i].slot] = Unsure
    <3>1. CASE Finishes(c) /\ c.op \in Writers BY <1>13, <2>1, <3>1
    <3>2. CASE ~(Finishes(c) /\ c.op \in Writers)
      <4>1. known' = known BY <1>2, <3>2, LearntType, NoCallFacts
      <4>2. Writing(stream[i].slot) => Writing(stream[i].slot)' BY <1>3, <3>2 DEF Writing
      <4>. QED BY <2>3, <2>6, <4>1, <4>2
    <3>. QED BY <3>1, <3>2
  <2>. QED BY <2>5, <2>6
<1>18. ReqInv'
  <2>1. ASSUME NEW s \in Slots, ~Writing(s)
        PROVE  ~Writing(s)' /\ known'[s] = known[s]
    <3>1. known'[s] = known[s]
      <4>1. CASE ~Finishes(c) BY <4>1
      <4>2. CASE Finishes(c) BY <1>2, <2>1, <4>2, LearntType, NoCallFacts DEF Writing
      <4>. QED BY <4>1, <4>2
    <3>2. ~Writing(s)' BY <1>3, <2>1, NoCallFacts DEF Writing
    <3>. QED BY <3>1, <3>2
  <2>2. req.slot \in Slots BY DEF IInv, Typed, Submitted
  <2>3. OwnKey' BY DEF IInv, ReqInv, OwnKey
  <2>. QED BY <2>1, <2>2, <2>3 DEF IInv, ReqInv
<1>. QED BY <1>9, <1>10, <1>12, <1>14, <1>15, <1>16, <1>17, <1>18 DEF IInv

\* What every step that goes on to the next, or ends the call, has in common.
LEMMA AdvanceFacts ==
  ASSUME CleanUse, IInv, NEW t \in Threads, Cur.op # "none", NEW str, Len(str) \in Nat,
         call' = [call EXCEPT ![t] = Goto(Cur, str)],
         known' = IF Finishes(Cur) THEN Learnt(Cur) ELSE known
  PROVE  /\ Cur = call[t] /\ Cur' = Goto(Cur, str) /\ Cur' \in Calls
         /\ call' \in [Threads -> Calls] /\ \A u \in Threads : u = t
         /\ Finishes(Cur) => Cur' = NoCall
         /\ ~Finishes(Cur) =>
              /\ Cur'.op = Cur.op /\ Cur'.slot = Cur.slot /\ Cur'.type = Cur.type
              /\ Cur'.key = Cur.key /\ Cur'.ver = Cur.ver /\ Cur'.at = Cur.at + 1
              /\ Cur'.n = 0 /\ Cur'.at \in 1 .. Len(Steps[Cur'.op])
              /\ Cur'.left = IF Step(Cur') = "sync" THEN Len(str) ELSE 0
         /\ known' \in [Slots -> Knowledge]
         /\ \A s \in Slots : ~Writing(s) => ~Writing(s)' /\ known'[s] = known[s]
<1>. PICK c \in Calls : c = Cur BY Setting
<1>1. Cur = call[t] /\ Cur' = call'[t] /\ call \in [Threads -> Calls] /\ \A u \in Threads : u = t
  BY OneCall DEF IInv, Typed
<1>2. Cur' = Goto(c, str) BY <1>1
<1>3. c.at \in 1 .. Len(Steps[c.op]) BY CurStep
<1>4. /\ Goto(c, str) \in Calls
      /\ Finishes(c) => Goto(c, str) = NoCall
      /\ ~Finishes(c) =>
           LET d == Goto(c, str) IN
           /\ d.op = c.op /\ d.slot = c.slot /\ d.type = c.type /\ d.key = c.key
           /\ d.ver = c.ver /\ d.at = c.at + 1 /\ d.n = 0
           /\ d.at \in 1 .. Len(Steps[d.op])
           /\ d.left = IF Step(d) = "sync" THEN Len(str) ELSE 0
  BY <1>3, GotoFacts
<1>5. call' \in [Threads -> Calls] BY <1>1, <1>4
<1>6. known' \in [Slots -> Knowledge] BY LearntType, Setting
<1>7. ASSUME NEW s \in Slots, ~Writing(s) PROVE ~Writing(s)' /\ known'[s] = known[s]
  <2>1. known'[s] = known[s]
    <3>1. CASE ~Finishes(c) BY <3>1
    <3>2. CASE Finishes(c) BY <1>7, <3>2, LearntType DEF Writing
    <3>. QED BY <3>1, <3>2
  <2>2. ~Writing(s)' BY <1>2, <1>4, <1>7, NoCallFacts DEF Writing
  <2>. QED BY <2>1, <2>2
<1>. QED BY <1>1, <1>2, <1>4, <1>5, <1>6, <1>7

\* The host's mirror is brought up to what the call has enqueued.
LEMMA MirrorStep ==
  ASSUME CleanUse, IInv, NEW t \in Threads, Cur.op # "none", UpdateMirror(t)
  PROVE  IInv'
<1>. PICK c \in Calls : c = Cur BY Setting
<1>. PICK d : d = Cur' OBVIOUS
<1>. PICK a \in SlotStates : a = Final.slot[c.slot] BY Setting, CallTypes
<1>. PICK m \in SlotStates : m = mir.slot[c.slot] BY Setting, CallTypes
<1>. DEFINE N == Len(stream)
<1>0. Cur = call[t] BY OneCall
<1>1. UNCHANGED <<dev, stream, calls, req, inner, outer>> /\ Step(c) = "mirror"
      /\ call' = [call EXCEPT ![t] = Goto(Cur, stream)]
      /\ known' = IF Finishes(Cur) THEN Learnt(Cur) ELSE known
  BY <1>0 DEF UpdateMirror, Advance
<1>2. c.at \in 1 .. Len(Steps[c.op]) /\ c.op \in AllOps /\ c.key = calls /\ calls > 1
      /\ Len(Steps[c.op]) \in 3 .. 5 /\ c.op \in Ops /\ c.slot \in Slots
  BY CurStep, CallTypes
<1>3. /\ N \in Nat /\ d \in Calls
      /\ Finishes(c) => d = NoCall
      /\ ~Finishes(c) =>
           /\ d.op = c.op /\ d.slot = c.slot /\ d.type = c.type /\ d.key = c.key
           /\ d.ver = c.ver /\ d.at = c.at + 1 /\ d.n = 0
           /\ d.at \in 1 .. Len(Steps[d.op])
           /\ d.left = IF Step(d) = "sync" THEN N ELSE 0
      /\ call' \in [Threads -> Calls] /\ known' \in [Slots -> Knowledge]
      /\ \A s \in Slots : ~Writing(s) => ~Writing(s)' /\ known'[s] = known[s]
  BY <1>1, AdvanceFacts, Setting
<1>4. Final' = Final /\ \A k \in 0 .. N : At(k)' = At(k) BY <1>1, PathKept
<1>5. c.at = MirrorAt[c.op] /\ c.at > CopyAt[c.op] /\ CopyAt[c.op] \in Nat
      /\ c.op \in TypedOps \cup Commits \cup {"rotate", "rollback"}
  <2>1. c.at = MirrorAt[c.op] BY <1>1, <1>2, Table
  <2>2. c.op \notin {"fence", "recover"}
    <3>1. c.op \in {"fence", "recover"} => c.at <= 3
      <4>1. c.op # "none" BY <1>2, NoCallFacts
      <4>. QED BY <1>2, <4>1, Table
    <3>. QED BY <2>1, <3>1 DEF MirrorAt
  <2>. QED BY <1>2, <2>1, <2>2, OpNames DEF CopyAt, MirrorAt, TypedOps, Commits
<1>6. /\ Finishes(c) <=> c.op \in {"rotate", "rollback"}
      /\ c.op \in {"rotate", "rollback"} => stream = <<>> /\ d = NoCall
      /\ c.op \in Commits => c.at = 2
      /\ c.op = "rotate" => c.at = 5
  <2>1. Finishes(c) <=> c.op \in {"rotate", "rollback"}
    BY <1>2, <1>5, Table DEF MirrorAt, TypedOps, Commits
  <2>2. /\ c.op \in Commits => c.at = 2
        /\ c.op = "rotate" => c.at = 5
        /\ c.op = "rollback" => c.at = 3
    BY <1>5 DEF MirrorAt, Commits
  <2>3. c.op \in {"rotate", "rollback"} => stream = <<>> BY <2>2 DEF IInv, CallInv
  <2>. QED BY <1>3, <2>1, <2>2, <2>3
\* The new mirror.
<1>7. /\ mir' \in States
      /\ \A s \in Slots : s # c.slot => mir'.slot[s] = mir.slot[s]
      /\ c.op \in TypedOps =>
           mir'.slot[c.slot] = Loaded(m, c.type, c.key, c.ver) /\ mir'.active = mir.active
      /\ c.op = "rotate" =>
           /\ mir'.active = c.slot
           /\ mir'.slot[c.slot] = [m EXCEPT !.key = c.key, !.mirror = c.key,
                                            !.ver = c.ver, !.tag = <<c.ver, c.key>>]
      /\ c.op = "rollback" => mir'.slot[c.slot] = EmptySlot /\ mir'.active = mir.active
      /\ c.op \in Commits => mir'.slot = mir.slot /\ mir'.active = c.slot
  <2>1. /\ mir = [slot |-> mir.slot, active |-> mir.active]
        /\ mir.slot \in [Slots -> SlotStates] /\ mir.active \in Slots
    BY DEF IInv, Typed, States
  <2>2. /\ c.op \in TypedOps => c.op # "rotate" /\ c.op # "rollback" /\ c.op \notin Commits
        /\ c.op \in Commits => c.op # "rotate" /\ c.op # "rollback"
    BY DEF TypedOps, Commits
  <2>3. /\ c.key \in Keys /\ c.ver \in Keys /\ c.type \in {"P256", "AES"} BY CallTypes
  <2>4. CASE c.op \in TypedOps
    <3>. DEFINE new == Loaded(m, c.type, c.key, c.ver)
    <3>1. new \in SlotStates BY <2>3, SlotFields DEF Loaded, SlotStates
    <3>2. mir' = [mir EXCEPT !.slot = [mir.slot EXCEPT ![c.slot] = new]]
      BY <1>0, <2>2, <2>4 DEF UpdateMirror
    <3>. HIDE DEF new
    <3>3. mir' = [slot |-> [mir.slot EXCEPT ![c.slot] = new], active |-> mir.active]
      BY <2>1, <3>2
    <3>4. mir' \in States BY <1>2, <2>1, <3>1, <3>3 DEF States
    <3>. QED BY <1>2, <2>1, <2>2, <2>4, <3>3, <3>4 DEF new
  <2>5. CASE c.op = "rotate"
    <3>. DEFINE new == [m EXCEPT !.key = c.key, !.mirror = c.key,
                                 !.ver = c.ver, !.tag = <<c.ver, c.key>>]
    <3>1. new \in SlotStates BY <2>3, SlotFields, ZenonT(60) DEF SlotStates
    <3>2. mir' = [slot |-> [mir.slot EXCEPT ![c.slot] = new], active |-> c.slot]
      BY <1>0, <2>2, <2>5 DEF UpdateMirror
    <3>. HIDE DEF new
    <3>3. mir' \in States BY <1>2, <2>1, <3>1, <3>2 DEF States
    <3>. QED BY <1>2, <2>1, <2>2, <2>5, <3>2, <3>3 DEF new
  <2>6. CASE c.op = "rollback"
    <3>1. mir' = [mir EXCEPT !.slot = [mir.slot EXCEPT ![c.slot] = EmptySlot]]
      BY <1>0, <2>2, <2>6 DEF UpdateMirror
    <3>2. mir' = [slot |-> [mir.slot EXCEPT ![c.slot] = EmptySlot], active |-> mir.active]
      BY <2>1, <3>1
    <3>3. mir' \in States BY <1>2, <2>1, <3>2, EmptyIsSlot DEF States
    <3>. QED BY <1>2, <2>1, <2>2, <2>6, <3>2, <3>3
  <2>7. CASE c.op \in Commits
    <3>1. mir' = [mir EXCEPT !.active = c.slot] BY <1>0, <2>2, <2>7 DEF UpdateMirror
    <3>2. mir' = [slot |-> mir.slot, active |-> c.slot] BY <2>1, <3>1
    <3>3. mir' \in States BY <1>2, <2>1, <3>2 DEF States
    <3>. QED BY <2>2, <2>7, <3>2, <3>3
  <2>. QED BY <1>5, <2>4, <2>5, <2>6, <2>7
<1>8. mir'.slot[c.slot].ver <= calls
  <2>1. c.ver <= calls /\ m.ver <= calls BY <1>2 DEF IInv, CallInv
  <2>2. c.op = "rotate" =>
          [m EXCEPT !.key = c.key, !.mirror = c.key, !.ver = c.ver, !.tag = <<c.ver, c.key>>].ver
            = c.ver
    BY SlotFields DEF FieldNames
  <2>3. c.op \in TypedOps => mir'.slot[c.slot].ver = c.ver BY <1>7 DEF Loaded
  <2>4. c.op = "rollback" => mir'.slot[c.slot].ver = 0 BY <1>7 DEF EmptySlot
  <2>5. c.op = "rotate" => mir'.slot[c.slot].ver = c.ver BY <1>7, <2>2
  <2>6. c.op \in Commits => mir'.slot[c.slot].ver = m.ver BY <1>7
  <2>7. calls \in Nat BY Setting
  <2>. QED BY <1>2, <1>5, <2>1, <2>3, <2>4, <2>5, <2>6, <2>7
<1>9. Typed' BY <1>1, <1>3, <1>7 DEF IInv, Typed
<1>10. CallInv'
  <2>1. \A s \in Slots : mir'.slot[s].ver <= calls' BY <1>1, <1>7, <1>8 DEF IInv, CallInv
  <2>2. CASE Finishes(c) BY <1>3, <2>1, <2>2, NoCallFacts DEF CallInv
  <2>3. CASE ~Finishes(c)
    <3>1. /\ d.op # "none" /\ d.op \in Ops /\ d.at \in 1 .. Len(Steps[d.op])
          /\ d.key = calls' /\ calls' > 1
      BY <1>1, <1>2, <1>3, <2>3, NoCallFacts
    <3>2. Step(d) # "copy" /\ d.n = 0 /\ ~(d.at <= CopyAt[d.op])
      BY <1>2, <1>3, <1>5, <2>3, <3>1, Table
    <3>3. IF Step(d) = "sync" THEN d.left = Len(stream') ELSE d.left = 0
      BY <1>1, <1>3, <2>3
    <3>4. d.ver <= calls' BY <1>1, <1>2, <1>3, <2>3 DEF IInv, CallInv
    <3>5. d.op \notin {"rotate", "rollback", "fence", "recover"}
      BY <1>3, <1>5, <1>6, <2>3 DEF TypedOps, Commits
    <3>6. d.op = "prepare_typed_async" /\ d.at >= 2 => outer'
      <4>1. d.op = "prepare_typed_async" => c.at = 3 BY <1>3, <1>5, <2>3 DEF MirrorAt
      <4>. QED BY <1>1, <1>3, <2>3, <4>1 DEF IInv, CallInv
    <3>. QED BY <2>1, <3>1, <3>2, <3>3, <3>4, <3>5, <3>6 DEF CallInv
  <2>. QED BY <2>2, <2>3
<1>11. ActiveInv'
  <2>1. /\ Flipped <=> c.op \in Commits \/ c.op = "rotate"
        /\ ~Flipped'
    <3>1. Flipped <=> c.op \in Commits \/ c.op = "rotate" BY <1>6 DEF Flipped
    <3>2. ~Flipped'
      BY <1>3, <1>6, NoCallFacts DEF Flipped, TypedOps, Commits
    <3>. QED BY <3>1, <3>2
  <2>2. Final'.active = mir'.active
    BY <1>4, <1>5, <1>7, <2>1 DEF IInv, ActiveInv, TypedOps, Commits
  <2>3. Cur'.op \in Writers \ {"load"} => Cur'.slot = Other(Final'.active)
    <3>1. Cur'.op \in Writers => c.op \in TypedOps /\ ~Finishes(c)
      BY <1>3, <1>5, <1>6, NoCallFacts DEF Writers, TypedOps, Commits
    <3>2. c.op \in TypedOps => ~Flipped BY <2>1 DEF TypedOps, Commits
    <3>. QED BY <1>3, <1>4, <3>1, <3>2 DEF IInv, ActiveInv, Writers
  <2>4. ~(Cur'.op \in Commits /\ Cur'.at = 1) BY <1>2, <1>3, NoCallFacts
  <2>5. ASSUME NEW i \in 1 .. N, stream[i].f = "probe"
        PROVE  stream[i].v <= calls /\ stream[i].v # Cur'.key
    <3>1. stream[i].v <= calls BY <2>5 DEF IInv, ActiveInv
    <3>2. stream[i].v # 0 BY <2>5, CopyTypes, Setting
    <3>3. CASE Finishes(c) BY <1>3, <3>1, <3>2, <3>3, NoCallFacts
    <3>4. CASE ~Finishes(c)
      <4>1. stream[i].v = c.key => c.op = "prepare" /\ c.at = 2
        BY <2>5 DEF IInv, ActiveInv
      <4>2. c.op = "prepare" => c.at = 4 BY <1>5 DEF MirrorAt
      <4>. QED BY <1>3, <3>1, <3>4, <4>1, <4>2
    <3>. QED BY <3>3, <3>4
  <2>. QED BY <1>1, <2>1, <2>2, <2>3, <2>4, <2>5 DEF ActiveInv
\* The slot of a rotation or a rollback that has finished.
<1>12. ASSUME c.op = "rotate" \/ c.op = "rollback"
       PROVE  /\ a.key = known'[c.slot].key /\ a.type = known'[c.slot].type
              /\ known'[c.slot].type # "AES" /\ known'[c.slot] # Unsure
              /\ known'[c.slot].type # "UNSURE"
              /\ known'[c.slot].key # 0 => Whole(a)
              /\ Same(a, mir'.slot[c.slot])
  <2>1. DOMAIN a = FieldNames BY SlotFields
  <2>2. CASE c.op = "rotate"
    <3>1. Enqueued(c) = Len(Fields(c)) BY <1>2, <1>5 DEF Enqueued
    <3>2. c.op \in TypedOps \cup {"rotate"} BY <2>2
    <3>3. \A i \in 1 .. Len(Fields(c)) : a[Fields(c)[i]] = Value(c, Fields(c)[i])
      BY <3>1, <3>2 DEF IInv, WriteInv
    <3>4. \A f \in {"key", "mirror", "ver", "tag"} : a[f] = Value(c, f)
      BY <3>2, <3>3, FieldFacts
    <3>5. /\ a.key = c.key /\ a.mirror = c.key /\ a.ver = c.ver /\ a.tag = <<c.ver, c.key>>
      BY <3>4 DEF Value
    <3>6. a.type = m.type /\ a.type # "AES" /\ a.epoch = m.epoch
      BY <2>2 DEF IInv, WriteInv
    <3>7. known'[c.slot] = [type |-> m.type, key |-> c.key]
      BY <1>1, <1>6, <2>2, LearntType
    <3>8. Same(a, mir'.slot[c.slot])
      <4>. PICK b : b = mir'.slot[c.slot] OBVIOUS
      <4>1. b = [m EXCEPT !.key = c.key, !.mirror = c.key,
                          !.ver = c.ver, !.tag = <<c.ver, c.key>>]
        BY <1>7, <2>2
      <4>2. /\ b.key = c.key /\ b.mirror = c.key /\ b.ver = c.ver /\ b.tag = <<c.ver, c.key>>
            /\ b.type = m.type /\ b.epoch = m.epoch
        BY <4>1, SlotFields DEF FieldNames
      <4>. QED BY <2>1, <3>5, <3>6, <4>2 DEF Same, FieldNames
    <3>9. m.type # "UNSURE" BY SlotFields
    <3>. QED BY <1>2, <3>5, <3>6, <3>7, <3>8, <3>9 DEF Whole, Unsure
  <2>3. CASE c.op = "rollback"
    <3>1. a = EmptySlot BY <1>5, <2>3 DEF IInv, WriteInv
    <3>2. known'[c.slot] = Nothing BY <1>1, <1>6, <2>3, LearntType
    <3>3. mir'.slot[c.slot] = EmptySlot BY <1>7, <2>3
    <3>. QED BY <3>1, <3>2, <3>3 DEF EmptySlot, Nothing, Unsure, Same
  <2>. QED BY <1>12, <2>2, <2>3
<1>13. KnownInv'
  <2>1. ASSUME NEW s \in Slots, ~Writing(s)', known'[s] # Unsure
        PROVE  /\ Final.slot[s].key = known'[s].key /\ Final.slot[s].type = known'[s].type
               /\ known'[s].type = "AES" => Final.slot[s].rk = known'[s].key
               /\ known'[s].key # 0 => Whole(Final.slot[s])
               /\ Same(Final.slot[s], mir'.slot[s])
    <3>1. CASE ~Writing(s)
      <4>1. known'[s] = known[s] BY <1>3, <3>1
      <4>2. mir'.slot[s] = mir.slot[s]
        <5>1. s # c.slot \/ c.op \notin Writers BY <3>1 DEF Writing
        <5>2. c.op \in Commits \/ s # c.slot BY <1>5, <5>1 DEF Writers
        <5>. QED BY <1>7, <5>2
      <4>. QED BY <2>1, <3>1, <4>1, <4>2 DEF IInv, KnownInv
    <3>2. CASE Writing(s)
      <4>1. c.op \in Writers /\ c.slot = s BY <3>2 DEF Writing
      <4>2. Finishes(c) BY <1>3, <2>1, <4>1 DEF Writing
      <4>. QED BY <1>6, <1>12, <4>1, <4>2
    <3>. QED BY <3>1, <3>2
  <2>2. ASSUME NEW s \in Slots
        PROVE  /\ known'[s].type = "UNSURE" => known'[s] = Unsure
               /\ known'[s] = Unsure => known[s] = Unsure
    <3>1. CASE known'[s] = known[s] BY <3>1 DEF IInv, KnownInv
    <3>2. CASE known'[s] # known[s]
      <4>1. Writing(s) BY <1>3, <3>2
      <4>2. c.slot = s BY <4>1 DEF Writing
      <4>3. Finishes(c) BY <1>1, <3>2
      <4>. QED BY <1>6, <1>12, <4>2, <4>3
    <3>. QED BY <3>1, <3>2
  <2>. QED BY <1>4, <2>1, <2>2 DEF IInv, KnownInv
<1>14. WriteInv'
  <2>1. CASE c.op \in TypedOps
    <3>1. /\ d.op = c.op /\ d.slot = c.slot /\ d.at = c.at + 1
          /\ d.type = c.type /\ d.key = c.key /\ d.ver = c.ver
      BY <1>3, <1>6, <2>1 DEF TypedOps
    <3>2. Enqueued(d) = Len(Fields(c)) /\ Enqueued(c) = Len(Fields(c))
      BY <1>2, <1>5, <3>1 DEF Enqueued, Fields
    <3>3. Fields(d) = Fields(c) /\ \A f : Value(d, f) = Value(c, f)
      BY <3>1 DEF Fields, Value
    <3>4. \A i \in 1 .. Enqueued(d) : Final'.slot[d.slot][Fields(d)[i]] = Value(d, Fields(d)[i])
      BY <1>4, <2>1, <3>1, <3>2, <3>3 DEF IInv, WriteInv
    <3>5. mir'.slot[d.slot] = Loaded(mir'.slot[d.slot], d.type, d.key, d.ver)
      BY <1>7, <2>1, <3>1 DEF Loaded
    <3>6. d.op # "rollback" /\ d.op # "rotate" BY <2>1, <3>1 DEF TypedOps
    <3>. QED BY <3>4, <3>5, <3>6 DEF WriteInv
  <2>2. CASE c.op \notin TypedOps
    <3>1. d.op \notin TypedOps \cup {"rotate", "rollback"}
      BY <1>3, <1>5, <1>6, <2>2, NoCallFacts DEF Commits, NoCall
    <3>. QED BY <3>1 DEF WriteInv
  <2>. QED BY <2>1, <2>2
<1>15. PathInv'
  <2>1. c.op = "load" => ~Finishes(c) BY <1>6
  <2>2. \A s : Loaded1(s)' <=> Loaded1(s) BY <1>3, <2>1, NoCallFacts DEF Loaded1
  <2>. QED BY <1>1, <1>4, <2>2 DEF IInv, PathInv
<1>16. LatchInv'
  <2>1. CASE Finishes(c) BY <1>1, <1>6, <2>1 DEF LatchInv
  <2>2. CASE ~Finishes(c)
    <3>1. known' = known /\ \A s : Writing(s)' <=> Writing(s) BY <1>1, <1>3, <2>2 DEF Writing
    <3>. QED BY <1>1, <1>2, <1>3, <2>2, <3>1 DEF IInv, LatchInv
  <2>. QED BY <2>1, <2>2
<1>17. ReqInv'
  <2>1. req.slot \in Slots BY DEF IInv, Typed, Submitted
  <2>2. OwnKey' BY <1>1 DEF IInv, ReqInv, OwnKey
  <2>. QED BY <1>1, <1>3, <2>1, <2>2 DEF IInv, ReqInv
<1>. QED BY <1>9, <1>10, <1>11, <1>13, <1>14, <1>15, <1>16, <1>17 DEF IInv

-----------------------------------------------------------------------------
(* Steps that enqueue a copy.                                              *)

\* A call with one field changed.
LEMMA CallWith ==
  ASSUME NEW c \in Calls, NEW v \in Keys, NEW n \in 0 .. 7
  PROVE  /\ [c EXCEPT !.ver = v] \in Calls /\ [c EXCEPT !.n = n] \in Calls
         /\ LET d == [c EXCEPT !.ver = v] IN
              /\ d.op = c.op /\ d.at = c.at /\ d.slot = c.slot /\ d.type = c.type
              /\ d.key = c.key /\ d.ver = v /\ d.n = c.n /\ d.left = c.left
         /\ LET d == [c EXCEPT !.n = n] IN
              /\ d.op = c.op /\ d.at = c.at /\ d.slot = c.slot /\ d.type = c.type
              /\ d.key = c.key /\ d.ver = c.ver /\ d.n = n /\ d.left = c.left
BY DEF Calls

\* The copy step of a call enqueues the next of its copies.
LEMMA EnqueueStep ==
  ASSUME CleanUse, IInv, NEW t \in Threads, Cur.op # "none", Enqueue(t)
  PROVE  IInv'
<1>. PICK c \in Calls : c = Cur BY Setting
<1>. PICK d : d = Cur' OBVIOUS
<1>. PICK fs : fs = Fields(c) OBVIOUS
<1>. PICK f : f = fs[c.n + 1] OBVIOUS
<1>. PICK m \in SlotStates : m = mir.slot[c.slot] BY Setting, CallTypes
<1>. DEFINE c1 == IF f = "ver" THEN [c EXCEPT !.ver = m.ver + 1] ELSE c
            cp == Copy(t, f, Value(c1, f))
            N  == Len(stream)
<1>0. Cur = call[t] /\ Cur' = call'[t] /\ call \in [Threads -> Calls] /\ \A u \in Threads : u = t
  BY OneCall DEF IInv, Typed
<1>1. /\ UNCHANGED <<dev, req, mir, inner, outer, calls, known>> /\ Step(c) = "copy"
      /\ stream' = Append(stream, cp)
      /\ call' = [call EXCEPT ![t] = IF c.n + 1 = Len(fs) THEN Goto(c1, stream')
                                     ELSE [c1 EXCEPT !.n = c1.n + 1]]
  BY <1>0 DEF Enqueue, hostVars, clientVars
<1>2. c.at \in 1 .. Len(Steps[c.op]) /\ c.op \in AllOps /\ c.key = calls /\ calls > 1
      /\ Len(Steps[c.op]) \in 3 .. 5 /\ c.op \in Ops /\ c.op # "none"
      /\ calls \in Nat /\ calls <= MaxCalls /\ MaxCalls \in Nat
  BY CurStep, Setting
<1>3. c.at = CopyAt[c.op] /\ ~Finishes(c) /\ c.n < Len(fs) /\ c.left = 0
      /\ c.op \in Writers \cup Commits
  <2>1. c.at = CopyAt[c.op] BY <1>1, <1>2, Table
  <2>2. c.n < Len(fs) /\ c.left = 0 BY <1>1, <1>2 DEF IInv, CallInv
  <2>3. c.op \notin {"fence", "recover"} BY <1>2, <2>1, Table DEF CopyAt
  <2>. QED BY <1>2, <2>1, <2>2, <2>3, Table, OpNames DEF CopyAt, Writers, TypedOps, Commits
<1>4. /\ c.op \in TypedOps => c.op # "rollback" /\ c.op # "rotate" /\ c.op \notin Commits
      /\ c.op \in Commits => c.op # "rollback" /\ c.op # "rotate" /\ c.op \notin Writers
      /\ c.op \in Writers <=> c.op \in TypedOps \cup {"rotate", "rollback"}
  BY DEF TypedOps, Commits, Writers
<1>5. /\ c.op \in TypedOps \cup {"rotate"} => Len(fs) \in 4 .. 7 /\ f \in FieldNames
      /\ c.op = "rollback" => Len(fs) = 1 /\ c.n = 0 /\ f = "all"
      /\ c.op \in Commits => Len(fs) = 1 /\ c.n = 0 /\ f = "active"
      /\ Len(fs) \in 1 .. 7 /\ c.n \in 0 .. 6 /\ c.n + 1 \in 1 .. Len(fs)
      /\ f # "probe"
  <2>1. c.n \in 0 .. 7 BY CallTypes
  <2>2. c.op \in TypedOps \cup {"rotate"} =>
          Len(fs) \in 4 .. 7 /\ \A i \in 1 .. Len(fs) : fs[i] \in FieldNames
    BY FieldFacts
  <2>3. /\ c.op = "rollback" => Len(fs) = 1 /\ fs[1] = "all"
        /\ c.op \in Commits => Len(fs) = 1 /\ fs[1] = "active"
    BY OtherFields
  <2>. QED BY <1>3, <1>4, <2>1, <2>2, <2>3, SMTT(60) DEF FieldNames
<1>6. /\ c1 \in Calls /\ c1.op = c.op /\ c1.at = c.at /\ c1.slot = c.slot /\ c1.type = c.type
      /\ c1.key = c.key /\ c1.n = c.n /\ c1.left = c.left /\ c1.ver <= calls
      /\ f # "ver" => c1.ver = c.ver
  <2>1. CASE f = "ver"
    <3>1. c.op \in Writers BY <1>3, <1>5, <2>1
    <3>2. m.ver < calls BY <1>2, <1>3, <3>1, CallTypes DEF IInv, CallInv
    <3>3. m.ver + 1 \in Keys /\ m.ver + 1 <= calls
      <4>1. m.ver \in Keys BY SlotFields
      <4>. QED BY <1>2, <3>2, <4>1, SMTT(60) DEF Keys
    <3>. QED BY <2>1, <3>3, CallWith, CallTypes
  <2>2. CASE f # "ver" BY <1>2, <2>2 DEF IInv, CallInv
  <2>. QED BY <2>1, <2>2
<1>. HIDE DEF c1
<1>7. /\ cp.slot = c.slot /\ cp.f = f /\ cp.v = Value(c1, f) /\ cp.by = t
      /\ cp.async => c.op \in {"prepare_async", "prepare_typed_async", "commit_async"}
      /\ cp \in Copies
  <2>1. /\ c.slot \in Slots /\ c1.ver \in Keys /\ c.key \in Keys /\ c.type \in {"P256", "AES"}
    BY <1>6, CallTypes
  <2>2. /\ f = "type" => Value(c1, f) \in {"P256", "AES"}
        /\ f \in {"key", "mirror", "rk", "ver", "epoch"} => Value(c1, f) \in Keys
        /\ f = "tag" => Value(c1, f) \in Keys \X Keys
        /\ f = "all" => Value(c1, f) = EmptySlot
        /\ f = "active" => Value(c1, f) \in Slots
    BY <1>6, <2>1 DEF Value
  <2>3. f \in {"type", "key", "mirror", "rk", "ver", "epoch", "tag", "all", "active"}
    BY <1>3, <1>4, <1>5 DEF FieldNames
  <2>4. cp = [slot |-> c.slot, f |-> f, v |-> Value(c1, f), by |-> t,
              async |-> c.op \in {"prepare_async", "prepare_typed_async", "commit_async"}]
    BY <1>0 DEF Copy
  <2>5. cp \in Copies BY <2>1, <2>2, <2>3, <2>4 DEF Copies
  <2>. HIDE DEF cp
  <2>. QED BY <2>4, <2>5
<1>. HIDE DEF cp
<1>8. /\ stream' \in Seq(Copies) /\ N \in Nat /\ Len(stream') = N + 1
      /\ \A i \in 1 .. N : stream'[i] = stream[i]
      /\ stream'[N + 1] = cp
      /\ \A k \in 0 .. N : At(k)' = At(k)
      /\ \A k : k = N + 1 => At(k)' = Apply(Final, cp)
      /\ Final' = Apply(Final, cp) /\ Final = At(N)
  BY <1>1, <1>7, PathGrows DEF IInv
\* The call after the step.
<1>9. /\ d \in Calls /\ d.op = c.op /\ d.slot = c.slot /\ d.type = c.type /\ d.key = c.key
      /\ d.ver = c1.ver
      /\ c.n + 1 = Len(fs) =>
           /\ d.at = c.at + 1 /\ d.n = 0 /\ d.at \in 1 .. Len(Steps[d.op])
           /\ d.left = IF Step(d) = "sync" THEN Len(stream') ELSE 0
      /\ c.n + 1 # Len(fs) => d.at = c.at /\ d.n = c.n + 1 /\ d.left = 0
  <2>1. CASE c.n + 1 = Len(fs)
    <3>1. ~Finishes(c1) BY <1>3, <1>6 DEF Finishes
    <3>2. d = Goto(c1, stream') BY <1>0, <1>1, <2>1
    <3>3. Len(stream') \in Nat /\ c1.op # "none" /\ c1.at \in 1 .. Len(Steps[c1.op])
      BY <1>2, <1>6, <1>8
    <3>. QED BY <1>6, <2>1, <3>1, <3>2, <3>3, GotoFacts
  <2>2. CASE c.n + 1 # Len(fs)
    <3>1. d = [c1 EXCEPT !.n = c.n + 1] BY <1>0, <1>1, <1>6, <2>2
    <3>2. c.n + 1 \in 0 .. 7 /\ c1.ver \in Keys BY <1>5, <1>6, CallTypes
    <3>3. /\ d \in Calls /\ d.op = c1.op /\ d.at = c1.at /\ d.slot = c1.slot
          /\ d.type = c1.type /\ d.key = c1.key /\ d.ver = c1.ver /\ d.n = c.n + 1
          /\ d.left = c1.left
      BY <1>6, <3>1, <3>2 DEF Calls
    <3>. QED BY <1>3, <1>6, <2>2, <3>3
  <2>. QED BY <2>1, <2>2
<1>10. /\ Fields(d) = fs /\ \A g : Value(d, g) = Value(c1, g)
       /\ Enqueued(c) = c.n /\ Enqueued(d) = c.n + 1
       /\ c.at \in Nat /\ d.at \in {c.at, c.at + 1}
  <2>1. Fields(d) = fs /\ \A g : Value(d, g) = Value(c1, g)
    BY <1>6, <1>9 DEF Fields, Value
  <2>2. Enqueued(c) = c.n BY <1>2, <1>3 DEF Enqueued
  <2>3. Enqueued(d) = c.n + 1 BY <1>2, <1>3, <1>5, <1>9, <2>1 DEF Enqueued
  <2>. QED BY <1>2, <1>9, <2>1, <2>2, <2>3
<1>11. Typed'
  <2>1. call' = [call EXCEPT ![t] = d] BY <1>0, <1>1
  <2>2. call' \in [Threads -> Calls] BY <1>0, <1>9, <2>1
  <2>. QED BY <1>1, <1>8, <2>2 DEF IInv, Typed
<1>12. CallInv'
  <2>1. d.op # "none" /\ d.op \in Ops /\ d.at \in 1 .. Len(Steps[d.op]) /\ d.key = calls'
        /\ calls' > 1
    BY <1>1, <1>2, <1>9
  <2>2. IF Step(d) = "copy" THEN d.n < Len(Fields(d)) ELSE d.n = 0
    BY <1>5, <1>9, <1>10, <1>2, <1>3, <2>1, Table
  <2>3. IF Step(d) = "sync" THEN d.left = Len(stream') ELSE d.left = 0
    <3>1. CASE c.n + 1 = Len(fs) BY <1>9, <3>1
    <3>2. CASE c.n + 1 # Len(fs)
      <4>1. Step(d) = Step(c) BY <1>9, <3>2 DEF Step
      <4>. QED BY <1>1, <1>9, <3>2, <4>1
    <3>. QED BY <3>1, <3>2
  <2>4. d.ver <= calls' BY <1>1, <1>6, <1>9
  <2>5. d.op \in Writers => \A s \in Slots : mir'.slot[s].ver < calls'
    <3>1. c.at <= CopyAt[c.op] BY <1>3, <1>10
    <3>. QED BY <1>1, <1>2, <1>9, <3>1 DEF IInv, CallInv
  <2>6. d.op = "rotate" \/ d.op = "rollback" => d.type = "P256"
    BY <1>2, <1>9 DEF IInv, CallInv
  <2>7. /\ d.op \notin {"fence", "recover"}
        /\ d.op = "rotate" => d.at \in {1, 2}
        /\ d.op = "rollback" => d.at \in {1, 2}
        /\ d.op = "prepare_typed_async" => c.at = 2
    BY <1>3, <1>9, <1>10 DEF CopyAt, Writers, TypedOps, Commits
  <2>8. d.op = "prepare_typed_async" => outer' BY <1>1, <1>9, <2>7 DEF IInv, CallInv
  <2>9. \A s \in Slots : mir'.slot[s].ver <= calls' BY <1>1 DEF IInv, CallInv
  <2>. QED BY <2>1, <2>2, <2>3, <2>4, <2>5, <2>6, <2>7, <2>8, <2>9 DEF CallInv
\* What the copy does at the end of the path.
<1>13. /\ Final \in States /\ Final' \in States
       /\ c.op \in Commits => Final'.active = c.slot /\ Final'.slot = Final.slot /\ ~Writes(cp)
       /\ c.op \in Writers =>
            /\ Final'.active = Final.active /\ Writes(cp)
            /\ \A s \in Slots : s # c.slot => Final'.slot[s] = Final.slot[s]
       /\ c.op = "rollback" => Final'.slot[c.slot] = EmptySlot
       /\ c.op \in TypedOps \cup {"rotate"} =>
            /\ Final'.slot[c.slot][f] = Value(c1, f)
            /\ \A g \in FieldNames : g # f => Final'.slot[c.slot][g] = Final.slot[c.slot][g]
  <2>1. Final \in States BY Setting
  <2>2. c.op \in Commits => f = "active" /\ Value(c1, f) = c.slot
    BY <1>5, <1>6 DEF Value
  <2>3. c.op \in Writers => f \in {"all"} \cup FieldNames BY <1>4, <1>5
  <2>4. Writes(cp) <=> f = "all" \/ f \in FieldNames BY <1>7, CopyTypes
  <2>5. "active" \notin {"all"} \cup FieldNames /\ "all" \notin FieldNames BY DEF FieldNames
  <2>6. /\ Final' \in States
        /\ f = "active" => Final'.active = Value(c1, f) /\ Final'.slot = Final.slot
        /\ Writes(cp) =>
             /\ Final'.active = Final.active
             /\ \A s \in Slots : s # c.slot => Final'.slot[s] = Final.slot[s]
        /\ f = "all" => Final'.slot[c.slot] = EmptySlot
        /\ f \in FieldNames =>
             /\ Final'.slot[c.slot][f] = Value(c1, f)
             /\ \A g \in FieldNames : g # f => Final'.slot[c.slot][g] = Final.slot[c.slot][g]
    <3>1. /\ Final' \in States
          /\ cp.f = "active" => Final'.active = cp.v /\ Final'.slot = Final.slot
          /\ Writes(cp) =>
               /\ Final'.active = Final.active
               /\ \A s \in Slots : s # cp.slot => Final'.slot[s] = Final.slot[s]
          /\ cp.f = "all" => Final'.slot[cp.slot] = EmptySlot
          /\ cp.f \in FieldNames =>
               /\ Final'.slot[cp.slot][cp.f] = cp.v
               /\ \A g \in FieldNames :
                    g # cp.f => Final'.slot[cp.slot][g] = Final.slot[cp.slot][g]
      BY <1>7, <1>8, <2>1, ApplyFacts, ZenonT(60)
    <3>. QED BY <1>7, <3>1
  <2>7. CASE c.op \in Commits BY <1>4, <2>1, <2>2, <2>4, <2>5, <2>6, <2>7
  <2>8. CASE c.op \in Writers BY <1>4, <1>5, <2>1, <2>3, <2>4, <2>6, <2>8
  <2>. QED BY <1>3, <2>7, <2>8
<1>14. ~Flipped /\ (Flipped' <=> c.op \in Commits)
  <2>1. c.op \in Commits => c.at = 1 /\ d.at = 2
    <3>1. c.op \in Commits => c.at = 1 BY <1>3 DEF CopyAt, Commits
    <3>2. c.op \in Commits => c.n + 1 = Len(fs)
      <4>. SUFFICES ASSUME c.op \in Commits PROVE c.n + 1 = Len(fs) OBVIOUS
      <4>1. Len(fs) = 1 BY <1>5
      <4>2. c.n = 0 BY <1>5
      <4>3. c.n + 1 = 1 BY <4>2
      <4>. QED BY <4>1, <4>3
    <3>3. c.op \in Commits => d.at = c.at + 1 BY <1>9, <3>2
    <3>. QED BY <1>9, <3>1, <3>3
  <2>2. c.op = "rotate" => c.at = 1 /\ d.at \in {1, 2} BY <1>3, <1>9 DEF CopyAt
  <2>. QED BY <1>4, <1>9, <2>1, <2>2 DEF Flipped
<1>15. c.op \in Writers \ {"load"} => c.slot # Final.active
  BY <1>14, <1>13, OtherSlot DEF IInv, ActiveInv, States
<1>16. ActiveInv'
  <2>1. Final'.active = IF Flipped' THEN Cur'.slot ELSE mir'.active
    BY <1>1, <1>3, <1>9, <1>13, <1>14 DEF IInv, ActiveInv
  <2>2. Cur'.op \in Writers \ {"load"} /\ ~Flipped' => Cur'.slot = Other(Final'.active)
    BY <1>9, <1>13, <1>14 DEF IInv, ActiveInv
  <2>3. ~(Cur'.op \in Commits /\ Cur'.at = 1)
    <3>1. c.op \in Commits => c.at = 1 BY <1>3 DEF CopyAt, Commits
    <3>2. c.op \in Commits => c.n + 1 = Len(fs)
      <4>. SUFFICES ASSUME c.op \in Commits PROVE c.n + 1 = Len(fs) OBVIOUS
      <4>1. Len(fs) = 1 BY <1>5
      <4>2. c.n = 0 BY <1>5
      <4>3. c.n + 1 = 1 BY <4>2
      <4>. QED BY <4>1, <4>3
    <3>3. c.op \in Commits => d.at = c.at + 1 BY <1>9, <3>2
    <3>. QED BY <1>9, <3>1, <3>3
  <2>4. ASSUME NEW i \in 1 .. N + 1, stream'[i].f = "probe"
        PROVE  stream'[i].v <= calls /\ stream'[i].v # d.key
    <3>1. i # N + 1 BY <1>5, <1>7, <1>8, <2>4
    <3>2. i \in 1 .. N /\ stream'[i] = stream[i] BY <1>8, <3>1
    <3>3. stream[i].v <= calls /\ (stream[i].v = c.key => c.op = "prepare" /\ c.at = 2)
      BY <2>4, <3>2 DEF IInv, ActiveInv
    <3>4. c.op = "prepare" => c.at = 3 BY <1>3 DEF CopyAt
    <3>. QED BY <1>9, <3>2, <3>3, <3>4
  <2>. QED BY <1>1, <1>8, <2>1, <2>2, <2>3, <2>4 DEF ActiveInv
<1>17. /\ \A s : Writing(s)' <=> Writing(s)
       /\ \A s : Loaded1(s)' <=> Loaded1(s)
  BY <1>9 DEF Writing, Loaded1
<1>18. KnownInv'
  <2>1. ASSUME NEW s \in Slots, ~Writing(s) PROVE Final'.slot[s] = Final.slot[s]
    BY <1>3, <1>13, <2>1 DEF Writing
  <2>. QED BY <1>1, <1>17, <2>1 DEF IInv, KnownInv
<1>19. WriteInv'
  <2>1. ASSUME d.op \in TypedOps \cup {"rotate"}, NEW i \in 1 .. Enqueued(d)
        PROVE  Final'.slot[d.slot][Fields(d)[i]] = Value(d, Fields(d)[i])
    <3>1. i \in 1 .. c.n + 1 BY <1>10
    <3>2. CASE i = c.n + 1 BY <1>9, <1>10, <1>13, <2>1, <3>2
    <3>3. CASE i # c.n + 1
      <4>1. i \in 1 .. c.n /\ i \in 1 .. Len(fs) /\ c.n + 1 \in 1 .. Len(fs)
        BY <1>5, <3>1, <3>3
      <4>2. Final.slot[c.slot][fs[i]] = Value(c, fs[i])
        BY <1>9, <1>10, <2>1, <4>1 DEF IInv, WriteInv
      <4>3. fs[i] \in FieldNames /\ fs[i] # f /\ (f = "ver" => fs[i] \notin {"epoch", "tag"})
        <5>1. c.op \in TypedOps \cup {"rotate"} BY <1>9, <2>1
        <5>2. /\ fs[i] \in FieldNames
              /\ fs[i] = fs[c.n + 1] => i = c.n + 1
              /\ fs[i] \in {"epoch", "tag"} /\ fs[c.n + 1] = "ver" => c.n + 1 < i
          BY <4>1, <5>1, FieldFacts
        <5>. QED BY <1>5, <4>1, <5>2
      <4>4. Value(c1, fs[i]) = Value(c, fs[i])
        <5>1. CASE f = "ver"
          <6>1. fs[i] \notin {"ver", "epoch", "tag"} BY <4>3, <5>1
          <6>2. fs[i] \in {"type", "key", "mirror", "rk"} BY <4>3, <6>1 DEF FieldNames
          <6>. QED BY <1>6, <6>2 DEF Value
        <5>2. CASE f # "ver" BY <1>6, <5>2 DEF Value
        <5>. QED BY <5>1, <5>2
      <4>. QED BY <1>9, <1>10, <1>13, <2>1, <4>2, <4>3, <4>4
    <3>. QED BY <3>2, <3>3
  <2>2. ~(d.op \in TypedOps /\ d.at > MirrorAt[d.op])
    BY <1>3, <1>9, <1>10 DEF CopyAt, MirrorAt, TypedOps
  <2>3. d.op = "rollback" => Final'.slot[d.slot] = EmptySlot BY <1>9, <1>13
  <2>4. d.op = "rotate" => /\ Final'.slot[d.slot].type = mir'.slot[d.slot].type
                           /\ Final'.slot[d.slot].type # "AES"
                           /\ Final'.slot[d.slot].epoch = mir'.slot[d.slot].epoch
    <3>1. c.op = "rotate" => f \notin {"type", "rk", "epoch"}
      <4>1. c.op = "rotate" =>
              \A i \in 1 .. Len(fs) : fs[i] \notin {"type", "rk", "epoch"}
        BY FieldFacts
      <4>. QED BY <1>5, <4>1
    <3>2. c.op = "rotate" =>
            /\ Final'.slot[c.slot]["type"] = Final.slot[c.slot]["type"]
            /\ Final'.slot[c.slot]["epoch"] = Final.slot[c.slot]["epoch"]
      BY <1>13, <3>1 DEF FieldNames
    <3>. QED BY <1>1, <1>9, <3>2 DEF IInv, WriteInv
  <2>. QED BY <2>1, <2>2, <2>3, <2>4 DEF WriteInv
<1>20. PathInv'
  <2>1. ASSUME NEW k \in 0 .. N + 1
        PROVE  At(k)' \in States /\ (Loaded1(At(k).active)' \/ Whole(At(k)'.slot[At(k)'.active]))
    <3>1. CASE k # N + 1
      <4>1. k \in 0 .. N /\ At(k)' = At(k) BY <1>8, <3>1
      <4>. QED BY <1>17, <4>1 DEF IInv, PathInv
    <3>2. CASE k = N + 1
      <4>1. At(k)' = Final' BY <1>8, <3>2
      <4>2. CASE c.op \in Commits
        <5>1. c.at = 1 /\ c.slot \in Slots BY <1>3, <4>2, CallTypes DEF CopyAt, Commits
        <5>2. known[c.slot].key # 0 BY <4>2, <5>1 DEF IInv, ActiveInv
        <5>3. known[c.slot] # Unsure BY <5>2 DEF Unsure
        <5>4. ~Writing(c.slot) BY <1>4, <4>2 DEF Writing
        <5>5. Whole(Final.slot[c.slot]) BY <5>1, <5>2, <5>3, <5>4 DEF IInv, KnownInv
        <5>. QED BY <1>13, <4>1, <4>2, <5>5
      <4>3. CASE c.op \in Writers
        <5>1. Loaded1(Final.active) \/ Whole(Final.slot[Final.active])
          BY <1>8 DEF IInv, PathInv
        <5>2. CASE c.slot = Final.active
          <6>1. c.op = "load" BY <1>15, <4>3, <5>2
          <6>2. At(k)'.active = c.slot BY <1>13, <4>1, <4>3, <5>2
          <6>3. Loaded1(At(k).active)' BY <1>9, <6>1, <6>2 DEF Loaded1
          <6>. QED BY <1>13, <4>1, <6>3
        <5>3. CASE c.slot # Final.active
          <6>1. ~Loaded1(Final.active) BY <5>3 DEF Loaded1
          <6>2. Final.active \in Slots BY Setting
          <6>. QED BY <1>13, <4>1, <4>3, <5>1, <5>3, <6>1, <6>2
        <5>. QED BY <5>2, <5>3
      <4>. QED BY <1>3, <4>2, <4>3
    <3>. QED BY <3>1, <3>2
  <2>2. ASSUME NEW k \in 1 .. N + 1, Writes(stream'[k])
        PROVE  stream'[k].slot # At(k - 1)'.active \/ Loaded1(stream[k].slot)'
    <3>1. CASE k # N + 1
      <4>1. k \in 1 .. N /\ k - 1 \in 0 .. N /\ stream'[k] = stream[k] BY <1>8, <3>1
      <4>2. At(k - 1)' = At(k - 1) BY <1>8, <4>1
      <4>. QED BY <1>17, <2>2, <4>1, <4>2 DEF IInv, PathInv
    <3>2. CASE k = N + 1
      <4>1. stream'[k] = cp /\ k - 1 = N /\ N \in 0 .. N BY <1>8, <3>2
      <4>2. At(k - 1)' = Final BY <1>8, <4>1
      <4>3. c.op \in Writers BY <1>3, <1>13, <2>2, <4>1
      <4>4. c.op = "load" => Loaded1(c.slot)' BY <1>9 DEF Loaded1
      <4>. QED BY <1>7, <1>15, <4>1, <4>2, <4>3, <4>4
    <3>. QED BY <3>1, <3>2
  <2>. QED BY <1>8, <2>1, <2>2 DEF PathInv
<1>21. LatchInv'
  <2>1. ASSUME NEW i \in 1 .. N + 1
        PROVE  /\ stream'[i].async => \/ outer' \/ d.op = "prepare_async"
                                      \/ (d.op = "commit_async" /\ d.at >= 2)
               /\ Writes(stream'[i]) =>
                    \/ outer' \/ Writing(stream[i].slot)'
                    \/ known'[stream'[i].slot] = Unsure
    <3>1. CASE i # N + 1
      <4>1. i \in 1 .. N /\ stream'[i] = stream[i] BY <1>8, <3>1
      <4>2. c.at >= 2 => d.at >= 2 BY <1>10
      <4>. QED BY <1>1, <1>9, <1>17, <4>1, <4>2 DEF IInv, LatchInv
    <3>2. CASE i = N + 1
      <4>1. stream'[i] = cp BY <1>8, <3>2
      <4>2. c.op = "prepare_typed_async" => outer
        <5>1. c.op = "prepare_typed_async" => c.at = 2 BY <1>3 DEF CopyAt
        <5>. QED BY <5>1 DEF IInv, CallInv
      <4>3. c.op = "commit_async" => d.at = 2 BY <1>3, <1>5, <1>9 DEF CopyAt, Commits
      <4>4. Writes(cp) => Writing(c.slot)' BY <1>3, <1>9, <1>13 DEF Writing
      <4>. QED BY <1>1, <1>7, <1>9, <4>1, <4>2, <4>3, <4>4
    <3>. QED BY <3>1, <3>2
  <2>. QED BY <1>8, <2>1 DEF LatchInv
<1>22. ReqInv'
  <2>1. OwnKey' BY <1>1 DEF IInv, ReqInv, OwnKey
  <2>2. ASSUME req.st \in {"queued", "valid"}, NEW i \in 1 .. N + 1, Writes(stream'[i])
        PROVE  stream'[i].slot # req.slot
    <3>1. CASE i # N + 1
      <4>1. i \in 1 .. N /\ stream'[i] = stream[i] BY <1>8, <3>1
      <4>. QED BY <2>2, <4>1 DEF IInv, ReqInv
    <3>2. CASE i = N + 1
      <4>1. c.op \in Writers /\ stream'[i] = cp BY <1>3, <1>8, <1>13, <2>2, <3>2
      <4>2. ~Writing(req.slot) BY <2>2 DEF IInv, ReqInv
      <4>. QED BY <1>7, <4>1, <4>2 DEF Writing
    <3>. QED BY <3>1, <3>2
  <2>. QED BY <1>1, <1>8, <1>17, <2>1, <2>2 DEF IInv, ReqInv
<1>. QED BY <1>11, <1>12, <1>16, <1>18, <1>19, <1>20, <1>21, <1>22 DEF IInv

\* smoke_engine_prepare_key_p256 reads the epoch on the device: a copy that
\* changes nothing, and that the call then waits for.
LEMMA ProbeStep ==
  ASSUME CleanUse, IInv, NEW t \in Threads, Cur.op # "none", EnqueueProbe(t)
  PROVE  IInv'
<1>. PICK c \in Calls : c = Cur BY Setting
<1>. PICK d : d = Cur' OBVIOUS
<1>. DEFINE cp == Copy(t, "probe", c.key)
            N  == Len(stream)
<1>0. Cur = call[t] BY OneCall
<1>1. /\ UNCHANGED <<dev, req, mir, inner, outer, calls>> /\ Step(c) = "probe"
      /\ stream' = Append(stream, cp)
      /\ call' = [call EXCEPT ![t] = Goto(Cur, stream')]
      /\ known' = IF Finishes(Cur) THEN Learnt(Cur) ELSE known
  BY <1>0 DEF EnqueueProbe, Advance, hostVars
<1>2. c.op = "prepare" /\ c.at = 1 /\ ~Finishes(c) /\ c.key = calls /\ calls > 1
      /\ calls \in Nat /\ c.op \in Ops
  BY <1>1, CurStep, Table, Setting
<1>3. /\ cp \in Copies /\ cp.f = "probe" /\ cp.v = c.key /\ ~Writes(cp) /\ ~cp.async
  <2>1. cp = [slot |-> c.slot, f |-> "probe", v |-> c.key, by |-> t,
              async |-> c.op \in {"prepare_async", "prepare_typed_async", "commit_async"}]
    BY <1>0 DEF Copy
  <2>2. c.slot \in Slots /\ c.key \in Keys \ {0} BY <1>2, CallTypes
  <2>3. cp \in Copies
    <3>1. (c.op \in {"prepare_async", "prepare_typed_async", "commit_async"}) \in BOOLEAN
      OBVIOUS
    <3>. HIDE DEF cp
    <3>. QED BY <2>1, <2>2, <3>1 DEF Copies
  <2>. HIDE DEF cp
  <2>4. cp.async => c.op \in {"prepare_async", "prepare_typed_async", "commit_async"}
    BY <2>1
  <2>. QED BY <1>2, <2>1, <2>3, <2>4 DEF Writes
<1>. HIDE DEF cp
<1>4. /\ stream' \in Seq(Copies) /\ N \in Nat /\ Len(stream') = N + 1
      /\ \A i \in 1 .. N : stream'[i] = stream[i]
      /\ stream'[N + 1] = cp
      /\ \A k \in 0 .. N : At(k)' = At(k)
      /\ \A k : k = N + 1 => At(k)' = Apply(Final, cp)
      /\ Final' = Apply(Final, cp) /\ Final = At(N)
  BY <1>1, <1>3, PathGrows DEF IInv
<1>5. Apply(Final, cp) = Final /\ Final' = Final BY <1>3, <1>4 DEF Apply
<1>6. /\ d \in Calls /\ d.op = c.op /\ d.slot = c.slot /\ d.type = c.type /\ d.key = c.key
      /\ d.ver = c.ver /\ d.at = 2 /\ d.n = 0 /\ d.at \in 1 .. Len(Steps[d.op])
      /\ d.left = IF Step(d) = "sync" THEN Len(stream') ELSE 0
      /\ call' \in [Threads -> Calls] /\ known' = known
  <2>1. Len(stream') \in Nat BY <1>4
  <2>2. /\ Cur' \in Calls /\ call' \in [Threads -> Calls]
        /\ ~Finishes(Cur) =>
             /\ Cur'.op = Cur.op /\ Cur'.slot = Cur.slot /\ Cur'.type = Cur.type
             /\ Cur'.key = Cur.key /\ Cur'.ver = Cur.ver /\ Cur'.at = Cur.at + 1
             /\ Cur'.n = 0 /\ Cur'.at \in 1 .. Len(Steps[Cur'.op])
             /\ Cur'.left = IF Step(Cur') = "sync" THEN Len(stream') ELSE 0
    BY <1>1, <2>1, AdvanceFacts
  <2>3. known' = known BY <1>1, <1>2
  <2>. QED BY <1>2, <2>2, <2>3
<1>7. /\ \A s : Writing(s)' <=> Writing(s)
      /\ \A s : Loaded1(s)' <=> Loaded1(s)
      /\ ~Flipped /\ ~Flipped'
  BY <1>2, <1>6 DEF Writing, Loaded1, Flipped, Commits
<1>8. Typed' BY <1>1, <1>4, <1>6 DEF IInv, Typed
<1>9. CallInv'
  <2>1. Step(d) = "sync" /\ d.op # "none" BY <1>2, <1>6, Table
  <2>2. \A s \in Slots : mir'.slot[s].ver < calls'
    <3>1. c.op \in Writers /\ c.at <= CopyAt[c.op]
      BY <1>2 DEF Writers, TypedOps, CopyAt
    <3>. QED BY <1>1, <1>2, <3>1 DEF IInv, CallInv
  <2>3. d.ver <= calls' /\ \A s \in Slots : mir'.slot[s].ver <= calls'
    BY <1>1, <1>2, <1>6 DEF IInv, CallInv
  <2>. QED BY <1>1, <1>2, <1>6, <2>1, <2>2, <2>3 DEF CallInv
<1>10. ActiveInv'
  <2>1. ASSUME NEW i \in 1 .. N + 1, stream'[i].f = "probe"
        PROVE  stream'[i].v <= calls /\ (stream'[i].v = d.key => i = N + 1)
    <3>1. CASE i = N + 1 BY <1>2, <1>3, <1>4, <3>1
    <3>2. CASE i # N + 1
      <4>1. i \in 1 .. N /\ stream'[i] = stream[i] BY <1>4, <3>2
      <4>. QED BY <1>2, <1>6, <2>1, <4>1 DEF IInv, ActiveInv
    <3>. QED BY <3>1, <3>2
  <2>2. c.op \in Writers \ {"load"} /\ c.op \notin Commits
    BY <1>2 DEF Writers, TypedOps, Commits
  <2>. QED BY <1>1, <1>2, <1>4, <1>5, <1>6, <1>7, <2>1, <2>2 DEF IInv, ActiveInv
<1>11. KnownInv' BY <1>1, <1>5, <1>6, <1>7 DEF IInv, KnownInv
<1>12. WriteInv'
  <2>1. Enqueued(d) = 0 BY <1>2, <1>6 DEF Enqueued, CopyAt
  <2>2. ~(d.at > MirrorAt[d.op]) BY <1>2, <1>6 DEF MirrorAt
  <2>3. \A i \in 1 .. Enqueued(d) : FALSE BY <2>1
  <2>4. d.op # "rollback" /\ d.op # "rotate" BY <1>2, <1>6
  <2>. QED BY <2>2, <2>3, <2>4 DEF WriteInv
<1>13. PathInv'
  <2>1. ASSUME NEW k \in 0 .. N + 1
        PROVE  At(k)' \in States /\ (Loaded1(At(k).active)' \/ Whole(At(k)'.slot[At(k)'.active]))
    <3>1. CASE k # N + 1
      <4>1. k \in 0 .. N /\ At(k)' = At(k) BY <1>4, <3>1
      <4>. QED BY <1>6, <4>1 DEF IInv, PathInv, Loaded1
    <3>2. CASE k = N + 1
      <4>1. At(k)' = At(N) /\ N \in 0 .. N BY <1>4, <1>5, <3>2
      <4>. QED BY <1>6, <4>1 DEF IInv, PathInv, Loaded1
    <3>. QED BY <3>1, <3>2
  <2>2. ASSUME NEW k \in 1 .. N + 1, Writes(stream'[k])
        PROVE  stream'[k].slot # At(k - 1)'.active \/ Loaded1(stream[k].slot)'
    <3>1. k # N + 1 BY <1>3, <1>4, <2>2
    <3>2. k \in 1 .. N /\ k - 1 \in 0 .. N /\ stream'[k] = stream[k] BY <1>4, <3>1
    <3>3. At(k - 1)' = At(k - 1) BY <1>4, <3>2
    <3>. QED BY <1>6, <2>2, <3>2, <3>3 DEF IInv, PathInv, Loaded1
  <2>. QED BY <1>4, <2>1, <2>2 DEF PathInv
<1>14. LatchInv'
  <2>1. ASSUME NEW i \in 1 .. N + 1
        PROVE  /\ stream'[i].async => outer'
               /\ Writes(stream'[i]) =>
                    \/ outer' \/ Writing(stream[i].slot)' \/ known'[stream'[i].slot] = Unsure
    <3>1. CASE i # N + 1
      <4>1. i \in 1 .. N /\ stream'[i] = stream[i] BY <1>4, <3>1
      <4>. QED BY <1>1, <1>2, <1>6, <4>1 DEF IInv, LatchInv, Writing
    <3>2. CASE i = N + 1 BY <1>3, <1>4, <3>2
    <3>. QED BY <3>1, <3>2
  <2>. QED BY <1>4, <2>1 DEF LatchInv
<1>15. ReqInv'
  <2>1. OwnKey' BY <1>1 DEF IInv, ReqInv, OwnKey
  <2>2. ASSUME req.st \in {"queued", "valid"}, NEW i \in 1 .. N + 1, Writes(stream'[i])
        PROVE  stream'[i].slot # req.slot
    <3>1. i # N + 1 BY <1>3, <1>4, <2>2
    <3>2. i \in 1 .. N /\ stream'[i] = stream[i] BY <1>4, <3>1
    <3>. QED BY <2>2, <3>2 DEF IInv, ReqInv
  <2>. QED BY <1>1, <1>4, <1>6, <1>7, <2>1, <2>2 DEF IInv, ReqInv
<1>. QED BY <1>8, <1>9, <1>10, <1>11, <1>12, <1>13, <1>14, <1>15 DEF IInv

\* engine_rotate_key enqueues the new epoch once its key has arrived.
LEMMA FlipStep ==
  ASSUME CleanUse, IInv, NEW t \in Threads, Cur.op # "none", EnqueueFlip(t)
  PROVE  IInv'
<1>. PICK c \in Calls : c = Cur BY Setting
<1>. PICK d : d = Cur' OBVIOUS
<1>. PICK a \in SlotStates : a = Final.slot[c.slot] BY Setting, CallTypes
<1>. DEFINE cp == Copy(t, "active", c.slot)
<1>0. Cur = call[t] BY OneCall
<1>1. /\ UNCHANGED <<dev, req, mir, inner, outer, calls>> /\ Step(c) = "flip"
      /\ stream' = Append(stream, cp)
      /\ call' = [call EXCEPT ![t] = Goto(Cur, stream')]
      /\ known' = IF Finishes(Cur) THEN Learnt(Cur) ELSE known
  BY <1>0 DEF EnqueueFlip, Advance, hostVars
<1>2. c.op = "rotate" /\ c.at = 3 /\ ~Finishes(c) /\ c.key = calls /\ calls > 1
      /\ calls \in Nat /\ c.op \in Ops /\ c.slot \in Slots
  BY <1>1, CurStep, Table, Setting, CallTypes, SMTT(60)
<1>3. /\ cp \in Copies /\ cp.f = "active" /\ cp.v = c.slot /\ ~Writes(cp) /\ ~cp.async
  <2>1. cp = [slot |-> c.slot, f |-> "active", v |-> c.slot, by |-> t,
              async |-> c.op \in {"prepare_async", "prepare_typed_async", "commit_async"}]
    BY <1>0 DEF Copy
  <2>2. cp \in Copies
    <3>1. c.slot \in Slots BY CallTypes
    <3>2. (c.op \in {"prepare_async", "prepare_typed_async", "commit_async"}) \in BOOLEAN
      OBVIOUS
    <3>. HIDE DEF cp
    <3>. QED BY <2>1, <3>1, <3>2 DEF Copies
  <2>. HIDE DEF cp
  <2>3. cp.async => c.op \in {"prepare_async", "prepare_typed_async", "commit_async"}
    BY <2>1
  <2>. QED BY <1>2, <2>1, <2>2, <2>3 DEF Writes
<1>. HIDE DEF cp
<1>4. stream = <<>> /\ Len(stream) = 0 BY <1>2 DEF IInv, CallInv
<1>5. /\ stream' \in Seq(Copies) /\ Len(stream') = 1
      /\ stream'[1] = cp /\ At(0)' = At(0) /\ At(1)' = Apply(Final, cp)
      /\ Final' = Apply(Final, cp) /\ Final = At(0)
  <2>1. /\ stream' \in Seq(Copies) /\ Len(stream') = Len(stream) + 1
        /\ stream'[Len(stream) + 1] = cp
        /\ \A k \in 0 .. Len(stream) : At(k)' = At(k)
        /\ \A k : k = Len(stream) + 1 => At(k)' = Apply(Final, cp)
        /\ Final' = Apply(Final, cp) /\ Final = At(Len(stream))
    BY <1>1, <1>3, PathGrows DEF IInv
  <2>2. Len(stream) + 1 = 1 /\ 0 \in 0 .. Len(stream) BY <1>4
  <2>. QED BY <1>4, <2>1, <2>2
<1>6. /\ Final \in States /\ Final' \in States
      /\ Final'.active = c.slot /\ Final'.slot = Final.slot
  BY <1>3, <1>5, Setting, ApplyFacts
<1>7. /\ d \in Calls /\ d.op = c.op /\ d.slot = c.slot /\ d.type = c.type /\ d.key = c.key
      /\ d.ver = c.ver /\ d.at = 4 /\ d.n = 0 /\ d.at \in 1 .. Len(Steps[d.op])
      /\ d.left = IF Step(d) = "sync" THEN Len(stream') ELSE 0
      /\ call' \in [Threads -> Calls] /\ known' = known
  <2>1. Len(stream') \in Nat BY <1>5
  <2>2. /\ Cur' \in Calls /\ call' \in [Threads -> Calls]
        /\ ~Finishes(Cur) =>
             /\ Cur'.op = Cur.op /\ Cur'.slot = Cur.slot /\ Cur'.type = Cur.type
             /\ Cur'.key = Cur.key /\ Cur'.ver = Cur.ver /\ Cur'.at = Cur.at + 1
             /\ Cur'.n = 0 /\ Cur'.at \in 1 .. Len(Steps[Cur'.op])
             /\ Cur'.left = IF Step(Cur') = "sync" THEN Len(stream') ELSE 0
    BY <1>1, <2>1, AdvanceFacts
  <2>3. known' = known BY <1>1, <1>2
  <2>. QED BY <1>2, <2>2, <2>3
<1>8. /\ \A s : Writing(s)' <=> Writing(s)
      /\ Flipped' /\ \A s : ~Loaded1(s)
  BY <1>2, <1>7 DEF Writing, Loaded1, Flipped
\* The rotated slot is whole by now.
<1>9. /\ Enqueued(c) = Len(Fields(c)) /\ Enqueued(d) = Len(Fields(c)) /\ Fields(d) = Fields(c)
      /\ \A f : Value(d, f) = Value(c, f)
  BY <1>2, <1>7 DEF Enqueued, CopyAt, Fields, Value
<1>10. \A i \in 1 .. Len(Fields(c)) : a[Fields(c)[i]] = Value(c, Fields(c)[i])
  BY <1>2, <1>9 DEF IInv, WriteInv
<1>11. Whole(a)
  <2>1. c.op \in TypedOps \cup {"rotate"} BY <1>2
  <2>2. \A f \in {"key", "mirror", "ver", "tag"} : a[f] = Value(c, f)
    BY <1>10, <2>1, FieldFacts
  <2>3. a.key = c.key /\ a.mirror = c.key /\ a.ver = c.ver /\ a.tag = <<c.ver, c.key>>
    BY <2>2 DEF Value
  <2>4. c.key # 0 BY <1>2
  <2>. QED BY <2>3, <2>4 DEF Whole
<1>12. Typed' BY <1>1, <1>5, <1>7 DEF IInv, Typed
<1>13. CallInv'
  <2>1. Step(d) = "sync" /\ d.op # "none" BY <1>2, <1>7, Table
  <2>2. ~(d.at <= CopyAt[d.op]) BY <1>2, <1>7 DEF CopyAt
  <2>3. d.ver <= calls' /\ (\A s \in Slots : mir'.slot[s].ver <= calls') /\ d.type = "P256"
    BY <1>1, <1>2, <1>7 DEF IInv, CallInv
  <2>. QED BY <1>1, <1>2, <1>7, <2>1, <2>2, <2>3 DEF CallInv
<1>14. ActiveInv'
  <2>1. \A i \in 1 .. Len(stream') : stream'[i].f # "probe" BY <1>3, <1>5
  <2>2. c.op \notin Commits BY <1>2 DEF Commits
  <2>. QED BY <1>6, <1>7, <1>8, <2>1, <2>2 DEF ActiveInv
<1>15. KnownInv' BY <1>1, <1>6, <1>7, <1>8 DEF IInv, KnownInv
<1>16. WriteInv'
  <2>1. d.op \notin TypedOps /\ d.op # "rollback" BY <1>2, <1>7 DEF TypedOps
  <2>2. /\ a.type = mir.slot[c.slot].type /\ a.type # "AES"
        /\ a.epoch = mir.slot[c.slot].epoch
    BY <1>2 DEF IInv, WriteInv
  <2>. QED BY <1>1, <1>6, <1>7, <1>9, <1>10, <2>1, <2>2 DEF WriteInv
<1>17. PathInv'
  <2>1. At(0) \in States /\ Whole(At(0).slot[At(0).active])
    <3>1. 0 \in 0 .. Len(stream) BY <1>4
    <3>. QED BY <1>8, <3>1 DEF IInv, PathInv
  <2>2. \A k \in 0 .. 1 : At(k)' \in States /\ Whole(At(k)'.slot[At(k)'.active])
    <3>1. Whole(Final'.slot[Final'.active]) BY <1>6, <1>11
    <3>. QED BY <1>5, <1>6, <2>1, <3>1
  <2>3. \A k \in 1 .. 1 : ~Writes(stream'[k]) BY <1>3, <1>5
  <2>. QED BY <1>5, <2>2, <2>3 DEF PathInv
<1>18. LatchInv'
  <2>1. \A i \in 1 .. 1 : ~Writes(stream'[i]) /\ ~stream'[i].async BY <1>3, <1>5
  <2>. QED BY <1>5, <2>1 DEF LatchInv
<1>19. ReqInv'
  <2>1. OwnKey' BY <1>1 DEF IInv, ReqInv, OwnKey
  <2>2. \A i \in 1 .. 1 : ~Writes(stream'[i]) BY <1>3, <1>5
  <2>. QED BY <1>1, <1>5, <1>7, <1>8, <2>1, <2>2 DEF IInv, ReqInv
<1>. QED BY <1>12, <1>13, <1>14, <1>15, <1>16, <1>17, <1>18, <1>19 DEF IInv

-----------------------------------------------------------------------------
(* A call that fails, a call that begins, and a copy that is applied.      *)

LEMMA FailStep ==
  ASSUME CleanUse, IInv, NEW t \in Threads, Cur.op # "none", Fail(t)
  PROVE  IInv'
<1>. PICK c \in Calls : c = Cur BY Setting
<1>0. Cur = call[t] /\ Cur' = call'[t] /\ call \in [Threads -> Calls]
  BY OneCall DEF IInv, Typed
<1>1. /\ UNCHANGED <<dev, stream, req, mir, inner, outer, calls>> /\ MayFail
      /\ Step(c) \in {"copy", "probe", "flip", "sync"}
      /\ call' = [call EXCEPT ![t] = NoCall]
      /\ known' = IF c.op \in Writers THEN [known EXCEPT ![c.slot] = Unsure] ELSE known
  BY <1>0 DEF Fail, hostVars
<1>2. c.at \in 1 .. Len(Steps[c.op]) /\ c.op \in AllOps /\ c.op \in Ops /\ c.slot \in Slots
      /\ c.op \notin {"load", "rotate", "prepare_async"} /\ "rotate" \notin Ops
  BY <1>1, CurStep, CallTypes DEF CleanUse
<1>3. Cur' = NoCall BY <1>0, <1>1
<1>4. Final' = Final /\ \A k \in 0 .. Len(stream) : At(k)' = At(k) BY <1>1, PathKept
<1>5. /\ known \in [Slots -> Knowledge] /\ Unsure \in Knowledge /\ 0 \in Keys
      /\ known' \in [Slots -> Knowledge]
      /\ \A s \in Slots : known'[s] = IF Writing(s) THEN Unsure ELSE known[s]
  <2>1. known \in [Slots -> Knowledge] /\ 0 \in Keys BY Setting
  <2>2. Unsure \in Knowledge BY <2>1 DEF Unsure, Knowledge
  <2>. QED BY <1>1, <1>2, <2>1, <2>2 DEF Writing
<1>6. ~Flipped /\ (c.op = "commit_async" => c.at < 2)
  <2>1. c.op \in Commits => c.at # 2 BY <1>1, <1>2, Table DEF Commits, MirrorAt
  <2>2. c.op = "commit_async" => c.at \in 1 .. 4 /\ c.at = CopyAt[c.op]
    BY <1>1, <1>2, Table, StepsOf
  <2>. QED BY <1>2, <2>1, <2>2 DEF Flipped, CopyAt
<1>7. ~Flipped' /\ \A s : ~Writing(s)' /\ ~Loaded1(s)' /\ ~Loaded1(s)
  BY <1>2, <1>3, NoCallFacts DEF Flipped, Writing, Loaded1
<1>8. Typed'
  <2>1. call' \in [Threads -> Calls] BY <1>0, <1>1, NoCallFacts
  <2>. QED BY <1>1, <1>5, <2>1 DEF IInv, Typed
<1>9. CallInv' BY <1>1, <1>3, NoCallFacts DEF IInv, CallInv
<1>10. ActiveInv'
  <2>1. \A i \in 1 .. Len(stream) :
          stream[i].f = "probe" => stream[i].v <= calls /\ stream[i].v # 0
    BY CopyTypes, Setting DEF IInv, ActiveInv
  <2>. QED BY <1>1, <1>3, <1>4, <1>6, <1>7, <2>1, NoCallFacts DEF IInv, ActiveInv
<1>11. KnownInv'
  <2>1. ASSUME NEW s \in Slots
        PROVE  /\ known'[s].type = "UNSURE" => known'[s] = Unsure
               /\ known'[s] # Unsure => ~Writing(s) /\ known'[s] = known[s]
    BY <1>5 DEF IInv, KnownInv
  <2>. QED BY <1>1, <1>2, <1>4, <2>1 DEF IInv, KnownInv
<1>12. WriteInv' BY <1>3, NoCallFacts DEF WriteInv, NoCall
<1>13. PathInv' BY <1>1, <1>4, <1>7 DEF IInv, PathInv
<1>14. LatchInv'
  <2>1. ASSUME NEW i \in 1 .. Len(stream)
        PROVE  /\ stream[i].async => outer
               /\ Writes(stream[i]) => outer \/ known'[stream[i].slot] = Unsure
    <3>1. stream[i].slot \in Slots BY Setting, CopyTypes
    <3>. QED BY <1>2, <1>5, <1>6, <3>1 DEF IInv, LatchInv
  <2>. QED BY <1>1, <2>1 DEF LatchInv
<1>15. ReqInv'
  <2>1. OwnKey' BY <1>1 DEF IInv, ReqInv, OwnKey
  <2>2. req.slot \in Slots BY DEF IInv, Typed, Submitted
  <2>. QED BY <1>1, <1>5, <1>7, <2>1, <2>2 DEF IInv, ReqInv
<1>. QED BY <1>8, <1>9, <1>10, <1>11, <1>12, <1>13, <1>14, <1>15 DEF IInv

\* A call begins: its key is newer than any before.
LEMMA BeginStep ==
  ASSUME CleanUse, IInv, NEW t \in Threads, Begin(t)
  PROVE  IInv'
<1>. PICK d : d = Cur' OBVIOUS
<1>. DEFINE N == Len(stream)
<1>0. Cur = call[t] /\ Cur' = call'[t] /\ call \in [Threads -> Calls]
  BY OneCall DEF IInv, Typed
<1>1. PICK op \in Ops, type \in Types, s \in Slots :
        /\ op \in TypedOps \/ type = "P256"
        /\ op = "load" \/ s = Inactive
        /\ ClientMay(op, s)
        /\ call' = [call EXCEPT ![t] =
            [NoCall EXCEPT !.op = op, !.at = 1, !.slot = s, !.type = type, !.key = calls + 1,
                           !.left = IF Steps[op][1] = "sync" THEN Len(stream) ELSE 0]]
  BY DEF Begin
<1>2. /\ UNCHANGED <<dev, stream, req, mir, inner, outer, known>> /\ calls' = calls + 1
      /\ calls < MaxCalls /\ Cur.op = "none"
  BY <1>0 DEF Begin, hostVars
<1>3. /\ N \in Nat /\ calls \in Nat \ {0} /\ calls + 1 \in Keys /\ calls + 1 \in 1 .. MaxCalls
      /\ 0 \in Keys /\ op \in AllOps /\ op # "none" /\ type \in {"P256", "AES"}
  <2>1. calls \in 1 .. MaxCalls /\ MaxCalls \in Nat /\ N \in Nat /\ 0 \in Keys BY Setting
  <2>2. op \in AllOps /\ type \in {"P256", "AES"} BY KeyRotationAssumption
  <2>. QED BY <1>2, <2>1, <2>2, NoCallFacts DEF Keys
<1>. PICK l \in Nat : l = IF Steps[op][1] = "sync" THEN N ELSE 0 BY <1>3
<1>4. d = [op |-> op, at |-> 1, slot |-> s, type |-> type, key |-> calls + 1, ver |-> 0,
           n |-> 0, left |-> l]
  BY <1>0, <1>1 DEF NoCall
<1>5. d \in Calls BY <1>3, <1>4 DEF Calls
<1>6. /\ Cur = NoCall /\ \A r : ~Writing(r) /\ ~Loaded1(r)
      /\ ~Flipped /\ ~Flipped'
  <2>1. Cur = NoCall BY <1>2 DEF IInv, CallInv
  <2>. QED BY <1>4, <2>1, NoCallFacts DEF Writing, Loaded1, Flipped
<1>7. Final' = Final /\ \A k \in 0 .. N : At(k)' = At(k) BY <1>2, PathKept
<1>8. Typed'
  <2>1. call' \in [Threads -> Calls]
    <3>1. call' = [call EXCEPT ![t] = d] BY <1>0, <1>1
    <3>. QED BY <1>0, <1>5, <3>1
  <2>. QED BY <1>2, <1>3, <2>1 DEF IInv, Typed
<1>9. /\ 1 \in 1 .. Len(Steps[op]) /\ Step(d) = Steps[op][1]
      /\ Step(d) = "copy" <=> CopyAt[op] = 1
      /\ CopyAt[op] \in 1 .. 5 /\ MirrorAt[op] \in 2 .. 5
  <2>1. Len(Steps[op]) \in 3 .. 5
    BY <1>3, StepCount
  <2>2. 1 \in 1 .. Len(Steps[op]) BY <2>1
  <2>3. CopyAt[op] \in 1 .. 5 /\ MirrorAt[op] \in 2 .. 5
    BY <1>3, OpNames DEF CopyAt, MirrorAt
  <2>4. Step(d) = "copy" <=> d.at = CopyAt[d.op] BY <1>3, <1>4, <1>5, <2>2, Table
  <2>. QED BY <1>3, <1>4, <2>2, <2>3, <2>4 DEF Step
<1>10. CallInv'
  <2>1. Step(d) = "copy" => Len(Fields(d)) > 0
    <3>1. CASE d.op \in {"fence", "recover"}
      <4>1. CopyAt[d.op] = 5 BY <3>1 DEF CopyAt
      <4>. QED BY <1>4, <1>9, <4>1
    <3>2. CASE d.op \notin {"fence", "recover"}
      <4>1. d.op \in AllOps BY <1>3, <1>4
      <4>. QED BY <1>5, <3>2, <4>1, SomeFields
    <3>. QED BY <3>1, <3>2
  <2>2. IF Step(d) = "copy" THEN d.n < Len(Fields(d)) ELSE d.n = 0 BY <1>4, <2>1
  <2>3. IF Step(d) = "sync" THEN d.left = Len(stream') ELSE d.left = 0
    BY <1>2, <1>4, <1>9
  <2>4. \A r \in Slots : mir'.slot[r].ver < calls'
    <3>1. ASSUME NEW r \in Slots PROVE mir.slot[r].ver \in Nat /\ mir.slot[r].ver <= calls
      <4>1. mir.slot[r] \in SlotStates BY Setting
      <4>2. mir.slot[r].ver \in Keys BY <4>1, SlotFields
      <4>. QED BY <4>2 DEF IInv, CallInv, Keys
    <3>. QED BY <1>2, <1>3, <3>1
  <2>5. \A r \in Slots : mir'.slot[r].ver <= calls'
    <3>1. ASSUME NEW r \in Slots PROVE mir.slot[r].ver \in Nat
      <4>1. mir.slot[r] \in SlotStates BY Setting
      <4>2. mir.slot[r].ver \in Keys BY <4>1, SlotFields
      <4>. QED BY <4>2 DEF Keys
    <3>. QED BY <1>2, <1>3, <2>4, <3>1
  <2>6. d.op = "rotate" \/ d.op = "rollback" => d.type = "P256" BY <1>1, <1>4 DEF TypedOps
  <2>7. d.key = calls' /\ calls' > 1 /\ d.ver <= calls' /\ d.op # "none" /\ d.op \in Ops
        /\ d.at = 1 /\ d.at \in 1 .. Len(Steps[d.op])
    BY <1>2, <1>3, <1>4, <1>9
  <2>. QED BY <2>2, <2>3, <2>4, <2>5, <2>6, <2>7 DEF CallInv
<1>11. ActiveInv'
  <2>1. Final.active = mir.active BY <1>6 DEF IInv, ActiveInv
  <2>2. d.op # "load" => d.slot = Other(Final.active) BY <1>1, <1>4, <2>1 DEF Inactive
  <2>3. d.op \in Commits => d.op # "load" /\ known[d.slot].key # 0
    BY <1>1, <1>4 DEF Commits, ClientMay, Inactive
  <2>4. ASSUME NEW i \in 1 .. N, stream[i].f = "probe"
        PROVE  stream[i].v <= calls' /\ stream[i].v # d.key
    <3>1. stream[i].v <= calls BY <2>4 DEF IInv, ActiveInv
    <3>2. stream[i].v \in Keys BY <2>4, CopyTypes, Setting
    <3>. QED BY <1>2, <1>3, <1>4, <3>1, <3>2 DEF Keys
  <2>. QED BY <1>2, <1>6, <1>7, <2>1, <2>2, <2>3, <2>4 DEF ActiveInv
<1>12. KnownInv' BY <1>2, <1>6, <1>7 DEF IInv, KnownInv
<1>13. WriteInv'
  <2>1. Enqueued(d) = 0 BY <1>4, <1>9 DEF Enqueued
  <2>2. ~(d.at > MirrorAt[d.op]) /\ (d.op = "rollback" => ~(d.at > CopyAt[d.op]))
    BY <1>4, <1>9
  <2>3. d.op = "rotate" => /\ Final'.slot[d.slot].type = mir'.slot[d.slot].type
                           /\ Final'.slot[d.slot].type # "AES"
                           /\ Final'.slot[d.slot].epoch = mir'.slot[d.slot].epoch
    <3>. SUFFICES ASSUME op = "rotate"
                  PROVE  /\ Final.slot[s].type = mir.slot[s].type
                         /\ Final.slot[s].type # "AES"
                         /\ Final.slot[s].epoch = mir.slot[s].epoch
      BY <1>2, <1>4, <1>7
    <3>1. known[s] # Unsure /\ known[s].type # "AES"
      BY <1>1 DEF IInv, KnownInv, ClientMay
    <3>2. Final.slot[s].type = known[s].type /\ Same(Final.slot[s], mir.slot[s])
      BY <1>6, <3>1 DEF IInv, KnownInv
    <3>3. DOMAIN Final.slot[s] = FieldNames BY Setting, SlotFields
    <3>4. /\ Final.slot[s]["type"] = mir.slot[s]["type"]
          /\ Final.slot[s]["epoch"] = mir.slot[s]["epoch"]
      BY <3>2, <3>3 DEF Same, FieldNames
    <3>. QED BY <3>1, <3>2, <3>4
  <2>. QED BY <2>1, <2>2, <2>3 DEF WriteInv
<1>14. PathInv' BY <1>2, <1>6, <1>7 DEF IInv, PathInv
<1>15. LatchInv'
  <2>1. Cur.op \notin {"prepare_async", "commit_async"} BY <1>2
  <2>. QED BY <1>2, <1>6, <2>1 DEF IInv, LatchInv
<1>16. ReqInv'
  <2>1. OwnKey' BY <1>2 DEF IInv, ReqInv, OwnKey
  <2>2. req.st \in {"queued", "valid"} => ~Writing(req.slot)'
    BY <1>1, <1>2, <1>4 DEF ClientMay, InFlight, Writing
  <2>. QED BY <1>2, <2>1, <2>2 DEF IInv, ReqInv
<1>. QED BY <1>8, <1>10, <1>11, <1>12, <1>13, <1>14, <1>15, <1>16 DEF IInv

\* The device applies the first copy: the path is one state shorter.
LEMMA TransferStep ==
  ASSUME CleanUse, IInv, Transfer
  PROVE  IInv'
<1>. PICK t \in Threads : TRUE BY DEF CleanUse
<1>. PICK c \in Calls : c = Cur BY Setting
<1>. PICK d : d = Cur' OBVIOUS
<1>. DEFINE N == Len(stream)
<1>0. Cur = call[t] /\ Cur' = call'[t] /\ call \in [Threads -> Calls] /\ Threads = {t}
  BY OneCall DEF IInv, Typed
<1>. PICK cp : cp = Head(stream) OBVIOUS
<1>1. /\ stream # <<>> /\ UNCHANGED <<req, mir, inner, outer, calls, known>>
      /\ dev' = Apply(dev, cp) /\ stream' = Tail(stream)
      /\ call' = [u \in Threads |->
            [call[u] EXCEPT !.left = IF @ > 0 THEN @ - 1 ELSE 0,
                            !.slot = IF cp.f = "probe" /\ cp.v = call[u].key
                                     THEN Other(dev.active) ELSE @]]
  BY DEF Transfer, hostVars, clientVars
<1>2. /\ stream' \in Seq(Copies) /\ cp = stream[1] /\ cp \in Copies
      /\ N \in Nat \ {0} /\ Len(stream') = N - 1
      /\ \A i \in 1 .. Len(stream') : stream'[i] = stream[i + 1]
      /\ \A k \in 0 .. Len(stream') : At(k)' = At(k + 1)
      /\ Final' = Final /\ dev' = At(1) /\ At(0) = dev
  <2>1. Typed BY DEF IInv
  <2>2. /\ stream' \in Seq(Copies) /\ cp = stream[1]
        /\ N \in Nat \ {0} /\ Len(stream') = N - 1
        /\ \A i \in 1 .. Len(stream') : stream'[i] = stream[i + 1]
        /\ \A k \in 0 .. Len(stream') : At(k)' = At(k + 1)
        /\ Final' = Final /\ dev' = At(1) /\ At(0) = dev
    BY <1>1, <2>1, PathShrinks
  <2>3. 1 \in 1 .. N BY <2>2
  <2>. QED BY <2>2, <2>3, Setting
\* A probe finds the slot that the mirror names as well.
<1>3. cp.f = "probe" /\ cp.v = c.key => Other(dev.active) = c.slot
  <2>. SUFFICES ASSUME cp.f = "probe", cp.v = c.key PROVE Other(dev.active) = c.slot
    OBVIOUS
  <2>1. 1 \in 1 .. N /\ stream[1] = cp BY <1>2
  <2>2. c.op = "prepare" /\ c.at = 2 /\ 1 = N BY <2>1 DEF IInv, ActiveInv
  <2>3. Final = dev' BY <1>2, <2>2 DEF Final, At
  <2>4. dev' = dev BY <1>1 DEF Apply
  <2>5. c.op \in Writers \ {"load"} /\ ~Flipped
    BY <2>2 DEF Writers, TypedOps, Flipped, Commits
  <2>. QED BY <2>3, <2>4, <2>5 DEF IInv, ActiveInv
<1>4. /\ d \in Calls /\ d.op = c.op /\ d.at = c.at /\ d.slot = c.slot /\ d.type = c.type
      /\ d.key = c.key /\ d.ver = c.ver /\ d.n = c.n
      /\ d.left = IF c.left > 0 THEN c.left - 1 ELSE 0
  <2>. PICK l \in Nat : l = IF c.left > 0 THEN c.left - 1 ELSE 0 BY CallTypes
  <2>1. d = [c EXCEPT !.left = l, !.slot = c.slot] BY <1>0, <1>1, <1>3
  <2>2. d = [op |-> c.op, at |-> c.at, slot |-> c.slot, type |-> c.type, key |-> c.key,
             ver |-> c.ver, n |-> c.n, left |-> l]
    BY <2>1 DEF Calls
  <2>3. d \in Calls BY <2>2, CallTypes DEF Calls
  <2>. QED BY <2>2, <2>3
<1>5. /\ \A s : Writing(s)' <=> Writing(s)
      /\ \A s : Loaded1(s)' <=> Loaded1(s)
      /\ Flipped' <=> Flipped
      /\ Step(d) = Step(c) /\ Fields(d) = Fields(c) /\ Enqueued(d) = Enqueued(c)
      /\ \A f : Value(d, f) = Value(c, f)
  <2>1. Fields(d) = Fields(c) /\ \A f : Value(d, f) = Value(c, f)
    BY <1>4 DEF Fields, Value
  <2>2. Enqueued(d) = Enqueued(c) BY <1>4, <2>1 DEF Enqueued
  <2>3. Flipped' <=> Flipped BY <1>4 DEF Flipped
  <2>. QED BY <1>4, <2>1, <2>2, <2>3 DEF Writing, Loaded1, Step
<1>6. Typed'
  <2>1. call' \in [Threads -> Calls]
    <3>1. \A u \in Threads : call'[u] = d BY <1>0
    <3>2. call' = [u \in Threads |-> call'[u]] BY <1>1
    <3>. QED BY <1>4, <3>1, <3>2
  <2>2. dev' \in States
    <3>1. 1 \in 0 .. N BY <1>2
    <3>. QED BY <1>2, <3>1 DEF IInv, PathInv
  <2>. QED BY <1>1, <1>2, <2>1, <2>2 DEF IInv, Typed
<1>7. CallInv'
  <2>1. CASE c.op = "none"
    <3>1. c = NoCall BY <2>1 DEF IInv, CallInv
    <3>2. d = NoCall
      <4>1. d = [op |-> d.op, at |-> d.at, slot |-> d.slot, type |-> d.type, key |-> d.key,
                 ver |-> d.ver, n |-> d.n, left |-> d.left]
        BY <1>4, CallTypes
      <4>. QED BY <1>4, <3>1, <4>1 DEF NoCall
    <3>. QED BY <1>1, <3>2, NoCallFacts DEF IInv, CallInv
  <2>2. CASE c.op # "none"
    <3>1. IF Step(d) = "sync" THEN d.left = Len(stream') ELSE d.left = 0
      <4>1. IF Step(c) = "sync" THEN c.left = N ELSE c.left = 0 BY <2>2 DEF IInv, CallInv
      <4>. QED BY <1>2, <1>4, <1>5, <4>1
    <3>2. /\ ~(c.op \in {"fence", "recover"} /\ c.at >= 2)
          /\ ~(c.op = "rotate" /\ c.at \in {3, 5})
          /\ ~(c.op = "rollback" /\ c.at = 3)
      BY <1>1 DEF IInv, CallInv
    <3>3. IF Step(d) = "copy" THEN d.n < Len(Fields(d)) ELSE d.n = 0
      BY <1>4, <1>5, <2>2 DEF IInv, CallInv
    <3>4. /\ d.op # "none" /\ d.op \in Ops /\ d.at \in 1 .. Len(Steps[d.op])
          /\ d.key = calls' /\ calls' > 1 /\ d.ver <= calls'
          /\ d.op \in Writers /\ d.at <= CopyAt[d.op] =>
               \A s \in Slots : mir'.slot[s].ver < calls'
          /\ d.op = "rotate" \/ d.op = "rollback" => d.type = "P256"
          /\ d.op = "prepare_typed_async" /\ d.at >= 2 => outer'
          /\ \A s \in Slots : mir'.slot[s].ver <= calls'
      BY <1>1, <1>4, <2>2 DEF IInv, CallInv
    <3>. QED BY <1>4, <3>1, <3>2, <3>3, <3>4 DEF CallInv
  <2>. QED BY <2>1, <2>2
<1>8. ActiveInv'
  <2>1. ASSUME NEW i \in 1 .. Len(stream'), stream'[i].f = "probe"
        PROVE  /\ stream'[i].v <= calls
               /\ stream'[i].v = c.key => c.op = "prepare" /\ c.at = 2 /\ i = Len(stream')
    <3>1. i + 1 \in 1 .. N /\ stream'[i] = stream[i + 1] BY <1>2
    <3>2. /\ stream[i + 1].v <= calls
          /\ stream[i + 1].v = c.key => c.op = "prepare" /\ c.at = 2 /\ i + 1 = N
      BY <2>1, <3>1 DEF IInv, ActiveInv
    <3>. QED BY <1>2, <3>1, <3>2
  <2>. QED BY <1>1, <1>2, <1>4, <1>5, <2>1, ZenonT(60) DEF IInv, ActiveInv
<1>9. KnownInv' BY <1>1, <1>2, <1>5, ZenonT(60) DEF IInv, KnownInv
<1>10. WriteInv' BY <1>1, <1>2, <1>4, <1>5, ZenonT(60) DEF IInv, WriteInv
<1>11. PathInv'
  <2>1. ASSUME NEW k \in 0 .. Len(stream')
        PROVE  At(k)' \in States /\ (Loaded1(At(k).active)' \/ Whole(At(k)'.slot[At(k)'.active]))
    <3>1. k + 1 \in 0 .. N /\ At(k)' = At(k + 1) BY <1>2
    <3>. QED BY <1>4, <3>1 DEF IInv, PathInv, Loaded1
  <2>2. ASSUME NEW k \in 1 .. Len(stream'), Writes(stream'[k])
        PROVE  stream'[k].slot # At(k - 1)'.active \/ Loaded1(stream[k].slot)'
    <3>1. k + 1 \in 1 .. N /\ stream'[k] = stream[k + 1] /\ k - 1 \in 0 .. Len(stream')
          /\ k - 1 + 1 = k /\ k + 1 - 1 = k
      BY <1>2
    <3>2. At(k - 1)' = At(k) BY <1>2, <3>1
    <3>3. stream[k + 1].slot # At(k).active \/ Loaded1(stream[k + 1].slot)
      BY <2>2, <3>1 DEF IInv, PathInv
    <3>. QED BY <1>4, <3>1, <3>2, <3>3 DEF Loaded1
  <2>. QED BY <2>1, <2>2 DEF PathInv
<1>12. LatchInv'
  <2>1. ASSUME NEW i \in 1 .. Len(stream')
        PROVE  /\ stream'[i].async => \/ outer' \/ d.op = "prepare_async"
                                      \/ (d.op = "commit_async" /\ d.at >= 2)
               /\ Writes(stream'[i]) =>
                    \/ outer' \/ Writing(stream[i].slot)' \/ known'[stream'[i].slot] = Unsure
    <3>1. i + 1 \in 1 .. N /\ stream'[i] = stream[i + 1] BY <1>2
    <3>. QED BY <1>1, <1>4, <3>1 DEF IInv, LatchInv, Writing
  <2>. QED BY <2>1 DEF LatchInv
<1>13. ReqInv'
  <2>1. OwnKey' BY <1>1 DEF IInv, ReqInv, OwnKey
  <2>2. ASSUME req.st \in {"queued", "valid"}, NEW i \in 1 .. Len(stream'), Writes(stream'[i])
        PROVE  stream'[i].slot # req.slot
    <3>1. i + 1 \in 1 .. N /\ stream'[i] = stream[i + 1] BY <1>2
    <3>. QED BY <2>2, <3>1 DEF IInv, ReqInv
  <2>. QED BY <1>1, <1>5, <2>1, <2>2 DEF IInv, ReqInv
<1>. QED BY <1>6, <1>7, <1>8, <1>9, <1>10, <1>11, <1>12, <1>13 DEF IInv

-----------------------------------------------------------------------------
(* Requests.                                                               *)

\* What a guarded submit may name: a slot to which nothing is on its way.
LEMMA SubmitStep ==
  ASSUME CleanUse, IInv, Submit
  PROVE  IInv'
<1>1. PICK via \in Surfaces, s \in Slots, alg \in Algs :
        /\ via = "generic" => ~ outer
        /\ known[s] # Unsure
        /\ \A t \in Threads : call[t].op \in Writers => call[t].slot # s
        /\ req' = [st |-> "queued", slot |-> s, alg |-> alg,
                   want |-> Expected(known[s], alg), used |-> 0]
  BY DEF Submit
<1>2. UNCHANGED <<dev, stream, call, mir, inner, outer, calls, known>>
  BY DEF Submit, hostVars, clientVars
<1>3. ~outer BY <1>1 DEF CleanUse
<1>4. Cur' = Cur BY <1>2 DEF Cur
<1>5. Final' = Final /\ \A k \in 0 .. Len(stream) : At(k)' = At(k) BY <1>2, PathKept
<1>6. ~Writing(s)
  <2>1. PICK t \in Threads : TRUE BY DEF CleanUse
  <2>2. Cur = call[t] BY <2>1, OneCall
  <2>. QED BY <1>1, <2>1, <2>2 DEF Writing
<1>7. \A i \in 1 .. Len(stream) : Writes(stream[i]) => stream[i].slot # s
  <2>1. ASSUME NEW i \in 1 .. Len(stream), Writes(stream[i]), stream[i].slot = s PROVE FALSE
    <3>1. Writing(stream[i].slot) \/ known[stream[i].slot] = Unsure
      BY <1>3, <2>1 DEF IInv, LatchInv
    <3>. QED BY <1>1, <1>6, <2>1, <3>1
  <2>. QED BY <2>1
<1>8. Typed'
  <2>1. Expected(known[s], alg) \in Keys
    <3>1. known[s] \in Knowledge /\ 0 \in Keys BY Setting
    <3>. QED BY <3>1 DEF Knowledge, Expected
  <2>2. alg \in {"p256", "aes", "chacha"} BY KeyRotationAssumption
  <2>3. 0 \in Keys BY Setting
  <2>4. req' \in Submitted BY <1>1, <2>1, <2>2, <2>3 DEF Submitted
  <2>. QED BY <1>2, <2>4 DEF IInv, Typed
<1>9. ReqInv'
  <2>1. OwnKey' BY <1>1 DEF OwnKey
  <2>2. ~Writing(req.slot)' BY <1>1, <1>4, <1>6 DEF Writing
  <2>. QED BY <1>1, <1>2, <1>7, <2>1, <2>2 DEF ReqInv
<1>10. CallInv' BY <1>2, <1>4 DEF IInv, CallInv
<1>11. ActiveInv' BY <1>2, <1>4, <1>5 DEF IInv, ActiveInv, Flipped
<1>12. KnownInv' BY <1>2, <1>4, <1>5 DEF IInv, KnownInv, Writing
<1>13. WriteInv' BY <1>2, <1>4, <1>5 DEF IInv, WriteInv
<1>14. PathInv' BY <1>2, <1>4, <1>5 DEF IInv, PathInv, Loaded1
<1>15. LatchInv' BY <1>2, <1>4 DEF IInv, LatchInv, Writing
<1>. QED BY <1>8, <1>9, <1>10, <1>11, <1>12, <1>13, <1>14, <1>15 DEF IInv

\* What the kernel finds in the slot of a request in flight.
LEMMA InFlightSlot ==
  ASSUME CleanUse, IInv, req.st \in {"queued", "valid"}
  PROVE  LET a == dev.slot[req.slot]
             k == known[req.slot] IN
         /\ a.key = k.key /\ a.type = k.type /\ (k.type = "AES" => a.rk = k.key)
         /\ req.want = Expected(k, req.alg) /\ req.used = 0
         /\ req.slot \in Slots /\ a \in SlotStates
         /\ req.st = "valid" => req.alg = "p256" \/ k.type = "AES"
<1>1. req.slot \in Slots BY DEF IInv, Typed, Submitted
<1>2. /\ \A i \in 1 .. Len(stream) : Writes(stream[i]) => stream[i].slot # req.slot
      /\ ~Writing(req.slot) /\ known[req.slot] # Unsure
      /\ req.want = Expected(known[req.slot], req.alg) /\ req.used = 0
      /\ req.st = "valid" => req.alg = "p256" \/ known[req.slot].type = "AES"
  BY DEF IInv, ReqInv
<1>3. Final.slot[req.slot] = dev.slot[req.slot] BY <1>1, <1>2, Untouched DEF IInv
<1>4. dev.slot[req.slot] \in SlotStates BY <1>1, Setting DEF States
<1>. QED BY <1>1, <1>2, <1>3, <1>4 DEF IInv, KnownInv

\* A step that changes the request alone, and keeps what is said of it.
LEMMA RequestStep ==
  ASSUME CleanUse, IInv, req' \in Submitted,
         UNCHANGED <<dev, stream, call, mir, inner, outer, calls, known>>,
         OwnKey', req'.slot = req.slot, req'.alg = req.alg, req'.want = req.want,
         req.st \in {"queued", "valid"},
         req'.st \in {"valid", "done"}, req'.st = "valid" => req'.used = 0,
         req'.st = "valid" => req.alg = "p256" \/ known[req.slot].type = "AES"
  PROVE  IInv'
<1>1. Cur' = Cur BY DEF Cur
<1>2. Final' = Final /\ \A k \in 0 .. Len(stream) : At(k)' = At(k) BY PathKept
<1>3. Typed' BY DEF IInv, Typed
<1>4. ReqInv'
  <2>1. ~Writing(req.slot)' BY <1>1 DEF IInv, ReqInv, Writing
  <2>. QED BY <2>1 DEF IInv, ReqInv
<1>5. CallInv' BY <1>1 DEF IInv, CallInv
<1>6. ActiveInv' BY <1>1, <1>2 DEF IInv, ActiveInv, Flipped
<1>7. KnownInv' BY <1>1, <1>2 DEF IInv, KnownInv, Writing
<1>8. WriteInv' BY <1>1, <1>2 DEF IInv, WriteInv
<1>9. PathInv' BY <1>1, <1>2 DEF IInv, PathInv, Loaded1
<1>10. LatchInv' BY <1>1 DEF IInv, LatchInv, Writing
<1>. QED BY <1>3, <1>4, <1>5, <1>6, <1>7, <1>8, <1>9, <1>10 DEF IInv

LEMMA ValidateStep ==
  ASSUME CleanUse, IInv, Validate
  PROVE  IInv'
<1>. DEFINE next == IF req.alg = "p256" \/ dev.slot[req.slot].type = "AES"
                    THEN "valid" ELSE "done"
<1>1. /\ req.st = "queued" /\ req' = [req EXCEPT !.st = next]
      /\ UNCHANGED <<dev, stream, call, mir, inner, outer, calls, known>>
  BY DEF Validate, hostVars, clientVars
<1>2. /\ dev.slot[req.slot].type = known[req.slot].type
      /\ req.want = Expected(known[req.slot], req.alg) /\ req.used = 0
  BY <1>1, InFlightSlot
<1>3. req \in Submitted /\ next \in {"valid", "done"} BY DEF IInv, Typed
<1>4. next = "done" => req.want = 0 BY <1>2 DEF Expected
<1>5. next = "valid" => req.alg = "p256" \/ known[req.slot].type = "AES" BY <1>2
<1>. HIDE DEF next
<1>6. /\ req' \in Submitted /\ req'.st = next /\ req'.slot = req.slot /\ req'.alg = req.alg
      /\ req'.want = req.want /\ req'.used = req.used
  BY <1>1, <1>3 DEF Submitted
<1>7. OwnKey' BY <1>2, <1>4, <1>6 DEF OwnKey
<1>. QED BY <1>1, <1>2, <1>3, <1>5, <1>6, <1>7, RequestStep

LEMMA ComputeStep ==
  ASSUME CleanUse, IInv, Compute
  PROVE  IInv'
<1>. DEFINE found == IF req.alg = "aes" THEN dev.slot[req.slot].rk
                     ELSE dev.slot[req.slot].key
<1>1. /\ req.st = "valid" /\ req' = [req EXCEPT !.st = "done", !.used = found]
      /\ UNCHANGED <<dev, stream, call, mir, inner, outer, calls, known>>
  BY DEF Compute, hostVars, clientVars
<1>2. LET a == dev.slot[req.slot]
          k == known[req.slot] IN
      /\ a.key = k.key /\ a.type = k.type /\ (k.type = "AES" => a.rk = k.key)
      /\ req.want = Expected(k, req.alg) /\ a \in SlotStates
      /\ req.alg = "p256" \/ k.type = "AES"
  BY <1>1, InFlightSlot
<1>3. found \in Keys /\ found = req.want BY <1>2, SlotFields DEF Expected
<1>4. req \in Submitted BY DEF IInv, Typed
<1>. HIDE DEF found
<1>5. /\ req' \in Submitted /\ req'.st = "done" /\ req'.slot = req.slot /\ req'.alg = req.alg
      /\ req'.want = req.want /\ req'.used = found
  BY <1>1, <1>3, <1>4 DEF Submitted
<1>6. OwnKey' BY <1>3, <1>5 DEF OwnKey
<1>. QED BY <1>1, <1>5, <1>6, RequestStep

-----------------------------------------------------------------------------
(* The invariant, and what it says.                                        *)

LEMMA InitInv == CleanUse /\ Init => IInv
<1>. SUFFICES ASSUME CleanUse, Init PROVE IInv OBVIOUS
<1>1. PICK t \in Threads : TRUE BY DEF CleanUse
<1>2. Cur = NoCall BY <1>1, OneCall DEF Init
<1>3. 0 \in Keys /\ 1 \in Keys /\ 1 \in 1 .. MaxCalls BY KeyRotationAssumption DEF Keys
<1>. DEFINE first == Loaded(EmptySlot, "P256", 1, 1)
<1>4. /\ first \in SlotStates /\ first.type = "P256" /\ first.key = 1 /\ first.ver = 1
      /\ Whole(first)
  BY <1>3 DEF Loaded, EmptySlot, SlotStates, Whole
<1>5. /\ dev = [slot |-> [s \in Slots |-> IF s = 0 THEN first ELSE EmptySlot], active |-> 0]
      /\ mir = dev /\ stream = <<>> /\ inner = FALSE /\ outer = FALSE
      /\ call = [u \in Threads |-> NoCall] /\ calls = 1 /\ req = NoReq
      /\ known = [s \in Slots |-> IF s = 0 THEN [type |-> "P256", key |-> 1] ELSE Nothing]
  BY DEF Init
<1>. HIDE DEF first
<1>6. dev \in States /\ 0 \in Slots BY <1>4, <1>5, EmptyIsSlot DEF States, Slots
<1>7. /\ dev.active = 0 /\ dev.slot[0] = first
      /\ \A s \in Slots : s # 0 => dev.slot[s] = EmptySlot
  BY <1>5, <1>6
<1>8. Len(stream) = 0 /\ stream \in Seq(Copies) BY <1>5
<1>9. Path(dev, stream)[0] = dev BY <1>8, PathSteps
<1>10. Final = dev /\ At(0) = dev BY <1>8, <1>9 DEF Final, At
<1>11. Typed
  <2>1. known \in [Slots -> Knowledge]
    <3>1. [type |-> "P256", key |-> 1] \in Knowledge /\ Nothing \in Knowledge
      BY <1>3 DEF Knowledge, Nothing
    <3>. QED BY <1>5, <3>1
  <2>2. req \in Submitted BY <1>3, <1>5, <1>6 DEF NoReq, Submitted
  <2>. QED BY <1>3, <1>5, <1>6, <1>8, <2>1, <2>2, NoCallFacts DEF Typed
<1>12. \A s \in Slots : mir.slot[s].ver <= calls
  BY <1>4, <1>5, <1>6, <1>7 DEF EmptySlot
<1>13. CallInv BY <1>2, <1>12, NoCallFacts, OpNames DEF CallInv, NoCall
<1>14. ActiveInv BY <1>2, <1>5, <1>8, <1>10, NoCallFacts DEF ActiveInv, Flipped
<1>15. KnownInv
  <2>1. \A s \in Slots : Same(dev.slot[s], mir.slot[s]) BY <1>5 DEF Same
  <2>2. /\ known[0] = [type |-> "P256", key |-> 1]
        /\ \A s \in Slots : s # 0 => known[s] = Nothing
    BY <1>5, <1>6
  <2>. QED BY <1>4, <1>7, <1>10, <2>1, <2>2 DEF KnownInv, Nothing, Unsure, EmptySlot
<1>16. WriteInv BY <1>2, NoCallFacts DEF WriteInv, NoCall
<1>17. PathInv BY <1>4, <1>6, <1>7, <1>8, <1>10 DEF PathInv
<1>18. LatchInv BY <1>8 DEF LatchInv
<1>19. ReqInv BY <1>5 DEF ReqInv, OwnKey, NoReq
<1>. QED BY <1>11, <1>13, <1>14, <1>15, <1>16, <1>17, <1>18, <1>19 DEF IInv

LEMMA NextInv == CleanUse /\ IInv /\ [Next]_vars => IInv'
<1>. SUFFICES ASSUME CleanUse, IInv, [Next]_vars PROVE IInv' OBVIOUS
<1>1. ASSUME NEW t \in Threads, Begin(t) PROVE IInv' BY <1>1, BeginStep
<1>2. ASSUME NEW t \in Threads, CallStep(t) PROVE IInv'
  <2>0. Cur = call[t] /\ Cur.op # "none" BY <1>2, OneCall DEF CallStep
  <2>1. CASE Enqueue(t) BY <2>0, <2>1, EnqueueStep
  <2>2. CASE EnqueueProbe(t) BY <2>0, <2>2, ProbeStep
  <2>3. CASE EnqueueFlip(t) BY <2>0, <2>3, FlipStep
  <2>4. CASE UpdateMirror(t) BY <2>0, <2>4, MirrorStep
  <2>5. CASE Sync(t)
    <3>1. stream = <<>>
      <4>1. Cur.left = 0 /\ Step(Cur) = "sync" BY <2>0, <2>5 DEF Sync
      <4>2. Cur.left = Len(stream) BY <2>0, <4>1 DEF IInv, CallInv
      <4>. QED BY <4>1, <4>2 DEF IInv, Typed
    <3>. QED BY <2>0, <2>5, <3>1, QuietStep
          DEF Sync, Advance, hostVars, IInv, Typed
  <2>6. CASE Latch(t)
    <3>1. CASE Step(Cur) = "latch"
      BY <2>0, <2>6, <3>1, QuietStep DEF Latch, Advance, IInv, Typed
    <3>2. CASE Step(Cur) = "close"
      BY <2>0, <2>6, <3>2, QuietStep DEF Latch, Advance, IInv, Typed
    <3>. QED BY <2>0, <2>6, <3>1, <3>2 DEF Latch
  <2>7. CASE Unlatch(t)
    <3>1. CASE Step(Cur) = "unlatch"
      BY <2>0, <2>7, <3>1, QuietStep DEF Unlatch, Advance, IInv, Typed
    <3>2. CASE Step(Cur) = "open"
      BY <2>0, <2>7, <3>2, QuietStep DEF Unlatch, Advance, IInv, Typed
    <3>3. CASE Step(Cur) = "resync"
      <4>1. Cur.op = "recover" /\ Cur.at = 2 BY <2>0, <3>3, CurStep, Table, Setting
      <4>2. stream = <<>> BY <4>1 DEF IInv, CallInv
      <4>3. Final = dev
        <5>1. Len(stream) = 0 BY <4>2
        <5>. QED BY <5>1, PathSteps DEF Final
      <4>4. Final.active = mir.active BY <4>1 DEF IInv, ActiveInv, Flipped, Commits
      <4>5. mir' = mir
        <5>1. mir' = [mir EXCEPT !.active = dev.active] BY <2>0, <2>7, <3>3 DEF Unlatch
        <5>2. mir \in States BY Setting
        <5>. QED BY <4>3, <4>4, <5>1, <5>2 DEF States
      <4>. QED BY <2>0, <2>7, <3>3, <4>5, QuietStep DEF Unlatch, Advance, IInv, Typed
    <3>. QED BY <2>0, <2>7, <3>1, <3>2, <3>3 DEF Unlatch
  <2>8. CASE Fail(t) BY <2>0, <2>8, FailStep
  <2>. QED BY <1>2, <2>1, <2>2, <2>3, <2>4, <2>5, <2>6, <2>7, <2>8 DEF CallStep
<1>3. CASE Transfer BY <1>3, TransferStep
<1>4. CASE Submit BY <1>4, SubmitStep
<1>5. CASE Validate BY <1>5, ValidateStep
<1>6. CASE Compute BY <1>6, ComputeStep
<1>7. CASE UNCHANGED vars
  <2>1. UNCHANGED <<dev, stream, call, req, mir, inner, outer, calls, known>>
    BY <1>7 DEF vars, hostVars, clientVars
  <2>2. Cur' = Cur BY <2>1 DEF Cur
  <2>3. Final' = Final /\ \A k \in 0 .. Len(stream) : At(k)' = At(k) BY <2>1, PathKept
  <2>4. Typed' /\ ReqInv'
    BY <2>1, <2>2 DEF IInv, Typed, ReqInv, OwnKey, Writing
  <2>5. CallInv' BY <2>1, <2>2 DEF IInv, CallInv
  <2>6. ActiveInv' BY <2>1, <2>2, <2>3 DEF IInv, ActiveInv, Flipped
  <2>7. KnownInv' BY <2>1, <2>2, <2>3 DEF IInv, KnownInv, Writing
  <2>8. WriteInv' BY <2>1, <2>2, <2>3 DEF IInv, WriteInv
  <2>9. PathInv' BY <2>1, <2>2, <2>3 DEF IInv, PathInv, Loaded1
  <2>10. LatchInv' BY <2>1, <2>2 DEF IInv, LatchInv, Writing
  <2>. QED BY <2>4, <2>5, <2>6, <2>7, <2>8, <2>9, <2>10 DEF IInv
<1>. QED BY <1>1, <1>2, <1>3, <1>4, <1>5, <1>6, <1>7 DEF Next

\* Rotation, from one thread of calls and for clients that submit through
\* the guarded interface, keeps IInv.
THEOREM RotationInvariant == CleanUse => (Spec => []IInv)
<1>. SUFFICES ASSUME CleanUse PROVE Spec => []IInv OBVIOUS
<1>1. Init => IInv BY InitInv
<1>2. IInv /\ [Next]_vars => IInv' BY NextInv
<1>. QED BY <1>1, <1>2, PTL DEF Spec

\* Every variable has its type, and a waiting call waits for copies that are
\* still enqueued.
LEMMA TypesFollow == CleanUse /\ IInv => TypeOK
<1>. SUFFICES ASSUME CleanUse, IInv PROVE TypeOK OBVIOUS
<1>1. \A i \in DOMAIN stream : stream[i].slot \in Slots /\ stream[i].by \in Threads
  <2>1. stream \in Seq(Copies) BY DEF IInv, Typed
  <2>2. DOMAIN stream = 1 .. Len(stream) BY <2>1
  <2>. QED BY <2>2, Setting, CopyTypes
<1>2. ASSUME NEW t \in Threads
      PROVE  /\ call[t].op \in AllOps \cup {"none"} /\ call[t].slot \in Slots
             /\ call[t].left \in 0 .. Len(stream)
  <2>1. Cur = call[t] /\ Cur \in Calls /\ Len(stream) \in Nat BY OneCall, Setting
  <2>2. Cur.left = 0 \/ Cur.left = Len(stream)
    BY NoCallFacts DEF IInv, CallInv
  <2>. QED BY <2>1, <2>2, CallTypes
<1>3. \A s \in Slots : known[s].key \in Keys BY Setting DEF Knowledge
<1>4. req.st \in {"none", "queued", "valid", "done"} /\ req.slot \in Slots
  BY DEF IInv, Typed, Submitted
<1>. QED BY <1>1, <1>2, <1>3, <1>4 DEF IInv, Typed, TypeOK

\* The slot the device selects is whole, unless a load is writing it.
LEMMA WholeFollows == CleanUse /\ IInv => ActiveSlotWhole
<1>. SUFFICES ASSUME CleanUse, IInv PROVE ActiveSlotWhole OBVIOUS
<1>1. PICK t \in Threads : TRUE BY DEF CleanUse
<1>2. Cur = call[t] BY <1>1, OneCall
<1>3. At(0) = dev /\ 0 \in 0 .. Len(stream) BY Setting, PathSteps DEF At
<1>4. Loaded1(dev.active) \/ Whole(dev.slot[dev.active]) BY <1>3 DEF IInv, PathInv
<1>5. Loaded1(dev.active) => Loading BY <1>1, <1>2 DEF Loaded1, Loading
<1>. QED BY <1>4, <1>5 DEF ActiveSlotWhole, Whole

\* Between calls the mirror is where the device will be.
LEMMA MirrorFollows == CleanUse /\ IInv => MirrorIsAhead
<1>. SUFFICES ASSUME CleanUse, IInv, \A t \in Threads : call[t].op = "none"
              PROVE  /\ Final.active = mir.active
                     /\ \A s \in Slots :
                          known[s] # Unsure => Same(Final.slot[s], mir.slot[s])
  BY DEF MirrorIsAhead
<1>1. PICK t \in Threads : TRUE BY DEF CleanUse
<1>2. Cur.op = "none" BY <1>1, OneCall
<1>3. ~Flipped /\ \A s : ~Writing(s) BY <1>2, NoCallFacts DEF Flipped, Writing
<1>. QED BY <1>3 DEF IInv, ActiveInv, KnownInv

\* The latch is closed while an asynchronous copy is on its way.
LEMMA LatchFollows == CleanUse /\ IInv => LatchWhileAsyncPending
<1>. SUFFICES ASSUME CleanUse, IInv PROVE LatchWhileAsyncPending OBVIOUS
<1>1. PICK t \in Threads : TRUE BY DEF CleanUse
<1>2. Cur = call[t] BY <1>1, OneCall
<1>3. stream \in Seq(Copies) BY DEF IInv, Typed
<1>4. DOMAIN stream = 1 .. Len(stream) BY <1>3
<1>5. \A i \in 1 .. Len(stream) :
        stream[i].async => \/ outer \/ Cur.op \in {"prepare_async", "commit_async"}
  BY DEF IInv, LatchInv
<1>. QED BY <1>1, <1>2, <1>4, <1>5 DEF LatchWhileAsyncPending

\* A step changes the selected slot only for a load, since no copy on its
\* way writes the slot that is selected when it is applied.
LEMMA StepKeepsActive ==
  ASSUME CleanUse, IInv, [Next]_vars
  PROVE  ActiveSlotKept
<1>1. PICK t \in Threads : TRUE BY DEF CleanUse
<1>2. Cur = call[t] BY <1>1, OneCall
<1>3. CASE dev' = dev BY <1>3 DEF ActiveSlotKept
<1>4. CASE Transfer
  <2>1. stream # <<>> /\ dev' = Apply(dev, Head(stream)) BY <1>4 DEF Transfer
  <2>2. stream \in Seq(Copies) BY DEF IInv, Typed
  <2>3. 1 \in 1 .. Len(stream) /\ Head(stream) = stream[1] /\ stream[1] \in Copies
    BY <2>1, <2>2
  <2>4. At(0) = dev BY <2>2, PathSteps DEF At
  <2>5. Writes(stream[1]) => stream[1].slot # dev.active \/ Loaded1(stream[1].slot)
    <3>1. Writes(stream[1]) => stream[1].slot # At(1 - 1).active \/ Loaded1(stream[1].slot)
      BY <2>3 DEF IInv, PathInv
    <3>. QED BY <2>4, <3>1
  <2>6. dev \in States /\ dev.active \in Slots BY Setting DEF States
  <2>7. CASE ~Writes(stream[1])
    <3>1. stream[1].f = "probe" \/ stream[1].f = "active" BY <2>7 DEF Writes
    <3>2. dev'.slot = dev.slot BY <2>1, <2>3, <2>6, <3>1, ApplyFacts
    <3>. QED BY <3>2 DEF ActiveSlotKept
  <2>8. CASE Writes(stream[1]) /\ stream[1].slot # dev.active
    <3>1. dev'.slot[dev.active] = dev.slot[dev.active]
      BY <2>1, <2>3, <2>6, <2>8, ApplyFacts
    <3>. QED BY <3>1 DEF ActiveSlotKept
  <2>9. CASE Writes(stream[1]) /\ stream[1].slot = dev.active
    <3>1. Loading BY <1>1, <1>2, <2>5, <2>9, SMTT(60) DEF Loaded1, Loading
    <3>. QED BY <3>1 DEF ActiveSlotKept
  <2>. QED BY <2>7, <2>8, <2>9
<1>5. Transfer \/ dev' = dev
  BY ZenonT(60) DEF Next, vars, Begin, CallStep, Enqueue, EnqueueProbe, EnqueueFlip, UpdateMirror,
         Sync, Latch, Unlatch, Fail, Submit, Validate, Compute, Advance
<1>. QED BY <1>3, <1>4, <1>5

\* The types of the rotation's variables, for any number of calls.
THEOREM RotationTypes == CleanUse => (Spec => []TypeOK)
<1>. SUFFICES ASSUME CleanUse PROVE Spec => []TypeOK OBVIOUS
<1>1. IInv => TypeOK BY TypesFollow
<1>. QED BY <1>1, RotationInvariant, PTL

\* The kernel never signs from a slot that is half written.
THEOREM SelectedSlotWhole == CleanUse => (Spec => []ActiveSlotWhole)
<1>. SUFFICES ASSUME CleanUse PROVE Spec => []ActiveSlotWhole OBVIOUS
<1>1. IInv => ActiveSlotWhole BY WholeFollows
<1>. QED BY <1>1, RotationInvariant, PTL

\* A request is computed with the key its client had loaded in the slot it
\* names, or refused.
THEOREM RequestsUseOwnKey == CleanUse => (Spec => []OwnKey)
<1>1. IInv => OwnKey BY DEF IInv, ReqInv
<1>. QED BY <1>1, RotationInvariant, PTL

\* The host's mirror says where the stream leads, so that the next call takes
\* the right slot and the next version.
THEOREM MirrorStaysAhead == CleanUse => (Spec => []MirrorIsAhead)
<1>. SUFFICES ASSUME CleanUse PROVE Spec => []MirrorIsAhead OBVIOUS
<1>1. IInv => MirrorIsAhead BY MirrorFollows
<1>. QED BY <1>1, RotationInvariant, PTL

\* Submits are refused while asynchronous copies are on their way.
THEOREM LatchHolds == CleanUse => (Spec => []LatchWhileAsyncPending)
<1>. SUFFICES ASSUME CleanUse PROVE Spec => []LatchWhileAsyncPending OBVIOUS
<1>1. IInv => LatchWhileAsyncPending BY LatchFollows
<1>. QED BY <1>1, RotationInvariant, PTL

\* No rotation writes into the slot that the epoch selects.
THEOREM SelectedKeyStable == CleanUse => (Spec => ActiveKeyStable)
<1>. SUFFICES ASSUME CleanUse PROVE Spec => ActiveKeyStable OBVIOUS
<1>1. IInv /\ [Next]_vars => [ActiveSlotKept]_dev BY StepKeepsActive
<1>2. Spec => []IInv BY RotationInvariant
<1>. QED BY <1>1, <1>2, PTL DEF Spec, ActiveKeyStable
===============================================================================

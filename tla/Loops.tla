------------------------------- MODULE Loops -------------------------------
(* The loops of the algorithm modules.                                       *)
EXTENDS Integers, Sequences

\* F(x), x taken from a set so that it is computed once.
Once(x, F(_)) == CHOOSE r \in {F(q) : q \in {x}} : r = r

\* n turns from state s: Step(s, i) for i = 0 .. n - 1.  They are made eight at
\* a time, which keeps the recursion shallow.
Loop(n, s, Step(_, _)) ==
  LET RECURSIVE Turns(_, _)
      Turns(first, p) ==
        LET m == IF n - first < 8 THEN n - first ELSE 8
            at[i \in 0 .. m] == IF i = 0 THEN p ELSE CHOOSE r \in {Step(q, first + i - 1) : q \in {at[i - 1]}} : r = r
        IN  IF first + m = n THEN at[m] ELSE CHOOSE r \in {Turns(first + 8, q) : q \in {at[m]}} : r = r
  IN  Turns(0, s)
=============================================================================

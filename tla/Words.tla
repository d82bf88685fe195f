------------------------------ MODULE Words ------------------------------
(* Bytes, machine words and longer numbers as the sets of their one bits.    *)
EXTENDS Loops

Xor(a, b) == (a \ b) \cup (b \ a)
Complement(a, w) == (0 .. w - 1) \ a
Below(a, w) == {i \in a : i < w}                       \* a % 2^w
Shl(a, n) == {i + n : i \in a}
Shr(a, n) == {i - n : i \in {j \in a : j >= n}}
Rotr(a, n, w) == {(i + w - n) % w : i \in a}
Rotl(a, n, w) == {(i + n) % w : i \in a}

RECURSIVE Plus(_, _)
Plus(a, b) == IF b = {} THEN a ELSE Plus(Xor(a, b), Shl(a \cap b, 1))
Add(a, b, w) == Below(Plus(a, b), w)

RECURSIVE Times(_, _)
Times(a, b) ==
  IF b = {} THEN {} ELSE LET i == CHOOSE i \in b : TRUE IN Plus(Shl(a, i), Times(a, b \ {i}))

TopBit(a) == CHOOSE i \in a : \A j \in a : j <= i
Less(a, b) == a # b /\ TopBit(Xor(a, b)) \in b

Bits(n) == {i \in 0 .. 30 : (n \div 2 ^ i) % 2 = 1}
\* A constant in pieces of 16 bits, the highest first.
Hex(h) == UNION {Shl(Bits(h[i]), 16 * (Len(h) - i)) : i \in DOMAIN h}
-----------------------------------------------------------------------------
(* Sequences of bytes.                                                       *)

Zeros(n) == [i \in 1 .. n |-> {}]
Byte(n) == <<Bits(n)>>
FromBE(s) == UNION {Shl(s[i], 8 * (Len(s) - i)) : i \in DOMAIN s}
FromLE(s) == UNION {Shl(s[i], 8 * (i - 1)) : i \in DOMAIN s}
ToBE(a, n) == [i \in 1 .. n |-> Below(Shr(a, 8 * (n - i)), 8)]
ToLE(a, n) == [i \in 1 .. n |-> Below(Shr(a, 8 * (i - 1)), 8)]
Part(s, from, n) == SubSeq(s, from + 1, from + n)      \* n bytes at offset from
XorBytes(s, t) == [i \in DOMAIN s |-> Xor(s[i], t[i])]
\* Words of n bytes each, from byte 0 on.
WordsBE(s, n) == [i \in 1 .. Len(s) \div n |-> FromBE(Part(s, (i - 1) * n, n))]
WordsLE(s, n) == [i \in 1 .. Len(s) \div n |-> FromLE(Part(s, (i - 1) * n, n))]
JoinBE(words, n) == [i \in 1 .. n * Len(words) |-> ToBE(words[(i - 1) \div n + 1], n)[((i - 1) % n) + 1]]
JoinLE(words, n) == [i \in 1 .. n * Len(words) |-> ToLE(words[(i - 1) \div n + 1], n)[((i - 1) % n) + 1]]
=============================================================================

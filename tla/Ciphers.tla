------------------------------ MODULE Ciphers ------------------------------
(* AES-256-CTR and -GCM, ChaCha20, Poly1305 and their AEAD, bit for bit.  A  *)
(* function that writes an output buffer takes it and gives it back.         *)
EXTENDS Words

Put(buffer, s) == [i \in DOMAIN buffer |-> IF i <= Len(s) THEN s[i] ELSE buffer[i]]
Padded16(s) == s \o Zeros((16 - (Len(s) % 16)) % 16)
\* s encrypted with a key stream whose block i is Stream(i).
XorStream(s, size, Stream(_)) ==
  LET stream == Loop((Len(s) + size - 1) \div size, <<>>, LAMBDA out, i : out \o Stream(i))
  IN  [i \in DOMAIN s |-> Xor(s[i], stream[i])]
-----------------------------------------------------------------------------
(* AES.  The table of the source is the affine map of the inverse.           *)

xtime_dev(x) == LET y == Below(Shl(x, 1), 8) IN IF 7 \in x THEN Xor(y, Bits(27)) ELSE y
PowersOf3 == Loop(254, <<{0}>>, LAMBDA p, i : Append(p, Xor(p[i + 1], xtime_dev(p[i + 1]))))
AES_SBOX_DEV ==
  LET Inverse(x) == IF x = {} THEN {} ELSE PowersOf3[((256 - CHOOSE i \in 1 .. 255 : PowersOf3[i] = x) % 255) + 1]
      Affine(y) == Xor(Xor(Xor(y, Rotl(y, 1, 8)), Xor(Rotl(y, 2, 8), Rotl(y, 3, 8))), Xor(Rotl(y, 4, 8), Bits(99)))
  IN  [x \in SUBSET (0 .. 7) |-> Affine(Inverse(x))]
RCON == <<1, 2, 4, 8, 16, 32, 64, 128, 27, 54>>

\* A word is its four bytes, the highest first.
subword(w) == [i \in 1 .. 4 |-> AES_SBOX_DEV[w[i]]]
rotword(w) == <<w[2], w[3], w[4], w[1]>>
ExpandKey(key) ==
  LET Temp(w, i) == IF i % 8 = 0 THEN [subword(rotword(w[i])) EXCEPT ![1] = Xor(@, Bits(RCON[i \div 8]))]
                    ELSE IF i % 8 = 4 THEN subword(w[i])
                    ELSE w[i]
  IN  Loop(52, [i \in 1 .. 8 |-> Part(key, 4 * (i - 1), 4)],
           LAMBDA w, j : Append(w, XorBytes(w[j + 1], Temp(w, j + 8))))
aes256_expand_key(key) == ExpandKey(key)
aes256_expand_key_host(key) == ExpandKey(key)

subbytes_shiftrows_dev(st) == [i \in 1 .. 16 |-> AES_SBOX_DEV[st[((5 * (i - 1)) % 16) + 1]]]
mixcolumns_dev(st) ==
  [i \in 1 .. 16 |->
     LET c == 4 * ((i - 1) \div 4)
         t == Xor(Xor(st[c + 1], st[c + 2]), Xor(st[c + 3], st[c + 4]))
     IN  Xor(st[i], Xor(t, xtime_dev(Xor(st[i], st[c + (i % 4) + 1]))))]
addroundkey_dev(st, w, r) == [i \in 1 .. 16 |-> Xor(st[i], w[4 * r + ((i - 1) \div 4) + 1][((i - 1) % 4) + 1])]
aes256_encrypt_block(w, in) ==
  LET last == Loop(13, addroundkey_dev(in, w, 0),
                   LAMBDA st, i : addroundkey_dev(mixcolumns_dev(subbytes_shiftrows_dev(st)), w, i + 1))
  IN  addroundkey_dev(subbytes_shiftrows_dev(last), w, 14)

format_ctr_block(nonce, counter) == nonce \o ToBE(Bits(counter), 4)
aes256_ctr_encrypt_with_roundkeys(w, nonce, initial_counter, plaintext) ==
  XorStream(plaintext, 16, LAMBDA i : aes256_encrypt_block(w, format_ctr_block(nonce, initial_counter + i)))
aes256_ctr_encrypt_device(key, nonce, initial_counter, plaintext) ==
  LET w == aes256_expand_key(key)
  IN  XorStream(plaintext, 16, LAMBDA i : aes256_encrypt_block(w, format_ctr_block(nonce, initial_counter + i)))
aes256_ctr_encrypt_short(key, input, output) ==
  IF Len(input) < 12 THEN output
  ELSE Put(output, aes256_ctr_encrypt_device(key, Part(input, 0, 12), 1, Part(input, 12, Len(input) - 12)))
aes256_ctr_encrypt_short_cached(roundkeys, input, output) ==
  IF Len(input) < 12 THEN output
  ELSE Put(output, aes256_ctr_encrypt_with_roundkeys(roundkeys, Part(input, 0, 12), 1, Part(input, 12, Len(input) - 12)))
-----------------------------------------------------------------------------
(* GCM.  Bit i of a block, the first byte's highest bit first, is x^i.       *)

Block128(s) == UNION {{8 * i + 7 - b : b \in s[i + 1]} : i \in 0 .. 15}
Bytes128(v) == [i \in 1 .. 16 |-> {7 - (b % 8) : b \in {c \in v : c \div 8 = i - 1}}]
gf128_mul(X, Y) ==
  Loop(128, [Z |-> {}, V |-> Y],
       LAMBDA m, i : [Z |-> IF i \in X THEN Xor(m.Z, m.V) ELSE m.Z,
                      V |-> Xor({b \in Shl(m.V, 1) : b < 128}, IF 127 \in m.V THEN {0, 1, 2, 7} ELSE {})]).Z
ghash(H, data) ==
  LET full == Padded16(data)
  IN  Loop(Len(full) \div 16, {}, LAMBDA Y, i : gf128_mul(Xor(Y, Block128(Part(full, 16 * i, 16))), H))

HashKey(roundkeys) == Block128(aes256_encrypt_block(roundkeys, Zeros(16)))
\* Mutant: the message starts at the block of the tag.
GcmStreamFromOne(roundkeys, nonce, s) ==
  XorStream(s, 16, LAMBDA i : aes256_encrypt_block(roundkeys, format_ctr_block(nonce, 1 + i)))
GcmStream(roundkeys, nonce, s) ==
  XorStream(s, 16, LAMBDA i : aes256_encrypt_block(roundkeys, format_ctr_block(nonce, 2 + i)))
GcmTag(roundkeys, nonce, S) ==
  XorBytes(aes256_encrypt_block(roundkeys, nonce \o Zeros(3) \o Byte(1)), Bytes128(S))
Lengths(aad_len, len) == ToBE(Bits(8 * aad_len), 8) \o ToBE(Bits(8 * len), 8)
Refused(output) == [ok |-> FALSE, len |-> 0, out |-> output]

aes256_gcm_seal(roundkeys, nonce, aad, plaintext) ==
  LET ciphertext == GcmStream(roundkeys, nonce, plaintext)
      ghash_input == Padded16(aad) \o Padded16(ciphertext) \o Lengths(Len(aad), Len(plaintext))
  IN  ciphertext \o GcmTag(roundkeys, nonce, ghash(HashKey(roundkeys), ghash_input))
aes256_gcm_seal_short(roundkeys, input, output) ==
  LET plaintext_len == Len(input) - 12
      sealed == aes256_gcm_seal(roundkeys, Part(input, 0, 12), <<>>, Part(input, 12, plaintext_len))
  IN  IF plaintext_len < 0 \/ plaintext_len > 16 THEN Refused(output)
      ELSE [ok |-> TRUE, len |-> plaintext_len + 16, out |-> Put(output, sealed)]
\* The hash goes along the blocks, the lengths are a turn of their own.
SlabGhash(roundkeys, ciphertext) ==
  gf128_mul(Xor(ghash(HashKey(roundkeys), ciphertext), Block128(Lengths(0, Len(ciphertext)))), HashKey(roundkeys))
aes256_gcm_seal_slab(roundkeys, nonce, plaintext, output) ==
  LET ciphertext == GcmStream(roundkeys, nonce, plaintext)
      sealed == ciphertext \o GcmTag(roundkeys, nonce, SlabGhash(roundkeys, ciphertext))
  IN  IF Len(plaintext) = 0 \/ Len(plaintext) > 65535 THEN Refused(output)
      ELSE [ok |-> TRUE, len |-> Len(plaintext) + 16, out |-> Put(output, sealed)]

\* Mutant: the last byte is not compared.
constant_time_equal_short(a, b) == UNION {Xor(a[i], b[i]) : i \in 1 .. Len(a) - 1} = {}
constant_time_equal(a, b) == UNION {Xor(a[i], b[i]) : i \in DOMAIN a} = {}
\* Mutant: the message is written before its tag is compared.
aes256_gcm_open_early(roundkeys, input, output) ==
  LET nonce == Part(input, 0, 12)
      ct_len == Len(input) - 28
      ciphertext == Part(input, 12, ct_len)
      expected_tag == GcmTag(roundkeys, nonce, ghash(HashKey(roundkeys), Padded16(ciphertext) \o Lengths(0, ct_len)))
      opened == Put(output, GcmStream(roundkeys, nonce, ciphertext))
  IN  IF Len(input) < 28 THEN Refused(output)
      ELSE IF ~constant_time_equal(expected_tag, Part(input, 12 + ct_len, 16)) THEN Refused(opened)
      ELSE [ok |-> TRUE, len |-> ct_len, out |-> opened]
aes256_gcm_open_short(roundkeys, input, output) ==
  LET nonce == Part(input, 0, 12)
      ct_len == Len(input) - 28
      ciphertext == Part(input, 12, ct_len)
      ghash_input == Padded16(ciphertext) \o Lengths(0, ct_len)
      expected_tag == GcmTag(roundkeys, nonce, ghash(HashKey(roundkeys), ghash_input))
  IN  IF Len(input) < 28 THEN Refused(output)
      ELSE IF ~constant_time_equal(expected_tag, Part(input, 12 + ct_len, 16)) THEN Refused(Put(output, Zeros(64)))
      ELSE [ok |-> TRUE, len |-> ct_len, out |-> Put(output, GcmStream(roundkeys, nonce, ciphertext))]
aes256_gcm_open_slab(roundkeys, nonce, payload, output) ==
  LET ct_len == Len(payload) - 16
      ciphertext == Part(payload, 0, ct_len)
      expected_tag == GcmTag(roundkeys, nonce, SlabGhash(roundkeys, ciphertext))
  IN  IF Len(payload) < 16 \/ ~constant_time_equal(expected_tag, Part(payload, ct_len, 16)) THEN Refused(output)
      ELSE [ok |-> TRUE, len |-> ct_len, out |-> Put(output, GcmStream(roundkeys, nonce, ciphertext))]
-----------------------------------------------------------------------------
(* ChaCha20.                                                                 *)

CHACHA_CONSTANTS == <<Hex(<<\H6170, \H7865>>), Hex(<<\H3320, \H646e>>), Hex(<<\H7962, \H2d32>>), Hex(<<\H6b20, \H6574>>)>>
\* Two adds and two rotations by n and m bits, of the words a, b, c and d of v.
HalfRound(v, a, b, c, d, n, m) ==
  LET a1 == Add(v[a], v[b], 32)
      d1 == Rotl(Xor(v[d], a1), n, 32)
      c1 == Add(v[c], d1, 32)
  IN  [v EXCEPT ![a] = a1, ![b] = Rotl(Xor(@, c1), m, 32), ![c] = c1, ![d] = d1]
quarter_round(v, a, b, c, d) == HalfRound(HalfRound(v, a, b, c, d, 16, 12), a, b, c, d, 8, 7)
ChachaBlock(key, nonce, counter) ==
  LET state == CHACHA_CONSTANTS \o key \o <<Bits(counter)>> \o nonce
      Rows == <<<<1, 5, 9, 13>>, <<2, 6, 10, 14>>, <<3, 7, 11, 15>>, <<4, 8, 12, 16>>,
                <<1, 6, 11, 16>>, <<2, 7, 12, 13>>, <<3, 8, 9, 14>>, <<4, 5, 10, 15>>>>
      Quarter(v, i) == LET r == Rows[(i % 8) + 1] IN quarter_round(v, r[1], r[2], r[3], r[4])
      working == Loop(80, state, Quarter)
  IN  JoinLE([i \in 1 .. 16 |-> Add(working[i], state[i], 32)], 4)
chacha20_block(key, nonce, counter) == ChachaBlock(key, nonce, counter)
\* The AEAD's copy takes bytes.
chacha20_block_for_keygen(key, nonce, counter) == ChachaBlock(WordsLE(key, 4), WordsLE(nonce, 4), counter)

chacha20_encrypt(key, nonce, initial_counter, plaintext) ==
  XorStream(plaintext, 64, LAMBDA i : chacha20_block(WordsLE(key, 4), WordsLE(nonce, 4), initial_counter + i))
chacha20_encrypt_short(key, input, output) ==
  IF Len(input) < 12 THEN output
  ELSE Put(output, chacha20_encrypt(key, Part(input, 0, 12), 0, Part(input, 12, Len(input) - 12)))
chacha20_encrypt_short_keyslot(key, input, output) ==
  LET n == IF Len(input) - 12 > 20 THEN 20 ELSE Len(input) - 12
  IN  IF Len(input) < 12 THEN Refused(output)
      ELSE [ok |-> TRUE, len |-> n, out |-> Put(output, chacha20_encrypt(key, Part(input, 0, 12), 0, Part(input, 12, n)))]
-----------------------------------------------------------------------------
(* Poly1305 in five limbs of 26 bits.                                        *)

Limb(a, i) == Below(Shr(a, 26 * i), 26)
Five(a) == Plus(a, Shl(a, 2))
clamp_r(r) ==
  [i \in 1 .. 16 |-> IF i \in {4, 8, 12, 16} THEN r[i] \cap (0 .. 3)
                     ELSE IF i \in {5, 9, 13} THEN r[i] \cap (2 .. 7)
                     ELSE r[i]]
poly1305_init(key) ==
  [r |-> [i \in 1 .. 5 |-> Limb(FromLE(clamp_r(Part(key, 0, 16))), i - 1)], pad |-> FromLE(Part(key, 16, 16))]
\* The streaming copy masks the limbs instead.
poly1305_clamp(key) ==
  LET At(from, shift) == Below(Shr(FromLE(Part(key, from, 4)), shift), 28)
  IN  [r |-> <<At(0, 0) \cap (0 .. 25), At(3, 2) \cap ((0 .. 25) \ (2 .. 7)), At(6, 4) \cap ((0 .. 25) \ (8 .. 13)),
               At(9, 6) \cap ((0 .. 25) \ (14 .. 19)), At(12, 8) \cap (0 .. 19)>>,
       pad |-> FromLE(Part(key, 16, 16))]

\* x * r with r[j] of the limbs above folded back five times, and the carries
\* of w bits that leave each row in 26.
Factor(r, i, k) == IF i <= k THEN r[k - i + 1] ELSE Below(Five(r[k - i + 6]), 32)
Row(x, r, k) == Loop(5, {}, LAMBDA sum, i : Add(sum, Times(x[i + 1], Factor(r, i, k)), 64))
Spill(m, d, w) == [h |-> Append(m.h, Below(d, 26)), c |-> Below(Shr(d, 26), w)]
FoldTop(m, h0) == <<Below(h0, 26), Add(m.h[2], Shr(h0, 26), 32), m.h[3], m.h[4], m.h[5]>>
MultiplyReduce(x, r, w) ==
  LET m == Loop(5, [h |-> <<>>, c |-> {}], LAMBDA s, k : Spill(s, Add(Row(x, r, k), s.c, 64), w))
  IN  FoldTop(m, Add(m.h[1], Below(Five(m.c), 32), 32))
BlockLimbs(m, hibit) == [i \in 1 .. 5 |-> Limb(FromLE(m) \cup (IF hibit THEN {128} ELSE {}), i - 1)]
poly1305_blocks(st, h, m, hibit) ==
  Loop(Len(m) \div 16, h,
       LAMBDA g, i : MultiplyReduce([j \in 1 .. 5 |-> Add(g[j], BlockLimbs(Part(m, 16 * i, 16), hibit)[j], 32)], st.r, 32))
poly1305_acc_1block(h, k, t) == MultiplyReduce([j \in 1 .. 5 |-> Plus(h[j], t[j])], k.r, 64)

\* Mutant: the carry out of the top limb comes back once, not five times.
CarryAlongOnce(h, order) ==
  LET Turn(g, n) == LET i == order[n + 1]
                        c == Shr(g[i], 26)
                    IN  [g EXCEPT ![i] = Below(@, 26), ![(i % 5) + 1] = Add(@, c, 32)]
  IN  Loop(Len(order), h, Turn)
\* A carry out of each limb of order in turn.
CarryAlong(h, order) ==
  LET Turn(g, n) == LET i == order[n + 1]
                        c == Shr(g[i], 26)
                    IN  [g EXCEPT ![i] = Below(@, 26), ![(i % 5) + 1] = Add(@, IF i = 5 THEN Five(c) ELSE c, 32)]
  IN  Loop(Len(order), h, Turn)
\* h less the prime when that is not negative, plus pad, as 16 bytes.
LessPrime(h) ==
  LET low == Loop(4, [h |-> <<>>, c |-> Bits(5)], LAMBDA m, i : Spill(m, Plus(h[i + 1], m.c), 32))
      top == Plus(h[5], low.c)
  IN  IF Less(top, {26}) THEN h ELSE low.h \o <<top \ {26}>>
Joined(h) == Below(h[1] \cup Shl(h[2], 26) \cup Shl(h[3], 52) \cup Shl(h[4], 78) \cup Shl(h[5], 104), 128)
TagOf(h, pad) == ToLE(Plus(Joined(LessPrime(h)), pad), 16)
poly1305_finish(st, h) == TagOf(CarryAlong(h, <<2, 3, 4, 5, 1>>), st.pad)
poly1305_finish_26(k, h) == TagOf(CarryAlong(h, <<1, 2, 3, 4, 5, 1>>), k.pad)

ZeroLimbs == [i \in 1 .. 5 |-> {}]
LastBlock(rest) == rest \o Byte(1) \o Zeros(15 - Len(rest))
poly1305_mac(key, msg) ==
  LET st == poly1305_init(key)
      n == Len(msg) % 16
      h == poly1305_blocks(st, ZeroLimbs, Part(msg, 0, Len(msg) - n), TRUE)
  IN  poly1305_finish(st, IF n = 0 THEN h ELSE poly1305_blocks(st, h, LastBlock(Part(msg, Len(msg) - n, n)), FALSE))
\* What the slab functions do with the one-time key: the tail is filled up.
StreamedMac(otk, ciphertext) ==
  LET k == poly1305_clamp(otk)
      blocks == Padded16(ciphertext) \o Zeros(8) \o ToLE(Bits(Len(ciphertext)), 8)
  IN  poly1305_finish_26(k, Loop(Len(blocks) \div 16, ZeroLimbs,
                                 LAMBDA h, i : poly1305_acc_1block(h, k, BlockLimbs(Part(blocks, 16 * i, 16), TRUE))))
-----------------------------------------------------------------------------
(* ChaCha20-Poly1305.                                                        *)

OneTimeKey(key, nonce) == Part(chacha20_block_for_keygen(key, nonce, 0), 0, 32)
MacInput(ciphertext) == Padded16(ciphertext) \o Zeros(8) \o ToLE(Bits(Len(ciphertext)), 8)
AeadStream(key, nonce, s) ==
  XorStream(s, 64, LAMBDA i : chacha20_block_for_keygen(key, nonce, 1 + i))

chacha20_poly1305_encrypt_short(key, nonce, plaintext) ==
  LET ciphertext == AeadStream(key, nonce, plaintext)
  IN  ciphertext \o poly1305_mac(OneTimeKey(key, nonce), MacInput(ciphertext))
chacha20_poly1305_encrypt_short_keyslot(key, input, output) ==
  LET pt_len == IF Len(input) > 12 THEN Len(input) - 12 ELSE 0
  IN  IF pt_len > 16 THEN Refused(output)
      ELSE [ok |-> TRUE, len |-> pt_len + 16,
            out |-> Put(output, chacha20_poly1305_encrypt_short(key, Part(input, 0, 12), Part(input, 12, pt_len)))]
chacha20_poly1305_encrypt_slab(key, nonce, plaintext, output) ==
  LET ciphertext == AeadStream(key, nonce, plaintext)
      sealed == ciphertext \o StreamedMac(OneTimeKey(key, nonce), ciphertext)
  IN  IF Len(plaintext) = 0 \/ Len(plaintext) > 65535 THEN Refused(output)
      ELSE [ok |-> TRUE, len |-> Len(plaintext) + 16, out |-> Put(output, sealed)]
chacha20_poly1305_decrypt_short(key, nonce, ciphertext, provided_tag, output) ==
  LET expected_tag == poly1305_mac(OneTimeKey(key, nonce), MacInput(ciphertext))
  IN  IF ~constant_time_equal(expected_tag, provided_tag) THEN Refused(Put(output, Zeros(64)))
      ELSE [ok |-> TRUE, len |-> Len(ciphertext), out |-> Put(output, AeadStream(key, nonce, ciphertext))]
chacha20_poly1305_decrypt_short_keyslot(key, input, output) ==
  LET ct_len == Len(input) - 28
  IN  IF ct_len < 0 \/ ct_len > 16 THEN Refused(output)
      ELSE chacha20_poly1305_decrypt_short(key, Part(input, 0, 12), Part(input, 12, ct_len), Part(input, 12 + ct_len, 16), output)
chacha20_poly1305_decrypt_slab(key, nonce, payload, output) ==
  LET ct_len == Len(payload) - 16
      ciphertext == Part(payload, 0, ct_len)
  IN  IF ct_len < 0 \/ ~constant_time_equal(StreamedMac(OneTimeKey(key, nonce), ciphertext), Part(payload, ct_len, 16))
      THEN Refused(output)
      ELSE [ok |-> TRUE, len |-> ct_len, out |-> Put(output, AeadStream(key, nonce, ciphertext))]
=============================================================================

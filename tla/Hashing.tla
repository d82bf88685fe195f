------------------------------ MODULE Hashing ------------------------------
(* The hash functions, HMAC, HKDF and the Merkle root of the engine, bit for *)
(* bit.  Each copy of a function in the source is a definition of its own.   *)
EXTENDS Words

K512 == LET pieces == <<
  <<\H428a, \H2f98, \Hd728, \Hae22>>, <<\H7137, \H4491, \H23ef, \H65cd>>, <<\Hb5c0, \Hfbcf, \Hec4d, \H3b2f>>, <<\He9b5, \Hdba5, \H8189, \Hdbbc>>,
  <<\H3956, \Hc25b, \Hf348, \Hb538>>, <<\H59f1, \H11f1, \Hb605, \Hd019>>, <<\H923f, \H82a4, \Haf19, \H4f9b>>, <<\Hab1c, \H5ed5, \Hda6d, \H8118>>,
  <<\Hd807, \Haa98, \Ha303, \H0242>>, <<\H1283, \H5b01, \H4570, \H6fbe>>, <<\H2431, \H85be, \H4ee4, \Hb28c>>, <<\H550c, \H7dc3, \Hd5ff, \Hb4e2>>,
  <<\H72be, \H5d74, \Hf27b, \H896f>>, <<\H80de, \Hb1fe, \H3b16, \H96b1>>, <<\H9bdc, \H06a7, \H25c7, \H1235>>, <<\Hc19b, \Hf174, \Hcf69, \H2694>>,
  <<\He49b, \H69c1, \H9ef1, \H4ad2>>, <<\Hefbe, \H4786, \H384f, \H25e3>>, <<\H0fc1, \H9dc6, \H8b8c, \Hd5b5>>, <<\H240c, \Ha1cc, \H77ac, \H9c65>>,
  <<\H2de9, \H2c6f, \H592b, \H0275>>, <<\H4a74, \H84aa, \H6ea6, \He483>>, <<\H5cb0, \Ha9dc, \Hbd41, \Hfbd4>>, <<\H76f9, \H88da, \H8311, \H53b5>>,
  <<\H983e, \H5152, \Hee66, \Hdfab>>, <<\Ha831, \Hc66d, \H2db4, \H3210>>, <<\Hb003, \H27c8, \H98fb, \H213f>>, <<\Hbf59, \H7fc7, \Hbeef, \H0ee4>>,
  <<\Hc6e0, \H0bf3, \H3da8, \H8fc2>>, <<\Hd5a7, \H9147, \H930a, \Ha725>>, <<\H06ca, \H6351, \He003, \H826f>>, <<\H1429, \H2967, \H0a0e, \H6e70>>,
  <<\H27b7, \H0a85, \H46d2, \H2ffc>>, <<\H2e1b, \H2138, \H5c26, \Hc926>>, <<\H4d2c, \H6dfc, \H5ac4, \H2aed>>, <<\H5338, \H0d13, \H9d95, \Hb3df>>,
  <<\H650a, \H7354, \H8baf, \H63de>>, <<\H766a, \H0abb, \H3c77, \Hb2a8>>, <<\H81c2, \Hc92e, \H47ed, \Haee6>>, <<\H9272, \H2c85, \H1482, \H353b>>,
  <<\Ha2bf, \He8a1, \H4cf1, \H0364>>, <<\Ha81a, \H664b, \Hbc42, \H3001>>, <<\Hc24b, \H8b70, \Hd0f8, \H9791>>, <<\Hc76c, \H51a3, \H0654, \Hbe30>>,
  <<\Hd192, \He819, \Hd6ef, \H5218>>, <<\Hd699, \H0624, \H5565, \Ha910>>, <<\Hf40e, \H3585, \H5771, \H202a>>, <<\H106a, \Ha070, \H32bb, \Hd1b8>>,
  <<\H19a4, \Hc116, \Hb8d2, \Hd0c8>>, <<\H1e37, \H6c08, \H5141, \Hab53>>, <<\H2748, \H774c, \Hdf8e, \Heb99>>, <<\H34b0, \Hbcb5, \He19b, \H48a8>>,
  <<\H391c, \H0cb3, \Hc5c9, \H5a63>>, <<\H4ed8, \Haa4a, \He341, \H8acb>>, <<\H5b9c, \Hca4f, \H7763, \He373>>, <<\H682e, \H6ff3, \Hd6b2, \Hb8a3>>,
  <<\H748f, \H82ee, \H5def, \Hb2fc>>, <<\H78a5, \H636f, \H4317, \H2f60>>, <<\H84c8, \H7814, \Ha1f0, \Hab72>>, <<\H8cc7, \H0208, \H1a64, \H39ec>>,
  <<\H90be, \Hfffa, \H2363, \H1e28>>, <<\Ha450, \H6ceb, \Hde82, \Hbde9>>, <<\Hbef9, \Ha3f7, \Hb2c6, \H7915>>, <<\Hc671, \H78f2, \He372, \H532b>>,
  <<\Hca27, \H3ece, \Hea26, \H619c>>, <<\Hd186, \Hb8c7, \H21c0, \Hc207>>, <<\Heada, \H7dd6, \Hcde0, \Heb1e>>, <<\Hf57d, \H4f7f, \Hee6e, \Hd178>>,
  <<\H06f0, \H67aa, \H7217, \H6fba>>, <<\H0a63, \H7dc5, \Ha2c8, \H98a6>>, <<\H113f, \H9804, \Hbef9, \H0dae>>, <<\H1b71, \H0b35, \H131c, \H471b>>,
  <<\H28db, \H77f5, \H2304, \H7d84>>, <<\H32ca, \Hab7b, \H40c7, \H2493>>, <<\H3c9e, \Hbe0a, \H15c9, \Hbebc>>, <<\H431d, \H67c4, \H9c10, \H0d4c>>,
  <<\H4cc5, \Hd4be, \Hcb3e, \H42b6>>, <<\H597f, \H299c, \Hfc65, \H7e2a>>, <<\H5fcb, \H6fab, \H3ad6, \Hfaec>>, <<\H6c44, \H198c, \H4a47, \H5817>>>>
        IN  [i \in 1 .. 80 |-> Hex(pieces[i])]
\* Every copy of SHA-256's table has the high halves of the first 64.
K256 == [i \in 1 .. 64 |-> Shr(K512[i], 32)]
H512_INIT == LET pieces == <<
  <<\H6a09, \He667, \Hf3bc, \Hc908>>, <<\Hbb67, \Hae85, \H84ca, \Ha73b>>, <<\H3c6e, \Hf372, \Hfe94, \Hf82b>>, <<\Ha54f, \Hf53a, \H5f1d, \H36f1>>,
  <<\H510e, \H527f, \Hade6, \H82d1>>, <<\H9b05, \H688c, \H2b3e, \H6c1f>>, <<\H1f83, \Hd9ab, \Hfb41, \Hbd6b>>, <<\H5be0, \Hcd19, \H137e, \H2179>>>>
             IN  [i \in 1 .. 8 |-> Hex(pieces[i])]
H384_INIT == LET pieces == <<
  <<\Hcbbb, \H9d5d, \Hc105, \H9ed8>>, <<\H629a, \H292a, \H367c, \Hd507>>, <<\H9159, \H015a, \H3070, \Hdd17>>, <<\H152f, \Hecd8, \Hf70e, \H5939>>,
  <<\H6733, \H2667, \Hffc0, \H0b31>>, <<\H8eb4, \H4a87, \H6858, \H1511>>, <<\Hdb0c, \H2e0d, \H64f9, \H8fa7>>, <<\H47b5, \H481d, \Hbefa, \H4fa4>>>>
             IN  [i \in 1 .. 8 |-> Hex(pieces[i])]
H256_INIT == [i \in 1 .. 8 |-> Shr(H512_INIT[i], 32)]
-----------------------------------------------------------------------------
(* SHA-2.  rot gives the rotations of Sigma0, Sigma1, sigma0 and sigma1;     *)
(* the last number of the small sigmas is a shift.                           *)

Ch(x, y, z) == Xor(x \cap y, z \ x)
Maj(x, y, z) == Xor(Xor(x \cap y, x \cap z), y \cap z)
Sigma(x, r, w) == Xor(Xor(Rotr(x, r[1], w), Rotr(x, r[2], w)), Rotr(x, r[3], w))
SmallSigma(x, r, w) == Xor(Xor(Rotr(x, r[1], w), Rotr(x, r[2], w)), Shr(x, r[3]))

Schedule(block, rot, w, rounds) ==
  LET Extend(W, i) ==
        Append(W, Add(Add(W[i + 1], SmallSigma(W[i + 2], rot[3], w), w),
                      Add(W[i + 10], SmallSigma(W[i + 15], rot[4], w), w), w))
  IN  Loop(rounds - 16, block, Extend)

Compress(H, block, K, rot, w) ==
  LET W == Schedule(block, rot, w, Len(K))
      Next(s, T1, T2) == <<Add(T1, T2, w), s[1], s[2], s[3], Add(s[4], T1, w), s[5], s[6], s[7]>>
      Round(s, i) ==
        Next(s, Add(Add(Add(s[8], Sigma(s[5], rot[2], w), w), Ch(s[5], s[6], s[7]), w),
                    Add(K[i + 1], W[i + 1], w), w),
             Add(Sigma(s[1], rot[1], w), Maj(s[1], s[2], s[3]), w))
      last == Loop(Len(K), H, Round)
  IN  [i \in 1 .. 8 |-> Add(H[i], last[i], w)]

sha256_compress_block(H, block) ==
  Compress(H, WordsBE(block, 4), K256, <<<<2, 13, 22>>, <<6, 11, 25>>, <<7, 18, 3>>, <<17, 19, 10>>>>, 32)
sha256_compress_device(state, block) ==
  Compress(state, WordsBE(block, 4), K256, <<<<2, 13, 22>>, <<6, 11, 25>>, <<7, 18, 3>>, <<17, 19, 10>>>>, 32)
sha256_transform_device(state, block) ==
  Compress(state, WordsBE(block, 4), K256, <<<<2, 13, 22>>, <<6, 11, 25>>, <<7, 18, 3>>, <<17, 19, 10>>>>, 32)
sha512_compress_block(H, block) ==
  Compress(H, WordsBE(block, 8), K512, <<<<28, 34, 39>>, <<14, 18, 41>>, <<1, 8, 7>>, <<19, 61, 6>>>>, 64)
sha512_compress_device(state, block) ==
  Compress(state, WordsBE(block, 8), K512, <<<<28, 34, 39>>, <<14, 18, 41>>, <<1, 8, 7>>, <<19, 61, 6>>>>, 64)

Absorb(H, data, size, Block(_, _)) ==
  Loop(Len(data) \div size, H, LAMBDA h, i : Block(h, Part(data, size * i, size)))

\* Mutant: the length is put in the block of a message that leaves 8 bytes.
PaddingLate(len, total, size, limit) ==
  LET remaining == len % size
      blocks == IF remaining <= limit THEN 1 ELSE 2
  IN  Byte(128) \o Zeros(blocks * size - remaining - 9) \o ToBE(Bits(8 * total), 8)
\* What follows the message: 0x80, zeros and the length in bits, in one block
\* when fewer than limit bytes of the last block are taken, in two otherwise.
Padding(len, total, size, limit) ==
  LET remaining == len % size
      blocks == IF remaining < limit THEN 1 ELSE 2
  IN  Byte(128) \o Zeros(blocks * size - remaining - 9) \o ToBE(Bits(8 * total), 8)

\* One block, for inputs of at most 32 bytes.
sha256_hash_short(input) ==
  LET block == input \o Byte(128) \o Zeros(55 - Len(input)) \o Zeros(4) \o ToBE(Bits(8 * Len(input)), 4)
  IN  JoinBE(sha256_compress_block(H256_INIT, block), 4)
sha512_hash_short(input) ==
  LET block == input \o Byte(128) \o Zeros(111 - Len(input)) \o Zeros(8) \o ToBE(Bits(8 * Len(input)), 8)
  IN  JoinBE(sha512_compress_block(H512_INIT, block), 8)

sha256_hash_device(msg) ==
  JoinBE(Absorb(H256_INIT, msg \o Padding(Len(msg), Len(msg), 64, 56), 64, sha256_compress_device), 4)
sha256_prefix_hash_device(prefix, msg) ==
  JoinBE(Absorb(H256_INIT, prefix \o msg \o Padding(Len(msg), 64 + Len(msg), 64, 56), 64, sha256_compress_device), 4)
sha512_hash_device(msg) ==
  JoinBE(Absorb(H512_INIT, msg \o Padding(Len(msg), Len(msg), 128, 112), 128, sha512_compress_device), 8)
sha384_hash_device(msg) ==
  Part(JoinBE(Absorb(H384_INIT, msg \o Padding(Len(msg), Len(msg), 128, 112), 128, sha512_compress_device), 8), 0, 48)
\* The host's copy takes its length from one division.
sha256_hash_host(data) ==
  LET pad_len == ((Len(data) + 8 + 64) \div 64) * 64
      padded == data \o Byte(128) \o Zeros(pad_len - Len(data) - 9) \o ToBE(Bits(8 * Len(data)), 8)
  IN  JoinBE(Absorb(H256_INIT, padded, 64, sha256_compress_device), 4)
\* The nonce derivation's copy fills one or two padding blocks in two branches.
sha256_device(data) ==
  LET full == (Len(data) \div 64) * 64
      remaining == Len(data) - full
      rest == Part(data, full, remaining) \o Byte(128)
      length == ToBE(Bits(8 * Len(data)), 8)
      tail == IF remaining >= 56 THEN rest \o Zeros(63 - remaining) \o Zeros(56) \o length
              ELSE rest \o Zeros(55 - remaining) \o length
  IN  JoinBE(Absorb(H256_INIT, Part(data, 0, full) \o tail, 64, sha256_transform_device), 4)
-----------------------------------------------------------------------------
(* HMAC and HKDF.  The SHA-384 and SHA-512 forms gather ipad and message in  *)
(* a buffer of 1152 bytes and leave out as it is when they do not fit.       *)

ZeroPad(s, n) == s \o Zeros(n - Len(s))
XorAll(s, n) == [i \in DOMAIN s |-> Xor(s[i], Bits(n))]

\* Mutant: a key of exactly one block is hashed.
hmac_sha256_key_hashed(key, msg) ==
  LET key_block == ZeroPad(IF Len(key) >= 64 THEN sha256_hash_device(key) ELSE key, 64)
      inner_hash == sha256_prefix_hash_device(XorAll(key_block, 54), msg)
  IN  sha256_hash_device(XorAll(key_block, 92) \o inner_hash)
hmac_sha256_device(key, msg) ==
  LET key_block == ZeroPad(IF Len(key) > 64 THEN sha256_hash_device(key) ELSE key, 64)
      inner_hash == sha256_prefix_hash_device(XorAll(key_block, 54), msg)
  IN  sha256_hash_device(XorAll(key_block, 92) \o inner_hash)
hmac_sha512_device(key, msg, out64) ==
  LET key_block == ZeroPad(IF Len(key) > 128 THEN sha512_hash_device(key) ELSE key, 128)
      inner_hash == sha512_hash_device(XorAll(key_block, 54) \o msg)
  IN  IF 128 + Len(msg) > 128 + 1024 THEN out64
      ELSE sha512_hash_device(XorAll(key_block, 92) \o inner_hash)
hmac_sha384_device(key, msg, out48) ==
  LET key_block == ZeroPad(IF Len(key) > 128 THEN sha384_hash_device(key) ELSE key, 128)
      inner_hash == sha384_hash_device(XorAll(key_block, 54) \o msg)
  IN  IF 128 + Len(msg) > 128 + 1024 THEN out48
      ELSE sha384_hash_device(XorAll(key_block, 92) \o inner_hash)
\* The nonce derivation's copy; data is at most 97 bytes.
rfc6979_hmac_sha256_device(key, data) ==
  LET key_block == ZeroPad(IF Len(key) > 64 THEN sha256_device(key) ELSE key, 64)
      inner_hash == sha256_device(XorAll(key_block, 54) \o data)
  IN  sha256_device(XorAll(key_block, 92) \o inner_hash)

hkdf_sha256_extract(salt, ikm) == hmac_sha256_device(salt, ikm)
hkdf_sha256_expand_32(prk, info) ==
  hmac_sha256_device(prk, (IF Len(info) < 255 THEN info ELSE Part(info, 0, 255)) \o Byte(1))
hkdf_sha256_derive(salt, ikm) == hkdf_sha256_expand_32(hkdf_sha256_extract(salt, ikm), <<>>)
-----------------------------------------------------------------------------
(* Keccak.  Lane x + 5 y of the code is element x + 5 y + 1 here.            *)

KECCAK_RC == <<
  {0}, {1, 7, 15}, {1, 3, 7, 15, 63}, {15, 31, 63}, {0, 1, 3, 7, 15}, {0, 31},
  {0, 7, 15, 31, 63}, {0, 3, 15, 63}, {1, 3, 7}, {3, 7}, {0, 3, 15, 31}, {1, 3, 31},
  {0, 1, 3, 7, 15, 31}, {0, 1, 3, 7, 63}, {0, 3, 7, 15, 63}, {0, 1, 15, 63}, {1, 15, 63}, {7, 63},
  {1, 3, 15}, {1, 3, 31, 63}, {0, 7, 15, 31, 63}, {7, 15, 63}, {0, 31}, {3, 15, 31, 63}>>
KECCAK_RHO == <<0, 1, 62, 28, 27, 36, 44, 6, 55, 20, 3, 10, 43, 25, 39,
                41, 45, 15, 21, 8, 18, 2, 61, 56, 14>>
KECCAK_PI == <<0, 10, 20, 5, 15, 16, 1, 11, 21, 6, 7, 17, 2, 12, 22,
               23, 8, 18, 3, 13, 14, 24, 9, 19, 4>>
SHAKE_RHO == <<1, 3, 6, 10, 15, 21, 28, 36, 45, 55, 2, 14, 27, 41, 56, 8, 25, 43, 62, 18, 39, 61, 20, 44>>
SHAKE_PI == <<10, 7, 11, 17, 18, 3, 5, 16, 8, 21, 24, 4, 15, 23, 19, 13, 12, 2, 20, 14, 22, 9, 6, 1>>

Theta(s) ==
  LET C == [x \in 0 .. 4 |-> Xor(Xor(Xor(s[x + 1], s[x + 6]), Xor(s[x + 11], s[x + 16])), s[x + 21])]
      D == [x \in 0 .. 4 |-> Xor(C[(x + 4) % 5], Rotl(C[(x + 1) % 5], 1, 64))]
  IN  [i \in 1 .. 25 |-> Xor(s[i], D[(i - 1) % 5])]
ChiIota(B, round) ==
  [i \in 1 .. 25 |->
     LET x == (i - 1) % 5
         y == i - 1 - x
         c == Xor(B[i], B[y + ((x + 2) % 5) + 1] \ B[y + ((x + 1) % 5) + 1])
     IN  IF i = 1 THEN Xor(c, KECCAK_RC[round + 1]) ELSE c]

\* The hashes of the engine: a table says where each lane goes.
keccak_f1600(state) ==
  LET RhoPi(s) == [j \in 1 .. 25 |-> LET i == CHOOSE i \in 1 .. 25 : KECCAK_PI[i] = j - 1
                                      IN  Rotl(s[i], KECCAK_RHO[i], 64)]
  IN  Loop(24, state, LAMBDA s, round : ChiIota(RhoPi(Theta(s)), round))
\* The XOFs: lane 1 is carried along the cycle of the permutation.
shake_keccak_f1600(state) ==
  LET Walk(s) == LET Step(w, i) == [B |-> [w.B EXCEPT ![SHAKE_PI[i + 1] + 1] = Rotl(w.t, SHAKE_RHO[i + 1], 64)],
                                    t |-> s[SHAKE_PI[i + 1] + 1]]
                 IN  Loop(24, [B |-> s, t |-> s[2]], Step).B
  IN  Loop(24, state, LAMBDA s, round : ChiIota(Walk(Theta(s)), round))
\* The challenge: the same cycle in place, places and offsets computed.
challenge_keccak_f1600(state) ==
  LET Step(w, i) == LET new_y == (2 * w.x + 3 * w.y) % 5
                        idx == w.y + 5 * new_y
                        r == (((i + 1) * (i + 2)) \div 2) % 64
                    IN  [s |-> [w.s EXCEPT ![idx + 1] = Rotl(w.t, r, 64)], t |-> w.s[idx + 1],
                         x |-> w.y, y |-> new_y]
      Walk(s) == Loop(24, [s |-> s, t |-> s[2], x |-> 1, y |-> 0], Step).s
  IN  Loop(24, state, LAMBDA s, round : ChiIota(Walk(Theta(s)), round))

ZeroState == [i \in 1 .. 25 |-> {}]
XorIn(state, bytes) == XorBytes(state, WordsLE(ZeroPad(bytes, 200), 8))
\* The last block of a message: its rest, the domain's byte and the last bit.
LastBlock(rest, rate, domain) ==
  LET block == ZeroPad(rest \o Byte(domain), rate) IN [block EXCEPT ![rate] = Xor(@, {7})]
Squeeze(state, n, rate, Permute(_)) ==
  LET More(w, i) == LET s == IF i = 0 THEN w.s ELSE Permute(w.s)
                    IN  [s |-> s, out |-> w.out \o Part(JoinLE(s, 8), 0, rate)]
  IN  Part(Loop((n + rate - 1) \div rate, [s |-> state, out |-> <<>>], More).out, 0, n)

sha3_256_hash_short(input) ==
  Part(JoinLE(keccak_f1600(XorIn(ZeroState, LastBlock(input, 136, 6))), 8), 0, 32)
sha3_512_hash_short(input) ==
  Part(JoinLE(keccak_f1600(XorIn(ZeroState, LastBlock(input, 72, 6))), 8), 0, 64)
kernel_shake_xof_baseline(input, out_len, rate_bytes) ==
  LET absorbed == (Len(input) \div rate_bytes) * rate_bytes
      Block(s, b) == shake_keccak_f1600(XorIn(s, b))
      state == Absorb(ZeroState, Part(input, 0, absorbed), rate_bytes, Block)
      rest == Part(input, absorbed, Len(input) - absorbed)
  IN  Squeeze(Block(state, LastBlock(rest, rate_bytes, 31)), out_len, rate_bytes, shake_keccak_f1600)
\* in has 34 bytes: a seed and a nonce.
kernel_shake256_xof_batch_34b(in, out_bytes) ==
  Squeeze(shake_keccak_f1600(XorIn(ZeroState, LastBlock(in, 136, 31))), out_bytes, 136, shake_keccak_f1600)
\* The padding goes into the last chunk, which a message of whole blocks fills;
\* 64 bytes of mu and 1024 for each row of w1 never do.
kernel_shake256_challenge_batch(mu, w1_bytes) ==
  LET input == mu \o w1_bytes
      Chunk(s, i) == LET chunk == Part(input, 136 * i, IF 136 * (i + 1) <= Len(input) THEN 136 ELSE Len(input) % 136)
                     IN  challenge_keccak_f1600(XorIn(s, IF 136 * i + Len(chunk) < Len(input) THEN chunk
                                                         ELSE LastBlock(chunk, 136, 31)))
  IN  Squeeze(Loop((Len(input) + 135) \div 136, ZeroState, Chunk), 512, 136, challenge_keccak_f1600)
kernel_shake256_sample_in_ball(ctilde) ==
  Squeeze(challenge_keccak_f1600(XorIn(ZeroState, LastBlock(ctilde, 136, 31))), 512, 136, challenge_keccak_f1600)
-----------------------------------------------------------------------------
(* BLAKE2b.                                                                  *)

BLAKE2B_SIGMA == <<
  <<0, 1, 2, 3, 4, 5, 6, 7, 8, 9, 10, 11, 12, 13, 14, 15>>,
  <<14, 10, 4, 8, 9, 15, 13, 6, 1, 12, 0, 2, 11, 7, 5, 3>>,
  <<11, 8, 12, 0, 5, 2, 15, 13, 10, 14, 3, 6, 7, 1, 9, 4>>,
  <<7, 9, 3, 1, 13, 12, 11, 14, 2, 6, 5, 10, 4, 0, 15, 8>>,
  <<9, 0, 5, 7, 2, 4, 10, 15, 14, 1, 11, 12, 6, 8, 3, 13>>,
  <<2, 12, 6, 10, 0, 11, 8, 3, 4, 13, 7, 5, 15, 14, 1, 9>>,
  <<12, 5, 1, 15, 14, 13, 4, 10, 0, 7, 6, 3, 9, 2, 8, 11>>,
  <<13, 11, 7, 14, 12, 1, 3, 9, 5, 0, 15, 4, 8, 6, 2, 10>>,
  <<6, 15, 14, 9, 11, 3, 0, 8, 12, 2, 13, 7, 1, 4, 10, 5>>,
  <<10, 2, 8, 4, 7, 6, 1, 5, 15, 11, 9, 14, 3, 12, 13, 0>>,
  <<0, 1, 2, 3, 4, 5, 6, 7, 8, 9, 10, 11, 12, 13, 14, 15>>,
  <<14, 10, 4, 8, 9, 15, 13, 6, 1, 12, 0, 2, 11, 7, 5, 3>>>>

blake2b_G(v, a, b, c, d, x, y) ==
  LET a1 == Add(Add(v[a], v[b], 64), x, 64)
      d1 == Rotr(Xor(v[d], a1), 32, 64)
      c1 == Add(v[c], d1, 64)
      b1 == Rotr(Xor(v[b], c1), 24, 64)
      a2 == Add(Add(a1, b1, 64), y, 64)
      d2 == Rotr(Xor(d1, a2), 16, 64)
      c2 == Add(c1, d2, 64)
      b2 == Rotr(Xor(b1, c2), 63, 64)
  IN  [v EXCEPT ![a] = a2, ![b] = b2, ![c] = c2, ![d] = d2]

\* The last of the blocks when f; the high half of the counter is 0.
blake2b_compress(h, m, t, f) ==
  LET v0 == h \o [H512_INIT EXCEPT ![5] = Xor(@, t), ![7] = IF f THEN Complement(@, 64) ELSE @]
      Rows == <<<<1, 5, 9, 13>>, <<2, 6, 10, 14>>, <<3, 7, 11, 15>>, <<4, 8, 12, 16>>,
                <<1, 6, 11, 16>>, <<2, 7, 12, 13>>, <<3, 8, 9, 14>>, <<4, 5, 10, 15>>>>
      Mix(v, i) == LET s == BLAKE2B_SIGMA[(i \div 8) + 1]
                       j == i % 8
                       r == Rows[j + 1]
                   IN  blake2b_G(v, r[1], r[2], r[3], r[4], m[s[2 * j + 1] + 1], m[s[2 * j + 2] + 1])
      v == Loop(96, v0, Mix)
  IN  [j \in 1 .. 8 |-> Xor(h[j], Xor(v[j], v[j + 8]))]

Blake2bShort(input, param) ==
  blake2b_compress([H512_INIT EXCEPT ![1] = Xor(@, param)], WordsLE(ZeroPad(input, 128), 8), Bits(Len(input)), TRUE)
blake2b_256_hash_short(input) == Part(JoinLE(Blake2bShort(input, Hex(<<\H0101, \H0020>>)), 8), 0, 32)
blake2b_512_hash_short(input) == JoinLE(Blake2bShort(input, Hex(<<\H0101, \H0040>>)), 8)
-----------------------------------------------------------------------------
(* The Merkle root: leaves tagged 0, nodes tagged 1 in two blocks; the last  *)
(* of an odd level moves up as it is.                                        *)

sha256_node(left, right) ==
  LET b0 == Byte(1) \o left \o Part(right, 0, 31)
      b1 == Part(right, 31, 1) \o Byte(128) \o Zeros(60) \o Byte(2) \o Byte(8)
  IN  JoinBE(Absorb(H256_INIT, b0 \o b1, 64, sha256_compress_block), 4)
k_leaves(leaf) == sha256_hash_short(Byte(0) \o leaf)

\* The levels of a tree over hashes of any kind.
\* Mutant: the last of an odd level is paired with itself.
PairingLastTwice(n) == [i \in 1 .. (n + 1) \div 2 |-> <<2 * i - 1, IF 2 * i <= n THEN 2 * i ELSE n>>]
\* The places of a level of n that each place of the next is made from.
Pairing(n) ==
  [i \in 1 .. n \div 2 |-> <<2 * i - 1, 2 * i>>] \o (IF n % 2 = 1 THEN <<<<n>>>> ELSE <<>>)
NextLevel(cur, Node(_, _)) ==
  LET from == Pairing(Len(cur))
  IN  [i \in DOMAIN from |-> IF Len(from[i]) = 2 THEN Node(cur[from[i][1]], cur[from[i][2]]) ELSE cur[from[i][1]]]
MerkleRoot(leaves, Leaf(_), Node(_, _)) ==
  LET Level(cur, i) == IF Len(cur) > 1 THEN NextLevel(cur, Node) ELSE cur
  IN  Loop(Len(leaves), [i \in DOMAIN leaves |-> Leaf(leaves[i])], Level)[1]
smoke_merkle_root_v0_gpu(leaves) == MerkleRoot(leaves, k_leaves, sha256_node)
=============================================================================

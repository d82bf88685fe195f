--------------------------- MODULE MCPrimitives ---------------------------
(* Jobs for the hash and cipher modules, at the lengths where a block fills  *)
(* up and the values where a carry or a reduction happens.                   *)
EXTENDS MCJobs, Integers, Sequences, FiniteSets
LOCAL INSTANCE TLC
H == INSTANCE Hashing
C == INSTANCE Ciphers

Message(n) == [i \in 1 .. n |-> H!Bits(((i * 7) + n) % 256)]
Ones(n) == [i \in 1 .. n |-> 0 .. 7]
Buffer == [i \in 1 .. 96 |-> {0}]
-----------------------------------------------------------------------------
(* Hashes, and the codes made from them.                                     *)

\* Each family at the lengths where its blocks fill up; n = 32 is the longest
\* message of the inline forms, of which n = 3 also meets the known digests.
HashLengths == [sha256 |-> {0, 55, 56, 63, 64, 119, 120}, sha512 |-> {0, 111, 112, 127, 128},
                sponge |-> {0, 71, 135, 136}, short |-> {0, 3, 32}, tagged |-> {32}]
HashJobs == UNION {{[kind |-> "hash", family |-> f, n |-> n] : n \in HashLengths[f]} : f \in DOMAIN HashLengths}
Ipad == H!XorAll(H!ZeroPad(Message(9), 64), 54)
RunHash(family, n) ==
  LET m == Message(n)
      key == Message(n + 1)
  IN  CASE family = "sha256" ->
             [digests |-> {H!sha256_hash_device(m), H!sha256_hash_host(m), H!sha256_device(m)},
              streamed |-> H!sha256_prefix_hash_device(Ipad, m),
              hmacs |-> {H!hmac_sha256_device(key, m), H!rfc6979_hmac_sha256_device(key, m)}]
        [] family = "sha512" ->
             [sha512 |-> H!sha512_hash_device(m), sha384 |-> H!sha384_hash_device(m),
              hmac512 |-> H!hmac_sha512_device(key, m, <<>>), hmac384 |-> H!hmac_sha384_device(key, m, <<>>)]
        [] family = "sponge" ->
             [shake |-> H!kernel_shake_xof_baseline(m, 150, 136),
              challenge |-> H!kernel_shake256_challenge_batch(Message(64), m)]
        [] family = "short" ->
             [sha256 |-> H!sha256_hash_short(m), sha512 |-> H!sha512_hash_short(m),
              sha3 |-> <<H!sha3_256_hash_short(m), H!sha3_512_hash_short(m)>>,
              hkdf |-> H!hkdf_sha256_derive(Message(32), m)]
        [] OTHER ->
             [seeded |-> H!kernel_shake256_xof_batch_34b(Message(34), 150),
              inBall |-> H!kernel_shake256_sample_in_ball(m),
              node |-> H!sha256_node(m, H!Part(Message(40), 8, 32)), leaf |-> H!k_leaves(m)]

\* FIPS 180-4: one 1 bit, the least zeros, the length; over blocks of b bytes.
PaddedFips(m, b, room) ==
  LET zeros == CHOOSE z \in 0 .. b - 1 : (Len(m) + 1 + z + room) % b = 0
  IN  m \o H!Byte(128) \o H!Zeros(zeros) \o H!ToBE(H!Bits(8 * Len(m)), room)
Sha256(m) == H!JoinBE(H!Absorb(H!H256_INIT, PaddedFips(m, 64, 8), 64, H!sha256_compress_block), 4)
Sha512(m) == H!JoinBE(H!Absorb(H!H512_INIT, PaddedFips(m, 128, 16), 128, H!sha512_compress_block), 8)
Sha384(m) == H!Part(H!JoinBE(H!Absorb(H!H384_INIT, PaddedFips(m, 128, 16), 128, H!sha512_compress_block), 8), 0, 48)
\* RFC 2104, over a hash of blocks of b bytes.
Hmac(Hash(_), b, key, m) ==
  LET k == H!ZeroPad(IF Len(key) > b THEN Hash(key) ELSE key, b)
  IN  Hash(H!XorAll(k, 92) \o Hash(H!XorAll(k, 54) \o m))
\* FIPS 202 for a sponge of rate r bytes: pad10*1 behind the domain's bits.
Sponge(m, r, domain, n) ==
  LET rest == r - (Len(m) % r)
      padded == m \o (IF rest = 1 THEN <<{7} \cup H!Bits(domain)>>
                      ELSE H!Byte(domain) \o H!Zeros(rest - 2) \o <<{7}>>)
      Block(s, b) == H!keccak_f1600(H!XorIn(s, b))
  IN  H!Squeeze(H!Absorb(H!ZeroState, padded, r, Block), n, r, H!keccak_f1600)

\* Digests of "abc" (FIPS 180-4 and 202 examples, RFC 7693 appendix A): first
\* 8 bytes, and the last 4.
Abc == <<{0, 5, 6}, {1, 5, 6}, {0, 1, 5, 6}>>
Known(digest, first, last) ==
  H!FromBE(H!Part(digest, 0, 8)) = H!Hex(first) /\ H!FromBE(H!Part(digest, Len(digest) - 4, 4)) = H!Hex(last)
AbcRight ==
  /\ Known(H!sha256_hash_short(Abc), <<\Hba78, \H16bf, \H8f01, \Hcfea>>, <<\Hf200, \H15ad>>)
  /\ Known(H!sha512_hash_short(Abc), <<\Hddaf, \H35a1, \H9361, \H7aba>>, <<\Ha54c, \Ha49f>>)
  /\ Known(H!sha384_hash_device(Abc), <<\Hcb00, \H753f, \H45a3, \H5e8b>>, <<\H34c8, \H25a7>>)
  /\ Known(H!sha3_256_hash_short(Abc), <<\H3a98, \H5da7, \H4fe2, \H25b2>>, <<\H1143, \H1532>>)
  /\ Known(H!sha3_512_hash_short(Abc), <<\Hb751, \H850b, \H1a57, \H168a>>, <<\H4eec, \H53f0>>)
  /\ Known(H!blake2b_512_hash_short(Abc), <<\Hba80, \Ha53f, \H981c, \H4d0d>>, <<\Hd400, \H9923>>)

\* Every copy of every hash gives the digest of its standard at every length
\* around a block's end, however the copy pads, streams or squeezes; so do the
\* keyed codes with keys on both sides of a block, and the tagged tree hashes.
HashesRight ==
  Done("hash") =>
    LET m == Message(job.n)
        key == Message(job.n + 1)
    IN  CASE job.family = "sha256" ->
               /\ out.digests = {Sha256(m)} /\ out.streamed = Sha256(Ipad \o m)
               /\ out.hmacs = {Hmac(Sha256, 64, key, m)}
          [] job.family = "sha512" ->
               /\ out.sha512 = Sha512(m) /\ out.hmac512 = Hmac(Sha512, 128, key, m)
               /\ out.sha384 = Sha384(m) /\ out.hmac384 = Hmac(Sha384, 128, key, m)
          [] job.family = "sponge" ->
               /\ out.shake = Sponge(m, 136, 31, 150)
               /\ out.challenge = Sponge(Message(64) \o m, 136, 31, 512)
          [] job.family = "short" ->
               /\ job.n = 3 => AbcRight
               /\ out.sha256 = Sha256(m) /\ out.sha512 = Sha512(m)
               /\ out.sha3 = <<Sponge(m, 136, 6, 32), Sponge(m, 72, 6, 64)>>
               /\ out.hkdf = Hmac(Sha256, 64, Hmac(Sha256, 64, Message(32), m), H!Byte(1))
          [] OTHER ->
               /\ out.seeded = Sponge(Message(34), 136, 31, 150) /\ out.inBall = Sponge(m, 136, 31, 512)
               /\ out.node = Sha256(H!Byte(1) \o m \o H!Part(Message(40), 8, 32))
               /\ out.leaf = Sha256(H!Byte(0) \o m)
-----------------------------------------------------------------------------
(* The Merkle root, over hashes that never collide.                          *)

LeafSeqs == UNION {[1 .. n -> {1, 2}] : n \in 1 .. 5}
TreeJobs == {[kind |-> "tree", xs |-> xs, ys |-> ys] : xs \in LeafSeqs, ys \in LeafSeqs}
TermLeaf(x) == <<"leaf", <<x>>>>
TermNode(l, r) == <<"node", <<l, r>>>>
RunTree(xs, ys) == [rootX |-> H!MerkleRoot(xs, TermLeaf, TermNode), rootY |-> H!MerkleRoot(ys, TermLeaf, TermNode)]

\* A root stands for one sequence of leaves only: two of any lengths with the
\* same root are the same, however odd levels are carried up.
MerkleBinds == Done("tree") => (ToString(out.rootX) = ToString(out.rootY) => job.xs = job.ys)
-----------------------------------------------------------------------------
(* Ciphers.                                                                  *)

TestKey == Message(32)
RoundKeys == C!aes256_expand_key_host(TestKey)
Iv == Message(12)
SealJobs == {[kind |-> "seal", cipher |-> c, n |-> n] :
               c \in {"aes", "chacha"}, n \in {0, 1, 16, 17, 33, 65}}
SealSlab(c, m) == IF c = "aes" THEN C!aes256_gcm_seal_slab(RoundKeys, Iv, m, Buffer)
                  ELSE C!chacha20_poly1305_encrypt_slab(TestKey, Iv, m, Buffer)
SealShort(c, m) == IF c = "aes" THEN C!aes256_gcm_seal_short(RoundKeys, Iv \o m, Buffer)
                   ELSE C!chacha20_poly1305_encrypt_short_keyslot(TestKey, Iv \o m, Buffer)
OpenSlab(c, nonce, payload) == IF c = "aes" THEN C!aes256_gcm_open_slab(RoundKeys, nonce, payload, Buffer)
                               ELSE C!chacha20_poly1305_decrypt_slab(TestKey, nonce, payload, Buffer)
OpenShort(c, input) == IF c = "aes" THEN C!aes256_gcm_open_short(RoundKeys, input, Buffer)
                       ELSE C!chacha20_poly1305_decrypt_short_keyslot(TestKey, input, Buffer)
Streams(c, input) == IF c = "aes"
                     THEN {C!aes256_ctr_encrypt_short(TestKey, input, Buffer),
                           C!aes256_ctr_encrypt_short_cached(C!aes256_expand_key(TestKey), input, Buffer)}
                     ELSE {C!chacha20_encrypt_short(TestKey, input, Buffer)}
Limited(c, input) == IF c = "aes" THEN C!Refused(Buffer) ELSE C!chacha20_encrypt_short_keyslot(TestKey, input, Buffer)
Sealed(r) == C!Part(r.out, 0, r.len)
SealAndOpen(c, m, slab) ==
  [short |-> SealShort(c, m), slab |-> slab,
   openShort |-> OpenShort(c, Iv \o Sealed(slab)), openSlab |-> OpenSlab(c, Iv, Sealed(slab)),
   stream |-> Streams(c, Iv \o m), limited |-> Limited(c, Iv \o m)]

\* SP 800-38D: the bits of a product of polynomials, the high ones folded back.
Product(X, Y) ==
  LET Sum(s, i) == IF i \in X THEN C!Xor(s, C!Shl(Y, i)) ELSE s
      Fold(s, i) == LET top == 254 - i
                    IN  IF top \in s THEN C!Xor(s, {top, top - 128, top - 127, top - 126, top - 121}) ELSE s
  IN  C!Loop(127, C!Loop(128, {}, Sum), Fold)
AesBlock(i) == C!aes256_encrypt_block(RoundKeys, Iv \o C!ToBE(C!Bits(i), 4))
Encrypted(m, size, Block(_)) == [i \in DOMAIN m |-> C!Xor(m[i], Block((i - 1) \div size)[((i - 1) % size) + 1])]
Hashed(data) ==
  C!Loop(Len(data) \div 16, {},
         LAMBDA y, i : Product(C!Xor(y, C!Block128(C!Part(data, 16 * i, 16))), C!Block128(C!aes256_encrypt_block(RoundKeys, C!Zeros(16)))))
GcmTagged(ct) ==
  ct \o C!XorBytes(AesBlock(1), C!Bytes128(Hashed(C!Padded16(ct) \o C!Zeros(8) \o C!ToBE(C!Bits(8 * Len(ct)), 8))))
GcmReference(m) == GcmTagged(Encrypted(m, 16, LAMBDA i : AesBlock(i + 2)))
\* RFC 8439: a number modulo 2^130 - 5, and the code of a message.
ModP(a) ==
  LET Fold(b, i) == C!Plus(C!Below(b, 130), C!Five(C!Shr(b, 130)))
      b == C!Loop(4, a, Fold)
      over == C!Plus(b, C!Bits(5))
  IN  IF 130 \in over THEN C!Below(over, 130) ELSE b
Poly1305(key, m) ==
  LET r == C!FromLE(C!Part(key, 0, 16))
             \ (UNION {{24 + i, 56 + i, 88 + i, 120 + i} : i \in 4 .. 7} \cup {32, 33, 64, 65, 96, 97})
      Take(i) == IF 16 * (i + 1) <= Len(m) THEN 16 ELSE Len(m) % 16
      Absorb1(a, i) == LET block == C!FromLE(C!Part(m, 16 * i, Take(i))) \cup {8 * Take(i)}
                       IN  ModP(C!Times(C!Plus(a, block), r))
      a == C!Loop((Len(m) + 15) \div 16, {}, Absorb1)
  IN  C!ToLE(C!Plus(a, C!FromLE(C!Part(key, 16, 16))), 16)
ChachaBlockAt(i) == C!chacha20_block(C!WordsLE(TestKey, 4), C!WordsLE(Iv, 4), i)
Tagged(ct) ==
  ct \o Poly1305(C!Part(ChachaBlockAt(0), 0, 32), C!Padded16(ct) \o C!Zeros(8) \o C!ToLE(C!Bits(Len(ct)), 8))
ChachaReference(m) == Tagged(Encrypted(m, 64, LAMBDA i : ChachaBlockAt(i + 1)))
Reference(c, m) == IF c = "aes" THEN GcmReference(m) ELSE ChachaReference(m)
StreamReference(c, m) == IF c = "aes" THEN Encrypted(m, 16, LAMBDA i : AesBlock(i + 1)) ELSE Encrypted(m, 64, ChachaBlockAt)
\* FIPS 197 appendix C.3 and RFC 8439 section 2.3.2.
Counting(n) == [i \in 1 .. n |-> C!Bits(i - 1)]
BlocksRight ==
  /\ C!FromBE(C!aes256_encrypt_block(C!aes256_expand_key(Counting(32)), [i \in 1 .. 16 |-> C!Bits(17 * (i - 1))]))
       = C!Hex(<<\H8ea2, \Hb7ca, \H5167, \H45bf, \Heafc, \H4990, \H4b49, \H6089>>)
  /\ C!FromBE(C!Part(C!chacha20_block_for_keygen(Counting(32),
                       <<{}, {}, {}, {0, 3}, {}, {}, {}, {1, 3, 6}, {}, {}, {}, {}>>, 1), 0, 8))
       = C!Hex(<<\H10f1, \He7e4, \Hd13b, \H5915>>)

\* r one, the largest clamped or a mixture; messages that leave the sum a
\* little under, at and over the prime.  r four and a block of ones leave a
\* carry that runs through all limbs to the last turn.
MacJobs == {[kind |-> "mac", r |-> r, s |-> s, m |-> m] :
              r \in {<<{0}>> \o C!Zeros(15), <<{2}>> \o C!Zeros(15), Ones(16), Message(16)}, s \in {C!Zeros(16), Ones(16)},
              m \in {Message(n) : n \in {0, 1, 15, 16, 17, 33}} \cup {Ones(n) : n \in {16, 32, 47, 64}}
                      \cup {Ones(16) \o C!Byte(b) \o Ones(15) : b \in 249 .. 254}}
RunMac(r, s, m) == [tag |-> C!poly1305_mac(r \o s, m), streamed |-> C!StreamedMac(r \o s, m)]

Gives(r, n, bytes) == r = [ok |-> TRUE, len |-> n, out |-> C!Put(Buffer, bytes)]

\* Both forms of an AEAD seal to what its standard says and open what either
\* sealed, at every length around a block's end; the forms that are too short
\* or too long for a message leave the buffer as it was.  The two versions of
\* Poly1305 agree with arithmetic modulo 2^130 - 5, also where the sum of the
\* blocks passes the prime or a limb carries.
CiphersRight ==
  /\ Done("seal") =>
       \E m \in {Message(job.n)} : \E sealed \in {Reference(job.cipher, m)}, streamed \in {StreamReference(job.cipher, m)} :
         /\ BlocksRight
         /\ IF job.n = 0 THEN out.slab = C!Refused(Buffer) ELSE Gives(out.slab, job.n + 16, sealed)
         /\ IF job.n > 16 THEN out.short = C!Refused(Buffer) ELSE Gives(out.short, job.n + 16, sealed)
         /\ job.n > 0 => Gives(out.openSlab, job.n, m)
         /\ job.n \in 1 .. 16 => Gives(out.openShort, job.n, m)
         /\ out.stream = {C!Put(Buffer, streamed)}
         /\ job.cipher = "chacha" /\ job.n <= 20 => Gives(out.limited, job.n, streamed)
  /\ Done("mac") =>
       \E key \in {job.r \o job.s} :
         /\ out.tag = Poly1305(key, job.m)
         /\ out.streamed = Poly1305(key, C!Padded16(job.m) \o C!Zeros(8) \o C!ToLE(C!Bits(Len(job.m)), 8))
-----------------------------------------------------------------------------
(* Sealed messages with one bit changed.                                     *)

ChangeJobs == [kind : {"change"}, cipher : {"aes", "chacha"}, n : {4}, byte : 1 .. 32]
Changed(s, byte) == [s EXCEPT ![byte] = C!Xor(@, {byte % 8})]
OpenBoth(c, input) == [short |-> OpenShort(c, input), slab |-> OpenSlab(c, C!Part(input, 0, 12), C!Part(input, 12, Len(input) - 12))]

\* No changed bit, of nonce, ciphertext or tag, is let through, and nothing of
\* the message is in the output then: the inline form zeroes it, the other
\* leaves it as it was (AES_GCM_OPEN's "auth before plaintext").
TamperRefused ==
  Done("change") => /\ out.short = C!Refused(C!Put(Buffer, C!Zeros(64)))
                    /\ out.slab = C!Refused(Buffer)
=============================================================================

------------------------------ MODULE KernelOps ------------------------------
(* What one request becomes in the sharded kernel: the opcode dispatch of   *)
(* fast_path_engine_loop_sharded (core/persistent_engine/engine_loop.cu)    *)
(* with the layouts of op_schema.cuh, and the host writers in front of it.  *)
(* The cryptography is abstracted to the lengths it reads and writes; the   *)
(* checks, their order and the placement of the output are kept.            *)
(*                                                                          *)
(* A request is a record                                                    *)
(*   opcode, ilen (input_len), multi (FAST_PATH_FLAG_MULTIMSG), n, mlen,    *)
(*   hflags (the header in input[0..7]), poff, plen (payload slab), slot    *)
(* and an answer a record                                                   *)
(*   status, len (output_len, inline), region, bytes (output_bytes),        *)
(*   inRead (bytes of input[] read), payEnd (end of the payload read),      *)
(*   opcode, slab: how the writer leaves these fields of the CQ slot:       *)
(*   "set", "stale" (not written) or "garbage" (an uninitialised local).    *)
EXTENDS Integers

InputBytes       == 32          \* FastPathRequest.input
OutputBytes      == 64          \* FastPathResponse.output
HeaderBytes      == 8           \* MULTIMSG_HEADER_SIZE
NonceBytes       == 12
TagBytes         == 16          \* FAST_PATH_SEAL_TAG_BYTES
MaxPlaintext     == 65535       \* FAST_PATH_SEAL_MAX_PLAINTEXT
SegmentBytes     == 2048        \* FAST_PATH_OUTPUT_SEGMENT_BYTES
SealSegmentBytes == 65552       \* FAST_PATH_SEAL_OUTPUT_SEGMENT_BYTES
PayloadSlabBytes == 4194304     \* FAST_PATH_PAYLOAD_SLAB_SIZE
MaxKeySlots      == 2           \* ENGINE_MAX_KEY_SLOTS

Least(a, b) == IF a <= b THEN a ELSE b

(* The answers a branch can give. *)
Refused(st) ==
  [status |-> st, len |-> 0, region |-> "none", bytes |-> 0,
   inRead |-> 0, payEnd |-> 0, opcode |-> "stale", slab |-> "set"]

Inline(len, inRead, payEnd) ==
  [Refused("OK") EXCEPT !.len = len, !.inRead = inRead, !.payEnd = payEnd]

InSlab(region, bytes, inRead, payEnd) ==
  [Refused("OK") EXCEPT !.region = region, !.bytes = bytes,
                        !.inRead = inRead, !.payEnd = payEnd]

Echoes(a) == [a EXCEPT !.opcode = "set"]

(* ---- Digests: one short message, or a packed batch of n of them ------- *)
UsesPayload(r) == r.plen > 0

PayloadAvail(r) ==
  IF UsesPayload(r) THEN r.plen
  ELSE IF r.ilen > HeaderBytes THEN r.ilen - HeaderBytes ELSE 0

MultiValid(r, digest, maxMsg) ==
  /\ r.n > 0
  /\ r.mlen <= maxMsg
  /\ r.hflags = 0
  /\ r.n * r.mlen <= PayloadAvail(r)
  /\ r.n * digest <= SegmentBytes

MultiDigest(r, digest, maxMsg) ==
  LET used   == r.n * r.mlen
      inRead == IF UsesPayload(r) THEN HeaderBytes ELSE HeaderBytes + used
      payEnd == IF UsesPayload(r) THEN r.poff + used ELSE 0
  IN  IF ~MultiValid(r, digest, maxMsg) THEN Refused("INVALID_MULTIMSG")
      ELSE IF r.n * digest <= OutputBytes
           THEN Inline(r.n * digest, inRead, payEnd)
           ELSE [InSlab("std", r.n * digest, inRead, payEnd)
                   EXCEPT !.len = OutputBytes]

SingleDigest(r, digest, maxMsg) ==
  IF r.ilen > maxMsg THEN Refused("INVALID_INPUT_LEN")
  ELSE Inline(digest, r.ilen, 0)

Digest(r, digest, maxMsg) ==
  IF r.multi THEN MultiDigest(r, digest, maxMsg)
             ELSE SingleDigest(r, digest, maxMsg)

Sha256(r)     == Digest(r, 32, 32)
Sha512(r)     == Digest(r, 64, 32)
Sha3_256(r)   == Digest(r, 32, 32)
Blake2b_256(r) == Digest(r, 32, 32)
Sha3_512(r)   == Digest(r, 64, 32)
Blake2b_512(r) == Digest(r, 64, 32)
HmacSha256(r) == Digest(r, 32, 64)
HmacSha512(r) == Digest(r, 64, 64)
HmacSha384(r) == Digest(r, 48, 64)

(* One HMAC over a payload of any length; the empty one needs no slab. *)
HmacVarlen(r) ==
  IF r.plen > 0 /\ r.poff + r.plen > PayloadSlabBytes
  THEN Refused("INVALID_INPUT_LEN")
  ELSE Inline(32, 0, r.poff + r.plen)

(* ---- Short ciphers, MAC and key derivation, inline only ---------------- *)
StreamCipher(r) ==
  IF r.ilen < NonceBytes \/ r.ilen > InputBytes
  THEN Refused("INVALID_INPUT_LEN")
  ELSE Inline(r.ilen - NonceBytes, r.ilen, 0)

Aes256Ctr(r) == StreamCipher(r)
ChaCha20(r)  == StreamCipher(r)

Poly1305(r) ==
  IF r.ilen > InputBytes THEN Refused("INVALID_INPUT_LEN")
  ELSE Inline(16, r.ilen, 0)

HkdfSha256(r) ==
  IF r.ilen \notin 32..64 THEN Refused("INVALID_INPUT_LEN")
  ELSE Inline(32, r.ilen, 0)

(* ---- Authenticated encryption ------------------------------------------ *)
(* key: what the keyslot holds, "aes", "other" (another type, or none) or   *)
(* "zeroized".                                                              *)
KeyStatus(r, key) ==
  IF r.slot >= MaxKeySlots THEN "INVALID_KEY_SLOT"
  ELSE IF key # "aes" THEN "KEY_NOT_LOADED"
  ELSE "OK"

SealRange(r) == /\ r.plen > 0
                /\ r.plen <= MaxPlaintext
                /\ r.poff <= PayloadSlabBytes
                /\ r.plen <= PayloadSlabBytes - r.poff

OpenRange(r) == /\ r.plen > TagBytes
                /\ r.plen <= MaxPlaintext + TagBytes
                /\ r.poff <= PayloadSlabBytes
                /\ r.plen <= PayloadSlabBytes - r.poff

(* room: fewer than the shard's seal segments are reserved and undrained. *)
Seal(r, key, room) ==
  Echoes(
    IF KeyStatus(r, key) # "OK" THEN Refused(KeyStatus(r, key))
    ELSE IF r.plen > 0
    THEN IF r.ilen # NonceBytes \/ ~SealRange(r) THEN Refused("INVALID_INPUT_LEN")
         ELSE IF ~room THEN Refused("SLAB_OVERRUN")
         ELSE InSlab("seal", r.plen + TagBytes, NonceBytes, r.poff + r.plen)
    ELSE IF r.ilen \notin 12..28 THEN Refused("INVALID_INPUT_LEN")
         ELSE Inline(r.ilen - NonceBytes + TagBytes, r.ilen, 0))

Aes256Gcm(r, key, room)        == Seal(r, key, room)
ChaCha20Poly1305(r, key, room) == Seal(r, key, room)

(* auth: the tag of the input verifies under the slot's key. *)
Open(r, key, room, auth) ==
  Echoes(
    IF KeyStatus(r, key) # "OK" THEN Refused(KeyStatus(r, key))
    ELSE IF r.plen > 0
    THEN IF r.ilen # NonceBytes \/ ~OpenRange(r) THEN Refused("INVALID_INPUT_LEN")
         ELSE IF ~room THEN Refused("SLAB_OVERRUN")
         ELSE IF auth
              THEN InSlab("seal", r.plen - TagBytes, NonceBytes, r.poff + r.plen)
              ELSE Refused("CRYPTO_ERROR")
    ELSE IF r.ilen \notin 28..32 THEN Refused("INVALID_INPUT_LEN")
         ELSE IF auth
              THEN Inline(r.ilen - NonceBytes - TagBytes, r.ilen, 0)
              ELSE Refused("CRYPTO_ERROR"))

Aes256GcmOpen(r, key, room, auth)        == Open(r, key, room, auth)
ChaCha20Poly1305Open(r, key, room, auth) == Open(r, key, room, auth)

(* ---- P-256 -------------------------------------------------------------- *)
(* Many signatures of one request; the refusals leave len, offset and bytes *)
(* of an uninitialised response behind.                                     *)
MultiSign(r) ==
  LET bad(st) == [Refused(st) EXCEPT !.opcode = "garbage", !.slab = "garbage"]
  IN  IF r.mlen # 32 \/ r.n \notin 1..32 THEN bad("INVALID_MULTIMSG")
      ELSE IF r.plen < r.n * 32 THEN bad("INVALID_INPUT_LEN")
      ELSE [InSlab("std", r.n * 64, HeaderBytes, r.poff + r.n * 32)
              EXCEPT !.len = OutputBytes, !.opcode = "garbage"]

(* One signature: offset, bytes and opcode of the slot are not written. *)
SingleSign(r) == [Inline(64, 32, 0) EXCEPT !.slab = "stale"]

(* The path is chosen by the flags of the batch's first request. *)
P256Sign(r, batchIsMulti) == IF batchIsMulti THEN MultiSign(r) ELSE SingleSign(r)

UnknownOpcode(r) == [Refused("INVALID_OPCODE") EXCEPT !.slab = "stale"]

(* ---- The dispatch -------------------------------------------------------- *)
HashOps   == {"SHA256", "SHA512", "SHA3_256", "SHA3_512", "BLAKE2B_256", "BLAKE2B_512"}
HmacOps   == {"HMAC_SHA256", "HMAC_SHA512", "HMAC_SHA384"}
SealOps   == {"AES256_GCM", "CHACHA20_POLY1305"}
OpenOps   == {"AES256_GCM_OPEN", "CHACHA20_POLY1305_OPEN"}
InlineOps == {"AES256_CTR", "CHACHA20", "POLY1305", "HKDF_SHA256"}
HostOps   == {"RSA_2048_SIGN", "MLDSA_SIGN", "SLH_DSA_SIGN"}
KernelOpcodes == HashOps \cup HmacOps \cup SealOps \cup OpenOps \cup InlineOps
                 \cup {"P256_SIGN", "HMAC_SHA256_VARLEN"}
Opcodes   == KernelOpcodes \cup HostOps

Dispatch(r, key, room, auth) ==
  CASE r.opcode = "SHA256"      -> Sha256(r)
    [] r.opcode = "SHA512"      -> Sha512(r)
    [] r.opcode = "SHA3_256"    -> Sha3_256(r)
    [] r.opcode = "BLAKE2B_256" -> Blake2b_256(r)
    [] r.opcode = "SHA3_512"    -> Sha3_512(r)
    [] r.opcode = "BLAKE2B_512" -> Blake2b_512(r)
    [] r.opcode = "HMAC_SHA256" -> HmacSha256(r)
    [] r.opcode = "HMAC_SHA256_VARLEN" -> HmacVarlen(r)
    [] r.opcode = "HMAC_SHA512" -> HmacSha512(r)
    [] r.opcode = "HMAC_SHA384" -> HmacSha384(r)
    [] r.opcode = "AES256_CTR"  -> Aes256Ctr(r)
    [] r.opcode = "AES256_GCM"  -> Aes256Gcm(r, key, room)
    [] r.opcode = "AES256_GCM_OPEN" -> Aes256GcmOpen(r, key, room, auth)
    [] r.opcode = "CHACHA20_POLY1305_OPEN" -> ChaCha20Poly1305Open(r, key, room, auth)
    [] r.opcode = "CHACHA20"    -> ChaCha20(r)
    [] r.opcode = "POLY1305"    -> Poly1305(r)
    [] r.opcode = "CHACHA20_POLY1305" -> ChaCha20Poly1305(r, key, room)
    [] r.opcode = "HKDF_SHA256" -> HkdfSha256(r)
    [] r.opcode = "P256_SIGN"   -> P256Sign(r, r.multi)
    [] OTHER                    -> UnknownOpcode(r)
=============================================================================

----------------------------- MODULE DeviceProofs -----------------------------
(* The properties of MCDevice, by the theorems of its components: the        *)
(* inductive invariant of the composition is each component's in the         *)
(* behaviours that are its own.                                              *)
EXTENDS MCDevice, KeyRotationProofs

\* The proofs of the instances MCDevice makes.
F == INSTANCE KeyRotationProofs WITH
       Threads <- One, Ops <- AllOps \ {"load", "rotate", "prepare_async"},
       Types <- {"P256"}, Algs <- {}, Surfaces <- {}, MayFail <- TRUE, MaxCalls <- 4

S == INSTANCE OutputSlabProofs WITH
       Slots <- 4, Capacities <- {2, 4}, StdSegs <- 2, SealSegs <- 2, IdxMod <- 8,
       Loads <- {Carries({"digest", "digests", "seal"}, FALSE), Carries({"seal"}, TRUE)},
       MaxRequests <- 5, MaxStarts <- 1

H == INSTANCE KeyIntegrityProofs WITH
       KeySlots <- {0, 1}, Modes <- {"DISABLED", "MONITOR", "STRICT"}, Repairs <- {1},
       Intervals <- {1, 2}, MaxFaults <- 3, MaxOps <- 4, MaxChanges <- 2

-----------------------------------------------------------------------------
(* The instances meet the hypotheses of the theorems. *)

LEMMA FaultsClean == F!KeyRotationAssumption /\ F!CleanUse
  BY DEF F!KeyRotationAssumption, F!CleanUse, F!AllOps, F!Steps, AllOps, Steps, One

LEMMA SegOneStart == S!OneStart
<1>1. 8 % 4 = 0 /\ 8 % 2 = 0 /\ 4 % 2 = 0 OBVIOUS
<1>2. \A g \in S!Regions : S!SegsOf(g) = 2 BY DEF S!Regions, S!SegsOf
<1>3. S!OutputSlabAssumption BY <1>1 DEF S!OutputSlabAssumption, Carries
<1>4. \A l \in {Carries({"digest", "digests", "seal"}, FALSE), Carries({"seal"}, TRUE)} :
        /\ l.kinds \subseteq {"digest", "digests", "signs", "seal"}
        /\ l.reorder => l.kinds \subseteq {"seal"} /\ 4 % 2 = 0
  BY <1>1 DEF Carries
<1>5. \A g \in S!Regions : S!SegsOf(g) >= 2 /\ 8 % S!SegsOf(g) = 0
  <2>. SUFFICES ASSUME NEW g \in S!Regions PROVE S!SegsOf(g) >= 2 /\ 8 % S!SegsOf(g) = 0
    OBVIOUS
  <2>1. S!SegsOf(g) = 2 BY <1>2
  <2>. QED BY <1>1, <2>1
<1>6. 1 <= 1 /\ 4 < 8 OBVIOUS
<1>. QED BY <1>3, <1>4, <1>5, <1>6 DEF S!OneStart

-----------------------------------------------------------------------------
(* Two instances of a module with the same constants are the same module. *)

LEMMA SameFaultsInit == F!Init <=> Faults!Init
  BY SMTT(60) DEF F!Init, F!Slots, F!EmptySlot, F!Loaded, F!NoCall, F!NoReq, F!Nothing,
         Faults!Init, Faults!Slots, Faults!EmptySlot, Faults!Loaded,
         Faults!NoCall, Faults!NoReq, Faults!Nothing

LEMMA SameFaultsNext == F!Next <=> Faults!Next
  BY DEF F!Next, F!Transfer, F!Begin, F!Submit, F!Validate, F!Compute,
         F!CallStep, F!hostVars, F!clientVars, F!Other, F!Apply, F!Steps,
         F!TypedOps, F!MutexOps, F!Slots, F!NoCall, F!HoldsMutex, F!Inactive,
         F!ClientMay, F!Writers, F!Unsure, F!Expected, F!Enqueue,
         F!EnqueueProbe, F!EnqueueFlip, F!UpdateMirror, F!Sync, F!Latch,
         F!Unlatch, F!Fail, F!AllOps, F!Step, F!Commits, F!InFlight, F!Fields,
         F!Value, F!Copy, F!Goto, F!Advance, F!EmptySlot, F!Loaded,
         F!TypedFields, F!Finishes, F!Learnt, F!Nothing, Faults!Next,
         Faults!Transfer, Faults!Begin, Faults!Submit, Faults!Validate,
         Faults!Compute, Faults!CallStep, Faults!hostVars, Faults!clientVars,
         Faults!Other, Faults!Apply, Faults!Steps, Faults!TypedOps,
         Faults!MutexOps, Faults!Slots, Faults!NoCall, Faults!HoldsMutex,
         Faults!Inactive, Faults!ClientMay, Faults!Writers, Faults!Unsure,
         Faults!Expected, Faults!Enqueue, Faults!EnqueueProbe,
         Faults!EnqueueFlip, Faults!UpdateMirror, Faults!Sync, Faults!Latch,
         Faults!Unlatch, Faults!Fail, Faults!AllOps, Faults!Step,
         Faults!Commits, Faults!InFlight, Faults!Fields, Faults!Value,
         Faults!Copy, Faults!Goto, Faults!Advance, Faults!EmptySlot,
         Faults!Loaded, Faults!TypedFields, Faults!Finishes, Faults!Learnt,
         Faults!Nothing

LEMMA SameFaultsProperties ==
  /\ F!ActiveSlotWhole <=> Faults!ActiveSlotWhole
  /\ F!MirrorIsAhead <=> Faults!MirrorIsAhead
  /\ F!LatchWhileAsyncPending <=> Faults!LatchWhileAsyncPending
<1>1. F!ActiveSlotWhole <=> Faults!ActiveSlotWhole
  BY DEF F!ActiveSlotWhole, F!Loading, Faults!ActiveSlotWhole, Faults!Loading
<1>2. F!MirrorIsAhead <=> Faults!MirrorIsAhead
  BY DEF F!MirrorIsAhead, F!Slots, F!Unsure, F!Final, F!Same, F!Path, F!Apply,
         Faults!MirrorIsAhead, Faults!Slots, Faults!Unsure, Faults!Final,
         Faults!Same, Faults!Path, Faults!Apply
<1>3. F!LatchWhileAsyncPending <=> Faults!LatchWhileAsyncPending
  BY DEF F!LatchWhileAsyncPending, Faults!LatchWhileAsyncPending
<1>. QED BY <1>1, <1>2, <1>3

LEMMA SameDispatch ==
  ASSUME NEW r, NEW k, NEW room, NEW auth
  PROVE  S!Dispatch(r, k, room, auth) = Seg!Dispatch(r, k, room, auth)
<1>1. S!Sha256(r) = Seg!Sha256(r)
  BY DEF S!Sha256, S!Digest, S!MultiDigest, S!SingleDigest, S!OutputBytes,
         S!HeaderBytes, S!Refused, S!Inline, S!InSlab, S!UsesPayload,
         S!MultiValid, S!SegmentBytes, S!PayloadAvail, Seg!Sha256, Seg!Digest,
         Seg!MultiDigest, Seg!SingleDigest, Seg!OutputBytes, Seg!HeaderBytes,
         Seg!Refused, Seg!Inline, Seg!InSlab, Seg!UsesPayload, Seg!MultiValid,
         Seg!SegmentBytes, Seg!PayloadAvail
<1>2. S!Sha512(r) = Seg!Sha512(r)
  BY DEF S!Sha512, S!Digest, S!MultiDigest, S!SingleDigest, S!OutputBytes,
         S!HeaderBytes, S!Refused, S!Inline, S!InSlab, S!UsesPayload,
         S!MultiValid, S!SegmentBytes, S!PayloadAvail, Seg!Sha512, Seg!Digest,
         Seg!MultiDigest, Seg!SingleDigest, Seg!OutputBytes, Seg!HeaderBytes,
         Seg!Refused, Seg!Inline, Seg!InSlab, Seg!UsesPayload, Seg!MultiValid,
         Seg!SegmentBytes, Seg!PayloadAvail
<1>3. S!Sha3_256(r) = Seg!Sha3_256(r)
  BY DEF S!Sha3_256, S!Digest, S!MultiDigest, S!SingleDigest, S!OutputBytes,
         S!HeaderBytes, S!Refused, S!Inline, S!InSlab, S!UsesPayload,
         S!MultiValid, S!SegmentBytes, S!PayloadAvail, Seg!Sha3_256,
         Seg!Digest, Seg!MultiDigest, Seg!SingleDigest, Seg!OutputBytes,
         Seg!HeaderBytes, Seg!Refused, Seg!Inline, Seg!InSlab,
         Seg!UsesPayload, Seg!MultiValid, Seg!SegmentBytes, Seg!PayloadAvail
<1>4. S!Blake2b_256(r) = Seg!Blake2b_256(r)
  BY DEF S!Blake2b_256, S!Digest, S!MultiDigest, S!SingleDigest,
         S!OutputBytes, S!HeaderBytes, S!Refused, S!Inline, S!InSlab,
         S!UsesPayload, S!MultiValid, S!SegmentBytes, S!PayloadAvail,
         Seg!Blake2b_256, Seg!Digest, Seg!MultiDigest, Seg!SingleDigest,
         Seg!OutputBytes, Seg!HeaderBytes, Seg!Refused, Seg!Inline,
         Seg!InSlab, Seg!UsesPayload, Seg!MultiValid, Seg!SegmentBytes,
         Seg!PayloadAvail
<1>5. S!Sha3_512(r) = Seg!Sha3_512(r)
  BY DEF S!Sha3_512, S!Digest, S!MultiDigest, S!SingleDigest, S!OutputBytes,
         S!HeaderBytes, S!Refused, S!Inline, S!InSlab, S!UsesPayload,
         S!MultiValid, S!SegmentBytes, S!PayloadAvail, Seg!Sha3_512,
         Seg!Digest, Seg!MultiDigest, Seg!SingleDigest, Seg!OutputBytes,
         Seg!HeaderBytes, Seg!Refused, Seg!Inline, Seg!InSlab,
         Seg!UsesPayload, Seg!MultiValid, Seg!SegmentBytes, Seg!PayloadAvail
<1>6. S!Blake2b_512(r) = Seg!Blake2b_512(r)
  BY DEF S!Blake2b_512, S!Digest, S!MultiDigest, S!SingleDigest,
         S!OutputBytes, S!HeaderBytes, S!Refused, S!Inline, S!InSlab,
         S!UsesPayload, S!MultiValid, S!SegmentBytes, S!PayloadAvail,
         Seg!Blake2b_512, Seg!Digest, Seg!MultiDigest, Seg!SingleDigest,
         Seg!OutputBytes, Seg!HeaderBytes, Seg!Refused, Seg!Inline,
         Seg!InSlab, Seg!UsesPayload, Seg!MultiValid, Seg!SegmentBytes,
         Seg!PayloadAvail
<1>7. S!HmacSha256(r) = Seg!HmacSha256(r)
  BY DEF S!HmacSha256, S!Digest, S!MultiDigest, S!SingleDigest, S!OutputBytes,
         S!HeaderBytes, S!Refused, S!Inline, S!InSlab, S!UsesPayload,
         S!MultiValid, S!SegmentBytes, S!PayloadAvail, Seg!HmacSha256,
         Seg!Digest, Seg!MultiDigest, Seg!SingleDigest, Seg!OutputBytes,
         Seg!HeaderBytes, Seg!Refused, Seg!Inline, Seg!InSlab,
         Seg!UsesPayload, Seg!MultiValid, Seg!SegmentBytes, Seg!PayloadAvail
<1>8. S!HmacSha512(r) = Seg!HmacSha512(r)
  BY DEF S!HmacSha512, S!Digest, S!MultiDigest, S!SingleDigest, S!OutputBytes,
         S!HeaderBytes, S!Refused, S!Inline, S!InSlab, S!UsesPayload,
         S!MultiValid, S!SegmentBytes, S!PayloadAvail, Seg!HmacSha512,
         Seg!Digest, Seg!MultiDigest, Seg!SingleDigest, Seg!OutputBytes,
         Seg!HeaderBytes, Seg!Refused, Seg!Inline, Seg!InSlab,
         Seg!UsesPayload, Seg!MultiValid, Seg!SegmentBytes, Seg!PayloadAvail
<1>9. S!HmacSha384(r) = Seg!HmacSha384(r)
  BY DEF S!HmacSha384, S!Digest, S!MultiDigest, S!SingleDigest, S!OutputBytes,
         S!HeaderBytes, S!Refused, S!Inline, S!InSlab, S!UsesPayload,
         S!MultiValid, S!SegmentBytes, S!PayloadAvail, Seg!HmacSha384,
         Seg!Digest, Seg!MultiDigest, Seg!SingleDigest, Seg!OutputBytes,
         Seg!HeaderBytes, Seg!Refused, Seg!Inline, Seg!InSlab,
         Seg!UsesPayload, Seg!MultiValid, Seg!SegmentBytes, Seg!PayloadAvail
<1>10. S!HmacVarlen(r) = Seg!HmacVarlen(r)
  BY DEF S!HmacVarlen, S!PayloadSlabBytes, S!Refused, S!Inline,
         Seg!HmacVarlen, Seg!PayloadSlabBytes, Seg!Refused, Seg!Inline
<1>11. S!Aes256Ctr(r) = Seg!Aes256Ctr(r)
  BY DEF S!Aes256Ctr, S!StreamCipher, S!InputBytes, S!NonceBytes, S!Refused,
         S!Inline, Seg!Aes256Ctr, Seg!StreamCipher, Seg!InputBytes,
         Seg!NonceBytes, Seg!Refused, Seg!Inline
<1>12. S!ChaCha20(r) = Seg!ChaCha20(r)
  BY DEF S!ChaCha20, S!StreamCipher, S!InputBytes, S!NonceBytes, S!Refused,
         S!Inline, Seg!ChaCha20, Seg!StreamCipher, Seg!InputBytes,
         Seg!NonceBytes, Seg!Refused, Seg!Inline
<1>13. S!Poly1305(r) = Seg!Poly1305(r)
  BY DEF S!Poly1305, S!InputBytes, S!Refused, S!Inline, Seg!Poly1305,
         Seg!InputBytes, Seg!Refused, Seg!Inline
<1>14. S!HkdfSha256(r) = Seg!HkdfSha256(r)
  BY DEF S!HkdfSha256, S!Refused, S!Inline, Seg!HkdfSha256, Seg!Refused,
         Seg!Inline
<1>15. S!Aes256Gcm(r, k, room) = Seg!Aes256Gcm(r, k, room)
  BY DEF S!Aes256Gcm, S!Seal, S!NonceBytes, S!TagBytes, S!Refused, S!Inline,
         S!InSlab, S!Echoes, S!KeyStatus, S!SealRange, S!MaxKeySlots,
         S!MaxPlaintext, S!PayloadSlabBytes, Seg!Aes256Gcm, Seg!Seal,
         Seg!NonceBytes, Seg!TagBytes, Seg!Refused, Seg!Inline, Seg!InSlab,
         Seg!Echoes, Seg!KeyStatus, Seg!SealRange, Seg!MaxKeySlots,
         Seg!MaxPlaintext, Seg!PayloadSlabBytes
<1>16. S!ChaCha20Poly1305(r, k, room) = Seg!ChaCha20Poly1305(r, k, room)
  BY DEF S!ChaCha20Poly1305, S!Seal, S!NonceBytes, S!TagBytes, S!Refused,
         S!Inline, S!InSlab, S!Echoes, S!KeyStatus, S!SealRange,
         S!MaxKeySlots, S!MaxPlaintext, S!PayloadSlabBytes,
         Seg!ChaCha20Poly1305, Seg!Seal, Seg!NonceBytes, Seg!TagBytes,
         Seg!Refused, Seg!Inline, Seg!InSlab, Seg!Echoes, Seg!KeyStatus,
         Seg!SealRange, Seg!MaxKeySlots, Seg!MaxPlaintext,
         Seg!PayloadSlabBytes
<1>17. S!Aes256GcmOpen(r, k, room, auth) = Seg!Aes256GcmOpen(r, k, room, auth)
  BY DEF S!Aes256GcmOpen, S!Open, S!NonceBytes, S!TagBytes, S!Refused,
         S!Inline, S!InSlab, S!Echoes, S!KeyStatus, S!OpenRange,
         S!MaxKeySlots, S!MaxPlaintext, S!PayloadSlabBytes, Seg!Aes256GcmOpen,
         Seg!Open, Seg!NonceBytes, Seg!TagBytes, Seg!Refused, Seg!Inline,
         Seg!InSlab, Seg!Echoes, Seg!KeyStatus, Seg!OpenRange,
         Seg!MaxKeySlots, Seg!MaxPlaintext, Seg!PayloadSlabBytes
<1>18. S!ChaCha20Poly1305Open(r, k, room, auth) = Seg!ChaCha20Poly1305Open(r, k, room, auth)
  BY DEF S!ChaCha20Poly1305Open, S!Open, S!NonceBytes, S!TagBytes, S!Refused,
         S!Inline, S!InSlab, S!Echoes, S!KeyStatus, S!OpenRange,
         S!MaxKeySlots, S!MaxPlaintext, S!PayloadSlabBytes,
         Seg!ChaCha20Poly1305Open, Seg!Open, Seg!NonceBytes, Seg!TagBytes,
         Seg!Refused, Seg!Inline, Seg!InSlab, Seg!Echoes, Seg!KeyStatus,
         Seg!OpenRange, Seg!MaxKeySlots, Seg!MaxPlaintext,
         Seg!PayloadSlabBytes
<1>19. S!P256Sign(r, r.multi) = Seg!P256Sign(r, r.multi)
  BY DEF S!P256Sign, S!MultiSign, S!SingleSign, S!OutputBytes, S!HeaderBytes,
         S!Refused, S!InSlab, S!Inline, Seg!P256Sign, Seg!MultiSign,
         Seg!SingleSign, Seg!OutputBytes, Seg!HeaderBytes, Seg!Refused,
         Seg!InSlab, Seg!Inline
<1>20. S!UnknownOpcode(r) = Seg!UnknownOpcode(r)
  BY DEF S!UnknownOpcode, S!Refused, Seg!UnknownOpcode, Seg!Refused
<1>. QED BY <1>1, <1>2, <1>3, <1>4, <1>5, <1>6, <1>7, <1>8, <1>9, <1>10,
            <1>11, <1>12, <1>13, <1>14, <1>15, <1>16, <1>17, <1>18,
            <1>19, <1>20
         DEF S!Dispatch, Seg!Dispatch

LEMMA SameAnswer ==
  ASSUME NEW l
  PROVE  S!Answer(l) = Seg!Answer(l)
<1>1. S!KindRequest(l.kind) = Seg!KindRequest(l.kind) BY DEF S!KindRequest, Seg!KindRequest
<1>2. S!SealRoom(l.pos) = Seg!SealRoom(l.pos)
  BY DEF S!SealRoom, S!Lag, S!U32, Seg!SealRoom, Seg!Lag, Seg!U32
<1>. QED BY <1>1, <1>2, SameDispatch DEF S!Answer, Seg!Answer

LEMMA SameSegInit == S!Init <=> Seg!Init
  BY DEF S!Init, S!Empty, S!Idle, S!AllSegments, S!NoPlace, S!Line1,
         S!Regions, S!SegsOf, Seg!Init, Seg!Empty, Seg!Idle, Seg!AllSegments,
         Seg!NoPlace, Seg!Line1, Seg!Regions, Seg!SegsOf

LEMMA SameSegNext == S!Next <=> Seg!Next
<1>1. ASSUME NEW c PROVE S!SetCapacity(c) <=> Seg!SetCapacity(c)
  BY DEF S!SetCapacity, Seg!SetCapacity
<1>2. S!Start <=> Seg!Start
  BY DEF S!Start, S!Empty, S!ZeroedTelemetry, S!ActiveCapacity, S!NoPlace,
         S!Line1, Seg!Start, Seg!Empty, Seg!ZeroedTelemetry,
         Seg!ActiveCapacity, Seg!NoPlace, Seg!Line1
<1>3. S!Stop <=> Seg!Stop
  BY DEF S!Stop, Seg!Stop
<1>4. ASSUME NEW k, NEW n PROVE S!Reserve(k, n) <=> Seg!Reserve(k, n)
  BY DEF S!Reserve, S!U32, S!Lag, Seg!Reserve, Seg!U32, Seg!Lag
<1>5. ASSUME NEW l PROVE S!WriteBody(l) <=> Seg!WriteBody(l)
  <2>1. S!Answer(l) = Seg!Answer(l) BY SameAnswer
  <2>. QED BY <2>1 DEF S!WriteBody, S!KernelSlot, S!PlaceOf, S!NoPlace,
                  S!SegmentOf, S!SegsOf, S!Line1, Seg!WriteBody,
                  Seg!KernelSlot, Seg!PlaceOf, Seg!NoPlace, Seg!SegmentOf,
                  Seg!SegsOf, Seg!Line1
<1>6. ASSUME NEW l PROVE S!CommitStore(l) <=> Seg!CommitStore(l)
  BY DEF S!CommitStore, S!KernelSlot, Seg!CommitStore, Seg!KernelSlot
<1>7. S!PollTake <=> Seg!PollTake
  BY DEF S!PollTake, S!U32, S!NoPlace, S!Lag, S!HostSlot, S!Untrusted, S!Seen,
         S!TakenStatus, S!SegsOf, Seg!PollTake, Seg!U32, Seg!NoPlace, Seg!Lag,
         Seg!HostSlot, Seg!Untrusted, Seg!Seen, Seg!TakenStatus, Seg!SegsOf
<1>8. S!PollPublish <=> Seg!PollPublish
  BY DEF S!PollPublish, S!U32, Seg!PollPublish, Seg!U32
<1>9. ASSUME NEW h PROVE S!ReadBegin(h) <=> Seg!ReadBegin(h)
  BY DEF S!ReadBegin, S!Idle, S!Readable, S!StillIts, S!SegsOf, S!Lag,
         S!OwnerOf, S!U32, Seg!ReadBegin, Seg!Idle, Seg!Readable,
         Seg!StillIts, Seg!SegsOf, Seg!Lag, Seg!OwnerOf, Seg!U32
<1>10. S!ReadHalf <=> Seg!ReadHalf
  BY DEF S!ReadHalf, Seg!ReadHalf
<1>11. S!ReadEnd <=> Seg!ReadEnd
  BY DEF S!ReadEnd, S!StillIts, S!SegsOf, S!Lag, S!OwnerOf, S!U32,
         Seg!ReadEnd, Seg!StillIts, Seg!SegsOf, Seg!Lag, Seg!OwnerOf, Seg!U32
<1>12. S!ReadReturn <=> Seg!ReadReturn
  BY DEF S!ReadReturn, S!Idle, Seg!ReadReturn, Seg!Idle
<1>. QED BY <1>1, <1>2, <1>3, <1>4, <1>5, <1>6, <1>7, <1>8, <1>9, <1>10, <1>11, <1>12
         DEF S!Next, Seg!Next

LEMMA SameSegProperties ==
  /\ S!TypeOK <=> Seg!TypeOK
  /\ S!OutputIsOwn <=> Seg!OutputIsOwn
  /\ S!StatusIsOwn <=> Seg!StatusIsOwn
  /\ S!CheckedReadIsOwn <=> Seg!CheckedReadIsOwn
  /\ S!CommittedIsFound <=> Seg!CommittedIsFound
  /\ S!SealedOutputKept <=> Seg!SealedOutputKept
<1>1. S!TypeOK <=> Seg!TypeOK
  BY DEF S!TypeOK, Seg!TypeOK
<1>2. S!OutputIsOwn <=> Seg!OutputIsOwn
  BY DEF S!OutputIsOwn, Seg!OutputIsOwn
<1>3. S!StatusIsOwn <=> Seg!StatusIsOwn
  BY DEF S!StatusIsOwn, Seg!StatusIsOwn
<1>4. S!CheckedReadIsOwn <=> Seg!CheckedReadIsOwn
  BY DEF S!CheckedReadIsOwn, Seg!CheckedReadIsOwn
<1>5. S!CommittedIsFound <=> Seg!CommittedIsFound
  BY DEF S!CommittedIsFound, S!HostSlot, S!Undrained, S!Lag, S!U32,
         Seg!CommittedIsFound, Seg!HostSlot, Seg!Undrained, Seg!Lag, Seg!U32
<1>6. S!SealedOutputKept <=> Seg!SealedOutputKept
  BY DEF S!SealedOutputKept, S!HostSlot, S!Undrained, S!Lag, S!U32,
         Seg!SealedOutputKept, Seg!HostSlot, Seg!Undrained, Seg!Lag, Seg!U32
<1>. QED BY <1>1, <1>2, <1>3, <1>4, <1>5, <1>6

LEMMA SameHealStrict ==
  ASSUME NEW r
  PROVE  H!StrictRepair(r) = Heal!StrictRepair(r)
<1>1. H!Zeroized(r) = Heal!Zeroized(r)
  BY DEF H!Zeroized, H!Zero, H!Key, H!NoTag, H!Refused,
         Heal!Zeroized, Heal!Zero, Heal!Key, Heal!NoTag, Heal!Refused
<1>2. ASSUME NEW q, NEW flag, NEW result
      PROVE  H!Repaired(q, flag, result) = Heal!Repaired(q, flag, result)
  BY DEF H!Repaired, Heal!Repaired
<1>3. ASSUME NEW q, NEW d PROVE H!Verifies(q, d) <=> Heal!Verifies(q, d)
  BY DEF H!Verifies, H!Tagged, Heal!Verifies, Heal!Tagged
<1>4. ASSUME NEW d, NEW v PROVE H!Tagged(d, v) = Heal!Tagged(d, v)
  BY DEF H!Tagged, Heal!Tagged
<1>. QED BY <1>1, <1>2, <1>3, <1>4 DEF H!StrictRepair, Heal!StrictRepair

LEMMA SameHealNoted ==
  ASSUME NEW r
  PROVE  H!Noted(r) = Heal!Noted(r)
  BY DEF H!Noted, H!Verifies, H!Tagged, Heal!Noted, Heal!Verifies, Heal!Tagged

LEMMA SameHealRepair ==
  ASSUME NEW r
  PROVE  H!CheckAndRepair(r) = Heal!CheckAndRepair(r)
<1>1. \A q : H!StrictRepair(q) = Heal!StrictRepair(q) BY SameHealStrict
<1>2. H!Noted(r) = Heal!Noted(r) BY SameHealNoted
<1>. QED BY <1>1, <1>2 DEF H!CheckAndRepair, Heal!CheckAndRepair

LEMMA SameHealCheck ==
  ASSUME NEW s, NEW r, NEW st
  PROVE  H!CheckRepairOrHeal(s, r, st) = Heal!CheckRepairOrHeal(s, r, st)
<1>1. H!CheckAndRepair(r) = Heal!CheckAndRepair(r) BY SameHealRepair
<1>2. \A q : H!Healed(s, q) = Heal!Healed(s, q)
  BY DEF H!Healed, H!Derived, H!Key, H!Tagged, Heal!Healed, Heal!Derived, Heal!Key, Heal!Tagged
<1>3. H!MayHeal <=> Heal!MayHeal BY DEF H!MayHeal, Heal!MayHeal
<1>. QED BY <1>1, <1>2, <1>3 DEF H!CheckRepairOrHeal, Heal!CheckRepairOrHeal

LEMMA SameHealInit == H!Init <=> Heal!Init
  BY DEF H!Init, H!Refused, H!Fresh, H!Key, H!Loaded, H!Tagged, Heal!Init,
         Heal!Refused, Heal!Fresh, Heal!Key, Heal!Loaded, Heal!Tagged

LEMMA SameHealNext == H!Next <=> Heal!Next
<1>1. H!SignBatch <=> Heal!SignBatch
  <2>1. \A s, r, st : H!CheckRepairOrHeal(s, r, st) = Heal!CheckRepairOrHeal(s, r, st)
    BY SameHealCheck
  <2>3. \A sl : H!StillHurt(sl) = Heal!StillHurt(sl)
    BY DEF H!StillHurt, H!Whole, H!Verifies, H!Tagged,
           Heal!StillHurt, Heal!Whole, Heal!Verifies, Heal!Tagged
  <2>4. /\ H!ActiveSlot = Heal!ActiveSlot /\ H!tuning = Heal!tuning /\ H!Refused = Heal!Refused
        /\ \A r : H!IsSlotUsable(r) <=> Heal!IsSlotUsable(r)
        /\ \A n : H!ScanDue(n) <=> Heal!ScanDue(n)
    BY DEF H!ActiveSlot, H!tuning, H!Refused, H!Key, H!IsSlotUsable, H!ScanDue,
           Heal!ActiveSlot, Heal!tuning, Heal!Refused, Heal!Key, Heal!IsSlotUsable, Heal!ScanDue
  <2>. DEFINE hpre  == IF H!IsSlotUsable(slot[H!ActiveSlot])
                      THEN [slot |-> slot[H!ActiveSlot], status |-> status[H!ActiveSlot],
                            usable |-> TRUE]
                      ELSE H!CheckRepairOrHeal(H!ActiveSlot, slot[H!ActiveSlot],
                                               status[H!ActiveSlot])
              hsl1  == [slot EXCEPT ![H!ActiveSlot] = hpre.slot]
              hst1  == [status EXCEPT ![H!ActiveSlot] = hpre.status]
              hscan == [s \in {0, 1} |-> H!CheckRepairOrHeal(s, hsl1[s], hst1[s])]
              hsl2  == IF H!ScanDue(ops + 1) THEN [s \in {0, 1} |-> hscan[s].slot] ELSE hsl1
              hst2  == IF H!ScanDue(ops + 1) THEN [s \in {0, 1} |-> hscan[s].status] ELSE hst1
  <2>. DEFINE gpre  == IF Heal!IsSlotUsable(slot[Heal!ActiveSlot])
                      THEN [slot |-> slot[Heal!ActiveSlot], status |-> status[Heal!ActiveSlot],
                            usable |-> TRUE]
                      ELSE Heal!CheckRepairOrHeal(Heal!ActiveSlot, slot[Heal!ActiveSlot],
                                               status[Heal!ActiveSlot])
              gsl1  == [slot EXCEPT ![Heal!ActiveSlot] = gpre.slot]
              gst1  == [status EXCEPT ![Heal!ActiveSlot] = gpre.status]
              gscan == [s \in {0, 1} |-> Heal!CheckRepairOrHeal(s, gsl1[s], gst1[s])]
              gsl2  == IF Heal!ScanDue(ops + 1) THEN [s \in {0, 1} |-> gscan[s].slot] ELSE gsl1
              gst2  == IF Heal!ScanDue(ops + 1) THEN [s \in {0, 1} |-> gscan[s].status] ELSE gst1
  <2>5. H!SignBatch <=>
            /\ ops < 4
            /\ out' = IF hpre.usable THEN hpre.slot.prim ELSE H!Refused
            /\ slot' = hsl2
            /\ status' = hst2
            /\ lastScan' = IF H!ScanDue(ops + 1) THEN ops + 1 ELSE lastScan
            /\ hurt' = H!StillHurt(hsl2)
            /\ ops' = ops + 1
            /\ UNCHANGED <<H!tuning, faults, changes>>
    BY DEF H!SignBatch
  <2>6. Heal!SignBatch <=>
            /\ ops < 4
            /\ out' = IF gpre.usable THEN gpre.slot.prim ELSE Heal!Refused
            /\ slot' = gsl2
            /\ status' = gst2
            /\ lastScan' = IF Heal!ScanDue(ops + 1) THEN ops + 1 ELSE lastScan
            /\ hurt' = Heal!StillHurt(gsl2)
            /\ ops' = ops + 1
            /\ UNCHANGED <<Heal!tuning, faults, changes>>
    BY DEF Heal!SignBatch
  <2>7. hpre = gpre BY <2>1, <2>4
  <2>. HIDE DEF hpre, gpre
  <2>8. hsl1 = gsl1 /\ hst1 = gst1 BY <2>4, <2>7
  <2>. HIDE DEF hsl1, gsl1, hst1, gst1
  <2>9. hscan = gscan BY <2>1, <2>8
  <2>. HIDE DEF hscan, gscan
  <2>10. hsl2 = gsl2 /\ hst2 = gst2 BY <2>4, <2>8, <2>9
  <2>. HIDE DEF hsl2, gsl2, hst2, gst2
  <2>11. UNCHANGED H!tuning <=> UNCHANGED Heal!tuning BY DEF H!tuning, Heal!tuning
  <2>. QED BY <2>3, <2>4, <2>5, <2>6, <2>7, <2>10, <2>11
<1>2. ASSUME NEW s, NEW p PROVE H!Fault(s, p) <=> Heal!Fault(s, p)
  BY DEF H!Fault, H!tuning, H!Bad, H!NoTag, H!Key, H!Refused, Heal!Fault,
         Heal!tuning, Heal!Bad, Heal!NoTag, Heal!Key, Heal!Refused
<1>3. ASSUME NEW m, NEW i, NEW n PROVE H!SetIntegrityTuning(m, i, n) <=> Heal!SetIntegrityTuning(m, i, n)
  BY DEF H!SetIntegrityTuning, H!Changed, H!Others, Heal!SetIntegrityTuning,
         Heal!Changed, Heal!Others
<1>4. H!SetRootSeed <=> Heal!SetRootSeed
  BY DEF H!SetRootSeed, H!Changed, H!Others, Heal!SetRootSeed, Heal!Changed,
         Heal!Others
<1>5. H!ClearRootSeed <=> Heal!ClearRootSeed
  BY DEF H!ClearRootSeed, H!Changed, H!Others, Heal!ClearRootSeed,
         Heal!Changed, Heal!Others
<1>6. ASSUME NEW b PROVE H!SetSelfHealing(b) <=> Heal!SetSelfHealing(b)
  BY DEF H!SetSelfHealing, H!Changed, H!Others, Heal!SetSelfHealing,
         Heal!Changed, Heal!Others
<1>7. ASSUME NEW p PROVE H!SetRotationPolicy(p) <=> Heal!SetRotationPolicy(p)
  BY DEF H!SetRotationPolicy, H!Changed, H!Others, Heal!SetRotationPolicy,
         Heal!Changed, Heal!Others
<1>. QED BY <1>1, <1>2, <1>3, <1>4, <1>5, <1>6, <1>7 DEF H!Next, Heal!Next, H!Parts, Heal!Parts

LEMMA SameHealProperties ==
  /\ H!NoGarbageBlessed <=> Heal!NoGarbageBlessed
  /\ H!HealsAccounted <=> Heal!HealsAccounted
  /\ H!ZeroizedAfterTwo <=> Heal!ZeroizedAfterTwo
<1>1. H!NoGarbageBlessed <=> Heal!NoGarbageBlessed
  BY DEF H!NoGarbageBlessed, H!Parts, H!Bad, H!Key, Heal!NoGarbageBlessed,
         Heal!Parts, Heal!Bad, Heal!Key
<1>2. H!HealsAccounted <=> Heal!HealsAccounted
  BY DEF H!HealsAccounted, H!Derived, H!Key, Heal!HealsAccounted,
         Heal!Derived, Heal!Key
<1>3. H!ZeroizedAfterTwo <=> Heal!ZeroizedAfterTwo
  BY DEF H!Cardinality, Heal!Cardinality, H!ZeroizedAfterTwo, Heal!ZeroizedAfterTwo
<1>. QED BY <1>1, <1>2, <1>3

-----------------------------------------------------------------------------
(* The inductive invariant of the composition *)

DeviceInv ==
  /\ which \in {"rot", "faults", "seg", "int"}
  /\ which = "rot" => IInv
  /\ which = "faults" => F!IInv
  /\ which = "seg" => S!IInv
  /\ which = "int" => H!IInv

LEMMA DeviceInitInv ==
  ASSUME CleanUse, DeviceInit
  PROVE  DeviceInv
<1>1. CASE which = "rot" /\ Init BY <1>1, InitInv DEF DeviceInv
<1>2. CASE which = "faults" /\ Faults!Init
  <2>1. F!IInv BY <1>2, SameFaultsInit, FaultsClean, F!InitInv
  <2>. QED BY <1>2, <2>1 DEF DeviceInv
<1>3. CASE which = "seg" /\ Seg!Init
  <2>1. S!IInv BY <1>3, SameSegInit, SegOneStart, S!InitInv
  <2>. QED BY <1>3, <2>1 DEF DeviceInv
<1>4. CASE which = "int" /\ Heal!Init
  <2>1. H!IInv BY <1>4, SameHealInit, H!InitInv
  <2>. QED BY <1>4, <2>1 DEF DeviceInv
<1>. QED BY <1>1, <1>2, <1>3, <1>4 DEF DeviceInit

LEMMA FaultsStep == F!IInv /\ Faults!Next => F!IInv'
  BY SameFaultsNext, FaultsClean, F!NextInv

LEMMA SegStep == S!IInv /\ Seg!Next => S!IInv'
  BY SameSegNext, SegOneStart, S!NextInv

LEMMA HealStep == H!IInv /\ Heal!Next => H!IInv'
  BY SameHealNext, H!NextInv

\* A step that changes no variable keeps every component's invariant.
LEMMA DeviceStutter ==
  ASSUME CleanUse, DeviceInv, UNCHANGED all
  PROVE  DeviceInv'
<1>. USE DEF all, rotOnly, segOnly, intOnly
<1>1. which' = which OBVIOUS
<1>2. IInv => IInv'
  <2>1. UNCHANGED vars OBVIOUS
  <2>. QED BY <2>1, NextInv
<1>3. F!IInv => F!IInv'
  <2>1. UNCHANGED F!vars BY DEF vars, hostVars, clientVars, F!vars, F!hostVars, F!clientVars
  <2>. QED BY <2>1, FaultsClean, F!NextInv
<1>4. S!IInv => S!IInv'
  <2>1. UNCHANGED S!vars BY DEF S!vars
  <2>. QED BY <2>1, SegOneStart, S!NextInv
<1>5. H!IInv => H!IInv'
  <2>1. UNCHANGED H!vars BY DEF H!vars, H!tuning
  <2>. QED BY <2>1, H!NextInv
<1>. QED BY <1>1, <1>2, <1>3, <1>4, <1>5 DEF DeviceInv

LEMMA DeviceNextInv ==
  ASSUME CleanUse, DeviceInv, [DeviceNext]_all
  PROVE  DeviceInv'
<1>1. CASE which = "rot" /\ Next /\ which' = which BY <1>1, NextInv DEF DeviceInv
<1>2. CASE which = "faults" /\ Faults!Next /\ which' = which
  BY <1>2, FaultsStep DEF DeviceInv
<1>3. CASE which = "seg" /\ Seg!Next /\ which' = which BY <1>3, SegStep DEF DeviceInv
<1>4. CASE which = "int" /\ Heal!Next /\ which' = which BY <1>4, HealStep DEF DeviceInv
<1>5. CASE UNCHANGED all BY <1>5, DeviceStutter
<1>. QED BY <1>1, <1>2, <1>3, <1>4, <1>5 DEF DeviceNext

\* Each component keeps its inductive invariant in the behaviours it takes.
THEOREM DeviceInvariant == CleanUse => (DeviceSpec => []DeviceInv)
<1>. SUFFICES ASSUME CleanUse PROVE DeviceSpec => []DeviceInv OBVIOUS
<1>1. DeviceInit => DeviceInv BY DeviceInitInv
<1>2. DeviceInv /\ [DeviceNext]_all => DeviceInv' BY DeviceNextInv
<1>. QED BY <1>1, <1>2, PTL DEF DeviceSpec

-----------------------------------------------------------------------------
(* The properties of the run follow. *)

LEMMA DeviceFollows ==
  ASSUME CleanUse, DeviceInv
  PROVE  /\ DeviceTypeOK /\ SelectedWhole /\ OwnWholeKey /\ MirrorLeads
         /\ ReadsAreOwn /\ OutputsKept /\ NoGarbageBlessed
<1>. USE DEF DeviceTypeOK, SelectedWhole, OwnWholeKey, MirrorLeads, ReadsAreOwn, OutputsKept,
             NoGarbageBlessed
<1>1. CASE which = "rot"
  <2>1. IInv BY <1>1 DEF DeviceInv
  <2>2. TypeOK /\ ActiveSlotWhole BY <2>1, TypesFollow, WholeFollows
  <2>3. OwnKey BY <2>1 DEF IInv, ReqInv
  <2>. QED BY <1>1, <2>2, <2>3
<1>2. CASE which = "faults"
  <2>1. F!IInv BY <1>2 DEF DeviceInv
  <2>2. F!ActiveSlotWhole /\ F!MirrorIsAhead /\ F!LatchWhileAsyncPending
    BY <2>1, FaultsClean, F!WholeFollows, F!MirrorFollows, F!LatchFollows
  <2>3. Faults!ActiveSlotWhole /\ Faults!MirrorIsAhead /\ Faults!LatchWhileAsyncPending
    BY <2>2, SameFaultsProperties
  <2>. QED BY <1>2, <2>3
<1>3. CASE which = "seg"
  <2>1. S!IInv BY <1>3 DEF DeviceInv
  <2>2. /\ S!TypeOK /\ S!OutputIsOwn /\ S!StatusIsOwn /\ S!CheckedReadIsOwn
        /\ S!CommittedIsFound /\ S!SealedOutputKept
    BY <2>1, SegOneStart, S!TypesFollow, S!OwnFollows, S!KeptFollows
  <2>3. /\ Seg!TypeOK /\ Seg!OutputIsOwn /\ Seg!StatusIsOwn /\ Seg!CheckedReadIsOwn
        /\ Seg!CommittedIsFound /\ Seg!SealedOutputKept
    BY <2>2, SameSegProperties
  <2>. QED BY <1>3, <2>3
<1>4. CASE which = "int"
  <2>1. H!IInv BY <1>4 DEF DeviceInv
  <2>2. H!NoGarbageBlessed /\ H!HealsAccounted BY <2>1, H!BlessedFollows
  <2>3. Heal!NoGarbageBlessed /\ Heal!HealsAccounted BY <2>2, SameHealProperties
  <2>. QED BY <1>4, <2>3
<1>. QED BY <1>1, <1>2, <1>3, <1>4 DEF DeviceInv

\* The states of the rotation and of the slab keep their types.
THEOREM DeviceTypes == CleanUse => (DeviceSpec => []DeviceTypeOK)
<1>. SUFFICES ASSUME CleanUse PROVE DeviceSpec => []DeviceTypeOK OBVIOUS
<1>1. DeviceInv => DeviceTypeOK BY DeviceFollows
<1>. QED BY <1>1, DeviceInvariant, PTL

\* The kernel never selects a slot that is half written, CUDA calls failing or
\* not.
THEOREM SelectedIsWhole == CleanUse => (DeviceSpec => []SelectedWhole)
<1>. SUFFICES ASSUME CleanUse PROVE DeviceSpec => []SelectedWhole OBVIOUS
<1>1. DeviceInv => SelectedWhole BY DeviceFollows
<1>. QED BY <1>1, DeviceInvariant, PTL

\* A request is computed with the whole key its client had loaded, or refused.
THEOREM OwnKeyIsWhole == CleanUse => (DeviceSpec => []OwnWholeKey)
<1>. SUFFICES ASSUME CleanUse PROVE DeviceSpec => []OwnWholeKey OBVIOUS
<1>1. DeviceInv => OwnWholeKey BY DeviceFollows
<1>. QED BY <1>1, DeviceInvariant, PTL

\* The mirror says where the stream leads and the latch is closed while
\* asynchronous copies are on their way, though CUDA calls fail.
THEOREM MirrorAlwaysLeads == CleanUse => (DeviceSpec => []MirrorLeads)
<1>. SUFFICES ASSUME CleanUse PROVE DeviceSpec => []MirrorLeads OBVIOUS
<1>1. DeviceInv => MirrorLeads BY DeviceFollows
<1>. QED BY <1>1, DeviceInvariant, PTL

\* What the poll and the checked read return is the response's own.
THEOREM ReadsStayOwn == CleanUse => (DeviceSpec => []ReadsAreOwn)
<1>. SUFFICES ASSUME CleanUse PROVE DeviceSpec => []ReadsAreOwn OBVIOUS
<1>1. DeviceInv => ReadsAreOwn BY DeviceFollows
<1>. QED BY <1>1, DeviceInvariant, PTL

\* What the kernel commits is found, and sealed outputs are kept until taken.
THEOREM OutputsStayKept == CleanUse => (DeviceSpec => []OutputsKept)
<1>. SUFFICES ASSUME CleanUse PROVE DeviceSpec => []OutputsKept OBVIOUS
<1>1. DeviceInv => OutputsKept BY DeviceFollows
<1>. QED BY <1>1, DeviceInvariant, PTL

\* No key slot keeps garbage in both copies, and the heals that the host reads
\* account for every version of a slot.
THEOREM GarbageStaysUnblessed == CleanUse => (DeviceSpec => []NoGarbageBlessed)
<1>. SUFFICES ASSUME CleanUse PROVE DeviceSpec => []NoGarbageBlessed OBVIOUS
<1>1. DeviceInv => NoGarbageBlessed BY DeviceFollows
<1>. QED BY <1>1, DeviceInvariant, PTL

\* No call writes into the slot that the epoch selects.
THEOREM SelectedStaysStable == CleanUse => (DeviceSpec => SelectedStable)
<1>. SUFFICES ASSUME CleanUse PROVE DeviceSpec => SelectedStable OBVIOUS
<1>1. DeviceInv /\ [DeviceNext]_all => [which = "rot" => ActiveSlotKept]_all
  <2>. SUFFICES ASSUME DeviceInv, DeviceNext, which = "rot" PROVE ActiveSlotKept
    OBVIOUS
  <2>1. IInv /\ Next BY DEF DeviceInv, DeviceNext
  <2>. QED BY <2>1, StepKeepsActive
<1>. QED BY <1>1, DeviceInvariant, PTL DEF DeviceSpec, SelectedStable

\* A key is given up only after two of its three parts were hit.
THEOREM TwoFaultsBeforeZero == CleanUse => (DeviceSpec => TwoFaultsToZeroize)
<1>. SUFFICES ASSUME CleanUse PROVE DeviceSpec => TwoFaultsToZeroize OBVIOUS
<1>1. DeviceInv /\ [DeviceNext]_all => [which = "int" => Heal!ZeroizedAfterTwo]_all
  <2>. SUFFICES ASSUME DeviceInv, DeviceNext, which = "int" PROVE Heal!ZeroizedAfterTwo
    OBVIOUS
  <2>1. H!IInv /\ H!Next BY SameHealNext DEF DeviceInv, DeviceNext
  <2>. QED BY <2>1, H!StepZeroizes, SameHealProperties
<1>. QED BY <1>1, DeviceInvariant, PTL DEF DeviceSpec, TwoFaultsToZeroize
=============================================================================

----------------------------- MODULE KeyIntegrity -----------------------------
(* Key slots that check, repair, zeroize and re-derive themselves: the device *)
(* code of core/persistent_engine/integrity_device.cuh and                    *)
(* self_healing_device.cuh, called by p256_engine_loop (engine_loop.cu), and  *)
(* the tuning setters of engine_host.cpp.                                     *)
(*                                                                            *)
(* A key is a value; a memory fault replaces a copy by a garbage value of its *)
(* own, so equal garbage in both copies comes only from copying.  A tag is    *)
(* the <<key, version>> it verifies.                                          *)
EXTENDS Integers, FiniteSets

CONSTANTS
  KeySlots,      \* 0 .. ENGINE_MAX_KEY_SLOTS - 1
  Modes,         \* the integrity modes the host sets
  Repairs,       \* values of integrity_max_repair_attempts
  Intervals,     \* values of integrity_scan_interval_ops
  MaxFaults,     \* bound on memory faults
  MaxOps,        \* bound on the signatures
  MaxChanges     \* bound on the tuning changes

VARIABLES
  slot,          \* [prim, mirror, tag, version, flags]
  status,        \* EngineIntegrityStatus.slots: [flags, version, heals]
  mode, repairs, interval, healing, seeded, policy, epoch,
  ops,           \* total_sign_ops
  lastScan,      \* last_scan_op_count
  out,           \* the key the last batch signed with, or Refused
  hurt,          \* history: the parts of each slot hit since it was last whole
  faults, changes

tuning == <<mode, repairs, interval, healing, seeded, policy, epoch>>
vars   == <<slot, status, tuning, ops, lastScan, out, hurt, faults, changes>>

Parts    == {"prim", "mirror", "tag"}
Key(kind, s, v) == [kind |-> kind, slot |-> s, version |-> v]
Zero          == Key("zero", 0, 0)
Refused       == Key("refused", 0, 0)
Loaded(s)     == Key("loaded", s, 0)
Derived(s, v) == Key("derived", s, v)
Bad(p)        == Key(p, 0, 0)
NoTag         == <<Refused, 0>>

Tagged(d, v) == <<d, v>>
Verifies(r, d) == r.tag = Tagged(d, r.version)

Fresh(s) == [prim |-> Loaded(s), mirror |-> Loaded(s), tag |-> Tagged(Loaded(s), 0),
             version |-> 0, flags |-> {}]

Init ==
  /\ slot = [s \in KeySlots |-> Fresh(s)]
  /\ status = [s \in KeySlots |-> [flags |-> {}, version |-> 0, heals |-> 0]]
  /\ mode \in Modes /\ repairs \in Repairs /\ interval \in Intervals
  /\ healing = FALSE /\ seeded = FALSE /\ policy = "MANUAL" /\ epoch = 0
  /\ ops = 0 /\ lastScan = 0 /\ out = Refused
  /\ hurt = [s \in KeySlots |-> {}]
  /\ faults = 0 /\ changes = 0

(* ---- check_and_repair_keyslot: the slot it leaves, and its result ------- *)
Noted(r) ==
  (IF r.prim # r.mirror THEN {"MIRROR_MISMATCH"} ELSE {})
    \union (IF ~Verifies(r, r.prim) THEN {"TAG_MISMATCH"} ELSE {})

Zeroized(r) ==
  [slot |-> [r EXCEPT !.prim = Zero, !.mirror = Zero, !.tag = NoTag,
                      !.flags = @ \union {"HARD_ZEROIZED"}],
   result |-> "ZEROIZED", noted |-> {"HARD_ZEROIZED"}]

Repaired(r, flag, result) ==
  [slot |-> [r EXCEPT !.flags = (@ \ {flag}) \union {"REPAIRED_FROM_MIRROR"}],
   result |-> result, noted |-> {"REPAIRED_FROM_MIRROR"}]

(* Mutants of StrictRepair: the primary is always believed; a mismatch is     *)
(* never repaired.                                                            *)
PrimaryWins(r) == Repaired([r EXCEPT !.mirror = r.prim, !.tag = Tagged(r.prim, r.version)],
                           "MIRROR_MISMATCH", "MIRROR_REPAIRED")
NeverRepaired(r) == Zeroized(r)

StrictRepair(r) ==
  LET byPrim   == Verifies(r, r.prim)
      byMirror == Verifies(r, r.mirror)
  IN  IF repairs = 0 THEN Zeroized(r)
      ELSE IF r.prim = r.mirror
        THEN Repaired([r EXCEPT !.tag = Tagged(r.prim, r.version)],
                      "TAG_MISMATCH", "TAG_REPAIRED")
      ELSE IF byPrim /\ ~byMirror
        THEN Repaired([r EXCEPT !.mirror = r.prim], "MIRROR_MISMATCH", "MIRROR_REPAIRED")
      ELSE IF ~byPrim /\ byMirror
        THEN Repaired([r EXCEPT !.prim = r.mirror], "MIRROR_MISMATCH", "PRIMARY_REPAIRED")
      ELSE Zeroized(r)

CheckAndRepair(r0) ==
  LET r     == [r0 EXCEPT !.flags = @ \union Noted(r0)]
      alone == [slot |-> r, result |-> "OK", noted |-> {}]
      c     == IF mode = "MONITOR"
               THEN [alone EXCEPT !.result = IF r.prim = r.mirror THEN "OK" ELSE "ZEROIZED"]
               ELSE StrictRepair(r)
  IN  IF mode = "DISABLED"   THEN [alone EXCEPT !.slot = r0, !.result = "SKIP"]
      ELSE IF Noted(r0) = {} THEN [alone EXCEPT !.slot = r0]
      ELSE [c EXCEPT !.noted = @ \union Noted(r0)]

(* Mutant of Healed: the derived key keeps the old version.                   *)
HealedInPlace(s, r) ==
  [r EXCEPT !.prim = Derived(s, r.version), !.mirror = Derived(s, r.version),
            !.tag = Tagged(Derived(s, r.version), r.version), !.flags = {"SELF_HEALED"}]

(* ---- self_heal_keyslot: the next version's derived key ----------------- *)
Healed(s, r) ==
  LET v == r.version + 1
  IN  [r EXCEPT !.prim = Derived(s, v), !.mirror = Derived(s, v),
                !.tag = Tagged(Derived(s, v), v), !.version = v,
                !.flags = {"SELF_HEALED"}]

MayHeal == seeded /\ healing /\ mode = "STRICT"

(* check_repair_or_heal_keyslot: the slot, its status and whether it is usable *)
CheckRepairOrHeal(s, r, st) ==
  LET c    == CheckAndRepair(r)
      st1  == [st EXCEPT !.flags = @ \union c.noted]
      heal == Healed(s, c.slot)
  IN  IF mode = "DISABLED" THEN [slot |-> r, status |-> st, usable |-> TRUE]
      ELSE IF c.result = "ZEROIZED" /\ MayHeal
        THEN [slot |-> heal, usable |-> TRUE,
              status |-> [flags |-> {"SELF_HEALED"}, version |-> heal.version,
                          heals |-> st.heals + 1]]
      ELSE [slot |-> c.slot, status |-> st1, usable |-> c.result # "ZEROIZED"]

IsSlotUsable(r) ==
  mode # "STRICT" \/ r.flags \intersect {"HARD_ZEROIZED", "TAG_MISMATCH"} = {}

(* engine_select_active_slot *)
ActiveSlot == IF policy = "DISABLED" THEN 0 ELSE epoch

Whole(r) == r.prim = r.mirror /\ Verifies(r, r.prim)
StillHurt(sl) == [s \in KeySlots |-> IF Whole(sl[s]) THEN {} ELSE hurt[s]]

ScanDue(n) == mode # "DISABLED" /\ interval > 0 /\ n >= lastScan + interval

(* One batch of p256_engine_loop: the check before signing (only when a flag *)
(* blocks the slot), the signatures, and the scan of every slot when due.    *)
SignBatch ==
  /\ ops < MaxOps
  /\ LET a    == ActiveSlot
         pre  == IF IsSlotUsable(slot[a])
                 THEN [slot |-> slot[a], status |-> status[a], usable |-> TRUE]
                 ELSE CheckRepairOrHeal(a, slot[a], status[a])
         sl1  == [slot EXCEPT ![a] = pre.slot]
         st1  == [status EXCEPT ![a] = pre.status]
         scan == [s \in KeySlots |-> CheckRepairOrHeal(s, sl1[s], st1[s])]
         due  == ScanDue(ops + 1)
         sl2  == IF due THEN [s \in KeySlots |-> scan[s].slot] ELSE sl1
     IN  /\ out' = IF pre.usable THEN pre.slot.prim ELSE Refused
         /\ slot' = sl2
         /\ status' = IF due THEN [s \in KeySlots |-> scan[s].status] ELSE st1
         /\ lastScan' = IF due THEN ops + 1 ELSE lastScan
         /\ hurt' = StillHurt(sl2)
  /\ ops' = ops + 1
  /\ UNCHANGED <<tuning, faults, changes>>

(* A fault in device memory: what the copies and the tag are kept against.  *)
Fault(s, p) ==
  /\ faults < MaxFaults
  /\ slot' = [slot EXCEPT ![s] = CASE p = "prim"   -> [@ EXCEPT !.prim = Bad(p)]
                                   [] p = "mirror" -> [@ EXCEPT !.mirror = Bad(p)]
                                   [] OTHER        -> [@ EXCEPT !.tag = NoTag]]
  /\ hurt' = [hurt EXCEPT ![s] = @ \union {p}]
  /\ faults' = faults + 1
  /\ UNCHANGED <<status, tuning, ops, lastScan, out, changes>>

(* ---- Host setters ------------------------------------------------------ *)
Changed == changes < MaxChanges /\ changes' = changes + 1
Others  == UNCHANGED <<slot, status, ops, lastScan, out, hurt, faults>>

SetIntegrityTuning(m, i, n) ==
  /\ Changed /\ Others
  /\ mode' = m /\ interval' = i /\ repairs' = n
  /\ UNCHANGED <<healing, seeded, policy, epoch>>

SetRootSeed ==
  /\ Changed /\ Others /\ seeded' = TRUE
  /\ UNCHANGED <<mode, repairs, interval, healing, policy, epoch>>

ClearRootSeed ==
  /\ Changed /\ Others /\ seeded' = FALSE
  /\ UNCHANGED <<mode, repairs, interval, healing, policy, epoch>>

SetSelfHealing(b) ==
  /\ Changed /\ Others /\ healing' = b
  /\ UNCHANGED <<mode, repairs, interval, seeded, policy, epoch>>

SetRotationPolicy(p) ==
  /\ Changed /\ Others /\ policy' = p
  /\ epoch' = IF p = "DISABLED" THEN 0 ELSE epoch
  /\ UNCHANGED <<mode, repairs, interval, healing, seeded>>

Next ==
  \/ SignBatch
  \/ \E s \in KeySlots, p \in Parts : Fault(s, p)
  \/ \E m \in Modes, i \in Intervals, n \in Repairs : SetIntegrityTuning(m, i, n)
  \/ SetRootSeed \/ ClearRootSeed
  \/ \E b \in BOOLEAN : SetSelfHealing(b)
  \/ \E p \in {"DISABLED", "MANUAL"} : SetRotationPolicy(p)

Spec == Init /\ [][Next]_vars

-------------------------------------------------------------------------------
(* Repair never certifies garbage: no slot ends with a corrupted value in     *)
(* both copies, let alone under a tag that verifies it.                       *)
NoGarbageBlessed ==
  \A s \in KeySlots :
    slot[s].prim = slot[s].mirror => \A p \in Parts : slot[s].prim # Bad(p)

(* A key is given up only after two faults: whatever the order of faults,     *)
(* scans, batches and tuning changes, a slot is zeroized only when two of its *)
(* three parts (copy, mirror, tag) were hit since it was last whole.          *)
ZeroizedAfterTwo ==
  (\A n \in Repairs : n > 0) =>
    \A s \in KeySlots :
      "HARD_ZEROIZED" \in slot'[s].flags \ slot[s].flags => Cardinality(hurt[s]) >= 2
TwoFaultsToZeroize == [][ZeroizedAfterTwo]_vars

(* A derived key is never used under another version's tag, and the count of  *)
(* heals the host reads accounts for every version the slot went through.     *)
HealsAccounted ==
  \A s \in KeySlots :
    /\ slot[s].version = status[s].heals
    /\ slot[s].prim.kind = "derived"
         => slot[s].prim = Derived(s, slot[s].version)

(* "In STRICT mode, if result is INTEGRITY_ZEROIZED, the slot should not be   *)
(* used for signing" (integrity_device.cuh:121).                              *)
NeverSignsZeroized == out # Zero
===============================================================================

-------------------------- MODULE KeyIntegrityProofs --------------------------
(* Why the repair of key slots is safe, for any number of slots, faults, scan *)
(* intervals and repair budgets: an inductive invariant of KeyIntegrity.  It  *)
(* bounds what each part of a slot can hold (garbage of one copy never enters *)
(* the other, nor a tag that verifies it), and it relates the parts that were *)
(* not hit since the slot was last whole (they still agree).                  *)
EXTENDS KeyIntegrity, TLAPS, FiniteSetTheorems

Flags == {"MIRROR_MISMATCH", "TAG_MISMATCH", "HARD_ZEROIZED",
          "REPAIRED_FROM_MIRROR", "SELF_HEALED"}

\* The keys that version v of slot s can hold in good order.
GoodKeys(s, v) ==
  {Zero} \union (IF v = 0 THEN {Loaded(s)} ELSE {Derived(s, v)})

SlotsOf(s, v) ==
  [prim : GoodKeys(s, v) \union {Bad("prim")},
   mirror : GoodKeys(s, v) \union {Bad("mirror")},
   tag : {NoTag} \union {Tagged(k, v) : k \in GoodKeys(s, v)},
   version : {v}, flags : SUBSET Flags]

StatusesOf(v) == [flags : SUBSET Flags, version : Nat, heals : {v}]

\* The parts that were not hit agree with one another.
Untouched(r, h) ==
  /\ "prim" \notin h /\ "mirror" \notin h => r.prim = r.mirror
  /\ "prim" \notin h /\ "tag" \notin h => Verifies(r, r.prim)
  /\ "mirror" \notin h /\ "tag" \notin h => Verifies(r, r.mirror)

NeverNoRepair == \A n \in Repairs : n > 0

\* A slot, and the status the host reads, of one version.
Sane(s, r, st) ==
  /\ st.heals \in Nat
  /\ r \in SlotsOf(s, st.heals)
  /\ st \in StatusesOf(st.heals)

\* What each slot holds.
Contents ==
  /\ slot = [s \in KeySlots |-> slot[s]] /\ status = [s \in KeySlots |-> status[s]]
  /\ \A s \in KeySlots : Sane(s, slot[s], status[s])

\* What each slot was hit by.
Hits ==
  /\ hurt = [s \in KeySlots |-> hurt[s]]
  /\ \A s \in KeySlots : hurt[s] \subseteq Parts
  /\ NeverNoRepair => \A s \in KeySlots : Untouched(slot[s], hurt[s])

IInv == repairs \in Repairs /\ Contents /\ Hits
-------------------------------------------------------------------------------
(* The repair of one slot.  *)

LEMMA KeysDiffer ==
  ASSUME NEW s, NEW v, NEW k \in GoodKeys(s, v)
  PROVE  /\ k # Bad("prim") /\ k # Bad("mirror") /\ k # Bad("tag") /\ k # Refused
         /\ k.kind = "derived" => k = Derived(s, v)
         /\ Bad("prim") # Bad("mirror") /\ Bad("prim") # Bad("tag") /\ Bad("mirror") # Bad("tag")
         /\ Bad("prim") # Refused /\ Bad("mirror") # Refused
         /\ Bad("prim").kind # "derived"
  BY DEF GoodKeys, Zero, Loaded, Derived, Bad, Refused, Key

\* A copy that a tag verifies is a key in good order, and so are equal copies.
LEMMA Certified ==
  ASSUME NEW s, NEW v, NEW r \in SlotsOf(s, v)
  PROVE  /\ r.prim = r.mirror => r.prim \in GoodKeys(s, v)
         /\ Verifies(r, r.prim) => r.prim \in GoodKeys(s, v)
         /\ Verifies(r, r.mirror) => r.mirror \in GoodKeys(s, v)
         /\ Verifies(r, r.prim) /\ Verifies(r, r.mirror) => r.prim = r.mirror
<1>1. /\ r.prim \in GoodKeys(s, v) \union {Bad("prim")}
      /\ r.mirror \in GoodKeys(s, v) \union {Bad("mirror")}
      /\ r.tag \in {NoTag} \union {Tagged(k, v) : k \in GoodKeys(s, v)}
      /\ r.version = v
  BY DEF SlotsOf
<1>2. r.prim = r.mirror => r.prim \in GoodKeys(s, v)
  BY <1>1 DEF Bad, Key
<1>3. ASSUME NEW d, r.tag = <<d, v>> PROVE d \in GoodKeys(s, v) \/ d = Refused
  BY <1>1, <1>3 DEF Tagged, NoTag
<1>4. Bad("prim") # Refused /\ Bad("mirror") # Refused BY DEF Bad, Refused, Key
<1>5. ASSUME NEW k \in GoodKeys(s, v) PROVE k # Refused BY KeysDiffer
<1>6. Verifies(r, r.prim) => r.prim \in GoodKeys(s, v)
  BY <1>1, <1>3, <1>4, <1>5 DEF Verifies, Tagged
<1>7. Verifies(r, r.mirror) => r.mirror \in GoodKeys(s, v)
  BY <1>1, <1>3, <1>4, <1>5 DEF Verifies, Tagged
<1>8. Verifies(r, r.prim) /\ Verifies(r, r.mirror) => r.prim = r.mirror
  BY DEF Verifies, Tagged
<1>. QED BY <1>2, <1>6, <1>7, <1>8

LEMMA ZeroizedSlot ==
  ASSUME NEW s, NEW v, NEW r \in SlotsOf(s, v)
  PROVE  /\ Zeroized(r).slot \in SlotsOf(s, v)
         /\ Zeroized(r).noted \subseteq Flags
         /\ Zeroized(r).result = "ZEROIZED"
  BY DEF Zeroized, SlotsOf, GoodKeys, Flags

LEMMA RepairedSlot ==
  ASSUME NEW s, NEW v, NEW r \in SlotsOf(s, v), NEW flag, NEW result
  PROVE  /\ Repaired(r, flag, result).slot \in SlotsOf(s, v)
         /\ Repaired(r, flag, result).noted \subseteq Flags
         /\ Repaired(r, flag, result).result = result
         /\ Repaired(r, flag, result).slot.prim = r.prim
         /\ Repaired(r, flag, result).slot.mirror = r.mirror
         /\ Repaired(r, flag, result).slot.tag = r.tag
         /\ Repaired(r, flag, result).slot.version = r.version
         /\ "HARD_ZEROIZED" \in Repaired(r, flag, result).slot.flags => "HARD_ZEROIZED" \in r.flags
  BY DEF Repaired, SlotsOf, Flags


\* A strict repair zeroizes the slot, or makes it whole by writing one part.
LEMMA WholeAfterRepair ==
  ASSUME NEW s, NEW v, NEW r \in SlotsOf(s, v), NEW flag, NEW result, Whole(r)
  PROVE  /\ Repaired(r, flag, result).slot \in SlotsOf(s, v)
         /\ Repaired(r, flag, result).noted \subseteq Flags
         /\ Whole(Repaired(r, flag, result).slot)
         /\ "HARD_ZEROIZED" \in Repaired(r, flag, result).slot.flags => "HARD_ZEROIZED" \in r.flags
  BY RepairedSlot DEF Whole, Verifies

LEMMA StrictCases ==
  ASSUME NEW s, NEW v, NEW r \in SlotsOf(s, v)
  PROVE  \/ /\ StrictRepair(r) = Zeroized(r)
            /\ repairs = 0 \/ (r.prim # r.mirror /\ ~Verifies(r, r.prim) /\ ~Verifies(r, r.mirror))
         \/ \E q \in SlotsOf(s, v) : \E flag, result :
              /\ Whole(q) /\ q.flags = r.flags
              /\ StrictRepair(r) = Repaired(q, flag, result)
<1>1. CASE repairs = 0 BY <1>1 DEF StrictRepair
<1>2. CASE repairs # 0 /\ r.prim = r.mirror
  <2>. DEFINE q == [r EXCEPT !.tag = Tagged(r.prim, r.version)]
  <2>1. q \in SlotsOf(s, v) BY <1>2, Certified DEF SlotsOf
  <2>2. q.flags = r.flags /\ Whole(q) BY <1>2 DEF SlotsOf, Whole, Verifies
  <2>3. StrictRepair(r) = Repaired(q, "TAG_MISMATCH", "TAG_REPAIRED")
    BY <1>2 DEF StrictRepair
  <2>. HIDE DEF q
  <2>. QED BY <2>1, <2>2, <2>3
<1>3. CASE repairs # 0 /\ r.prim # r.mirror /\ Verifies(r, r.prim) /\ ~Verifies(r, r.mirror)
  <2>. DEFINE q == [r EXCEPT !.mirror = r.prim]
  <2>1. q \in SlotsOf(s, v) BY <1>3, Certified DEF SlotsOf
  <2>2. q.flags = r.flags /\ Whole(q) BY <1>3 DEF SlotsOf, Whole, Verifies
  <2>3. StrictRepair(r) = Repaired(q, "MIRROR_MISMATCH", "MIRROR_REPAIRED")
    BY <1>3 DEF StrictRepair
  <2>. HIDE DEF q
  <2>. QED BY <2>1, <2>2, <2>3
<1>4. CASE repairs # 0 /\ r.prim # r.mirror /\ ~Verifies(r, r.prim) /\ Verifies(r, r.mirror)
  <2>. DEFINE q == [r EXCEPT !.prim = r.mirror]
  <2>1. q \in SlotsOf(s, v) BY <1>4, Certified DEF SlotsOf
  <2>2. q.flags = r.flags /\ Whole(q) BY <1>4 DEF SlotsOf, Whole, Verifies
  <2>3. StrictRepair(r) = Repaired(q, "MIRROR_MISMATCH", "PRIMARY_REPAIRED")
    BY <1>4 DEF StrictRepair
  <2>. HIDE DEF q
  <2>. QED BY <2>1, <2>2, <2>3
<1>5. CASE /\ repairs # 0 /\ r.prim # r.mirror
           /\ Verifies(r, r.prim) <=> Verifies(r, r.mirror)
  BY <1>5, Certified DEF StrictRepair
<1>. QED BY <1>1, <1>2, <1>3, <1>4, <1>5

LEMMA StrictSlot ==
  ASSUME NEW s, NEW v, NEW r \in SlotsOf(s, v)
  PROVE  /\ StrictRepair(r).slot \in SlotsOf(s, v)
         /\ StrictRepair(r).noted \subseteq Flags
<1>1. CASE StrictRepair(r) = Zeroized(r) BY <1>1, ZeroizedSlot
<1>2. CASE \E q \in SlotsOf(s, v) : \E flag, result :
             Whole(q) /\ StrictRepair(r) = Repaired(q, flag, result)
  BY <1>2, WholeAfterRepair
<1>. QED BY <1>1, <1>2, StrictCases

TwoHit(h) == \E p, q \in h : p # q

\* What a repair does is accounted for by the parts that were hit.
Accounts(r, q, h) ==
  Untouched(r, h) =>
    /\ Untouched(q, h)
    /\ "HARD_ZEROIZED" \in q.flags \ r.flags => TwoHit(h)

\* A slot that is whole agrees with itself, whatever was hit.
LEMMA WholeUntouched ==
  ASSUME NEW r, NEW h, Whole(r)
  PROVE  Untouched(r, h)
  BY DEF Whole, Untouched

LEMMA StrictAccounts ==
  ASSUME NEW s, NEW v, NEW r \in SlotsOf(s, v), NEW h, repairs # 0
  PROVE  Accounts(r, StrictRepair(r).slot, h)
<1>1. CASE r.prim # r.mirror /\ ~Verifies(r, r.prim) /\ ~Verifies(r, r.mirror)
  <2>. SUFFICES ASSUME Untouched(r, h) PROVE TwoHit(h) /\ Untouched(StrictRepair(r).slot, h)
    BY DEF Accounts
  <2>1. /\ "prim" \in h \/ "mirror" \in h
        /\ "prim" \in h \/ "tag" \in h
        /\ "mirror" \in h \/ "tag" \in h
    BY <1>1 DEF Untouched
  <2>. QED BY <2>1 DEF TwoHit, Untouched
<1>2. CASE \E q \in SlotsOf(s, v) : \E flag, result :
             Whole(q) /\ q.flags = r.flags /\ StrictRepair(r) = Repaired(q, flag, result)
  <2>1. Whole(StrictRepair(r).slot) BY <1>2, WholeAfterRepair
  <2>2. "HARD_ZEROIZED" \in StrictRepair(r).slot.flags => "HARD_ZEROIZED" \in r.flags
    BY <1>2, WholeAfterRepair
  <2>. QED BY <2>1, <2>2, WholeUntouched DEF Accounts
<1>. QED BY <1>1, <1>2, StrictCases

-------------------------------------------------------------------------------
(* check_and_repair_keyslot and check_repair_or_heal_keyslot.                 *)

LEMMA NotedSlot ==
  ASSUME NEW s, NEW v, NEW r \in SlotsOf(s, v)
  PROVE  /\ Noted(r) \subseteq Flags \ {"HARD_ZEROIZED"}
         /\ [r EXCEPT !.flags = @ \union Noted(r)] \in SlotsOf(s, v)
<1>1. Noted(r) \subseteq Flags \ {"HARD_ZEROIZED"} BY DEF Noted, Flags
<1>. HIDE DEF Flags
<1>. QED BY <1>1 DEF SlotsOf

LEMMA CheckSlot ==
  ASSUME NEW s, NEW v, NEW r \in SlotsOf(s, v)
  PROVE  /\ CheckAndRepair(r).slot \in SlotsOf(s, v)
         /\ CheckAndRepair(r).noted \subseteq Flags
<1>. DEFINE r1    == [r EXCEPT !.flags = @ \union Noted(r)]
            alone == [slot |-> r1, result |-> "OK", noted |-> {}]
            c     == IF mode = "MONITOR"
                     THEN [alone EXCEPT !.result = IF r1.prim = r1.mirror THEN "OK" ELSE "ZEROIZED"]
                     ELSE StrictRepair(r1)
<1>1. r1 \in SlotsOf(s, v) /\ Noted(r) \subseteq Flags BY NotedSlot
<1>2. StrictRepair(r1).slot \in SlotsOf(s, v) /\ StrictRepair(r1).noted \subseteq Flags
  BY <1>1, StrictSlot
<1>3. CASE mode = "DISABLED" \/ Noted(r) = {}
  BY <1>1, <1>3 DEF CheckAndRepair
<1>4. CASE mode # "DISABLED" /\ Noted(r) # {} /\ mode = "MONITOR"
  <2>1. CheckAndRepair(r).slot = r1 /\ CheckAndRepair(r).noted = Noted(r)
    BY <1>4 DEF CheckAndRepair
  <2>. QED BY <1>1, <2>1
<1>5. CASE mode # "DISABLED" /\ Noted(r) # {} /\ mode # "MONITOR"
  <2>1. CheckAndRepair(r) = [StrictRepair(r1) EXCEPT !.noted = @ \union Noted(r)]
    BY <1>5 DEF CheckAndRepair
  <2>2. "slot" \in DOMAIN StrictRepair(r1) /\ "noted" \in DOMAIN StrictRepair(r1)
    BY DEF StrictRepair, Repaired, Zeroized
  <2>3. /\ CheckAndRepair(r).slot = StrictRepair(r1).slot
        /\ CheckAndRepair(r).noted = StrictRepair(r1).noted \union Noted(r)
    BY <2>1, <2>2
  <2>. QED BY <1>1, <1>2, <2>3
<1>. QED BY <1>3, <1>4, <1>5


LEMMA CheckAccounts ==
  ASSUME NEW s, NEW v, NEW r \in SlotsOf(s, v), NEW h, repairs # 0
  PROVE  Accounts(r, CheckAndRepair(r).slot, h)
<1>. DEFINE r1 == [r EXCEPT !.flags = @ \union Noted(r)]
<1>1. r1 \in SlotsOf(s, v) /\ "HARD_ZEROIZED" \notin Noted(r) BY NotedSlot
<1>2. /\ r1.prim = r.prim /\ r1.mirror = r.mirror /\ r1.tag = r.tag
      /\ r1.version = r.version /\ r1.flags = r.flags \union Noted(r)
  BY DEF SlotsOf
<1>3. /\ Untouched(r1, h) <=> Untouched(r, h)
      /\ "HARD_ZEROIZED" \in r1.flags <=> "HARD_ZEROIZED" \in r.flags
  BY <1>1, <1>2 DEF Untouched, Verifies
<1>4. Accounts(r, r1, h) BY <1>3 DEF Accounts
<1>5. Accounts(r, r, h) BY DEF Accounts
<1>6. CASE mode = "DISABLED" \/ Noted(r) = {} \/ mode = "MONITOR"
  <2>1. CheckAndRepair(r).slot = r \/ CheckAndRepair(r).slot = r1
    BY <1>6 DEF CheckAndRepair
  <2>. HIDE DEF r1
  <2>. QED BY <1>4, <1>5, <2>1
<1>7. CASE mode # "DISABLED" /\ Noted(r) # {} /\ mode # "MONITOR"
  <2>1. CheckAndRepair(r) = [StrictRepair(r1) EXCEPT !.noted = @ \union Noted(r)]
    BY <1>7 DEF CheckAndRepair
  <2>2. CheckAndRepair(r).slot = StrictRepair(r1).slot BY <2>1
  <2>. HIDE DEF r1
  <2>3. Accounts(r1, StrictRepair(r1).slot, h) BY <1>1, StrictAccounts
  <2>. QED BY <1>3, <2>2, <2>3 DEF Accounts
<1>. QED BY <1>6, <1>7

LEMMA HealedSlot ==
  ASSUME NEW s, NEW v \in Nat, NEW r \in SlotsOf(s, v)
  PROVE  /\ Healed(s, r) \in SlotsOf(s, v + 1)
         /\ Whole(Healed(s, r))
         /\ "HARD_ZEROIZED" \notin Healed(s, r).flags
         /\ Healed(s, r).version = v + 1
<1>1. r.version = v /\ v + 1 # 0 BY DEF SlotsOf
<1>2. Derived(s, v + 1) \in GoodKeys(s, v + 1) BY <1>1 DEF GoodKeys
<1>3. /\ Healed(s, r).prim = Derived(s, v + 1)
      /\ Healed(s, r).mirror = Derived(s, v + 1)
      /\ Healed(s, r).tag = Tagged(Derived(s, v + 1), v + 1)
      /\ Healed(s, r).version = v + 1
      /\ Healed(s, r).flags = {"SELF_HEALED"}
  BY <1>1 DEF Healed, SlotsOf
<1>4. Healed(s, r) \in SlotsOf(s, v + 1)
  <2>. DEFINE k == Derived(s, v + 1)
              t == Tagged(k, v + 1)
  <2>1. r \in [prim : {r.prim}, mirror : {r.mirror}, tag : {r.tag}, version : {v},
               flags : {r.flags}]
    BY <1>1 DEF SlotsOf
  <2>2. k \in GoodKeys(s, v + 1) /\ t \in {Tagged(g, v + 1) : g \in GoodKeys(s, v + 1)}
    BY <1>2
  <2>3. Healed(s, r) = [r EXCEPT !.prim = k, !.mirror = k, !.tag = t, !.version = v + 1,
                                 !.flags = {"SELF_HEALED"}]
    BY <1>1 DEF Healed
  <2>. HIDE DEF k, t
  <2>4. Healed(s, r) \in [prim : {k}, mirror : {k}, tag : {t}, version : {v + 1},
                          flags : {{"SELF_HEALED"}}]
    BY <2>1, <2>3
  <2>5. {"SELF_HEALED"} \in SUBSET Flags BY DEF Flags
  <2>. QED BY <2>2, <2>4, <2>5 DEF SlotsOf
<1>. QED BY <1>3, <1>4 DEF Whole, Verifies

LEMMA HealOrCheck ==
  ASSUME NEW s, NEW r, NEW st, Sane(s, r, st)
  PROVE  LET c == CheckRepairOrHeal(s, r, st)
         IN  /\ Sane(s, c.slot, c.status)
             /\ \A h : repairs # 0 => Accounts(r, c.slot, h)
<1>. DEFINE c == CheckRepairOrHeal(s, r, st)
            k == CheckAndRepair(r)
            v == st.heals
<1>0. v \in Nat /\ r \in SlotsOf(s, v) /\ st \in StatusesOf(v) BY DEF Sane
<1>1. k.slot \in SlotsOf(s, v) /\ k.noted \subseteq Flags BY <1>0, CheckSlot
<1>2. \A h : repairs # 0 => Accounts(r, k.slot, h) BY <1>0, CheckAccounts
<1>. HIDE DEF k
<1>3. CASE mode = "DISABLED"
  <2>1. c.slot = r /\ c.status = st BY <1>3 DEF CheckRepairOrHeal
  <2>. QED BY <2>1 DEF Accounts
<1>4. CASE mode # "DISABLED" /\ k.result = "ZEROIZED" /\ MayHeal
  <2>. DEFINE d == Healed(s, k.slot)
  <2>1. /\ c.slot = d
        /\ c.status = [flags |-> {"SELF_HEALED"}, version |-> d.version, heals |-> v + 1]
    BY <1>4 DEF CheckRepairOrHeal, k
  <2>2. /\ d \in SlotsOf(s, v + 1) /\ Whole(d) /\ "HARD_ZEROIZED" \notin d.flags
        /\ d.version = v + 1
    BY <1>0, <1>1, HealedSlot
  <2>. HIDE DEF d
  <2>3. v + 1 \in Nat BY <1>0
  <2>4. c.status \in StatusesOf(v + 1) BY <2>1, <2>2, <2>3 DEF StatusesOf, Flags
  <2>5. c.status.heals = v + 1 BY <2>1
  <2>6. Sane(s, c.slot, c.status) BY <2>1, <2>2, <2>3, <2>4, <2>5 DEF Sane
  <2>7. \A h : Accounts(r, c.slot, h) BY <2>1, <2>2, WholeUntouched DEF Accounts
  <2>. QED BY <2>6, <2>7
<1>5. CASE mode # "DISABLED" /\ ~(k.result = "ZEROIZED" /\ MayHeal)
  <2>1. c.slot = k.slot /\ c.status = [st EXCEPT !.flags = @ \union k.noted]
    BY <1>5 DEF CheckRepairOrHeal, k
  <2>2. c.status \in StatusesOf(v) /\ c.status.heals = v
    BY <1>0, <1>1, <2>1 DEF StatusesOf
  <2>3. Sane(s, c.slot, c.status) BY <1>0, <1>1, <2>1, <2>2 DEF Sane
  <2>. QED BY <1>2, <2>1, <2>3
<1>. QED BY <1>3, <1>4, <1>5


LEMMA AccountsCompose ==
  ASSUME NEW r, NEW q, NEW p, NEW h, Accounts(r, q, h), Accounts(q, p, h)
  PROVE  Accounts(r, p, h)
  BY DEF Accounts

-------------------------------------------------------------------------------
(* Every action keeps the invariant. *)

LEMMA InitInv == Init => IInv
<1>. SUFFICES ASSUME Init PROVE IInv OBVIOUS
<1>. USE DEF Init
<1>1. repairs \in Repairs OBVIOUS
<1>2. ASSUME NEW s \in KeySlots PROVE Sane(s, slot[s], status[s])
  <2>1. slot[s] = Fresh(s) /\ status[s] = [flags |-> {}, version |-> 0, heals |-> 0]
    OBVIOUS
  <2>2. Loaded(s) \in GoodKeys(s, 0) BY DEF GoodKeys
  <2>3. Fresh(s) \in SlotsOf(s, 0) BY <2>2 DEF Fresh, SlotsOf
  <2>4. status[s] \in StatusesOf(0) BY <2>1 DEF StatusesOf
  <2>. QED BY <2>1, <2>3, <2>4 DEF Sane
<1>3. ASSUME NEW s \in KeySlots PROVE Untouched(slot[s], hurt[s])
  <2>1. Whole(slot[s]) BY DEF Fresh, Whole, Verifies
  <2>. QED BY <2>1, WholeUntouched
<1>4. Contents BY <1>2 DEF Contents
<1>5. Hits BY <1>3 DEF Hits
<1>. QED BY <1>1, <1>4, <1>5 DEF IInv

\* What a batch leaves in every slot: the check of the active slot, then the
\* scan of all, each accounted for.
LEMMA BatchAccounts ==
  ASSUME IInv, SignBatch
  PROVE  /\ slot' = [s \in KeySlots |-> slot'[s]]
         /\ status' = [s \in KeySlots |-> status'[s]]
         /\ \A s \in KeySlots :
              /\ Sane(s, slot'[s], status'[s])
              /\ hurt'[s] = IF Whole(slot'[s]) THEN {} ELSE hurt[s]
              /\ \A h : repairs # 0 => Accounts(slot[s], slot'[s], h)
<1>. DEFINE a    == ActiveSlot
            pre  == IF IsSlotUsable(slot[a])
                    THEN [slot |-> slot[a], status |-> status[a], usable |-> TRUE]
                    ELSE CheckRepairOrHeal(a, slot[a], status[a])
            sl1  == [slot EXCEPT ![a] = pre.slot]
            st1  == [status EXCEPT ![a] = pre.status]
            scan == [s \in KeySlots |-> CheckRepairOrHeal(s, sl1[s], st1[s])]
            due  == ScanDue(ops + 1)
            sl2  == IF due THEN [s \in KeySlots |-> scan[s].slot] ELSE sl1
<1>1. /\ slot' = sl2
      /\ status' = IF due THEN [s \in KeySlots |-> scan[s].status] ELSE st1
      /\ hurt' = StillHurt(sl2)
  BY DEF SignBatch
<1>2. /\ slot = [s \in KeySlots |-> slot[s]] /\ status = [s \in KeySlots |-> status[s]]
      /\ \A s \in KeySlots : Sane(s, slot[s], status[s])
  BY DEF IInv, Contents
<1>3. ASSUME a \in KeySlots
      PROVE  /\ Sane(a, pre.slot, pre.status)
             /\ \A h : repairs # 0 => Accounts(slot[a], pre.slot, h)
  <2>1. CASE IsSlotUsable(slot[a])
    <3>1. pre.slot = slot[a] /\ pre.status = status[a] BY <2>1
    <3>2. \A h : Accounts(slot[a], slot[a], h) BY DEF Accounts
    <3>. QED BY <1>2, <1>3, <3>1, <3>2
  <2>2. CASE ~IsSlotUsable(slot[a])
    <3>1. pre = CheckRepairOrHeal(a, slot[a], status[a]) BY <2>2
    <3>. HIDE DEF pre
    <3>. QED BY <1>2, <1>3, <3>1, HealOrCheck
  <2>. QED BY <2>1, <2>2
<1>. HIDE DEF pre, a
<1>4. ASSUME NEW s \in KeySlots
      PROVE  /\ Sane(s, sl1[s], st1[s])
             /\ \A h : repairs # 0 => Accounts(slot[s], sl1[s], h)
  <2>1. CASE s = a
    <3>1. sl1[s] = pre.slot /\ st1[s] = pre.status BY <1>2, <2>1
    <3>. QED BY <1>3, <2>1, <3>1
  <2>2. CASE s # a
    <3>1. sl1[s] = slot[s] /\ st1[s] = status[s] BY <1>2, <2>2
    <3>2. \A h : Accounts(slot[s], slot[s], h) BY DEF Accounts
    <3>. QED BY <1>2, <3>1, <3>2
  <2>. QED BY <2>1, <2>2
<1>5. sl1 = [s \in KeySlots |-> sl1[s]] /\ st1 = [s \in KeySlots |-> st1[s]] BY <1>2
<1>. HIDE DEF sl1, st1
<1>6. ASSUME NEW s \in KeySlots
      PROVE  /\ Sane(s, scan[s].slot, scan[s].status)
             /\ \A h : repairs # 0 => Accounts(slot[s], scan[s].slot, h)
  <2>1. scan[s] = CheckRepairOrHeal(s, sl1[s], st1[s]) OBVIOUS
  <2>. HIDE DEF scan
  <2>2. /\ Sane(s, scan[s].slot, scan[s].status)
        /\ \A h : repairs # 0 => Accounts(sl1[s], scan[s].slot, h)
    BY <1>4, <2>1, HealOrCheck
  <2>. QED BY <1>4, <2>2, AccountsCompose
<1>. HIDE DEF scan, due
<1>7. /\ slot' = [s \in KeySlots |-> slot'[s]]
      /\ status' = [s \in KeySlots |-> status'[s]]
  BY <1>1, <1>5
<1>8. ASSUME NEW s \in KeySlots
      PROVE  /\ Sane(s, slot'[s], status'[s])
             /\ hurt'[s] = IF Whole(slot'[s]) THEN {} ELSE hurt[s]
             /\ \A h : repairs # 0 => Accounts(slot[s], slot'[s], h)
  <2>1. hurt'[s] = IF Whole(slot'[s]) THEN {} ELSE hurt[s] BY <1>1 DEF StillHurt
  <2>2. CASE due
    <3>1. slot'[s] = scan[s].slot /\ status'[s] = scan[s].status BY <1>1, <2>2
    <3>. QED BY <1>6, <2>1, <3>1
  <2>3. CASE ~due
    <3>1. slot'[s] = sl1[s] /\ status'[s] = st1[s] BY <1>1, <2>3
    <3>. QED BY <1>4, <2>1, <3>1
  <2>. QED BY <2>2, <2>3
<1>. QED BY <1>7, <1>8

LEMMA SignBatchInv ==
  ASSUME IInv, SignBatch
  PROVE  IInv'
<1>1. repairs' \in Repairs /\ repairs' = repairs BY DEF IInv, SignBatch, tuning
<1>2. Contents' BY BatchAccounts DEF Contents
<1>3. hurt' = [s \in KeySlots |-> hurt'[s]] BY DEF SignBatch, StillHurt
<1>4. \A s \in KeySlots : hurt'[s] \subseteq Parts BY BatchAccounts DEF IInv, Hits
<1>5. ASSUME NeverNoRepair, NEW s \in KeySlots PROVE Untouched(slot'[s], hurt'[s])
  <2>1. CASE Whole(slot'[s]) BY <2>1, WholeUntouched
  <2>2. CASE ~Whole(slot'[s])
    <3>1. repairs # 0 BY <1>5 DEF IInv, NeverNoRepair
    <3>2. Untouched(slot[s], hurt[s]) BY <1>5 DEF IInv, Hits
    <3>3. hurt'[s] = hurt[s] /\ Accounts(slot[s], slot'[s], hurt[s])
      BY <2>2, <3>1, BatchAccounts
    <3>. QED BY <3>2, <3>3 DEF Accounts
  <2>. QED BY <2>1, <2>2
<1>6. Hits' BY <1>3, <1>4, <1>5 DEF Hits, NeverNoRepair
<1>. QED BY <1>1, <1>2, <1>6 DEF IInv


LEMMA FaultInv ==
  ASSUME IInv, NEW s \in KeySlots, NEW p \in Parts, Fault(s, p)
  PROVE  IInv'
<1>. DEFINE r == slot[s]
            v == status[s].heals
            q == CASE p = "prim"   -> [r EXCEPT !.prim = Bad(p)]
                   [] p = "mirror" -> [r EXCEPT !.mirror = Bad(p)]
                   [] OTHER        -> [r EXCEPT !.tag = NoTag]
<1>1. /\ slot = [t \in KeySlots |-> slot[t]] /\ hurt = [t \in KeySlots |-> hurt[t]]
      /\ \A t \in KeySlots : Sane(t, slot[t], status[t]) /\ hurt[t] \subseteq Parts
  BY DEF IInv, Contents, Hits
<1>2. slot' = [slot EXCEPT ![s] = q] /\ hurt' = [hurt EXCEPT ![s] = @ \union {p}]
      /\ status' = status /\ repairs' = repairs
  BY DEF Fault, tuning
<1>3. r \in SlotsOf(s, v) BY <1>1 DEF Sane
<1>4. q \in SlotsOf(s, v)
  <2>1. CASE p = "prim" BY <1>3, <2>1 DEF SlotsOf
  <2>2. CASE p = "mirror" BY <1>3, <2>2 DEF SlotsOf
  <2>3. CASE p = "tag" BY <1>3, <2>3 DEF SlotsOf
  <2>. QED BY <2>1, <2>2, <2>3 DEF Parts
<1>5. /\ p # "prim" => q.prim = r.prim
      /\ p # "mirror" => q.mirror = r.mirror
      /\ p # "tag" => q.tag = r.tag
      /\ q.version = r.version
  <2>1. CASE p = "prim" BY <1>3, <2>1 DEF SlotsOf
  <2>2. CASE p = "mirror" BY <1>3, <2>2 DEF SlotsOf
  <2>3. CASE p = "tag" BY <1>3, <2>3 DEF SlotsOf
  <2>. QED BY <2>1, <2>2, <2>3 DEF Parts
<1>6. Untouched(r, hurt[s]) => Untouched(q, hurt[s] \union {p})
  BY <1>5 DEF Untouched, Verifies
<1>. HIDE DEF q
<1>7. /\ slot'[s] = q /\ hurt'[s] = hurt[s] \union {p}
      /\ \A t \in KeySlots \ {s} : slot'[t] = slot[t] /\ hurt'[t] = hurt[t]
  BY <1>1, <1>2
<1>8. \A t \in KeySlots : Sane(t, slot'[t], status'[t])
  BY <1>1, <1>2, <1>4, <1>7 DEF Sane
<1>9. slot' = [t \in KeySlots |-> slot'[t]] /\ hurt' = [t \in KeySlots |-> hurt'[t]]
  BY <1>1, <1>2
<1>10. Contents' BY <1>2, <1>8, <1>9 DEF IInv, Contents
<1>11. \A t \in KeySlots : hurt'[t] \subseteq Parts BY <1>1, <1>7
<1>12. NeverNoRepair => \A t \in KeySlots : Untouched(slot'[t], hurt'[t])
  BY <1>6, <1>7 DEF IInv, Hits
<1>13. Hits' BY <1>9, <1>11, <1>12 DEF Hits, NeverNoRepair
<1>. QED BY <1>2, <1>10, <1>13 DEF IInv

LEMMA SetterInv ==
  ASSUME IInv, UNCHANGED <<slot, status, hurt>>, repairs' \in Repairs
  PROVE  IInv'
<1>1. Contents' BY DEF IInv, Contents
<1>2. Hits' BY DEF IInv, Hits, NeverNoRepair, Untouched, Verifies
<1>. QED BY <1>1, <1>2 DEF IInv

LEMMA NextInv ==
  ASSUME IInv, [Next]_vars
  PROVE  IInv'
<1>1. CASE SignBatch BY <1>1, SignBatchInv
<1>2. ASSUME NEW s \in KeySlots, NEW p \in Parts, Fault(s, p) PROVE IInv' BY <1>2, FaultInv
<1>3. ASSUME NEW m \in Modes, NEW i \in Intervals, NEW n \in Repairs, SetIntegrityTuning(m, i, n)
      PROVE  IInv'
  BY <1>3, SetterInv DEF SetIntegrityTuning, Others
<1>4. CASE SetRootSeed BY <1>4, SetterInv DEF SetRootSeed, Others, IInv
<1>5. CASE ClearRootSeed BY <1>5, SetterInv DEF ClearRootSeed, Others, IInv
<1>6. ASSUME NEW b \in BOOLEAN, SetSelfHealing(b) PROVE IInv'
  BY <1>6, SetterInv DEF SetSelfHealing, Others, IInv
<1>7. ASSUME NEW p \in {"DISABLED", "MANUAL"}, SetRotationPolicy(p) PROVE IInv'
  BY <1>7, SetterInv DEF SetRotationPolicy, Others, IInv
<1>8. CASE UNCHANGED vars BY <1>8, SetterInv DEF vars, tuning, IInv
<1>. QED BY <1>1, <1>2, <1>3, <1>4, <1>5, <1>6, <1>7, <1>8 DEF Next

\* What the slots hold and what hit them, in every reachable state.
THEOREM IntegrityInvariant == Spec => []IInv
<1>1. Init => IInv BY InitInv
<1>2. IInv /\ [Next]_vars => IInv' BY NextInv
<1>. QED BY <1>1, <1>2, PTL DEF Spec

-------------------------------------------------------------------------------
LEMMA BlessedFollows ==
  ASSUME IInv
  PROVE  NoGarbageBlessed /\ HealsAccounted
<1>. SUFFICES ASSUME NEW s \in KeySlots
              PROVE  /\ slot[s].prim = slot[s].mirror => \A p \in Parts : slot[s].prim # Bad(p)
                     /\ slot[s].version = status[s].heals
                     /\ slot[s].prim.kind = "derived"
                          => slot[s].prim = Derived(s, slot[s].version)
  BY DEF NoGarbageBlessed, HealsAccounted
<1>. DEFINE v == status[s].heals
<1>1. slot[s] \in SlotsOf(s, v) BY DEF IInv, Contents, Sane
<1>2. slot[s].version = v /\ slot[s].prim \in GoodKeys(s, v) \union {Bad("prim")}
  BY <1>1 DEF SlotsOf
<1>3. slot[s].prim = slot[s].mirror => slot[s].prim \in GoodKeys(s, v) BY <1>1, Certified
<1>4. \A k \in GoodKeys(s, v) :
        /\ k # Bad("prim") /\ k # Bad("mirror") /\ k # Bad("tag")
        /\ k.kind = "derived" => k = Derived(s, v)
  BY KeysDiffer
<1>5. Bad("prim").kind # "derived" BY DEF Bad, Key
<1>. QED BY <1>2, <1>3, <1>4, <1>5 DEF Parts

\* Repair never certifies garbage: no slot ends with a corrupted value in both
\* copies (check_and_repair_keyslot), for any number of faults.
THEOREM GarbageNeverBlessed == Spec => []NoGarbageBlessed
<1>1. IInv => NoGarbageBlessed BY BlessedFollows
<1>. QED BY <1>1, IntegrityInvariant, PTL

\* The heals the host reads account for every version of a slot, and a derived
\* key is never kept under another version's number (self_heal_keyslot).
THEOREM HealsAlwaysAccounted == Spec => []HealsAccounted
<1>1. IInv => HealsAccounted BY BlessedFollows
<1>. QED BY <1>1, IntegrityInvariant, PTL

LEMMA TwoHitIsTwo ==
  ASSUME NEW h, h \subseteq Parts, TwoHit(h)
  PROVE  Cardinality(h) >= 2
<1>1. PICK p \in h, q \in h : p # q BY DEF TwoHit
<1>2. IsFiniteSet(Parts) /\ IsFiniteSet(h)
  <2>1. IsFiniteSet({}) BY FS_EmptySet
  <2>2. IsFiniteSet({"prim"}) BY FS_Singleton
  <2>3. IsFiniteSet({"prim", "mirror"}) BY <2>2, FS_AddElement
  <2>4. IsFiniteSet(Parts) BY <2>3, FS_AddElement DEF Parts
  <2>. QED BY <2>4, FS_Subset
<1>3. IsFiniteSet({p}) /\ Cardinality({p}) = 1 BY FS_Singleton
<1>4. IsFiniteSet({p} \union {q}) /\ Cardinality({p} \union {q}) = 2
  BY <1>1, <1>3, FS_AddElement, SMTT(60)
<1>5. {p} \union {q} \subseteq h OBVIOUS
<1>. QED BY <1>2, <1>4, <1>5, FS_Subset, FS_CardinalityType

LEMMA StepZeroizes ==
  ASSUME IInv, [Next]_vars
  PROVE  ZeroizedAfterTwo
<1>. SUFFICES ASSUME NeverNoRepair, NEW s \in KeySlots,
                     "HARD_ZEROIZED" \in slot'[s].flags \ slot[s].flags
              PROVE  Cardinality(hurt[s]) >= 2
  BY DEF ZeroizedAfterTwo, NeverNoRepair
<1>1. CASE SignBatch
  <2>1. repairs # 0 BY DEF IInv, NeverNoRepair
  <2>2. Accounts(slot[s], slot'[s], hurt[s]) BY <1>1, <2>1, BatchAccounts
  <2>3. Untouched(slot[s], hurt[s]) /\ hurt[s] \subseteq Parts BY DEF IInv, Hits
  <2>. QED BY <2>2, <2>3, TwoHitIsTwo DEF Accounts
<1>2. ASSUME NEW t \in KeySlots, NEW p \in Parts, Fault(t, p) PROVE FALSE
  <2>1. slot'[s].flags = slot[s].flags
    <3>1. slot = [u \in KeySlots |-> slot[u]] /\ slot[t] \in SlotsOf(t, status[t].heals)
      BY DEF IInv, Contents, Sane
    <3>2. t # s => slot'[s] = slot[s] BY <1>2, <3>1 DEF Fault
    <3>. DEFINE q == CASE p = "prim"   -> [slot[t] EXCEPT !.prim = Bad(p)]
                       [] p = "mirror" -> [slot[t] EXCEPT !.mirror = Bad(p)]
                       [] OTHER        -> [slot[t] EXCEPT !.tag = NoTag]
    <3>3. q.flags = slot[t].flags
      <4>1. CASE p = "prim" BY <3>1, <4>1 DEF SlotsOf
      <4>2. CASE p = "mirror" BY <3>1, <4>2 DEF SlotsOf
      <4>3. CASE p = "tag" BY <3>1, <4>3 DEF SlotsOf
      <4>. QED BY <4>1, <4>2, <4>3 DEF Parts
    <3>4. slot' = [slot EXCEPT ![t] = q] BY <1>2 DEF Fault
    <3>. HIDE DEF q
    <3>. QED BY <3>1, <3>2, <3>3, <3>4
  <2>. QED BY <2>1
<1>3. CASE slot' = slot BY <1>3
<1>4. SignBatch \/ (\E t \in KeySlots, p \in Parts : Fault(t, p)) \/ slot' = slot
  BY DEF Next, vars, Others, SetIntegrityTuning, SetRootSeed, ClearRootSeed,
         SetSelfHealing, SetRotationPolicy
<1>. QED BY <1>1, <1>2, <1>3, <1>4

\* A key is given up only after two of its three parts were hit since it was
\* last whole, when every repair budget is positive.
THEOREM ZeroizedOnlyAfterTwo == Spec => TwoFaultsToZeroize
<1>1. IInv /\ [Next]_vars => [ZeroizedAfterTwo]_vars BY StepZeroizes
<1>. QED BY <1>1, IntegrityInvariant, PTL DEF Spec, TwoFaultsToZeroize
===============================================================================

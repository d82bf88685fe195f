---------------------------- MODULE KeyRotationInv ----------------------------
(***************************************************************************)
(* Why key rotation is safe: an inductive invariant of KeyRotation for one *)
(* thread of calls and clients that submit through the guarded interface.  *)
(* Most of it is about the path the device will take through the copies    *)
(* that are enqueued: a property of every state on that path is kept when  *)
(* the first copy is applied, and appending a copy adds one state.         *)
(***************************************************************************)
EXTENDS KeyRotation

CleanUse ==
  /\ \E t : Threads = {t}
  /\ Surfaces \subseteq {"generic"}
  /\ MayFail => Ops \cap {"load", "rotate", "prepare_async"} = {}

\* The one call in progress.
Cur == call[CHOOSE t \in Threads : TRUE]

\* The device after the first k of the copies enqueued.
At(k) == Path(dev, stream)[k]

FieldNames == {"type", "key", "mirror", "rk", "ver", "epoch", "tag"}
Copies ==
  [slot : Slots, f : {"probe"}, v : Keys \ {0}, by : Threads, async : BOOLEAN]
    \cup [slot : Slots, f : {"active"}, v : Slots, by : Threads, async : BOOLEAN]
    \cup [slot : Slots, f : {"all"}, v : {EmptySlot}, by : Threads, async : BOOLEAN]
    \cup [slot : Slots, f : {"type"}, v : {"P256", "AES"}, by : Threads, async : BOOLEAN]
    \cup [slot : Slots, f : {"key", "mirror", "rk", "ver", "epoch"}, v : Keys,
          by : Threads, async : BOOLEAN]
    \cup [slot : Slots, f : {"tag"}, v : Keys \X Keys, by : Threads, async : BOOLEAN]
Calls ==
  [op : AllOps \cup {"none"}, at : 0 .. 5, slot : Slots, type : {"P256", "AES"},
   key : Keys, ver : Keys, n : 0 .. 7, left : Nat]
Knowledge == [type : {"EMPTY", "P256", "AES", "UNSURE"}, key : Keys]
Submitted == [st : {"none", "queued", "valid", "done"}, slot : Slots,
              alg : {"p256", "aes", "chacha"}, want : Keys, used : Keys]

Typed ==
  /\ dev \in States /\ mir \in States
  /\ inner \in BOOLEAN /\ outer \in BOOLEAN /\ calls \in 1 .. MaxCalls
  /\ stream \in Seq(Copies)
  /\ call \in [Threads -> Calls] /\ known \in [Slots -> Knowledge] /\ req \in Submitted

\* Where the copy step and the mirror step of a call are.
CopyAt ==
  [load |-> 1, prepare |-> 3, prepare_typed |-> 1, prepare_typed_async |-> 2,
   prepare_async |-> 1, commit |-> 1, commit_async |-> 1, rollback |-> 1, rotate |-> 1,
   fence |-> 5, recover |-> 5]
MirrorAt ==
  [load |-> 2, prepare |-> 4, prepare_typed |-> 2, prepare_typed_async |-> 3,
   prepare_async |-> 2, commit |-> 2, commit_async |-> 2, rollback |-> 3, rotate |-> 5,
   fence |-> 5, recover |-> 5]

\* How many of its copies a call has enqueued.
Enqueued(c) ==
  IF c.at < CopyAt[c.op] THEN 0
  ELSE IF c.at = CopyAt[c.op] THEN c.n ELSE Len(Fields(c))

\* The call in progress, and how far it is.
CallInv ==
  LET c == Cur IN
  /\ c.op = "none" => c = NoCall
  /\ c.op # "none" =>
       /\ c.op \in Ops /\ c.at \in 1 .. Len(Steps[c.op]) /\ c.key = calls /\ calls > 1
       /\ IF Step(c) = "copy" THEN c.n < Len(Fields(c)) ELSE c.n = 0
       /\ IF Step(c) = "sync" THEN c.left = Len(stream) ELSE c.left = 0
       /\ c.ver <= calls
       /\ c.op \in Writers /\ c.at <= CopyAt[c.op] => \A s \in Slots : mir.slot[s].ver < calls
       /\ c.op = "rotate" \/ c.op = "rollback" => c.type = "P256"
  \* What has been waited for has been applied.
  /\ c.op \in {"fence", "recover"} /\ c.at >= 2 => stream = <<>>
  /\ c.op = "rotate" /\ c.at \in {3, 5} => stream = <<>>
  /\ c.op = "rollback" /\ c.at = 3 => stream = <<>>
  /\ c.op = "prepare_typed_async" /\ c.at >= 2 => outer
  /\ \A s \in Slots : mir.slot[s].ver <= calls

\* The active slot of the mirror, and the slot the call works on.
Flipped == \/ Cur.op \in Commits /\ Cur.at = 2
           \/ Cur.op = "rotate" /\ Cur.at \in {4, 5}
ActiveInv ==
  /\ Final.active = IF Flipped THEN Cur.slot ELSE mir.active
  /\ Cur.op \in Writers \ {"load"} /\ ~Flipped => Cur.slot = Other(Final.active)
  /\ Cur.op \in Commits /\ Cur.at = 1 =>
       Cur.slot = Other(Final.active) /\ known[Cur.slot].key # 0
  /\ \A i \in 1 .. Len(stream) :
       stream[i].f = "probe" =>
         /\ stream[i].v <= calls
         /\ stream[i].v = Cur.key =>
              Cur.op = "prepare" /\ Cur.at = 2 /\ i = Len(stream)

Whole(a) == a.key # 0 /\ a.mirror = a.key /\ a.tag = <<a.ver, a.key>>
Writing(s) == Cur.op \in Writers /\ Cur.slot = s

\* A slot no call is writing, when the client is sure of it, will hold what
\* the client was told, whole, and the mirror agrees.
KnownInv ==
  /\ \A s \in Slots :
       ~Writing(s) /\ known[s] # Unsure =>
         /\ Final.slot[s].key = known[s].key /\ Final.slot[s].type = known[s].type
         /\ known[s].type = "AES" => Final.slot[s].rk = known[s].key
         /\ known[s].key # 0 => Whole(Final.slot[s])
         /\ Same(Final.slot[s], mir.slot[s])
  /\ \A s \in Slots : known[s].type = "UNSURE" => known[s] = Unsure
  /\ "rotate" \in Ops => \A s \in Slots : known[s] # Unsure

\* A slot a call is writing holds what has been enqueued.
WriteInv ==
  LET c == Cur
      a == Final.slot[c.slot]
      m == mir.slot[c.slot] IN
  /\ c.op \in TypedOps \cup {"rotate"} =>
       \A i \in 1 .. Enqueued(c) : a[Fields(c)[i]] = Value(c, Fields(c)[i])
  /\ c.op \in TypedOps /\ c.at > MirrorAt[c.op] =>
       m = Loaded(m, c.type, c.key, c.ver)
  /\ c.op = "rollback" /\ c.at > CopyAt[c.op] => a = EmptySlot
  /\ c.op = "rotate" => a.type = m.type /\ a.type # "AES" /\ a.epoch = m.epoch

Writes(cp) == cp.f \notin {"probe", "active"}
Loaded1(s) == Cur.op = "load" /\ Cur.slot = s

\* Every state the device will go through selects a whole slot, and no copy
\* changes the slot that is selected when it is applied; a load may do both.
PathInv ==
  /\ \A k \in 0 .. Len(stream) :
       /\ At(k) \in States
       /\ Loaded1(At(k).active) \/ Whole(At(k).slot[At(k).active])
  /\ \A k \in 1 .. Len(stream) :
       Writes(stream[k]) =>
         stream[k].slot # At(k - 1).active \/ Loaded1(stream[k].slot)

\* What may be on its way while the latch is open.
LatchInv ==
  \A i \in 1 .. Len(stream) :
    /\ stream[i].async => \/ outer \/ Cur.op = "prepare_async"
                          \/ Cur.op = "commit_async" /\ Cur.at >= 2
    /\ Writes(stream[i]) =>
         outer \/ Writing(stream[i].slot) \/ known[stream[i].slot] = Unsure

\* A request in flight names a slot that nothing is on its way to.
ReqInv ==
  /\ req.st \in {"queued", "valid"} =>
       /\ \A i \in 1 .. Len(stream) : Writes(stream[i]) => stream[i].slot # req.slot
       /\ ~Writing(req.slot) /\ known[req.slot] # Unsure
       /\ req.want = Expected(known[req.slot], req.alg) /\ req.used = 0
       /\ req.st = "valid" => req.alg = "p256" \/ known[req.slot].type = "AES"
  /\ OwnKey

IInv == /\ Typed /\ CallInv /\ ActiveInv /\ KnownInv /\ WriteInv
        /\ PathInv /\ LatchInv /\ ReqInv
=============================================================================

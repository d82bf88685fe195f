------------------------------ MODULE KeyRotation ------------------------------
(***************************************************************************)
(* Key rotation: the pair of keyslots the active epoch selects from, the   *)
(* host's mirror of them (h_init), and the calls that prepare a key in the *)
(* inactive slot, commit it by flipping the epoch, or roll it back.        *)
(*                                                                         *)
(* Every call works by enqueuing small copies on comm_stream; the device   *)
(* applies them in order, later and one at a time, while the kernel goes   *)
(* on reading the slots.  Synchronous calls wait for their copies.  The    *)
(* asynchronous ones return at once and set a latch that the guarded       *)
(* submit calls refuse to pass until a fence has drained the stream.       *)
(*                                                                         *)
(* Each load brings a key never seen before, numbered by the call.         *)
(***************************************************************************)
EXTENDS Integers, Sequences

CONSTANTS
  Threads,     \* host threads that make rotation calls
  Ops,         \* the calls they make
  Types,       \* key types they load: "P256", "AES"
  Algs,        \* what requests ask for: "p256", "aes", "chacha"
  Surfaces,    \* "generic": guarded by the latch; "inline": ..._inline_batch
  MayFail,     \* TRUE: a CUDA call may fail
  MaxCalls     \* model bound: rotation calls ever made

\* The calls: which steps each takes, in the order of its code.
Steps ==
  [load                |-> <<"copy", "mirror", "sync">>,
   prepare             |-> <<"probe", "sync", "copy", "mirror", "sync">>,
   prepare_typed       |-> <<"copy", "mirror", "sync">>,
   prepare_typed_async |-> <<"close", "copy", "mirror", "latch">>,
   prepare_async       |-> <<"copy", "mirror", "latch", "close">>,
   commit              |-> <<"copy", "mirror", "sync">>,
   commit_async        |-> <<"copy", "mirror", "latch", "close">>,
   rollback            |-> <<"copy", "sync", "mirror">>,
   rotate              |-> <<"copy", "sync", "flip", "sync", "mirror">>,
   fence               |-> <<"sync", "unlatch", "open">>,
   recover             |-> <<"sync", "resync", "open">>]

AllOps    == DOMAIN Steps
TypedOps  == {"load", "prepare", "prepare_typed", "prepare_typed_async",
              "prepare_async"}
Writers   == TypedOps \cup {"rollback", "rotate"}
Commits   == {"commit", "commit_async"}
MutexOps  == {"prepare_async", "commit", "commit_async", "rollback", "fence",
              "recover"}

ASSUME KeyRotationAssumption ==
  /\ Ops \subseteq AllOps
  /\ Types \subseteq {"P256", "AES"}
  /\ Algs \subseteq {"p256", "aes", "chacha"}
  /\ Surfaces \subseteq {"generic", "inline"}
  /\ MayFail \in BOOLEAN
  /\ MaxCalls \in Nat \ {0}

VARIABLES
  dev,      \* d_state on the device: keyslots and active_epoch
  mir,      \* h_init, the host's mirror of them
  stream,   \* comm_stream: copies enqueued and not yet applied
  inner,    \* EngineHandle::rotation_pending_fence
  outer,    \* SmokeEngine::rotation_pending_fence, the one submits check
  call,     \* the rotation call each thread is in
  calls,    \* calls begun (bounds the model, numbers the keys)
  known,    \* what the client may rely on in each slot, from the statuses
  req       \* a request on its way through the kernel

hostVars   == <<mir, inner, outer>>
clientVars == <<calls, known>>
vars == <<dev, stream, call, req, hostVars, clientVars>>

Slots == {0, 1}
\* Mutant of Other: the slot in use, the toggle forgotten.
MSameSlot(e) == e % 2

Other(e) == 1 - (e % 2)

EmptySlot == [type |-> "EMPTY", key |-> 0, mirror |-> 0, rk |-> 0, ver |-> 0,
              epoch |-> 0, tag |-> <<0, 0>>]
\* Mutant of Loaded: the mirror's epoch is not brought up to date.
MLoadedOldEpoch(old, type, key, ver) ==
  [type |-> type, key |-> key, mirror |-> key,
   rk |-> IF type = "AES" THEN key ELSE old.rk,
   ver |-> ver, epoch |-> old.epoch, tag |-> <<ver, key>>]

\* A slot as one complete load leaves it; rk, the AES round keys, is written
\* for AES keys only.
Loaded(old, type, key, ver) ==
  [type |-> type, key |-> key, mirror |-> key,
   rk |-> IF type = "AES" THEN key ELSE old.rk,
   ver |-> ver, epoch |-> ver, tag |-> <<ver, key>>]

NoCall == [op |-> "none", at |-> 0, slot |-> 0, type |-> "P256", key |-> 0,
           ver |-> 0, n |-> 0, left |-> 0]
NoReq  == [st |-> "none", slot |-> 0, alg |-> "p256", want |-> 0, used |-> 0]
Unsure == [type |-> "UNSURE", key |-> 0]
Nothing == [type |-> "EMPTY", key |-> 0]

\* Slot 0 loaded by smoke_engine_load_key_p256, before any rotation.
Init ==
  /\ dev = [slot |-> [s \in Slots |-> IF s = 0
                        THEN Loaded(EmptySlot, "P256", 1, 1) ELSE EmptySlot],
            active |-> 0]
  /\ mir = dev /\ stream = <<>> /\ inner = FALSE /\ outer = FALSE
  /\ call = [t \in Threads |-> NoCall] /\ calls = 1
  /\ known = [s \in Slots |-> IF s = 0 THEN [type |-> "P256", key |-> 1]
                                       ELSE Nothing]
  /\ req = NoReq
-----------------------------------------------------------------------------
(* The copies and the stream. *)

\* Mutants of TypedFields: the tag, or the AES round keys, not copied.
MNoTag(type) ==
  IF type = "AES" THEN <<"type", "key", "mirror", "rk", "ver", "epoch">>
  ELSE <<"type", "key", "mirror", "ver", "epoch">>
MNoRoundKeys(type) == <<"type", "key", "mirror", "ver", "epoch", "tag">>

TypedFields(type) ==
  IF type = "AES"
  THEN <<"type", "key", "mirror", "rk", "ver", "epoch", "tag">>
  ELSE <<"type", "key", "mirror", "ver", "epoch", "tag">>

\* The copies of a call's copy step, in the order it enqueues them.
Fields(c) ==
  IF c.op \in TypedOps THEN TypedFields(c.type)
  ELSE IF c.op = "rotate" THEN <<"key", "mirror", "ver", "tag">>
  ELSE IF c.op = "rollback" THEN <<"all">>
  ELSE <<"active">>

Value(c, f) ==
  CASE f = "type" -> c.type
    [] f \in {"key", "mirror", "rk"} -> c.key
    [] f \in {"ver", "epoch"} -> c.ver
    [] f = "tag" -> <<c.ver, c.key>>
    [] f = "all" -> EmptySlot
    [] f = "active" -> c.slot

Apply(d, c) ==
  CASE c.f = "probe" -> d
    [] c.f = "active" -> [d EXCEPT !.active = c.v]
    [] c.f = "all" -> [d EXCEPT !.slot[c.slot] = c.v]
    [] OTHER -> [d EXCEPT !.slot[c.slot][c.f] = c.v]

\* The states d goes through while the copies of str are applied to it.
Path(d, str) ==
  LET p[k \in 0 .. Len(str)] == IF k = 0 THEN d ELSE Apply(p[k - 1], str[k]) IN p

\* The device once every copy enqueued so far has been applied.
Final == Path(dev, stream)[Len(stream)]

Copy(t, f, v) ==
  [slot |-> call[t].slot, f |-> f, v |-> v, by |-> t,
   async |-> call[t].op \in {"prepare_async", "prepare_typed_async",
                             "commit_async"}]

Transfer ==
  /\ stream # <<>>
  /\ LET c == Head(stream) IN
       /\ dev' = Apply(dev, c)
       /\ call' = [t \in Threads |->
            [call[t] EXCEPT !.left = IF @ > 0 THEN @ - 1 ELSE 0,
                            !.slot = IF c.f = "probe" /\ c.v = call[t].key
                                     THEN Other(dev.active) ELSE @]]
  /\ stream' = Tail(stream)
  /\ UNCHANGED <<req, hostVars, clientVars>>
-----------------------------------------------------------------------------
(* The calls. *)

Step(c) == IF c.op = "none" THEN "idle" ELSE Steps[c.op][c.at]

\* engine_* functions hold rotation_mutex; the ABI function around them sets
\* its own latch after they have returned.
HoldsMutex(t) == call[t].op \in MutexOps /\ Step(call[t]) \notin {"close", "open"}

\* The slot a writing call that begins now would write, but for load.
Inactive == Other(mir.active)

InFlight(s) == req.st \in {"queued", "valid"} /\ req.slot = s

\* What the client must see to first: it commits what it has prepared, does
\* not overwrite a slot that a request in flight names, and keeps rotate_key,
\* which knows P-256 keys only, away from a slot it loaded an AES key into.
ClientMay(op, s) ==
  /\ op = "rotate" => known[s].type # "AES"
  /\ op \in Commits => known[Inactive].key # 0
  /\ op \in Writers => ~ InFlight(s)

Begin(t) ==
  /\ call[t].op = "none" /\ calls < MaxCalls
  /\ \E op \in Ops, type \in Types, s \in Slots :
       /\ op \in TypedOps \/ type = "P256"
       /\ op = "prepare" => type = "P256"
       /\ op = "prepare_async" => type = "P256"
       /\ op = "load" \/ s = Inactive
       /\ ClientMay(op, s)
       /\ op \in MutexOps => \A u \in Threads : ~ HoldsMutex(u)
       /\ call' = [call EXCEPT ![t] =
            [NoCall EXCEPT !.op = op, !.at = 1, !.slot = s, !.type = type,
                           !.key = calls + 1,
                           !.left = IF Steps[op][1] = "sync" THEN Len(stream) ELSE 0]]
  /\ calls' = calls + 1
  /\ UNCHANGED <<dev, stream, req, hostVars, known>>

\* The next step of t's call, after a step that leaves the stream as str.
\* A sync step waits for the copies that are in it by then.
Finishes(c) == c.at = Len(Steps[c.op])
Goto(c, str) ==
  IF Finishes(c) THEN NoCall
  ELSE [c EXCEPT !.at = @ + 1, !.n = 0,
                 !.left = IF Steps[c.op][c.at + 1] = "sync" THEN Len(str) ELSE 0]

\* What a successful return tells the client of the slot the call wrote.
Learnt(c) ==
  IF c.op \notin Writers THEN known
  ELSE [known EXCEPT ![c.slot] =
          CASE c.op = "rollback" -> Nothing
            [] c.op = "rotate" -> [type |-> mir.slot[c.slot].type, key |-> c.key]
            [] OTHER -> [type |-> c.type, key |-> c.key]]

Advance(t, str) ==
  /\ call' = [call EXCEPT ![t] = Goto(@, str)]
  /\ known' = IF Finishes(call[t]) THEN Learnt(call[t]) ELSE known
  /\ UNCHANGED <<calls, req, dev>>

\* cudaMemcpyAsync and cudaMemsetAsync.  The version is read from the mirror
\* when its copy is enqueued.
Enqueue(t) ==
  LET fs == Fields(call[t])
      f  == fs[call[t].n + 1]
      c  == IF f = "ver"
            THEN [call[t] EXCEPT !.ver = mir.slot[call[t].slot].ver + 1]
            ELSE call[t]
      str == Append(stream, Copy(t, f, Value(c, f)))
  IN /\ Step(call[t]) = "copy"
     /\ stream' = str
     /\ IF call[t].n + 1 = Len(fs)
          THEN /\ call' = [call EXCEPT ![t] = Goto(c, str)]
          ELSE /\ call' = [call EXCEPT ![t] = [c EXCEPT !.n = @ + 1]]
     /\ UNCHANGED <<dev, req, hostVars, clientVars>>

\* Mutant of EnqueueProbe: a copy is waited for that was never enqueued.
MProbeNotEnqueued(t) ==
  LET str == Append(stream, Copy(t, "probe", call[t].key)) IN
  /\ Step(call[t]) = "probe"
  /\ stream' = stream /\ Advance(t, str)
  /\ UNCHANGED hostVars

EnqueueProbe(t) ==
  LET str == Append(stream, Copy(t, "probe", call[t].key)) IN
  /\ Step(call[t]) = "probe"
  /\ stream' = str /\ Advance(t, str)
  /\ UNCHANGED hostVars

EnqueueFlip(t) ==
  LET str == Append(stream, Copy(t, "active", call[t].slot)) IN
  /\ Step(call[t]) = "flip"
  /\ stream' = str /\ Advance(t, str)
  /\ UNCHANGED hostVars

\* The host's copy, brought up to what the call has enqueued.
UpdateMirror(t) ==
  LET c == call[t]
      old == mir.slot[c.slot] IN
  /\ Step(c) = "mirror"
  /\ mir' = CASE c.op \in TypedOps ->
                   [mir EXCEPT !.slot[c.slot] = Loaded(old, c.type, c.key, c.ver)]
              [] c.op = "rotate" ->
                   [slot |-> [mir.slot EXCEPT ![c.slot] =
                      [old EXCEPT !.key = c.key, !.mirror = c.key,
                                  !.ver = c.ver, !.tag = <<c.ver, c.key>>]],
                    active |-> c.slot]
              [] c.op = "rollback" -> [mir EXCEPT !.slot[c.slot] = EmptySlot]
              [] OTHER -> [mir EXCEPT !.active = c.slot]
  /\ Advance(t, stream)
  /\ UNCHANGED <<stream, inner, outer>>

\* Mutant of Sync: the wait for the copies dropped.
MNoSync(t) ==
  /\ Step(call[t]) = "sync"
  /\ Advance(t, stream)
  /\ UNCHANGED <<stream, hostVars>>

\* cudaStreamSynchronize; for recover, the copy on the default stream, which
\* waits for what was enqueued on the stream that was destroyed.
Sync(t) ==
  /\ Step(call[t]) = "sync" /\ call[t].left = 0
  /\ Advance(t, stream)
  /\ UNCHANGED <<stream, hostVars>>

Latch(t) ==
  \/ /\ Step(call[t]) = "latch" /\ inner' = TRUE
     /\ Advance(t, stream) /\ UNCHANGED <<stream, mir, outer>>
  \/ /\ Step(call[t]) = "close" /\ outer' = TRUE
     /\ Advance(t, stream) /\ UNCHANGED <<stream, mir, inner>>

Unlatch(t) ==
  \/ /\ Step(call[t]) = "unlatch" /\ inner' = FALSE
     /\ Advance(t, stream) /\ UNCHANGED <<stream, mir, outer>>
  \/ /\ Step(call[t]) = "resync" /\ inner' = FALSE
     /\ mir' = [mir EXCEPT !.active = dev.active]
     /\ Advance(t, stream) /\ UNCHANGED <<stream, outer>>
  \/ /\ Step(call[t]) = "open" /\ outer' = FALSE
     /\ Advance(t, stream) /\ UNCHANGED <<stream, mir, inner>>

\* A CUDA call fails: the engine function returns at once, what it enqueued
\* stays enqueued, and the client knows no more of the slot it was writing.
Fail(t) ==
  /\ MayFail
  /\ Step(call[t]) \in {"copy", "probe", "flip", "sync"}
  /\ call' = [call EXCEPT ![t] = NoCall]
  /\ known' = IF call[t].op \in Writers
              THEN [known EXCEPT ![call[t].slot] = Unsure] ELSE known
  /\ UNCHANGED <<dev, stream, req, hostVars, calls>>
-----------------------------------------------------------------------------
(* Requests: the client names a slot, a CTA checks its type, then computes. *)

\* The key a request of algorithm alg must be answered with; 0: refused.
Expected(k, alg) ==
  IF alg = "p256" \/ k.type = "AES" THEN k.key ELSE 0

\* smoke_generic_submit refuses while the latch is closed.  The client does
\* not name a slot it is unsure of or that a call is busy writing.
Submit ==
  /\ req.st \in {"none", "done"}
  /\ \E via \in Surfaces, s \in Slots, alg \in Algs :
       /\ via = "generic" => ~ outer
       /\ known[s] # Unsure
       /\ \A t \in Threads : call[t].op \in Writers => call[t].slot # s
       /\ req' = [st |-> "queued", slot |-> s, alg |-> alg,
                  want |-> Expected(known[s], alg), used |-> 0]
  /\ UNCHANGED <<dev, stream, call, hostVars, clientVars>>

Validate ==
  /\ req.st = "queued"
  /\ req' = [req EXCEPT !.st =
       IF req.alg = "p256" \/ dev.slot[req.slot].type = "AES"
       THEN "valid" ELSE "done"]
  /\ UNCHANGED <<dev, stream, call, hostVars, clientVars>>

Compute ==
  /\ req.st = "valid"
  /\ req' = [req EXCEPT !.st = "done",
       !.used = IF req.alg = "aes" THEN dev.slot[req.slot].rk
                ELSE dev.slot[req.slot].key]
  /\ UNCHANGED <<dev, stream, call, hostVars, clientVars>>
-----------------------------------------------------------------------------
CallStep(t) ==
  /\ call[t].op # "none"
  /\ \/ Enqueue(t) \/ EnqueueProbe(t) \/ EnqueueFlip(t)
     \/ UpdateMirror(t) \/ Sync(t) \/ Latch(t) \/ Unlatch(t) \/ Fail(t)

Next ==
  \/ \E t \in Threads : Begin(t) \/ CallStep(t)
  \/ Transfer \/ Submit \/ Validate \/ Compute

Spec == Init /\ [][Next]_vars
-----------------------------------------------------------------------------
(* Properties. *)

Keys  == 0 .. MaxCalls
SlotStates ==
  [type : {"EMPTY", "P256", "AES"}, key : Keys, mirror : Keys, rk : Keys,
   ver : Keys, epoch : Keys, tag : Keys \X Keys]
States == [slot : [Slots -> SlotStates], active : Slots]

\* Every variable has its type; a waiting call waits for copies that exist.
TypeOK ==
  /\ dev \in States /\ mir \in States
  /\ inner \in BOOLEAN /\ outer \in BOOLEAN /\ calls \in 1 .. MaxCalls
  /\ \A i \in DOMAIN stream : stream[i].slot \in Slots /\ stream[i].by \in Threads
  /\ \A t \in Threads :
       /\ call[t].op \in AllOps \cup {"none"} /\ call[t].slot \in Slots
       /\ call[t].left \in 0 .. Len(stream)
  /\ \A s \in Slots : known[s].key \in Keys
  /\ req.st \in {"none", "queued", "valid", "done"} /\ req.slot \in Slots

\* A load names the slot it writes, which may be the active one; every other
\* call writes the slot it takes for the inactive one.
Loading == \E t \in Threads : call[t].op = "load" /\ call[t].slot = dev.active

\* Whatever the calls have enqueued so far, at every moment the slot that
\* the epoch on the device selects holds one loaded key: its mirror copy and
\* its integrity tag agree with it.  It is what the kernel signs with.
ActiveSlotWhole ==
  LET a == dev.slot[dev.active] IN
  Loading \/ (a.key # 0 /\ a.mirror = a.key /\ a.tag = <<a.ver, a.key>>)

\* A rotation never writes into the slot that is active on the device: a
\* slot changes only while the epoch selects the other one.
ActiveSlotKept == Loading \/ dev'.slot[dev.active] = dev.slot[dev.active]
ActiveKeyStable == [][ActiveSlotKept]_dev

\* Between calls the host's mirror is where the device will be once the
\* stream has drained, but for a slot whose last call failed.  The next call
\* chooses its slot and its version from the mirror, never from the device.
Same(a, b) ==
  \A f \in DOMAIN a : (f = "rk" => a.type = "AES") => a[f] = b[f]
MirrorIsAhead ==
  (\A t \in Threads : call[t].op = "none") =>
    /\ Final.active = mir.active
    /\ \A s \in Slots :
         known[s] # Unsure => Same(Final.slot[s], mir.slot[s])

\* A request is computed with the key its client had loaded into the slot
\* it names, whole, or refused if that slot holds none of the type it needs.
OwnKey == req.st = "done" => req.used = req.want

\* The latch is closed while a copy an asynchronous call enqueued is on its
\* way, once that call has returned.
LatchWhileAsyncPending ==
  \/ outer
  \/ \E t \in Threads : call[t].op \in {"prepare_typed_async", "prepare_async",
                                        "commit_async"}
  \/ \A i \in DOMAIN stream : ~ stream[i].async

\* smoke_engine_rotation_probe's check_epochs_distinct, once all is quiet.
EpochsDistinct ==
  (stream = <<>> /\ \A t \in Threads : call[t].op = "none") =>
    \/ \E s \in Slots : dev.slot[s].type = "EMPTY"
    \/ dev.slot[0].epoch # dev.slot[1].epoch
=============================================================================

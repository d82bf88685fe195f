------------------------------ MODULE HostProofs ------------------------------
(* The properties of MCHost about the life of an engine behind the C ABI,    *)
(* its single queue and the bridge over it, by the theorems of               *)
(* AbiEngineProofs, and about the post-quantum queues, by those of           *)
(* PqQueuesProofs: the inductive invariants of the composition are those     *)
(* modules' in the behaviours that are theirs.                               *)
EXTENDS MCHost, TLAPS

\* The proofs of the instances MCHost makes: G those of "gate" and "leg", W those
\* of "ways" and "br".
G == INSTANCE AbiEngineProofs WITH
       FullWindow <- TRUE, Ways <- {"c"}, StopsInTime <- TRUE, Reloads <- FALSE,
       MaxCalls <- 10,
       QueueSize <- 3, CounterMod <- 16, Callers <- {"a"}, BatchMax <- 3,
       Tunings <- {Tuning1, Tuning2}, MaxIds <- 7, MaxStarts <- 1, GiveUps <- 0,
       Kind <- "multi", Clients <- {0, 1}, RingSize <- 2, DrainPerClient <- 1,
       BatchLimit <- 2, Ops <- {"SIGN", "NOP", "SHUTDOWN"}, Alone <- TRUE,
       MaxAsks <- 2, MaxBridges <- 1

W == INSTANCE AbiEngineProofs WITH
       FullWindow <- TRUE, Ways <- {"c", "rotate", "py"}, StopsInTime <- FALSE,
       Reloads <- TRUE, MaxCalls <- 6,
       QueueSize <- 4, CounterMod <- 16, Callers <- {"worker"}, BatchMax <- 2,
       Tunings <- {Tuning1}, MaxIds <- 4, MaxStarts <- 1, GiveUps <- 1,
       Kind <- "multi", Clients <- {0, 1}, RingSize <- 2, DrainPerClient <- 1,
       BatchLimit <- 2, Ops <- {"SIGN", "NOP", "SHUTDOWN"}, Alone <- TRUE,
       MaxAsks <- 2, MaxBridges <- 1

\* The instance "gate" uses the C entry points as the theorems ask.
LEMMA GateClean == G!Clean
  BY DEF G!Clean

-----------------------------------------------------------------------------
(* Two instances of a module with the same constants are the same module. *)

LEMMA SameGateInit == G!GateInit <=> Gate!GateInit
  BY DEF G!GateInit, G!Flags, G!IdleGpu, G!NoKey, G!Whole, Gate!GateInit, Gate!Flags,
         Gate!IdleGpu, Gate!NoKey, Gate!Whole

LEMMA SameWaysInit == W!GateInit <=> Gates!GateInit
  BY DEF W!GateInit, W!Flags, W!IdleGpu, W!NoKey, W!Whole, Gates!GateInit, Gates!Flags,
         Gates!IdleGpu, Gates!NoKey, Gates!Whole

LEMMA SameGateVerdict ==
  ASSUME NEW checks
  PROVE  G!Verdict(checks) = Gate!Verdict(checks)
  BY DEF G!Verdict, Gate!Verdict, G!Min, Gate!Min

LEMMA SameGateCall ==
  ASSUME NEW way, NEW v, NEW e, NEW g
  PROVE  /\ G!Call(way, v, e, g) <=> Gate!Call(way, v, e, g)
         /\ G!Done(way, v, e, g) <=> Gate!Done(way, v, e, g)
         /\ G!Unchanged(way, v) <=> Gate!Unchanged(way, v)
<1>1. \A x, y : G!Call(way, v, x, y) <=> Gate!Call(way, v, x, y) BY DEF G!Call, Gate!Call
<1>. QED BY <1>1 DEF G!Done, Gate!Done, G!Unchanged, Gate!Unchanged

LEMMA SameGateNext == G!GateNext <=> Gate!GateNext
<1>. USE SameGateVerdict, SameGateCall
<1>1. ASSUME NEW a, NEW b PROVE G!EngineInit(a, b) <=> Gate!EngineInit(a, b)
  BY DEF G!EngineInit, G!Flags, G!NoKey, G!Whole, Gate!EngineInit, Gate!Flags, Gate!NoKey, Gate!Whole
<1>2. G!EngineShutdown <=> Gate!EngineShutdown
  BY DEF G!EngineShutdown, G!Flags, Gate!EngineShutdown, Gate!Flags
<1>3. ASSUME NEW a PROVE G!FastPathCreate(a) <=> Gate!FastPathCreate(a)
  BY DEF G!FastPathCreate, G!Alive, G!Stopped, Gate!FastPathCreate, Gate!Alive,
           Gate!Stopped
<1>4. ASSUME NEW a PROVE G!FastPathStart(a) <=> Gate!FastPathStart(a)
  BY DEF G!FastPathStart, G!StartChecks, G!TablesFor, G!Alive, Gate!FastPathStart,
           Gate!StartChecks, Gate!TablesFor, Gate!Alive
<1>5. G!FastPathStop <=> Gate!FastPathStop
  BY DEF G!FastPathStop, G!Alive, Gate!FastPathStop, Gate!Alive
<1>6. ASSUME NEW a PROVE G!LoadKeyP256(a) <=> Gate!LoadKeyP256(a)
  BY DEF G!LoadKeyP256, G!Loaded, G!Whole, G!Torn, G!TablesFor, G!Alive,
           Gate!LoadKeyP256, Gate!Loaded, Gate!Whole, Gate!Torn, Gate!TablesFor, Gate!Alive
<1>7. ASSUME NEW s, NEW t, NEW a PROVE G!LoadKeyTyped(s, t, a) <=> Gate!LoadKeyTyped(s, t, a)
  BY DEF G!LoadKeyTyped, G!Loaded, G!Whole, G!Torn, G!Alive, Gate!LoadKeyTyped, Gate!Loaded,
           Gate!Whole, Gate!Torn, Gate!Alive
<1>8. ASSUME NEW t, NEW a, NEW b PROVE G!RotateTyped(t, a, b) <=> Gate!RotateTyped(t, a, b)
  BY DEF G!RotateTyped, G!Loaded, G!Whole, G!Torn, G!Alive, Gate!RotateTyped, Gate!Loaded, Gate!Whole,
           Gate!Torn, Gate!Alive
<1>9. ASSUME NEW s, NEW a PROVE G!LoadComb(s, a) <=> Gate!LoadComb(s, a)
  BY DEF G!LoadComb, G!CombChecks, G!CombSize, G!CombAfter, G!Upload, G!Alive, G!Call, G!Verdict, G!Min,
           Gate!LoadComb, Gate!CombChecks, Gate!CombSize, Gate!CombAfter, Gate!Upload, Gate!Alive,
           Gate!Call, Gate!Verdict, Gate!Min
<1>10. ASSUME NEW b PROVE G!LoadFullWindow(b) <=> Gate!LoadFullWindow(b)
  BY DEF G!LoadFullWindow, G!FullChecks, G!FullAfter, G!Upload, G!Alive, G!Call, G!Verdict, G!Min,
           Gate!LoadFullWindow, Gate!FullChecks, Gate!FullAfter, Gate!Upload, Gate!Alive,
           Gate!Call, Gate!Verdict, Gate!Min
<1>11. ASSUME NEW a, NEW b PROVE G!SignP256(a, b) <=> Gate!SignP256(a, b)
  BY DEF G!SignP256, G!Alive, Gate!SignP256, Gate!Alive
<1>12. ASSUME NEW a PROVE G!Configure(a) <=> Gate!Configure(a)
  BY DEF G!Configure, G!Alive, Gate!Configure, Gate!Alive
<1>13. ASSUME NEW a, NEW b, NEW c PROVE G!SubmitAndDrain(a, b, c) <=> Gate!SubmitAndDrain(a, b, c)
  BY DEF G!SubmitAndDrain, G!FastRunning, G!Alive, Gate!SubmitAndDrain,
           Gate!FastRunning, Gate!Alive
<1>14. ASSUME NEW a PROVE G!Measure(a) <=> Gate!Measure(a)
  BY DEF G!Measure, G!Alive, Gate!Measure, Gate!Alive
<1>15. G!PyCreate <=> Gate!PyCreate
  BY DEF G!PyCreate, Gate!PyCreate
<1>16. G!PyEngineShutdown <=> Gate!PyEngineShutdown
  BY DEF G!PyEngineShutdown, G!Stopped, Gate!PyEngineShutdown, Gate!Stopped
<1>17. ASSUME NEW a PROVE G!PyStart(a) <=> Gate!PyStart(a)
  BY DEF G!PyStart, G!TablesFor, Gate!PyStart, Gate!TablesFor
<1>18. G!PyStop <=> Gate!PyStop
  BY DEF G!PyStop, Gate!PyStop
<1>19. G!Register <=> Gate!Register
  BY DEF G!Register, Gate!Register
<1>20. G!ClearHandle <=> Gate!ClearHandle
  BY DEF G!ClearHandle, Gate!ClearHandle
<1>21. ASSUME NEW s, NEW a PROVE G!PyLoadComb(s, a) <=> Gate!PyLoadComb(s, a)
  BY DEF G!PyLoadComb, G!CombSize, G!CombAfter, G!Upload, G!Call, G!Verdict, G!Min,
           Gate!PyLoadComb, Gate!CombSize, Gate!CombAfter, Gate!Upload, Gate!Call, Gate!Verdict, Gate!Min
<1>22. ASSUME NEW a, NEW b PROVE G!GenericSubmit(<<a, b>>) <=> Gate!GenericSubmit(<<a, b>>)
  <2>1. G!SubmitStatus(<<a, b>>) = Gate!SubmitStatus(<<a, b>>)
    BY DEF G!SubmitStatus, G!Accepted, G!RequestStatus, G!Min, Gate!SubmitStatus,
             Gate!Accepted, Gate!RequestStatus, Gate!Min
  <2>. QED BY <2>1 DEF G!GenericSubmit, G!FastRunning, G!Alive, Gate!GenericSubmit,
           Gate!FastRunning, Gate!Alive
<1>. QED
  BY <1>1, <1>2, <1>3, <1>4, <1>5, <1>6, <1>7, <1>8, <1>9, <1>10, <1>11, <1>12,
     <1>13, <1>14, <1>15, <1>16, <1>17, <1>18, <1>19, <1>20, <1>21, <1>22
  DEF G!GateNext, Gate!GateNext, G!Blobs, Gate!Blobs, G!Requests, Gate!Requests, G!TableSizes,
      Gate!TableSizes, G!CombSize, Gate!CombSize

LEMMA SameWaysVerdict ==
  ASSUME NEW checks
  PROVE  W!Verdict(checks) = Gates!Verdict(checks)
  BY DEF W!Verdict, Gates!Verdict, W!Min, Gates!Min

LEMMA SameWaysCall ==
  ASSUME NEW way, NEW v, NEW e, NEW g
  PROVE  /\ W!Call(way, v, e, g) <=> Gates!Call(way, v, e, g)
         /\ W!Done(way, v, e, g) <=> Gates!Done(way, v, e, g)
         /\ W!Unchanged(way, v) <=> Gates!Unchanged(way, v)
<1>1. \A x, y : W!Call(way, v, x, y) <=> Gates!Call(way, v, x, y) BY DEF W!Call, Gates!Call
<1>. QED BY <1>1 DEF W!Done, Gates!Done, W!Unchanged, Gates!Unchanged

LEMMA SameWaysNext == W!GateNext <=> Gates!GateNext
<1>. USE SameWaysVerdict, SameWaysCall
<1>1. ASSUME NEW a, NEW b PROVE W!EngineInit(a, b) <=> Gates!EngineInit(a, b)
  BY DEF W!EngineInit, W!Flags, W!NoKey, W!Whole, Gates!EngineInit, Gates!Flags, Gates!NoKey, Gates!Whole
<1>2. W!EngineShutdown <=> Gates!EngineShutdown
  BY DEF W!EngineShutdown, W!Flags, Gates!EngineShutdown, Gates!Flags
<1>3. ASSUME NEW a PROVE W!FastPathCreate(a) <=> Gates!FastPathCreate(a)
  BY DEF W!FastPathCreate, W!Alive, W!Stopped, Gates!FastPathCreate, Gates!Alive,
           Gates!Stopped
<1>4. ASSUME NEW a PROVE W!FastPathStart(a) <=> Gates!FastPathStart(a)
  BY DEF W!FastPathStart, W!StartChecks, W!TablesFor, W!Alive, Gates!FastPathStart,
           Gates!StartChecks, Gates!TablesFor, Gates!Alive
<1>5. W!FastPathStop <=> Gates!FastPathStop
  BY DEF W!FastPathStop, W!Alive, Gates!FastPathStop, Gates!Alive
<1>6. ASSUME NEW a PROVE W!LoadKeyP256(a) <=> Gates!LoadKeyP256(a)
  BY DEF W!LoadKeyP256, W!Loaded, W!Whole, W!Torn, W!TablesFor, W!Alive,
           Gates!LoadKeyP256, Gates!Loaded, Gates!Whole, Gates!Torn, Gates!TablesFor, Gates!Alive
<1>7. ASSUME NEW s, NEW t, NEW a PROVE W!LoadKeyTyped(s, t, a) <=> Gates!LoadKeyTyped(s, t, a)
  BY DEF W!LoadKeyTyped, W!Loaded, W!Whole, W!Torn, W!Alive, Gates!LoadKeyTyped, Gates!Loaded,
           Gates!Whole, Gates!Torn, Gates!Alive
<1>8. ASSUME NEW t, NEW a, NEW b PROVE W!RotateTyped(t, a, b) <=> Gates!RotateTyped(t, a, b)
  BY DEF W!RotateTyped, W!Loaded, W!Whole, W!Torn, W!Alive, Gates!RotateTyped, Gates!Loaded, Gates!Whole,
           Gates!Torn, Gates!Alive
<1>9. ASSUME NEW s, NEW a PROVE W!LoadComb(s, a) <=> Gates!LoadComb(s, a)
  BY DEF W!LoadComb, W!CombChecks, W!CombSize, W!CombAfter, W!Upload, W!Alive, W!Call, W!Verdict, W!Min,
           Gates!LoadComb, Gates!CombChecks, Gates!CombSize, Gates!CombAfter, Gates!Upload, Gates!Alive, Gates!Call, Gates!Verdict, Gates!Min
<1>10. ASSUME NEW b PROVE W!LoadFullWindow(b) <=> Gates!LoadFullWindow(b)
  BY DEF W!LoadFullWindow, W!FullChecks, W!FullAfter, W!Upload, W!Alive, W!Call, W!Verdict, W!Min,
           Gates!LoadFullWindow, Gates!FullChecks, Gates!FullAfter, Gates!Upload, Gates!Alive,
           Gates!Call, Gates!Verdict, Gates!Min
<1>11. ASSUME NEW a, NEW b PROVE W!SignP256(a, b) <=> Gates!SignP256(a, b)
  BY DEF W!SignP256, W!Alive, Gates!SignP256, Gates!Alive
<1>12. ASSUME NEW a PROVE W!Configure(a) <=> Gates!Configure(a)
  BY DEF W!Configure, W!Alive, Gates!Configure, Gates!Alive
<1>13. ASSUME NEW a, NEW b, NEW c PROVE W!SubmitAndDrain(a, b, c) <=> Gates!SubmitAndDrain(a, b, c)
  BY DEF W!SubmitAndDrain, W!FastRunning, W!Alive, Gates!SubmitAndDrain,
           Gates!FastRunning, Gates!Alive
<1>14. ASSUME NEW a PROVE W!Measure(a) <=> Gates!Measure(a)
  BY DEF W!Measure, W!Alive, Gates!Measure, Gates!Alive
<1>15. W!PyCreate <=> Gates!PyCreate
  BY DEF W!PyCreate, Gates!PyCreate
<1>16. W!PyEngineShutdown <=> Gates!PyEngineShutdown
  BY DEF W!PyEngineShutdown, W!Stopped, Gates!PyEngineShutdown, Gates!Stopped
<1>17. ASSUME NEW a PROVE W!PyStart(a) <=> Gates!PyStart(a)
  BY DEF W!PyStart, W!TablesFor, Gates!PyStart, Gates!TablesFor
<1>18. W!PyStop <=> Gates!PyStop
  BY DEF W!PyStop, Gates!PyStop
<1>19. W!Register <=> Gates!Register
  BY DEF W!Register, Gates!Register
<1>20. W!ClearHandle <=> Gates!ClearHandle
  BY DEF W!ClearHandle, Gates!ClearHandle
<1>21. ASSUME NEW s, NEW a PROVE W!PyLoadComb(s, a) <=> Gates!PyLoadComb(s, a)
  BY DEF W!PyLoadComb, W!CombSize, W!CombAfter, W!Upload, W!Call, W!Verdict, W!Min,
           Gates!PyLoadComb, Gates!CombSize, Gates!CombAfter, Gates!Upload,
           Gates!Call, Gates!Verdict, Gates!Min
<1>22. ASSUME NEW a, NEW b PROVE W!GenericSubmit(<<a, b>>) <=> Gates!GenericSubmit(<<a, b>>)
  <2>1. W!SubmitStatus(<<a, b>>) = Gates!SubmitStatus(<<a, b>>)
    BY DEF W!SubmitStatus, W!Accepted, W!RequestStatus, W!Min, Gates!SubmitStatus,
             Gates!Accepted, Gates!RequestStatus, Gates!Min
  <2>. QED BY <2>1 DEF W!GenericSubmit, W!FastRunning, W!Alive, Gates!GenericSubmit,
           Gates!FastRunning, Gates!Alive
<1>. QED
  BY <1>1, <1>2, <1>3, <1>4, <1>5, <1>6, <1>7, <1>8, <1>9, <1>10, <1>11, <1>12,
     <1>13, <1>14, <1>15, <1>16, <1>17, <1>18, <1>19, <1>20, <1>21, <1>22
  DEF W!GateNext, Gates!GateNext, W!Blobs, Gates!Blobs, W!Requests, Gates!Requests, W!TableSizes,
      Gates!TableSizes, W!CombSize, Gates!CombSize

LEMMA SameGateProperties ==
  /\ G!FlagsAreTrue <=> Gate!FlagsAreTrue
  /\ G!SignerReady <=> Gate!SignerReady
  /\ G!OneKernel <=> Gate!OneKernel
  /\ G!NeverStuck <=> Gate!NeverStuck
  BY DEF G!FlagsAreTrue, Gate!FlagsAreTrue, G!SignerReady, Gate!SignerReady,
         G!Confirmed, Gate!Confirmed, G!Whole, Gate!Whole, G!Tables, Gate!Tables,
         G!OneKernel, Gate!OneKernel, G!Cardinality, Gate!Cardinality,
         G!NeverStuck, Gate!NeverStuck

LEMMA SameCleanRefusal == W!CleanRefusal <=> Gates!CleanRefusal
  BY DEF W!CleanRefusal, W!Flagged, W!Keys, W!SparesASlot, W!SparesATable,
         Gates!CleanRefusal, Gates!Flagged, Gates!Keys, Gates!SparesASlot,
         Gates!SparesATable

-----------------------------------------------------------------------------
(* The inductive invariant of the composition *)

HostGateInv ==
  /\ which \in {"pq", "leg", "br", "gate", "ways", "drv", "fw"}
  /\ which = "gate" => G!GateInv
  /\ which = "ways" => W!GateTypes

LEMMA HostGateInit ==
  ASSUME Init
  PROVE  HostGateInv
<1>1. /\ which \in {"pq", "leg", "br", "gate", "ways", "drv", "fw"}
      /\ which = "gate" => Gate!GateInit
      /\ which = "ways" => Gates!GateInit
  BY DEF Init, Starts
<1>2. Gate!GateInit => G!GateInv BY SameGateInit, G!TypesInit, G!KnownInit DEF G!GateInv
<1>3. Gates!GateInit => W!GateTypes BY SameWaysInit, W!TypesInit
<1>. QED BY <1>1, <1>2, <1>3 DEF HostGateInv

\* A step of the composition is a step of the component that was chosen.
LEMMA HostSteps ==
  ASSUME Next
  PROVE  /\ which' = which
         /\ which = "gate" => G!GateNext
         /\ which = "ways" => W!GateNext
<1>1. /\ which' = which
      /\ which = "gate" => Gate!GateNext
      /\ which = "ways" => Gates!GateNext
  BY DEF Next, StayOff
<1>. QED BY <1>1, SameGateNext, SameWaysNext

LEMMA HostGateNext ==
  ASSUME HostGateInv, [Next]_all
  PROVE  HostGateInv'
<1>1. CASE Next
  <2>1. /\ which' = which
        /\ which = "gate" => G!GateNext
        /\ which = "ways" => W!GateNext
    BY <1>1, HostSteps
  <2>2. ASSUME which = "gate" PROVE G!GateInv'
    <3>1. G!GateInv /\ G!GateNext BY <2>1, <2>2 DEF HostGateInv
    <3>. QED BY <3>1, GateClean, G!NextInv
  <2>3. ASSUME which = "ways" PROVE W!GateTypes'
    <3>1. W!GateTypes /\ W!GateNext BY <2>1, <2>3 DEF HostGateInv
    <3>. QED BY <3>1, W!TypesNext
  <2>. QED BY <2>1, <2>2, <2>3 DEF HostGateInv
<1>2. CASE UNCHANGED all
  <2>1. which' = which /\ UNCHANGED <<eng, gpu, ret, calls>> BY <1>2 DEF all, gateOnly
  <2>2. G!GateInv => G!GateInv' BY <2>1, GateClean, G!NextInv DEF G!gvars
  <2>3. W!GateTypes => W!GateTypes' BY <2>1 DEF W!GateTypes
  <2>. QED BY <2>1, <2>2, <2>3 DEF HostGateInv
<1>. QED BY <1>1, <1>2

\* The lifecycle keeps its inductive invariant in the behaviours that are its own.
THEOREM HostGateInvariant == Spec => []HostGateInv
<1>1. Init => HostGateInv BY HostGateInit
<1>2. HostGateInv /\ [Next]_all => HostGateInv' BY HostGateNext
<1>. QED BY <1>1, <1>2, PTL DEF Spec

-----------------------------------------------------------------------------
(* The properties of the run follow. *)

LEMMA HostFollows ==
  ASSUME HostGateInv
  PROVE  FlagsAreTrue /\ GpuStaysUsable
<1>1. CASE which = "gate"
  <2>1. G!GateInv BY <1>1 DEF HostGateInv
  <2>2. G!FlagsAreTrue /\ G!SignerReady /\ G!OneKernel /\ G!NeverStuck BY <2>1, G!GateFollows
  <2>. QED BY <2>2, SameGateProperties DEF FlagsAreTrue, GpuStaysUsable
<1>2. CASE which # "gate" BY <1>2 DEF FlagsAreTrue, GpuStaysUsable
<1>. QED BY <1>1, <1>2

\* The ABI's flags say what runs, and no kernel runs beside a P-256 key whose
\* load was answered OK with a table its signer reads missing on the device,
\* whatever loads and uploads failed.
THEOREM FlagsStayTrue == Spec => []FlagsAreTrue
<1>1. HostGateInv => FlagsAreTrue BY HostFollows
<1>. QED BY <1>1, HostGateInvariant, PTL

\* One persistent kernel holds the GPU and no upload waits behind it.
THEOREM GpuAlwaysUsable == Spec => []GpuStaysUsable
<1>1. HostGateInv => GpuStaysUsable BY HostFollows
<1>. QED BY <1>1, HostGateInvariant, PTL

\* A call that fails moves no flag that later calls are checked against, and
\* touches a key slot or a table only if a copy to the device went wrong, and
\* then one of them: with rotation, reloads, kernels that do not stop and the
\* Python entry points beside it.
THEOREM RefusalsStayClean == Spec => RefusalIsClean
<1>1. HostGateInv /\ [Next]_all => [which = "ways" => Gates!CleanRefusal]_all
  <2>. SUFFICES ASSUME HostGateInv, Next, which = "ways" PROVE Gates!CleanRefusal
    OBVIOUS
  <2>1. W!GateTypes /\ W!GateNext BY HostSteps DEF HostGateInv
  <2>. QED BY <2>1, W!CleanNext, SameCleanRefusal
<1>. QED BY <1>1, HostGateInvariant, PTL DEF Spec, RefusalIsClean
-----------------------------------------------------------------------------
(* The post-quantum queues, in the behaviours "pq" *)

P == INSTANCE PqQueuesProofs WITH
       Modes <- {0}, KeySlots <- {0, 1}, BatchMax <- 3, SigSlots <- 8,
       Calls <- PqCalls, MaxCalls <- 2, MaxLoads <- 2, MaxRing <- 1

\* The instance makes calls as the theorems ask, of two messages at most.
LEMMA PqCallsFit == P!PqAssumption /\ \A c \in PqCalls : Len(c.msgs) <= 2
<1>. DEFINE Fits(c) ==
       /\ c \in [kind : {"batch", "one", "slh"}, msgs : Seq(BOOLEAN), det : BOOLEAN]
       /\ c.det => c.kind = "batch"
       /\ c.kind = "one" => Len(c.msgs) = 1
       /\ Len(c.msgs) <= 2
<1>1. ASSUME NEW a \in BOOLEAN, NEW b \in BOOLEAN
      PROVE  /\ <<a>> \in Seq(BOOLEAN) /\ Len(<<a>>) = 1
             /\ <<a, b>> \in Seq(BOOLEAN) /\ Len(<<a, b>>) = 2
  OBVIOUS
<1>2. ASSUME NEW a \in BOOLEAN, NEW b \in BOOLEAN, NEW d \in BOOLEAN
      PROVE  /\ Fits(Msgs("slh", <<a, b>>, FALSE))
             /\ Fits(Msgs("batch", <<a, b>>, d))
             /\ Fits(Msgs("one", <<a>>, FALSE))
  <2>1. /\ <<a>> \in Seq(BOOLEAN) /\ Len(<<a>>) = 1
        /\ <<a, b>> \in Seq(BOOLEAN) /\ Len(<<a, b>>) = 2
    BY <1>1
  <2>2. Fits(Msgs("slh", <<a, b>>, FALSE)) BY <2>1 DEF Msgs
  <2>3. Fits(Msgs("batch", <<a, b>>, d)) BY <2>1 DEF Msgs
  <2>4. Fits(Msgs("one", <<a>>, FALSE)) BY <2>1 DEF Msgs
  <2>. QED BY <2>2, <2>3, <2>4
<1>. HIDE DEF Fits
<1>3. \A c \in PqCalls : Fits(c)
  <2>1. Fits(Msgs("slh", <<TRUE, TRUE>>, FALSE)) /\ Fits(Msgs("slh", <<TRUE, FALSE>>, FALSE))
    BY <1>2
  <2>2. Fits(Msgs("batch", <<TRUE, TRUE>>, FALSE)) /\ Fits(Msgs("batch", <<FALSE, TRUE>>, TRUE))
    BY <1>2
  <2>3. Fits(Msgs("one", <<TRUE>>, FALSE)) BY <1>2
  <2>. QED BY <2>1, <2>2, <2>3, Zenon DEF PqCalls
<1>. QED BY <1>3 DEF Fits, P!PqAssumption, P!ClientCalls

LEMMA SamePqInit == P!Init <=> Pq!Init
  BY DEF P!Init, P!Algs, P!NoSig, P!NoJob, P!NoCall, Pq!Init, Pq!Algs, Pq!NoSig, Pq!NoJob,
     Pq!NoCall

LEMMA SamePqNext == P!Next <=> Pq!Next
<1>1. P!ClientStop <=> Pq!ClientStop
  BY DEF P!ClientStop, P!Quiet, P!HostFree, Pq!ClientStop, Pq!Quiet, Pq!HostFree
<1>2. P!ClientStart <=> Pq!ClientStart
  BY DEF P!ClientStart, P!Quiet, P!HostFree, Pq!ClientStart, Pq!Quiet, Pq!HostFree
<1>3. P!RingSubmit <=> Pq!RingSubmit
  BY DEF P!RingSubmit, Pq!RingSubmit
<1>4. P!KernelAnswer <=> Pq!KernelAnswer
  BY DEF P!KernelAnswer, P!Response, Pq!KernelAnswer, Pq!Response
<1>5. P!ClientPoll <=> Pq!ClientPoll
  BY DEF P!ClientPoll, P!Quiet, P!HostFree, Pq!ClientPoll, Pq!Quiet, Pq!HostFree
<1>6. ASSUME NEW s, NEW m, NEW ok, NEW up
      PROVE  P!LoadMldsaKey(s, m, ok, up) <=> Pq!LoadMldsaKey(s, m, ok, up)
  BY DEF P!LoadMldsaKey, P!Restarted, P!Quiet, P!HostFree, Pq!LoadMldsaKey, Pq!Restarted,
     Pq!Quiet, Pq!HostFree
<1>7. ASSUME NEW s, NEW ok PROVE P!LoadSlhKey(s, ok) <=> Pq!LoadSlhKey(s, ok)
  BY DEF P!LoadSlhKey, P!Quiet, P!HostFree, Pq!LoadSlhKey, Pq!Quiet, Pq!HostFree
<1>8. ASSUME NEW s PROVE P!CorruptMirror(s) <=> Pq!CorruptMirror(s)
  BY DEF P!CorruptMirror, P!Quiet, P!HostFree, Pq!CorruptMirror, Pq!Quiet, Pq!HostFree
<1>9. P!Enqueue <=> Pq!Enqueue
  BY DEF P!Enqueue, P!NoJob, Pq!Enqueue, Pq!NoJob
<1>10. P!FlushRefuse <=> Pq!FlushRefuse
  BY DEF P!FlushRefuse, P!FlushDone, P!Signable, P!NoJob, P!KeyReady, Pq!FlushRefuse,
     Pq!FlushDone, Pq!Signable, Pq!NoJob, Pq!KeyReady
<1>11. P!FlushStop <=> Pq!FlushStop
  BY DEF P!FlushStop, P!Signable, P!KeyReady, Pq!FlushStop, Pq!Signable, Pq!KeyReady
<1>12. P!SignMldsa <=> Pq!SignMldsa
  BY DEF P!SignMldsa, Pq!SignMldsa
<1>13. P!SignSlh <=> Pq!SignSlh
  BY DEF P!SignSlh, P!WithSignatures, P!SlhLanes, P!Signature, Pq!SignSlh,
     Pq!WithSignatures, Pq!SlhLanes, Pq!Signature
<1>14. P!FlushRestart <=> Pq!FlushRestart
  BY DEF P!FlushRestart, P!Restarted, P!RestartsKernel, Pq!FlushRestart, Pq!Restarted,
     Pq!RestartsKernel
<1>15. P!FlushPost <=> Pq!FlushPost
  BY DEF P!FlushPost, P!FlushDone, P!Deterministic, P!WithSignatures, P!Responses,
     P!Successes, P!NoJob, P!Signature, P!Response, P!FailStatus, P!Cardinality,
     Pq!FlushPost, Pq!FlushDone, Pq!Deterministic, Pq!WithSignatures, Pq!Responses,
     Pq!Successes, Pq!NoJob, Pq!Signature, Pq!Response, Pq!FailStatus, Pq!Cardinality
<1>16. P!FlushFails <=> Pq!FlushFails
  BY DEF P!FlushFails, P!FlushDone, P!NoJob, Pq!FlushFails, Pq!FlushDone, Pq!NoJob
<1>17. ASSUME NEW c, NEW m, NEW s PROVE P!CallBegin(c, m, s) <=> Pq!CallBegin(c, m, s)
  BY DEF P!CallBegin, P!NoSig, P!NoCall, P!Quiet, P!HostFree, Pq!CallBegin, Pq!NoSig,
     Pq!NoCall, Pq!Quiet, Pq!HostFree
<1>18. P!CallSubmit <=> Pq!CallSubmit
  BY DEF P!CallSubmit, P!AlgOf, P!Submit, P!InCall, P!Msgs, P!NoJob, P!SameBatch,
     P!StartFlush, P!HostFree, Pq!CallSubmit, Pq!AlgOf, Pq!Submit, Pq!InCall, Pq!Msgs,
     Pq!NoJob, Pq!SameBatch, Pq!StartFlush, Pq!HostFree
<1>19. P!CallStopped <=> Pq!CallStopped
  BY DEF P!CallStopped, P!NoCall, P!InCall, P!Msgs, P!HostFree, Pq!CallStopped, Pq!NoCall,
     Pq!InCall, Pq!Msgs, Pq!HostFree
<1>20. P!CallSkip <=> Pq!CallSkip
  BY DEF P!CallSkip, P!AlgOf, P!NoCall, P!InCall, P!Msgs, P!HostFree, Pq!CallSkip, Pq!AlgOf,
     Pq!NoCall, Pq!InCall, Pq!Msgs, Pq!HostFree
<1>21. P!CallRefused <=> Pq!CallRefused
  BY DEF P!CallRefused, P!AlgOf, P!NoCall, P!InCall, P!Msgs, P!HostFree, Pq!CallRefused,
     Pq!AlgOf, Pq!NoCall, Pq!InCall, Pq!Msgs, Pq!HostFree
<1>22. P!CallFlush <=> Pq!CallFlush
  BY DEF P!CallFlush, P!AlgOf, P!StartFlush, P!InCall, P!Msgs, P!NoJob, P!HostFree,
     Pq!CallFlush, Pq!AlgOf, Pq!StartFlush, Pq!InCall, Pq!Msgs, Pq!NoJob, Pq!HostFree
<1>23. P!CallPoll <=> Pq!CallPoll
  BY DEF P!CallPoll, P!InCall, P!Destination, P!MldsaDestination, P!MorePolls, P!Pointed,
     P!HostFree, P!Msgs, P!NoSig, Pq!CallPoll, Pq!InCall, Pq!Destination,
     Pq!MldsaDestination, Pq!MorePolls, Pq!Pointed, Pq!HostFree, Pq!Msgs, Pq!NoSig
<1>24. P!CallReturn <=> Pq!CallReturn
  BY DEF P!CallReturn, P!InCall, P!MorePolls, P!Returned, P!HostFree, P!Msgs, P!NoSig,
     Pq!CallReturn, Pq!InCall, Pq!MorePolls, Pq!Returned, Pq!HostFree, Pq!Msgs, Pq!NoSig
<1>25. P!CallEnd <=> Pq!CallEnd
  BY DEF P!CallEnd, P!NoCall, Pq!CallEnd, Pq!NoCall
<1>. QED
  BY <1>1, <1>2, <1>3, <1>4, <1>5, <1>6, <1>7, <1>8, <1>9, <1>10, <1>11, <1>12, <1>13,
     <1>14, <1>15, <1>16, <1>17, <1>18, <1>19, <1>20, <1>21, <1>22, <1>23, <1>24, <1>25
  DEF P!Next, Pq!Next

LEMMA SamePqProperties ==
  /\ P!SlhRouted <=> Pq!SlhRouted
  /\ P!PostedIsOwn <=> Pq!PostedIsOwn
  /\ P!RunningAsWanted <=> Pq!RunningAsWanted
  /\ P!DeterministicKept <=> Pq!DeterministicKept
  BY DEF P!SlhRouted, P!PostedIsOwn, P!RunningAsWanted, P!DeterministicKept, P!Msgs,
     Pq!SlhRouted, Pq!PostedIsOwn, Pq!RunningAsWanted, Pq!DeterministicKept, Pq!Msgs
\* The queues' invariant; and two calls of two messages stay in the first lap
\* of eight slots, where every answer points at its own signature.
HostPqInv == which = "pq" => P!HostInv /\ P!LapInv /\ P!CountInv(2)

LEMMA HostPqInit ==
  ASSUME Init
  PROVE  HostPqInv
<1>. SUFFICES ASSUME which = "pq" PROVE P!HostInv /\ P!LapInv /\ P!CountInv(2)
  BY DEF HostPqInv
<1>1. P!Init BY SamePqInit DEF Init, Starts
<1>2. P!HostInv /\ P!LapInv BY <1>1, PqCallsFit, P!HostInit
<1>3. calls = 0 /\ nextSlot = 0 /\ call.at = "none" BY <1>1 DEF P!Init, P!NoCall
<1>4. P!Left = 0 BY <1>3 DEF P!Left
<1>5. P!CountInv(2) BY <1>3, <1>4 DEF P!CountInv
<1>. QED BY <1>2, <1>5

LEMMA HostPqNext ==
  ASSUME HostPqInv, [Next]_all
  PROVE  HostPqInv'
<1>1. which' = which BY DEF Next, StayOff, all
<1>. SUFFICES ASSUME which = "pq" PROVE P!HostInv' /\ P!LapInv' /\ P!CountInv(2)'
  BY <1>1 DEF HostPqInv
<1>2. P!HostInv /\ P!LapInv /\ P!CountInv(2) BY DEF HostPqInv
<1>3. CASE Next
  <2>1. P!Next BY <1>3, SamePqNext DEF Next
  <2>2. P!HostInv' BY <1>2, <2>1, PqCallsFit, P!HostNext
  <2>3. P!LapInv' BY <1>2, <2>1, PqCallsFit, P!LapNext DEF P!HostInv
  <2>4. P!CountInv(2)' BY <1>2, <2>1, PqCallsFit, P!CountNext DEF P!HostInv
  <2>. QED BY <2>2, <2>3, <2>4
<1>4. CASE UNCHANGED all
  <2>1. UNCHANGED P!vars BY <1>4 DEF all, pqOnly, P!vars
  <2>2. P!HostInv' BY <1>2, <2>1, PqCallsFit, P!HostNext
  <2>. QED BY <1>2, <2>1, <2>2, P!SlotsStutter
<1>. QED BY <1>3, <1>4

\* The queues keep their inductive invariant in the behaviours that are theirs.
THEOREM HostPqInvariant == Spec => []HostPqInv
<1>1. Init => HostPqInv BY HostPqInit
<1>2. HostPqInv /\ [Next]_all => HostPqInv' BY HostPqNext
<1>. QED BY <1>1, <1>2, PTL DEF Spec

LEMMA PqFollows ==
  ASSUME HostPqInv
  PROVE  PqAnswersAreOwn /\ RunningAsWanted /\ DeterministicKept
<1>1. CASE which = "pq"
  <2>1. P!HostInv /\ P!LapInv /\ P!CountInv(2) BY <1>1 DEF HostPqInv
  <2>2. P!SlhRouted /\ P!RunningAsWanted /\ P!DeterministicKept
    BY <2>1, P!HostFollows
  <2>3. nextSlot <= 8
    <3>1. nextSlot \in Nat /\ P!Left \in Nat BY <2>1, PqCallsFit, P!LeftNat DEF P!HostInv, P!TypeInv
    <3>. QED BY <2>1, <3>1 DEF P!CountInv
  <2>4. P!PostedIsOwn BY <2>1, <2>3 DEF P!LapInv, P!FirstLap, P!SlotInv
  <2>. QED
    BY <2>2, <2>4, SamePqProperties DEF PqAnswersAreOwn, RunningAsWanted, DeterministicKept
<1>2. CASE which # "pq" BY <1>2 DEF PqAnswersAreOwn, RunningAsWanted, DeterministicKept
<1>. QED BY <1>1, <1>2

\* An SLH-DSA call gets its own signatures out of a CQ it shares, and every
\* successful response points at its own signature.
THEOREM PqAnswersStayOwn == Spec => []PqAnswersAreOwn
<1>1. HostPqInv => PqAnswersAreOwn BY PqFollows
<1>. QED BY <1>1, HostPqInvariant, PTL

\* A dispatch that fails on its way leaves the kernel as the client wants it:
\* only a restart that itself fails leaves it stopped.
THEOREM KernelAlwaysRestarted == Spec => []RunningAsWanted
<1>1. HostPqInv => RunningAsWanted BY PqFollows
<1>. QED BY <1>1, HostPqInvariant, PTL

\* A deterministic call gets deterministic signatures.
THEOREM DeterministicStays == Spec => []DeterministicKept
<1>1. HostPqInv => DeterministicKept BY PqFollows
<1>. QED BY <1>1, HostPqInvariant, PTL
-----------------------------------------------------------------------------
(* The single queue, in the behaviours "leg" *)

\* The instance has the one client the theorems ask for.
LEMMA LegOneClient == G!OneClient
<1>1. Tuning1 \in [1 .. 4 -> Int] /\ Tuning2 \in [1 .. 4 -> Int] BY DEF Tuning1, Tuning2
<1>. QED BY <1>1 DEF G!OneClient

LEMMA SameLegInit == G!Init <=> Leg!Init
  BY DEF G!Init, G!Slots, G!NoReq, G!NoBatch, G!Idle, Leg!Init, Leg!Slots, Leg!NoReq,
     Leg!NoBatch, Leg!Idle

LEMMA SameLegNext == G!Next <=> Leg!Next
<1>1. G!KernelTake <=> Leg!KernelTake
  BY DEF G!KernelTake, G!host, G!device, G!NoBatch, G!MicroBatch, G!Available,
     Leg!KernelTake, Leg!host, Leg!device, Leg!NoBatch, Leg!MicroBatch, Leg!Available
<1>2. G!KernelAnswer <=> Leg!KernelAnswer
  BY DEF G!KernelAnswer, G!host, G!SlotOf, Leg!KernelAnswer, Leg!host, Leg!SlotOf
<1>3. G!KernelAdvance <=> Leg!KernelAdvance
  BY DEF G!KernelAdvance, G!host, G!NoBatch, G!Plus, Leg!KernelAdvance, Leg!host,
     Leg!NoBatch, Leg!Plus
<1>4. G!KernelExit <=> Leg!KernelExit
  BY DEF G!KernelExit, G!host, G!device, G!NoBatch, Leg!KernelExit, Leg!host, Leg!device,
     Leg!NoBatch
<1>5. G!Start <=> Leg!Start
  BY DEF G!Start, G!NoBatch, G!BlankQueue, G!Slots, G!NoReq, Leg!Start, Leg!NoBatch,
     Leg!BlankQueue, Leg!Slots, Leg!NoReq
<1>6. G!ShutdownBegin <=> Leg!ShutdownBegin
  BY DEF G!ShutdownBegin, G!host, Leg!ShutdownBegin, Leg!host
<1>7. G!ShutdownEnd <=> Leg!ShutdownEnd
  BY DEF G!ShutdownEnd, G!device, Leg!ShutdownEnd, Leg!device
<1>8. ASSUME NEW t PROVE G!SetTuning(t) <=> Leg!SetTuning(t)
  BY DEF G!SetTuning, G!host, Leg!SetTuning, Leg!host
<1>9. ASSUME NEW c, NEW n PROVE G!SubmitCopy(c, n) <=> Leg!SubmitCopy(c, n)
  BY DEF G!SubmitCopy, G!Slots, G!Idle, G!SlotOf, G!Plus, G!Ids, Leg!SubmitCopy, Leg!Slots,
     Leg!Idle, Leg!SlotOf, Leg!Plus, Leg!Ids
<1>10. ASSUME NEW c PROVE G!SubmitHead(c) <=> Leg!SubmitHead(c)
  BY DEF G!SubmitHead, G!host, G!NewHead, G!Plus, Leg!SubmitHead, Leg!host, Leg!NewHead,
     Leg!Plus
<1>11. ASSUME NEW c PROVE G!SubmitDone(c) <=> Leg!SubmitDone(c)
  BY DEF G!SubmitDone, G!device, G!NewHead, G!Plus, Leg!SubmitDone, Leg!device, Leg!NewHead,
     Leg!Plus
<1>12. ASSUME NEW c PROVE G!PollFlags(c) <=> Leg!PollFlags(c)
  BY DEF G!PollFlags, G!host, G!device, G!Ids2Slots, G!SlotOf, Leg!PollFlags, Leg!host,
     Leg!device, Leg!Ids2Slots, Leg!SlotOf
<1>13. ASSUME NEW c PROVE G!PollFetch(c) <=> Leg!PollFetch(c)
  BY DEF G!PollFetch, G!host, G!Fetched, G!ClearReady, G!SlotOf, G!Answered, G!Slots,
     Leg!PollFetch, Leg!host, Leg!Fetched, Leg!ClearReady, Leg!SlotOf, Leg!Answered,
     Leg!Slots
<1>14. ASSUME NEW c PROVE G!Return(c) <=> Leg!Return(c)
  BY DEF G!Return, G!host, G!device, G!Idle, Leg!Return, Leg!host, Leg!device, Leg!Idle
<1>15. ASSUME NEW c PROVE G!GiveUp(c) <=> Leg!GiveUp(c)
  BY DEF G!GiveUp, G!host, G!device, G!Idle, Leg!GiveUp, Leg!host, Leg!device, Leg!Idle
<1>. QED
  BY <1>1, <1>2, <1>3, <1>4, <1>5, <1>6, <1>7, <1>8, <1>9, <1>10, <1>11, <1>12, <1>13,
     <1>14, <1>15
  DEF G!Next, G!Engine, G!Submit, G!Poll, Leg!Next, Leg!Engine, Leg!Submit, Leg!Poll

LEMMA SameLegProperties ==
  /\ G!ResponseIsForId <=> Leg!ResponseIsForId
  /\ G!QueueInStep <=> Leg!QueueInStep
  /\ G!NothingForgotten <=> Leg!NothingForgotten
  BY DEF G!ResponseIsForId, G!QueueInStep, G!NothingForgotten, G!SlotOf, G!Answered,
     Leg!ResponseIsForId, Leg!QueueInStep, Leg!NothingForgotten, Leg!SlotOf, Leg!Answered

\* The queue's invariant.
HostLegInv == which = "leg" => G!LegacyInvariant

LEMMA HostLegNext ==
  ASSUME HostLegInv, [Next]_all
  PROVE  HostLegInv'
<1>1. which' = which BY DEF Next, StayOff, all
<1>. SUFFICES ASSUME which = "leg" PROVE G!LegacyInvariant'
  BY <1>1 DEF HostLegInv
<1>2. G!LegacyInvariant BY DEF HostLegInv
<1>3. CASE Next
  <2>1. G!Next BY <1>3, SameLegNext DEF Next
  <2>2. giveUps = 0 BY <1>2 DEF G!LegacyInvariant, G!LegacyTypes
  <2>3. giveUps' = 0 BY <2>1, <2>2, G!NoneGivesUp
  <2>. QED BY <1>2, <2>1, <2>3, LegOneClient, G!LegacyNext
<1>4. CASE UNCHANGED all
  <2>1. UNCHANGED G!vars BY <1>4 DEF all, legacyOnly, G!vars, G!host, G!device
  <2>. QED BY <1>2, <2>1, LegOneClient, G!LegacyStutters
<1>. QED BY <1>3, <1>4

\* The single queue keeps its inductive invariant in the behaviours that are its
\* own.
THEOREM HostLegInvariant == Spec => []HostLegInv
<1>1. Init => HostLegInv
  <2>1. Init /\ which = "leg" => G!Init BY SameLegInit DEF Init, Starts
  <2>. QED BY <2>1, LegOneClient, G!LegacyInit DEF HostLegInv
<1>2. HostLegInv /\ [Next]_all => HostLegInv' BY HostLegNext
<1>. QED BY <1>1, <1>2, PTL DEF Spec

\* A poll returns the response of the id it asked for, the kernel signs no slot
\* but that of the next request, and no accepted request is forgotten.
THEOREM LegacyAnswersStay == Spec => []LegacyAnswers
<1>1. HostLegInv => LegacyAnswers
  <2>. SUFFICES ASSUME which = "leg", HostLegInv
                PROVE  Leg!ResponseIsForId /\ Leg!QueueInStep /\ Leg!NothingForgotten
    BY DEF LegacyAnswers
  <2>1. G!LegacyInvariant BY DEF HostLegInv
  <2>. QED BY <2>1, LegOneClient, G!LegacyAnswer, SameLegProperties
<1>. QED BY <1>1, HostLegInvariant, PTL
-----------------------------------------------------------------------------
(* The bridge, in the behaviours "br" *)

\* The instance has the one worker the theorems ask for.
LEMMA BrOneWorker == W!OneWorker
<1>1. Tuning1 \in [1 .. 4 -> Int] BY DEF Tuning1
<1>2. W!OneClient BY <1>1 DEF W!OneClient
<1>. QED BY <1>2 DEF W!OneWorker, W!W

LEMMA SameBridgeInit == W!BridgeInit <=> Br!BridgeInit
  BY DEF W!BridgeInit, W!Init, W!Gone, W!NoReplies, W!Slots, W!NoReq, W!NoBatch, W!Idle,
     W!NoReply, W!Nothing, Br!BridgeInit, Br!Init, Br!Gone, Br!NoReplies, Br!Slots,
     Br!NoReq, Br!NoBatch, Br!Idle, Br!NoReply, Br!Nothing

\* The engine under the bridge.
LEMMA SameBridgeEngine ==
  /\ W!KernelTake <=> Br!KernelTake
  /\ W!KernelAnswer <=> Br!KernelAnswer
  /\ W!KernelAdvance <=> Br!KernelAdvance
  /\ W!KernelExit <=> Br!KernelExit
  /\ W!Start <=> Br!Start
  /\ W!ShutdownBegin <=> Br!ShutdownBegin
  /\ W!ShutdownEnd <=> Br!ShutdownEnd
  /\ \A c, n : W!SubmitCopy(c, n) <=> Br!SubmitCopy(c, n)
  /\ \A c : W!SubmitHead(c) <=> Br!SubmitHead(c)
  /\ \A c : W!SubmitDone(c) <=> Br!SubmitDone(c)
  /\ \A c : W!PollFlags(c) <=> Br!PollFlags(c)
  /\ \A c : W!PollFetch(c) <=> Br!PollFetch(c)
  /\ \A c : W!Return(c) <=> Br!Return(c)
  /\ \A c : W!GiveUp(c) <=> Br!GiveUp(c)
<1>1. W!KernelTake <=> Br!KernelTake
  BY DEF W!KernelTake, W!host, W!device, W!NoBatch, W!MicroBatch, W!Available,
     Br!KernelTake, Br!host, Br!device, Br!NoBatch, Br!MicroBatch, Br!Available
<1>2. W!KernelAnswer <=> Br!KernelAnswer
  BY DEF W!KernelAnswer, W!host, W!SlotOf, Br!KernelAnswer, Br!host, Br!SlotOf
<1>3. W!KernelAdvance <=> Br!KernelAdvance
  BY DEF W!KernelAdvance, W!host, W!NoBatch, W!Plus, Br!KernelAdvance, Br!host, Br!NoBatch,
     Br!Plus
<1>4. W!KernelExit <=> Br!KernelExit
  BY DEF W!KernelExit, W!host, W!device, W!NoBatch, Br!KernelExit, Br!host, Br!device,
     Br!NoBatch
<1>5. W!Start <=> Br!Start
  BY DEF W!Start, W!NoBatch, W!BlankQueue, W!Slots, W!NoReq, Br!Start, Br!NoBatch,
     Br!BlankQueue, Br!Slots, Br!NoReq
<1>6. W!ShutdownBegin <=> Br!ShutdownBegin
  BY DEF W!ShutdownBegin, W!host, Br!ShutdownBegin, Br!host
<1>7. W!ShutdownEnd <=> Br!ShutdownEnd
  BY DEF W!ShutdownEnd, W!device, Br!ShutdownEnd, Br!device
<1>8. ASSUME NEW c, NEW n PROVE W!SubmitCopy(c, n) <=> Br!SubmitCopy(c, n)
  BY DEF W!SubmitCopy, W!Slots, W!Idle, W!SlotOf, W!Plus, W!Ids, Br!SubmitCopy, Br!Slots,
     Br!Idle, Br!SlotOf, Br!Plus, Br!Ids
<1>9. ASSUME NEW c PROVE W!SubmitHead(c) <=> Br!SubmitHead(c)
  BY DEF W!SubmitHead, W!host, W!NewHead, W!Plus, Br!SubmitHead, Br!host, Br!NewHead,
     Br!Plus
<1>10. ASSUME NEW c PROVE W!SubmitDone(c) <=> Br!SubmitDone(c)
  BY DEF W!SubmitDone, W!device, W!NewHead, W!Plus, Br!SubmitDone, Br!device, Br!NewHead,
     Br!Plus
<1>11. ASSUME NEW c PROVE W!PollFlags(c) <=> Br!PollFlags(c)
  BY DEF W!PollFlags, W!host, W!device, W!Ids2Slots, W!SlotOf, Br!PollFlags, Br!host,
     Br!device, Br!Ids2Slots, Br!SlotOf
<1>12. ASSUME NEW c PROVE W!PollFetch(c) <=> Br!PollFetch(c)
  BY DEF W!PollFetch, W!host, W!Fetched, W!ClearReady, W!SlotOf, W!Answered, W!Slots,
     Br!PollFetch, Br!host, Br!Fetched, Br!ClearReady, Br!SlotOf, Br!Answered, Br!Slots
<1>13. ASSUME NEW c PROVE W!Return(c) <=> Br!Return(c)
  BY DEF W!Return, W!host, W!device, W!Idle, Br!Return, Br!host, Br!device, Br!Idle
<1>14. ASSUME NEW c PROVE W!GiveUp(c) <=> Br!GiveUp(c)
  BY DEF W!GiveUp, W!host, W!device, W!Idle, Br!GiveUp, Br!host, Br!device, Br!Idle
<1>. QED
  BY <1>1, <1>2, <1>3, <1>4, <1>5, <1>6, <1>7, <1>8, <1>9, <1>10, <1>11, <1>12, <1>13, <1>14

LEMMA SameBridgeNext == W!BridgeNext <=> Br!BridgeNext
<1>1. W!BridgeStart <=> Br!BridgeStart
  BY DEF W!BridgeStart, W!vars, W!Gone, W!BlankRegion, W!host, W!device, W!NoReplies,
     W!NoReply, W!Nothing, Br!BridgeStart, Br!vars, Br!Gone, Br!BlankRegion, Br!host,
     Br!device, Br!NoReplies, Br!NoReply, Br!Nothing
<1>2. W!BridgeStop <=> Br!BridgeStop
  BY DEF W!BridgeStop, W!vars, W!ringVars, W!host, W!device, Br!BridgeStop, Br!vars,
     Br!ringVars, Br!host, Br!device
<1>3. ASSUME NEW ok PROVE W!WorkerInit(ok) <=> Br!WorkerInit(ok)
  BY DEF W!WorkerInit, W!vars, W!ringVars, W!Gone, W!host, W!device, Br!WorkerInit, Br!vars,
     Br!ringVars, Br!Gone, Br!host, Br!device
<1>4. W!WorkerExit <=> Br!WorkerExit
  BY DEF W!WorkerExit, W!vars, W!ringVars, W!lifeVars, W!Gone, W!Leave, W!host, W!device,
     Br!WorkerExit, Br!vars, Br!ringVars, Br!lifeVars, Br!Gone, Br!Leave, Br!host, Br!device
<1>5. ASSUME NEW c, NEW op PROVE W!Ask(c, op) <=> Br!Ask(c, op)
  BY DEF W!Ask, W!vars, W!lifeVars, W!host, W!device, Br!Ask, Br!vars, Br!lifeVars, Br!host,
     Br!device
<1>6. ASSUME NEW c PROVE W!Read(c) <=> Br!Read(c)
  BY DEF W!Read, W!vars, W!lifeVars, W!RingNext, W!Visible, W!host, W!device, Br!Read,
     Br!vars, Br!lifeVars, Br!RingNext, Br!Visible, Br!host, Br!device
<1>7. W!Begin <=> Br!Begin
  BY DEF W!Begin, W!vars, W!ringVars, W!lifeVars, W!Gone, W!Leave, W!host, W!device,
     Br!Begin, Br!vars, Br!ringVars, Br!lifeVars, Br!Gone, Br!Leave, Br!host, Br!device
<1>8. ASSUME NEW c PROVE W!DrainSign(c) <=> Br!DrainSign(c)
  BY DEF W!DrainSign, W!vars, W!lifeVars, W!RespHead, W!MayDrain, W!PublishedAtDrain,
     W!host, W!device, W!RingNext, Br!DrainSign, Br!vars, Br!lifeVars, Br!RespHead,
     Br!MayDrain, Br!PublishedAtDrain, Br!host, Br!device, Br!RingNext
<1>9. ASSUME NEW c PROVE W!DrainOther(c) <=> Br!DrainOther(c)
  BY DEF W!DrainOther, W!vars, W!Nothing, W!Reply, W!RingNext, W!RespHead, W!MayDrain,
     W!host, W!device, Br!DrainOther, Br!vars, Br!Nothing, Br!Reply, Br!RingNext,
     Br!RespHead, Br!MayDrain, Br!host, Br!device
<1>10. W!DrainNext <=> Br!DrainNext
  BY DEF W!DrainNext, W!vars, W!ringVars, W!lifeVars, W!MayDrain, W!LastClient, W!host,
     W!device, W!RingNext, W!RespHead, W!Max, Br!DrainNext, Br!vars, Br!ringVars,
     Br!lifeVars, Br!MayDrain, Br!LastClient, Br!host, Br!device, Br!RingNext, Br!RespHead,
     Br!Max
<1>11. W!SubmitBatch <=> Br!SubmitBatch
  BY SameBridgeEngine DEF W!SubmitBatch, W!ringVars, W!lifeVars, W!W, Br!SubmitBatch,
     Br!ringVars, Br!lifeVars, Br!W
<1>12. W!SubmitRefused <=> Br!SubmitRefused
  BY Zenon DEF W!SubmitRefused, W!vars, W!Fault, W!host, W!device, W!Nothing, W!Reply, W!Gone,
     W!WriteSlots, W!Unanswered, W!Answered, W!W, Br!SubmitRefused, Br!vars, Br!Fault,
     Br!host, Br!device, Br!Nothing, Br!Reply, Br!Gone, Br!WriteSlots, Br!Unanswered,
     Br!Answered, Br!W
<1>13. W!PollTimeout <=> Br!PollTimeout
  BY SameBridgeEngine DEF W!PollTimeout, W!W, W!Fault, W!Nothing, W!Reply, W!Gone,
     W!WriteSlots, W!Unanswered, W!Answered, Br!PollTimeout, Br!W, Br!Fault, Br!Nothing,
     Br!Reply, Br!Gone, Br!WriteSlots, Br!Unanswered, Br!Answered
<1>14. W!PollBatch <=> Br!PollBatch
  BY SameBridgeEngine, Zenon DEF W!PollBatch, W!lifeVars, W!W, W!FanOut, W!NoReq, W!Fetched,
     W!Nothing, W!Reply, W!WriteSlots, W!SlotOf, W!Answered, Br!PollBatch, Br!lifeVars,
     Br!W, Br!FanOut, Br!NoReq, Br!Fetched, Br!Nothing, Br!Reply, Br!WriteSlots, Br!SlotOf,
     Br!Answered
<1>15. W!PublishBatch <=> Br!PublishBatch
  BY SameBridgeEngine DEF W!PublishBatch, W!lifeVars, W!W, W!NewHeads, W!RespHead,
     Br!PublishBatch, Br!lifeVars, Br!W, Br!NewHeads, Br!RespHead
<1>16. W!EngineMoves <=> Br!EngineMoves
  BY SameBridgeEngine DEF W!EngineMoves, W!Engine, W!ringVars, W!lifeVars, Br!EngineMoves,
     Br!Engine, Br!ringVars, Br!lifeVars
<1>. QED
  BY <1>1, <1>2, <1>3, <1>4, <1>5, <1>6, <1>7, <1>8, <1>9, <1>10, <1>11, <1>12, <1>13,
     <1>14, <1>15, <1>16 DEF W!BridgeNext, W!Worker, Br!BridgeNext, Br!Worker

LEMMA SameBridgeProperties ==
  /\ W!AnsweredInOrder <=> Br!AnsweredInOrder
  /\ W!NothingOwed <=> Br!NothingOwed
  BY DEF W!AnsweredInOrder, W!NothingOwed, W!Nothing, W!Visible, Br!AnsweredInOrder,
     Br!NothingOwed, Br!Nothing, Br!Visible

\* The bridge's invariant.
HostBrInv == which = "br" => W!BridgeInvariant

LEMMA HostBrNext ==
  ASSUME HostBrInv, [Next]_all
  PROVE  HostBrInv'
<1>1. which' = which BY DEF Next, StayOff, all
<1>. SUFFICES ASSUME which = "br" PROVE W!BridgeInvariant'
  BY <1>1 DEF HostBrInv
<1>2. W!BridgeInvariant BY DEF HostBrInv
<1>3. CASE Next
  <2>1. W!BridgeNext BY <1>3, SameBridgeNext DEF Next
  <2>. QED BY <1>2, <2>1, BrOneWorker, W!BridgeNextInv
<1>4. CASE UNCHANGED all
  <2>1. UNCHANGED W!bvars
    BY <1>4 DEF all, legacyOnly, bridgeOnly, W!bvars, W!vars, W!host, W!device, W!lifeVars,
                W!ringVars
  <2>. QED BY <1>2, <2>1, W!BridgeStutter
<1>. QED BY <1>3, <1>4

\* The bridge keeps its inductive invariant, and the queue under it, in the
\* behaviours that are its own.
THEOREM HostBrInvariant == Spec => []HostBrInv
<1>1. Init => HostBrInv
  <2>1. Init /\ which = "br" => W!BridgeInit BY SameBridgeInit DEF Init, Starts
  <2>. QED BY <2>1, BrOneWorker, W!BridgeInitInv DEF HostBrInv
<1>2. HostBrInv /\ [Next]_all => HostBrInv' BY HostBrNext
<1>. QED BY <1>1, <1>2, PTL DEF Spec

\* The bridge's clients read their answers in the order they asked, each its
\* own, and between two batches nothing is owed to a client.
THEOREM BridgeAnswersStay == Spec => []BridgeAnswers
<1>1. HostBrInv => BridgeAnswers
  <2>. SUFFICES ASSUME which = "br", HostBrInv
                PROVE  Br!AnsweredInOrder /\ Br!NothingOwed
    BY DEF BridgeAnswers
  <2>1. W!BridgeInvariant BY DEF HostBrInv
  <2>. QED BY <2>1, BrOneWorker, W!BridgeAnswer, SameBridgeProperties
<1>. QED BY <1>1, HostBrInvariant, PTL
=============================================================================

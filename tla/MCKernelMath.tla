--------------------------- MODULE MCKernelMath ---------------------------
(* The computations of the kernels, a job each.                              *)
EXTENDS MCP256, MCRsa, MCMldsa, MCPrimitives

Init == /\ job \in RsaJobs \cup MontJobs \cup PowerJobs \cup ReduceJobs
                    \cup FieldJobs \cup WarpJobs \cup SignJobs \cup BatchJobs \cup NonceJobs
                    \cup LatticeJobs \cup NttJobs \cup ZJobs \cup HintJobs \cup DrawJobs
                    \cup HashJobs \cup TreeJobs \cup SealJobs \cup MacJobs \cup ChangeJobs
        /\ out = NotRun

Field == Ran("field") /\ Result(RunField(job.a, job.b))
Warp  == Ran("warp") /\ Result(RunWarp(job.a, job.b, job.x))
Sign  == Ran("sign") /\ Result(RunSign(job))
Batch == Ran("batch") /\ Result(RunBatch(job))
Nonce == Ran("nonce") /\ Result(RunNonce(job.drawn))
Rsa   == Ran("rsa") /\ \E sigs \in {RunRsa(job)} : Result(Recovered(sigs, job, Products[job.key]))
Mont  == Ran("mont") /\ Result(RunMont(job))
Power == Ran("power") /\ Result(RunPower(job))
Reduce == Ran("reduce") /\ Result(RunReduce(job))
Mldsa == Ran("mldsa") /\ Result(RunMldsa(job))
Ntt   == Ran("ntt") /\ Result(RunNtt(job.p, job.q))
Pack  == Ran("pack") /\ Result(RunPack(job.z))
Hint  == Ran("hint") /\ Result(RunHint(job.ones))
Draw  == Ran("draw") /\ Result(RunDraw(job.bytes))
Hash  == Ran("hash") /\ Result(RunHash(job.family, job.n))
Tree  == Ran("tree") /\ Result(RunTree(job.xs, job.ys))
Seal  == Ran("seal") /\ \E slab \in {SealSlab(job.cipher, Message(job.n))} :
           Result(SealAndOpen(job.cipher, Message(job.n), slab))
Mac   == Ran("mac") /\ Result(RunMac(job.r, job.s, job.m))
Change == Ran("change") /\ \E sealed \in {Sealed(SealShort(job.cipher, Message(job.n)))} :
            \E input \in {Changed(Iv \o sealed, job.byte)} : Result(OpenBoth(job.cipher, input))
Next == Field \/ Warp \/ Sign \/ Batch \/ Nonce
          \/ Rsa \/ Mont \/ Power \/ Reduce \/ Mldsa \/ Ntt \/ Pack \/ Hint \/ Draw
          \/ Hash \/ Tree \/ Seal \/ Mac \/ Change
Spec == Init /\ [][Next]_vars

\* Signatures of both families, single or of a batch, are each request's own and
\* good, with the exceptions the parts name.
SignaturesVerify == EcdsaVerifies /\ BatchRight /\ RsaVerifies
=============================================================================

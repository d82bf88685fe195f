----------------------------- MODULE MCJobs -------------------------------
(* A computation of the kernels as a behaviour of one step: a job is chosen, *)
(* and out becomes what the code computes for it.                            *)
LOCAL INSTANCE TLC
VARIABLES job, out
vars == <<job, out>>
NotRun == [done |-> FALSE]
Done(kind) == job.kind = kind /\ out.done
Ran(kind) == job.kind = kind /\ ~out.done /\ UNCHANGED job
Result(r) == out' = [done |-> TRUE] @@ r
=============================================================================

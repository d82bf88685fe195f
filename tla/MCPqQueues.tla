------------------------------ MODULE MCPqQueues ------------------------------
(* The post-quantum queues with one call of smoke_mldsa_sign_batch.           *)
EXTENDS PqQueues

BatchCalls == {[kind |-> "batch", msgs |-> <<TRUE, TRUE>>, det |-> FALSE]}
===============================================================================

---------------------------- MODULE MCOutputSlab ----------------------------
(* One shard of the output slab, with single signatures among the digests.  *)
EXTENDS OutputSlab

NoCapacity == {}
SignAfter  == {[kinds |-> {"sign", "digests"}, reorder |-> FALSE]}
=============================================================================

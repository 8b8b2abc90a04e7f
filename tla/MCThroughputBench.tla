------------------------- MODULE MCThroughputBench -------------------------
(* Sizes for the runs of ThroughputBench. *)
EXTENDS ThroughputBench
=============================================================================

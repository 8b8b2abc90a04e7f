------------------------ MODULE MCNonBlockingConnect ------------------------
(* Bounds for the runs of NonBlockingConnect. *)
EXTENDS NonBlockingConnect
=============================================================================

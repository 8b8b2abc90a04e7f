----------------------------- MODULE MCDtlsEval -----------------------------
(***************************************************************************)
(* The instance of DtlsEval that is checked: two iterations, so that one    *)
(* may get into the capture of the other; the six flights of DTLS 1.2, and  *)
(* one time-out in all, at whichever end and flight of either connection.   *)
(***************************************************************************)
EXTENDS DtlsEval
=============================================================================

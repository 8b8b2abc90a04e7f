---------------------------- MODULE MCMacsecEval ----------------------------
(***************************************************************************)
(* The instance of MacsecEval that is checked: three iterations, so that a   *)
(* loss can follow a loss, and exchanges of two packets.                    *)
(***************************************************************************)
EXTENDS MacsecEval
=============================================================================

----------------------------- MODULE MCStartTls -----------------------------
(***************************************************************************)
(* The instance of StartTls that is checked: see the cfg.                   *)
(***************************************************************************)
EXTENDS StartTls
=============================================================================

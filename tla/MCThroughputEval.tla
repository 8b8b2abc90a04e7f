-------------------------- MODULE MCThroughputEval --------------------------
(***************************************************************************)
(* The instance of ThroughputEval that is checked: none_eval, tls_eval and  *)
(* none_eval again.                                                         *)
(***************************************************************************)
EXTENDS ThroughputEval

MCRates == <<100, 200, 300>>
MCProtocols == <<"plain", "tls", "plain">>
=============================================================================

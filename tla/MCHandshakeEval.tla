-------------------------- MODULE MCHandshakeEval --------------------------
(* Sizes for the runs of HandshakeEval. *)
EXTENDS HandshakeEval

\* two runs of the script: the server of the first may outlive it, and then
\* has connections left to serve
TwoThenOne == <<2, 1>>
=============================================================================

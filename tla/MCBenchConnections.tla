------------------------- MODULE MCBenchConnections -------------------------
(* The build the runs of BenchConnections look at. *)
EXTENDS BenchConnections

FullBuild == {"TLS13", "CURVE25519", "SESSION_CACHE", "SESSION_TICKET"}
=============================================================================

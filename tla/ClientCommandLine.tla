------------------------ MODULE ClientCommandLine ------------------------
(***************************************************************************)
(* What the option loop of client_test hands to the rest of it: the         *)
(* variables the other sections look at, and the combinations of them that  *)
(* a build can produce.  ClientOptions guarantees it, ClientSession starts  *)
(* from it.                                                                 *)
(***************************************************************************)
EXTENDS Integers

OptionType ==
    [mode : {"session", "benchmark", "throughput"}, version : {3, 4},
     externalTest : BOOLEAN, doSTARTTLS : BOOLEAN, nonBlocking : BOOLEAN,
     resumeSession : BOOLEAN, useX25519 : BOOLEAN, helloRetry : BOOLEAN,
     onlyKeyShare : 0..2, earlyData : BOOLEAN, usePsk : BOOLEAN,
     dtlsUDP : BOOLEAN, forceScr : BOOLEAN, sendGET : BOOLEAN,
     postHandAuth : BOOLEAN]

\* getopt sets an option only in a build that has the feature behind it
AcceptedBy(build, o) ==
    /\ o.version = 4 => "TLS13" \in build /\ ~o.dtlsUDP
    /\ o.helloRetry => "TLS13" \in build
    /\ o.onlyKeyShare = 1 => {"TLS13", "DH"} \subseteq build
    /\ o.onlyKeyShare = 2 => {"TLS13", "ECC"} \subseteq build
    /\ o.useX25519 => "CURVE25519" \in build
                      /\ ({"TLS13", "ECC"} \subseteq build => o.onlyKeyShare # 0)
    /\ o.earlyData => "EARLY_DATA" \in build
    /\ o.forceScr => "SECURE_RENEGOTIATION" \in build
    /\ o.postHandAuth => {"TLS13", "POST_HANDSHAKE_AUTH"} \subseteq build
=============================================================================

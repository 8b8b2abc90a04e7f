-------------------------- MODULE MCClientSession --------------------------
(***************************************************************************)
(* Builds and command lines for the runs of ClientSession.                  *)
(***************************************************************************)
EXTENDS ClientSession

\* `client -h host`: every option at the value client_test gives it
Plain ==
    [mode |-> "session", version |-> 3, externalTest |-> FALSE,
     doSTARTTLS |-> FALSE, nonBlocking |-> FALSE, resumeSession |-> FALSE,
     useX25519 |-> FALSE, helloRetry |-> FALSE, onlyKeyShare |-> 0,
     earlyData |-> FALSE, usePsk |-> FALSE, dtlsUDP |-> FALSE,
     forceScr |-> FALSE, sendGET |-> FALSE, postHandAuth |-> FALSE]

Tls13 == [Plain EXCEPT !.version = 4]

\* -v 4 with every choice of -N -r -J -y/-Y -g -Q
Tls13Sessions ==
    {[Tls13 EXCEPT !.nonBlocking = n, !.resumeSession = r, !.helloRetry = j,
                   !.onlyKeyShare = k, !.sendGET = g, !.postHandAuth = q] :
        n \in BOOLEAN, r \in BOOLEAN, j \in BOOLEAN, k \in 0..2,
        g \in BOOLEAN, q \in BOOLEAN}

\* -v 3 with every choice of -M smtp -N -r -u -i -g
Tls12Sessions ==
    {[Plain EXCEPT !.doSTARTTLS = m, !.nonBlocking = n, !.resumeSession = r,
                   !.dtlsUDP = u, !.forceScr = i, !.sendGET = g] :
        m \in BOOLEAN, n \in BOOLEAN, r \in BOOLEAN, u \in BOOLEAN,
        i \in BOOLEAN, g \in BOOLEAN}

\* -t and -0, alone and with -N and -r; -t selects the ECC groups (-Y)
X25519Sessions ==
    {[Tls13 EXCEPT !.useX25519 = t, !.onlyKeyShare = IF t THEN 2 ELSE 0,
                   !.nonBlocking = n, !.resumeSession = r, !.earlyData = e] :
        t \in BOOLEAN, n \in BOOLEAN, r \in BOOLEAN, e \in BOOLEAN}

Others ==
    {[Plain EXCEPT !.mode = "benchmark"], [Plain EXCEPT !.mode = "throughput"],
     [Plain EXCEPT !.externalTest = TRUE]}

AllOptions == Tls13Sessions \cup Tls12Sessions \cup X25519Sessions \cup Others

FullBuild ==
    {"TLS13", "CURVE25519", "ECC", "DH", "FFDHE_2048", "SESSION_TICKET",
     "SESSION_CACHE", "EARLY_DATA", "SECURE_RENEGOTIATION",
     "POST_HANDSHAKE_AUTH", "ASYNC_CRYPT",
     "NO_EXTERNAL_TEST"}
=============================================================================

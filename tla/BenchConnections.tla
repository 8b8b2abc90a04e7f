--------------------------- MODULE BenchConnections ---------------------------
(***************************************************************************)
(* ClientBenchmarkConnections() of tls13-dev/host/client.c (option -b, the   *)
(* mode the handshake scripts run the client in): `times' connections one    *)
(* after another, and with -r as many again that resume the last of them.    *)
(*                                                                          *)
(* The session of a connection can be resumed once its ticket was taken in   *)
(* (TLS 1.3) or its handshake is over (TLS 1.2).                             *)
(***************************************************************************)
EXTENDS Integers, Sequences

CONSTANTS
    Times,     \* the values of -b explored
    Features   \* the build macros that are defined

ASSUME TimesAssumption == Times \subseteq Nat \ {0}

VARIABLES
    times, version, resumeSession, useX25519, helloRetry,   \* the arguments
    pc,       \* "loops", "new", "connect", "handshake", "write", "read", "close"
    loops, i, \* the two loop variables
    objects,  \* WOLFSSL objects that are live
    sockets,  \* sockets that are open
    shares,   \* key shares queued on the connection: {} forces a HelloRetryRequest
    given,    \* session set on it: "none", "bare" or "usable"
    up,       \* its handshake is over
    ticketed, \* what resumption needs of it has been taken in
    inbox,    \* what the peer sent on it and is not read yet
    owes,     \* what the peer is still to send on it
    benchSession,
    done,     \* connections closed since the clock was started
    averages, \* for each average printed: the connections it was taken over
    end       \* "run", "return" or "err_sys"

arguments  == <<times, version, resumeSession, useX25519, helloRetry>>
connection == <<shares, given, up, ticketed, inbox, owes>>
vars == <<arguments, pc, loops, i, objects, sockets, connection, benchSession, done,
          averages, end>>

Has(f) == f \in Features

TypeOK ==
    /\ times \in Times /\ version \in {3, 4}
    /\ resumeSession \in BOOLEAN /\ useX25519 \in BOOLEAN /\ helloRetry \in BOOLEAN
    /\ pc \in {"loops", "new", "connect", "handshake", "write", "read", "close"}
    /\ loops \in 0..2 /\ i \in 0..times
    /\ objects \in 0..1 /\ sockets \in 0..1
    /\ shares \subseteq {"default", "X25519"}
    /\ given \in {"none", "bare", "usable"}
    /\ benchSession \in {"none", "bare", "usable"}
    /\ up \in BOOLEAN /\ ticketed \in BOOLEAN
    /\ inbox \in Seq({"ticket", "reply", "close"})
    /\ owes \subseteq {"ticket", "reply", "close"}
    /\ done \in 0..times
    /\ averages \in Seq(Nat) /\ Len(averages) <= 2
    /\ end \in {"run", "return", "err_sys"}

Init ==
    /\ times \in Times
    /\ version \in {3, 4} /\ (version = 4 => Has("TLS13"))
    /\ resumeSession \in BOOLEAN
    /\ useX25519 \in BOOLEAN /\ (useX25519 => Has("CURVE25519"))
    /\ helloRetry \in BOOLEAN /\ (helloRetry => Has("TLS13"))
    /\ pc = "loops" /\ loops = (IF resumeSession THEN 2 ELSE 1) /\ i = 0
    /\ objects = 0 /\ sockets = 0
    /\ shares = {} /\ given = "none"
    /\ up = FALSE /\ ticketed = FALSE /\ inbox = <<>> /\ owes = {}
    /\ benchSession = "none"
    /\ done = 0 /\ averages = <<>>
    /\ end = "run"

At(here) == end = "run" /\ pc = here

\* the loop that resumes: resumeSession && loops == 0
BenchResume == resumeSession /\ loops = 0 /\ Has("SESSION_CACHE")

ErrSys ==
    /\ pc \notin {"loops", "close"} /\ end = "run"
    /\ end' = "err_sys"
    /\ UNCHANGED <<arguments, pc, loops, i, objects, sockets, connection, benchSession,
                   done, averages>>

\* while (loops--), and the clock is started
StartLoop ==
    /\ At("loops") /\ loops > 0
    /\ loops' = loops - 1 /\ i' = 0 /\ done' = 0
    /\ pc' = "new"
    /\ UNCHANGED <<arguments, objects, sockets, connection, benchSession, averages, end>>

New ==
    /\ At("new") /\ i < times
    /\ objects' = objects + 1
    /\ shares' = IF Has("TLS13") /\ helloRetry THEN {} ELSE {"default"}
    /\ given' = "none" /\ up' = FALSE /\ ticketed' = FALSE /\ inbox' = <<>> /\ owes' = {}
    /\ pc' = "connect"
    /\ UNCHANGED <<arguments, loops, i, sockets, benchSession, done, averages, end>>

\* tcp_connect, set_session, the key share, set_fd
Attach ==
    /\ At("connect")
    /\ sockets' = sockets + 1
    /\ given' = IF BenchResume THEN benchSession ELSE "none"
    /\ shares' = IF Has("TLS13") /\ Has("CURVE25519") /\ useX25519 /\ ~BenchResume
                 THEN {"X25519"} ELSE shares
    /\ pc' = "handshake"
    /\ UNCHANGED <<arguments, loops, i, objects, up, ticketed, inbox, owes, benchSession,
                   done, averages, end>>

\* Slip: the message that fetches the ticket is left out
HandshakeOnly ==
    /\ At("handshake")
    /\ up' = TRUE /\ ticketed' = (version = 3)
    /\ owes' = {"close"} \cup (IF version = 4 /\ Has("SESSION_TICKET") THEN {"ticket"} ELSE {})
    /\ pc' = "close"
    /\ UNCHANGED <<arguments, loops, i, objects, sockets, shares, given, inbox,
                   benchSession, done, averages, end>>

\* wolfSSL_connect, again while it is pending
Handshake ==
    /\ At("handshake")
    /\ up' = TRUE /\ ticketed' = (version = 3)
    /\ owes' = {"close"} \cup (IF version = 4 /\ Has("SESSION_TICKET") THEN {"ticket"} ELSE {})
    /\ pc' = IF Has("TLS13") /\ resumeSession THEN "write" ELSE "close"
    /\ UNCHANGED <<arguments, loops, i, objects, sockets, shares, given, inbox,
                   benchSession, done, averages, end>>

\* in a TLS 1.3 build, and to resume: a message and its answer
Write ==
    /\ At("write")
    /\ owes' = owes \cup {"reply"}
    /\ pc' = "read"
    /\ UNCHANGED <<arguments, loops, i, objects, sockets, shares, given, up, ticketed,
                   inbox, benchSession, done, averages, end>>

\* the library takes a ticket in and reads on; the peer's close is an error
Read ==
    /\ At("read") /\ inbox # <<>>
    /\ IF Head(inbox) = "close" THEN end' = "err_sys" /\ UNCHANGED <<pc, inbox, ticketed>>
       ELSE /\ inbox' = Tail(inbox)
            /\ ticketed' = (ticketed \/ Head(inbox) = "ticket")
            /\ pc' = IF Head(inbox) = "reply" THEN "close" ELSE "read"
            /\ end' = end
    /\ UNCHANGED <<arguments, loops, i, objects, sockets, shares, given, up, owes,
                   benchSession, done, averages>>

\* Slip: the socket is only closed when all connections were made
CloseLate ==
    /\ At("close")
    /\ benchSession' = IF i = times - 1 /\ resumeSession /\ Has("SESSION_CACHE")
                       THEN (IF ticketed THEN "usable" ELSE "bare") ELSE benchSession
    /\ objects' = objects - 1
    /\ sockets' = IF i = times - 1 THEN 0 ELSE sockets
    /\ up' = FALSE /\ inbox' = <<>> /\ owes' = {}
    /\ i' = i + 1 /\ done' = done + 1
    /\ pc' = "new"
    /\ UNCHANGED <<arguments, loops, shares, given, ticketed, averages, end>>

\* shutdown; the session of the last connection, while its object is live; free
Close ==
    /\ At("close")
    /\ benchSession' = IF i = times - 1 /\ resumeSession /\ Has("SESSION_CACHE")
                       THEN (IF ticketed THEN "usable" ELSE "bare") ELSE benchSession
    /\ objects' = objects - 1 /\ sockets' = sockets - 1
    /\ up' = FALSE /\ inbox' = <<>> /\ owes' = {}
    /\ i' = i + 1 /\ done' = done + 1
    /\ pc' = "new"
    /\ UNCHANGED <<arguments, loops, shares, given, ticketed, averages, end>>

\* Slip: the first loop's average is printed with the second's
AverageAtEnd ==
    /\ At("new") /\ i >= times
    /\ averages' = IF loops = 0 THEN Append(averages, done) ELSE averages
    /\ pc' = "loops"
    /\ UNCHANGED <<arguments, loops, i, objects, sockets, connection, benchSession, done, end>>

\* avg /= times
Average ==
    /\ At("new") /\ i >= times
    /\ averages' = Append(averages, done)
    /\ pc' = "loops"
    /\ UNCHANGED <<arguments, loops, i, objects, sockets, connection, benchSession, done, end>>

Return ==
    /\ At("loops") /\ loops = 0
    /\ end' = "return"
    /\ UNCHANGED <<arguments, pc, loops, i, objects, sockets, connection, benchSession, done,
                   averages>>

\* the peer: its ticket before what it was asked for, its close at any time
PeerSends(record) ==
    /\ end = "run" /\ up /\ record \in owes
    /\ record = "reply" => "ticket" \notin owes
    /\ inbox' = Append(inbox, record)
    /\ owes' = IF record = "close" THEN {} ELSE owes \ {record}
    /\ UNCHANGED <<arguments, pc, loops, i, objects, sockets, shares, given, up, ticketed,
                   benchSession, done, averages, end>>

Done == end # "run" /\ UNCHANGED vars

Client == StartLoop \/ New \/ Attach \/ Handshake \/ Write \/ Read \/ Close \/ Average \/ Return

Next == Client \/ ErrSys \/ Done \/ \E r \in {"ticket", "reply", "close"} : PeerSends(r)

Spec == Init /\ [][Next]_vars

----------------------------------------------------------------------------
\* Every connection of the second loop resumes, and with a session the peer will
\* accept: with TLS 1.3 the ticket comes behind the handshake, and it is the
\* message and its answer that bring it in before wolfSSL_get_session.
ResumesUsable ==
    BenchResume /\ pc \in {"handshake", "write", "read", "close"} =>
        given = IF version = 4 /\ ~Has("SESSION_TICKET") THEN "bare" ELSE "usable"

\* What is printed on the way to a return: one average, or two with -r, each
\* over as many connections as it is divided by.
AveragesFair ==
    end = "return" => averages = [k \in 1..(IF resumeSession THEN 2 ELSE 1) |-> times]

\* A connection is gone, object and socket, before the next is begun.
OneAfterAnother ==
    pc = "new" \/ end = "return" => objects = 0 /\ sockets = 0 /\ inbox = <<>>
=============================================================================

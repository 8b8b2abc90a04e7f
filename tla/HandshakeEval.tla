---------------------------- MODULE HandshakeEval ----------------------------
(***************************************************************************)
(* scripts/tls_eval_handshake.sh and what it sets going: one server for       *)
(* N_TIMES connections, and N_TIMES times a tcpdump in the background, a     *)
(* client in the foreground, a sleep and a pkill.  The script is run several *)
(* times on one testbed, as tls13-confs/README.md has it run for one TLS     *)
(* version after another.                                                    *)
(*                                                                          *)
(* A connection is <<run, n>>.  On the wire it is its SYN, the flights of    *)
(* its handshake, the client's alert and, when the client is gone, the       *)
(* server's alert; the bare segments that follow a packet travel with it.    *)
(* A packet is <<connection, place>>.                                        *)
(***************************************************************************)
EXTENDS Integers, Sequences, FiniteSets

CONSTANTS
    N_TIMES,  \* the argument of each run of the script, a sequence
    Flights   \* flights of a handshake: 3 in TLS 1.3, 4 in TLS 1.2

ASSUME TimesAssumption   == N_TIMES \in Seq(Nat \ {0}) /\ N_TIMES # <<>>
ASSUME FlightsAssumption == Flights \in Nat \ {0}

Rounds == Len(N_TIMES)
Runs   == 1..Rounds
Conns  == UNION {{r} \X (1..N_TIMES[r]) : r \in Runs}
LastFlight  == Flights + 1
ClientAlert == Flights + 2
ServerAlert == Flights + 3

\* the SYN is the one place without payload
Payload == 2..ServerAlert
Packets == Conns \X (1..ServerAlert)

VARIABLES
    pc,      \* where the script is
    run,     \* which run of it
    n,       \* its loop variable
    server,  \* the server each run starts
    served,  \* connections each has served to the end
    dump,    \* the tcpdump of each iteration
    file,    \* and the capture it writes
    conn,    \* the connection of each iteration, at the client's end
    by,      \* the server that accepted it, 0 while there is none
    sent     \* packets of it on the wire so far

script  == <<pc, run, n>>
servers == <<server, served>>
dumps   == <<dump, file>>
wire    == <<conn, by, sent>>
vars    == <<script, servers, dumps, wire>>

TypeOK ==
    /\ pc \in {"server", "pidof", "capture", "client", "sleep", "kill", "done"}
    /\ run \in Runs /\ n \in 1..N_TIMES[run]
    /\ server \in [Runs -> {"none", "starting", "listening", "gone"}]
    /\ served \in [Runs -> Nat] /\ \A r \in Runs : served[r] <= N_TIMES[r]
    /\ dump \in [Conns -> {"none", "starting", "capturing", "stopping", "gone"}]
    /\ file \in [Conns -> Seq(Packets)]
    /\ conn \in [Conns -> {"none", "open", "refused", "failed", "closed"}]
    /\ by \in [Conns -> 0..Rounds]
    /\ sent \in [Conns -> 0..ServerAlert]

Init ==
    /\ pc = "server" /\ run = 1 /\ n = 1
    /\ server = [r \in Runs |-> "none"]
    /\ served = [r \in Runs |-> 0]
    /\ dump = [c \in Conns |-> "none"]
    /\ file = [c \in Conns |-> <<>>]
    /\ conn = [c \in Conns |-> "none"]
    /\ by = [c \in Conns |-> 0]
    /\ sent = [c \in Conns |-> 0]

Now == <<run, n>>
Go(there) == pc' = there /\ UNCHANGED <<run, n>>

----------------------------------------------------------------------------
(* The script.                                                               *)

\* docker-compose exec alice wolfssl_start_server.sh: server ... &
StartServer ==
    /\ pc = "server"
    /\ server' = [server EXCEPT ![run] = "starting"]
    /\ Go("pidof")
    /\ UNCHANGED <<served, dumps, wire>>

\* until pids=$(pidof server): some process of that name exists
PidofServer ==
    /\ pc = "pidof"
    /\ \E r \in Runs : server[r] \in {"starting", "listening"}
    /\ Go("capture")
    /\ UNCHANGED <<servers, dumps, wire>>

\* nohup sudo tcpdump ... &
StartCapture ==
    /\ pc = "capture"
    /\ dump' = [dump EXCEPT ![Now] = "starting"]
    /\ Go("client")
    /\ UNCHANGED <<servers, file, wire>>

\* A packet on the wire is written by every tcpdump that runs, also by one
\* that was signalled and has not ended yet.
OnWire(c, place) ==
    /\ sent' = [sent EXCEPT ![c] = place]
    /\ file' = [f \in Conns |-> IF dump[f] \in {"capturing", "stopping"}
                                THEN Append(file[f], <<c, place>>) ELSE file[f]]

\* Slip: the client is started again until a server takes it
ClientInsists ==
    /\ pc = "client" /\ conn[Now] = "none"
    /\ \/ \E r \in Runs :
             /\ server[r] = "listening"
             /\ OnWire(Now, 1)
             /\ conn' = [conn EXCEPT ![Now] = "open"]
             /\ by' = [by EXCEPT ![Now] = r]
       \/ (\A r \in Runs : server[r] # "listening") /\ UNCHANGED <<file, wire>>
    /\ UNCHANGED <<script, servers, dump>>

\* wolfssl_start_client.sh: the client connects to whoever listens on the port
ClientConnects ==
    /\ pc = "client" /\ conn[Now] = "none"
    /\ OnWire(Now, 1)
    /\ \/ \E r \in Runs :
             /\ server[r] = "listening"
             /\ conn' = [conn EXCEPT ![Now] = "open"]
             /\ by' = [by EXCEPT ![Now] = r]
             /\ Go("client")
       \/ /\ \A r \in Runs : server[r] # "listening"
          /\ conn' = [conn EXCEPT ![Now] = "refused"]
          /\ by' = by
          /\ Go("sleep")
    /\ UNCHANGED <<servers, dump>>

\* its handshake fails: both ends give up; the script does not look
ClientFails ==
    /\ pc = "client" /\ conn[Now] = "open" /\ sent[Now] < LastFlight
    /\ conn' = [conn EXCEPT ![Now] = "failed"]
    /\ server' = [server EXCEPT ![by[Now]] = "gone"]
    /\ Go("sleep")
    /\ UNCHANGED <<served, dumps, by, sent>>

ClientReturns ==
    /\ pc = "client" /\ conn[Now] \in {"open", "closed"} /\ sent[Now] >= ClientAlert
    /\ Go("sleep")
    /\ UNCHANGED <<servers, dumps, wire>>

\* Slip: no sleep
SleepSkipped ==
    /\ pc = "sleep"
    /\ Go("kill")
    /\ UNCHANGED <<servers, dumps, wire>>

\* sleep 5: longer than a tcpdump takes to start or to end, and than a connection
\* whose client has returned stays on the wire
Sleep ==
    /\ pc = "sleep"
    /\ \A c \in Conns : dump[c] \notin {"starting", "stopping"} /\ conn[c] # "open"
    /\ Go("kill")
    /\ UNCHANGED <<servers, dumps, wire>>

\* sudo pkill tcpdump signals whoever bears the name (one that sudo has yet to
\* start does not), and the script goes on at once
Kill ==
    /\ pc = "kill"
    /\ dump' = [c \in Conns |-> IF dump[c] = "capturing" THEN "stopping" ELSE dump[c]]
    /\ IF n < N_TIMES[run] THEN n' = n + 1 /\ run' = run /\ pc' = "capture"
       ELSE IF run < Rounds THEN run' = run + 1 /\ n' = 1 /\ pc' = "server"
       ELSE pc' = "done" /\ UNCHANGED <<run, n>>
    /\ UNCHANGED <<servers, file, wire>>

----------------------------------------------------------------------------
(* The processes beside it.                                                  *)

\* the server binds its port, unless an earlier run's still holds it
ServerListens(r) ==
    /\ server[r] = "starting"
    /\ server' = [server EXCEPT ![r] =
          IF \E q \in Runs : server[q] = "listening" THEN "gone" ELSE "listening"]
    /\ UNCHANGED <<script, served, dumps, wire>>

\* or fails for a reason of its own
ServerFails(r) ==
    /\ server[r] = "starting"
    /\ server' = [server EXCEPT ![r] = "gone"]
    /\ UNCHANGED <<script, served, dumps, wire>>

CaptureStarts(c) ==
    /\ dump[c] = "starting"
    /\ dump' = [dump EXCEPT ![c] = "capturing"]
    /\ UNCHANGED <<script, servers, file, wire>>

CaptureEnds(c) ==
    /\ dump[c] = "stopping"
    /\ dump' = [dump EXCEPT ![c] = "gone"]
    /\ UNCHANGED <<script, servers, file, wire>>

\* the next packet of a connection
Transmit(c) ==
    /\ conn[c] = "open" /\ sent[c] < ClientAlert
    /\ OnWire(c, sent[c] + 1)
    /\ UNCHANGED <<script, servers, dump, conn, by>>

\* Slip: -C counts one connection fewer
HangUpEarly(c) ==
    /\ conn[c] = "open" /\ sent[c] = ClientAlert
    /\ OnWire(c, ServerAlert)
    /\ conn' = [conn EXCEPT ![c] = "closed"]
    /\ served' = [served EXCEPT ![by[c]] = @ + 1]
    /\ server' = [server EXCEPT ![by[c]] = IF served[by[c]] + 1 >= N_TIMES[by[c]] - 1 THEN "gone" ELSE @]
    /\ UNCHANGED <<script, dump, by>>

\* Slip: -C counts one connection more
HangUpLate(c) ==
    /\ conn[c] = "open" /\ sent[c] = ClientAlert
    /\ OnWire(c, ServerAlert)
    /\ conn' = [conn EXCEPT ![c] = "closed"]
    /\ served' = [served EXCEPT ![by[c]] = @ + 1]
    /\ server' = [server EXCEPT ![by[c]] = IF served[by[c]] = N_TIMES[by[c]] THEN "gone" ELSE @]
    /\ UNCHANGED <<script, dump, by>>

\* the last one; the server counts the connection, and -C ends it
HangUp(c) ==
    /\ conn[c] = "open" /\ sent[c] = ClientAlert
    /\ OnWire(c, ServerAlert)
    /\ conn' = [conn EXCEPT ![c] = "closed"]
    /\ served' = [served EXCEPT ![by[c]] = @ + 1]
    /\ server' = [server EXCEPT ![by[c]] = IF served[by[c]] + 1 = N_TIMES[by[c]] THEN "gone" ELSE @]
    /\ UNCHANGED <<script, dump, by>>

Script ==
    \/ StartServer \/ PidofServer \/ StartCapture
    \/ ClientConnects \/ ClientFails \/ ClientReturns \/ Sleep \/ Kill

\* the wait for a server that died is the one place the script may hang in
Done ==
    /\ \/ pc = "done"
       \/ pc = "pidof" /\ \A r \in Runs : server[r] \in {"none", "gone"}
    /\ UNCHANGED vars

Next ==
    \/ Script \/ Done
    \/ \E r \in Runs : ServerListens(r) \/ ServerFails(r)
    \/ \E c \in Conns : CaptureStarts(c) \/ CaptureEnds(c) \/ Transmit(c) \/ HangUp(c)

Spec == Init /\ [][Next]_vars

\* every process runs, and a connection that was accepted makes progress
FairSpec ==
    /\ Spec
    /\ WF_vars(Script)
    /\ \A r \in Runs : WF_vars(ServerListens(r))
    /\ \A c \in Conns : WF_vars(CaptureStarts(c)) /\ WF_vars(CaptureEnds(c))
                        /\ WF_vars(Transmit(c)) /\ WF_vars(HangUp(c))

----------------------------------------------------------------------------
(* What the captures and the rounds are good for.                            *)

\* the packets process_tls1x_handshake.py counts, by their places in a capture
Counted(cap) == {i \in DOMAIN cap : cap[i][2] \in Payload}

\* p is the k-th packet it keeps of a capture
Keeps(cap, k, p) ==
    \E i \in Counted(cap) : Cardinality({j \in Counted(cap) : j <= i}) = k /\ cap[i] = p

\* A capture that has the SYN of its connection gives the figures of that
\* handshake, whatever else the tcpdump writes before it ends: the packets the
\* parser keeps of it are the flights.
MeasuresItsHandshake ==
    \A c \in Conns :
        conn[c] = "closed" /\ file[c] # <<>> /\ file[c][1] = <<c, 1>>
            => \A k \in 1..Flights : Keeps(file[c], k, <<c, k + 1>>)

\* No tcpdump goes on into the next iteration unsignalled: pkill found it.
CapturesStopped ==
    \A c \in Conns :
        c # Now \/ pc \in {"server", "pidof", "capture", "done"}
            => dump[c] \in {"none", "stopping", "gone"}

\* A server that serves a later run's client is one that some client of its own
\* run did not reach: it was refused, or an older server took it.
LeftOverForAReason ==
    \A c \in Conns :
        by[c] \notin {0, c[1]} => \E k \in 1..N_TIMES[by[c]] : by[<<by[c], k>>] # by[c]

\* A client is refused while its server is starting, when it never came to
\* listen, or after it gave up in a failed handshake: the budget of -C lasts for
\* the run's clients.
RefusedForAReason ==
    [][\A c \in Conns :
          conn[c] = "none" /\ conn'[c] = "refused"
              => \/ server[c[1]] = "starting"
                 \/ \A d \in Conns : by[d] # c[1]
                 \/ \E d \in Conns : by[d] = c[1] /\ conn[d] = "failed"]_vars

\* The script ends, unless it waits for a server that has died.
Terminates ==
    <>(pc = "done" \/ (pc = "pidof" /\ \A r \in Runs : server[r] \in {"none", "gone"}))
=============================================================================

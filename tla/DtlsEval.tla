------------------------------ MODULE DtlsEval ------------------------------
(***************************************************************************)
(* scripts/dtls_eval_handshake.sh: HandshakeEval's loop over UDP.  A client *)
(* that comes before its server is not refused; its hello is lost and sent  *)
(* again.  A slow end makes the other one send again what has arrived.      *)
(* process_dtls12_handshake.py takes the first packets of a capture as they *)
(* come.                                                                    *)
(*                                                                          *)
(* The flights of a handshake, one datagram each (-f), are numbered: the    *)
(* client sends the odd ones, the server the even ones, and the client's    *)
(* alert ends the connection.  A packet is <<connection, flight>>.          *)
(***************************************************************************)
EXTENDS Integers, Sequences, Functions

CONSTANTS
    N_TIMES,     \* iterations, and the connections the server is started for
    Flights,     \* flights of a handshake
    MaxTimeouts  \* bound on the time-outs of all connections, at both ends

ASSUME TimesAssumption   == N_TIMES \in Nat \ {0}
ASSUME FlightsAssumption == Flights \in Nat \ {0} /\ Flights % 2 = 0
ASSUME TimeoutsAssumption == MaxTimeouts \in Nat

Conns   == 1..N_TIMES
Alert   == Flights + 1
Packets == Conns \X (1..Alert)

VARIABLES
    pc,       \* where the script is
    n,        \* its loop variable
    server,   \* the server
    peer,     \* the connection its socket is connected to, 0 when it waits for one
    served,   \* connections it has served to the end
    dump,     \* the tcpdump of each iteration
    file,     \* and the capture it writes
    conn,     \* the connection of each iteration
    atClient, \* the last flight the client of this iteration has sent
    atServer, \* the last flight the server has sent to its peer
    toServer, \* flights that have arrived at the server's socket
    toClient, \* and at the client's
    timeouts, \* time-outs of each connection, after which a flight is sent again
    late      \* connections whose first hello was sent before their tcpdump ran

script  == <<pc, n>>
servers == <<server, peer, served, atServer>>
clients == <<conn, atClient, late>>
wire    == <<file, toServer, toClient, timeouts>>
vars    == <<script, servers, clients, dump, wire>>

TypeOK ==
    /\ pc \in {"server", "pidof", "capture", "client", "sleep", "kill", "done"}
    /\ n \in Conns
    /\ server \in {"none", "starting", "listening", "gone"}
    /\ peer \in {0} \cup Conns
    /\ served \in 0..N_TIMES
    /\ dump \in [Conns -> {"none", "starting", "capturing", "stopping", "gone"}]
    /\ file \in [Conns -> Seq(Packets)]
    /\ conn \in [Conns -> {"none", "open", "failed", "closed"}]
    /\ atClient \in 0..Alert /\ atServer \in 0..Flights
    /\ toServer \in Seq(1..Alert) /\ toClient \in Seq(1..Flights)
    /\ timeouts \in [Conns -> 0..MaxTimeouts]
    /\ late \subseteq Conns

Init ==
    /\ pc = "server" /\ n = 1
    /\ server = "none" /\ peer = 0 /\ served = 0
    /\ dump = [c \in Conns |-> "none"]
    /\ file = [c \in Conns |-> <<>>]
    /\ conn = [c \in Conns |-> "none"]
    /\ atClient = 0 /\ atServer = 0
    /\ toServer = <<>> /\ toClient = <<>>
    /\ timeouts = [c \in Conns |-> 0]
    /\ late = {}

Go(there) == pc' = there /\ UNCHANGED n

----------------------------------------------------------------------------
(* The script.                                                              *)

\* docker-compose exec alice wolfssl_dtls_start_server.sh: server ... &
StartServer ==
    /\ pc = "server"
    /\ server' = "starting"
    /\ Go("pidof")
    /\ UNCHANGED <<peer, served, atServer, clients, dump, wire>>

\* until pids=$(pidof server): it exists
PidofServer ==
    /\ pc = "pidof"
    /\ server \in {"starting", "listening"}
    /\ Go("capture")
    /\ UNCHANGED <<servers, clients, dump, wire>>

\* nohup sudo tcpdump ... &
StartCapture ==
    /\ pc = "capture"
    /\ dump' = [dump EXCEPT ![n] = "starting"]
    /\ Go("client")
    /\ UNCHANGED <<servers, clients, wire>>

\* sleep 5: longer than a tcpdump takes to start or to end, and than a server
\* takes to read the alert of a client that has returned
Sleep ==
    /\ pc = "sleep"
    /\ \A c \in Conns : dump[c] \notin {"starting", "stopping"} /\ conn[c] # "open"
    /\ Go("kill")
    /\ UNCHANGED <<servers, clients, dump, wire>>

\* Slip: the loop goes one too far
KillOnceMore ==
    /\ pc = "kill"
    /\ dump' = [c \in Conns |-> IF dump[c] = "capturing" THEN "stopping" ELSE dump[c]]
    /\ IF n <= N_TIMES THEN n' = n + 1 /\ pc' = "capture" ELSE n' = n /\ pc' = "done"
    /\ UNCHANGED <<servers, clients, wire>>

\* sudo pkill tcpdump, not waited for
Kill ==
    /\ pc = "kill"
    /\ dump' = [c \in Conns |-> IF dump[c] = "capturing" THEN "stopping" ELSE dump[c]]
    /\ IF n < N_TIMES THEN n' = n + 1 /\ pc' = "capture" ELSE n' = n /\ pc' = "done"
    /\ UNCHANGED <<servers, clients, wire>>

----------------------------------------------------------------------------
(* The wire.  Every tcpdump that runs writes every datagram.                *)

Capture(packet) ==
    file' = [c \in Conns |-> IF dump[c] \in {"capturing", "stopping"}
                             THEN Append(file[c], packet) ELSE file[c]]

\* a datagram reaches a server that waits for a client or is connected to this one
Reaches(c) == server = "listening" /\ peer \in {0, c}

\* the client of this iteration sends a flight to the server's port
ClientSends(f) ==
    /\ Capture(<<n, f>>)
    /\ toServer' = IF Reaches(n) THEN Append(toServer, f) ELSE toServer

\* the server sends a flight to its peer, who may be gone
ServerSends(c, f) ==
    /\ Capture(<<c, f>>)
    /\ toClient' = IF c = n /\ pc = "client" THEN Append(toClient, f) ELSE toClient

TimeOut(c) ==
    /\ FoldFunction(+, 0, timeouts) < MaxTimeouts
    /\ timeouts' = [timeouts EXCEPT ![c] = @ + 1]

----------------------------------------------------------------------------
(* The client: -u -f -b 1, without -N.                                      *)

ClientStarts ==
    /\ pc = "client" /\ conn[n] = "none"
    /\ conn' = [conn EXCEPT ![n] = "open"]
    /\ atClient' = 1
    /\ late' = IF dump[n] = "starting" THEN late \cup {n} ELSE late
    /\ ClientSends(1)
    /\ UNCHANGED <<script, servers, dump, toClient, timeouts>>

ClientWaits == pc = "client" /\ conn[n] = "open"

\* the answer it waits for; behind the last one it says goodbye and returns
ClientReceives ==
    /\ ClientWaits
    /\ toClient # <<>> /\ Head(toClient) = atClient + 1
    /\ atClient' = atClient + 2
    /\ ClientSends(atClient + 2)
    /\ IF atClient + 2 = Alert THEN toClient' = <<>> /\ Go("sleep")
       ELSE toClient' = Tail(toClient) /\ UNCHANGED script
    /\ UNCHANGED <<servers, conn, late, dump, timeouts>>

\* an answer it has already: passed over, or taken for a sign that its own
\* flight was lost
ClientPassesOver ==
    /\ ClientWaits
    /\ toClient # <<>> /\ Head(toClient) < atClient
    /\ toClient' = Tail(toClient)
    /\ \/ UNCHANGED <<file, toServer, timeouts>>
       \/ ClientSends(atClient) /\ UNCHANGED timeouts
    /\ UNCHANGED <<script, servers, clients, dump>>

\* the library's time-out: the answer is late, or will not come
ClientTimesOut ==
    /\ ClientWaits
    /\ TimeOut(n)
    /\ ClientSends(atClient)
    /\ UNCHANGED <<script, servers, clients, dump, toClient>>

\* it gives up, long after a server that listens has read what it was sent
ClientFails ==
    /\ ClientWaits /\ toServer = <<>>
    /\ conn' = [conn EXCEPT ![n] = "failed"]
    /\ toClient' = <<>>
    /\ Go("sleep")
    /\ UNCHANGED <<servers, atClient, late, dump, file, toServer, timeouts>>

----------------------------------------------------------------------------
(* The server: -u -C N_TIMES, and the tcpdumps.                             *)

ServerListens ==
    /\ server = "starting"
    /\ server' = "listening"
    /\ UNCHANGED <<script, peer, served, atServer, clients, dump, wire>>

\* Slip: after a client it gives up it waits for the next
ServerGoesOn ==
    /\ \/ server = "starting" /\ server' = "gone"
       \/ /\ server = "listening" /\ peer # 0 /\ conn[peer] = "failed"
          /\ server' = server
    /\ peer' = 0 /\ atServer' = 0
    /\ UNCHANGED <<script, served, clients, dump, wire>>

\* it fails at its start, or gives a client up that has gone
ServerFails ==
    /\ \/ server = "starting"
       \/ server = "listening" /\ peer # 0 /\ conn[peer] = "failed"
    /\ server' = "gone"
    /\ peer' = 0
    /\ UNCHANGED <<script, served, atServer, clients, dump, wire>>

\* the next flight of the handshake, which it answers; the hello of a client
\* connects its socket
ServerReceives ==
    /\ server = "listening" /\ toServer # <<>>
    /\ Head(toServer) = atServer + 1 /\ Head(toServer) # Alert
    /\ toServer' = Tail(toServer)
    /\ peer' = n
    /\ atServer' = atServer + 2
    /\ ServerSends(n, atServer + 2)
    /\ UNCHANGED <<script, server, served, clients, dump, timeouts>>

\* a flight it has answered: passed over, or answered again
ServerPassesOver ==
    /\ server = "listening" /\ toServer # <<>>
    /\ Head(toServer) <= atServer
    /\ toServer' = Tail(toServer)
    /\ \/ UNCHANGED <<file, toClient, timeouts>>
       \/ ServerSends(peer, atServer) /\ UNCHANGED timeouts
    /\ UNCHANGED <<script, servers, clients, dump>>

\* its own time-out, also for a client that is gone; the answer to the first
\* hello is sent without a state to time out
ServerTimesOut ==
    /\ server = "listening" /\ peer # 0
    /\ atServer > 2 /\ atServer < Flights
    /\ TimeOut(peer)
    /\ ServerSends(peer, atServer)
    /\ UNCHANGED <<script, servers, clients, dump, toServer>>

\* the alert; -C ends the server at the last one, else it waits for the next
ServerCloses ==
    /\ server = "listening" /\ toServer # <<>> /\ Head(toServer) = Alert
    /\ conn' = [conn EXCEPT ![peer] = "closed"]
    /\ served' = served + 1
    /\ server' = IF served + 1 = N_TIMES THEN "gone" ELSE "listening"
    /\ peer' = 0 /\ atServer' = 0
    /\ toServer' = <<>>
    /\ UNCHANGED <<script, atClient, late, dump, file, toClient, timeouts>>

CaptureStarts(c) ==
    /\ dump[c] = "starting"
    /\ dump' = [dump EXCEPT ![c] = "capturing"]
    /\ UNCHANGED <<script, servers, clients, wire>>

CaptureEnds(c) ==
    /\ dump[c] = "stopping"
    /\ dump' = [dump EXCEPT ![c] = "gone"]
    /\ UNCHANGED <<script, servers, clients, wire>>

Script == StartServer \/ PidofServer \/ StartCapture \/ Sleep \/ Kill
Client == ClientStarts \/ ClientReceives \/ ClientPassesOver \/ ClientTimesOut \/ ClientFails
Server ==
    \/ ServerListens \/ ServerFails \/ ServerReceives \/ ServerPassesOver
    \/ ServerTimesOut \/ ServerCloses

\* the end, and the wait for a server that failed
Done ==
    /\ pc = "done" \/ (pc = "pidof" /\ server = "gone")
    /\ UNCHANGED vars

Next ==
    \/ Script \/ Client \/ Server \/ Done
    \/ \E c \in Conns : CaptureStarts(c) \/ CaptureEnds(c)

Spec == Init /\ [][Next]_vars

----------------------------------------------------------------------------
(* What the analyser makes of the captures.                                 *)

\* Slip: the last packets of the capture, not the first
KeptLast(c) == SubSeq(file[c], Len(file[c]) - Flights + 1, Len(file[c]))

\* the packets process_dtls12_handshake.py keeps, none of a capture too short
Kept(c) == SubSeq(file[c], 1, Flights)

\* flights f, f + 1, ... of connection c, as many as are kept
From(c, f) == [i \in 1..Flights |-> <<c, f + i - 1>>]

Handshake(c) == {c} \X (1..Flights)

(* The capture of a handshake that took place, when it is accepted, gives   *)
(* the figures of that handshake; or a datagram was sent again, and then it *)
(* is of no more than the handshake.  When the tcpdump came late, it is of  *)
(* one that was sent again, or the alert, or what a slow end of the tcpdump *)
(* saw of the next iteration, has made up the number.                       *)
MisleadsForAReason ==
    \A c \in Conns :
        conn[c] = "closed" /\ dump[c] = "gone" /\ Len(file[c]) >= Flights =>
            \/ Kept(c) = From(c, 1)
            \/ timeouts[c] > 0 /\ (c \in late \/ Range(Kept(c)) \subseteq Handshake(c))
            \/ c \in late /\ Kept(c) = From(c, 2)
            \/ c \in late /\ \E p \in Range(Kept(c)) : p[1] = c + 1

(* What a capture holds of another connection is of the next one, which a  *)
(* slow end of the tcpdump let in, behind all of a handshake that took      *)
(* place; or of an earlier one whose client failed and left the server      *)
(* waiting for it.  The client of that capture is then never answered, and  *)
(* neither is any after it.                                                 *)
ForeignForAReason ==
    \A c \in Conns : \A i \in DOMAIN file[c] :
        LET d == file[c][i][1]
        IN  \/ d = c
            \/ /\ d = c + 1
               /\ conn[c] = "closed" => \A j \in DOMAIN file[c] : j > i => file[c][j][1] = d
            \/ d < c /\ conn[d] = "failed" /\ \A e \in c..N_TIMES : conn[e] # "closed"
=============================================================================

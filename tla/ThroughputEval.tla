--------------------------- MODULE ThroughputEval ---------------------------
(***************************************************************************)
(* The throughput evaluations scripts/none_eval.sh, tls_eval.sh and their   *)
(* like, run one after another on the same two containers: for each bit     *)
(* rate the links are shaped, iperf3 runs N times and its log is filed      *)
(* under the rate, the links are reset; then N runs without a limit.        *)
(*                                                                          *)
(* An evaluation takes hours, and whoever started it may interrupt it and   *)
(* start the next one.  The containers then live on, with the queueing      *)
(* disciplines and the processes they have.                                 *)
(***************************************************************************)
EXTENDS Integers, Sequences

CONSTANTS
    Rates,      \* the bit rates, in the order they are gone through
    N_TIMES,    \* repetitions at each rate
    Protocols   \* the protocol of each run, "plain" or "tls"

ASSUME RatesAssumption == Rates \in Seq(Nat \ {0}) /\ Rates # <<>>
ASSUME TimesAssumption == N_TIMES \in Nat \ {0}
ASSUME ProtocolsAssumption == Protocols \in Seq({"plain", "tls"}) /\ Protocols # <<>>

Hosts == {"alice", "bob"}

\* no queueing discipline on the device
Unshaped == 0

VARIABLES
    run,         \* the run of a script under way
    pc,          \* its next command
    i,           \* the bit rate, by its place; Len(Rates) + 1 behind the last
    n,           \* the repetition
    qdisc,       \* the rate each eth0 is shaped to
    server,      \* protocol of the iperf3 that listens in alice, or "none"
    starting,    \* the server of this run has a process but does not listen yet
    orphan,      \* the client of an interrupted run still holds the server
    fallen,      \* a server has ended on its own account since this run started its own
    interrupted, \* the runs that were interrupted
    log          \* the log of the last client of a live script, {} when it left none:
                 \* filed under which rate, measured at which, with a result or not,
                 \* and what had happened to the client and to the server

vars == <<run, pc, i, n, qdisc, server, starting, orphan, fallen, interrupted, log>>

Runs == 1..Len(Protocols)
RateOf(k) == IF k \in 1..Len(Rates) THEN Rates[k] ELSE Unshaped

LogType ==
    [run : Runs, place : 1..Len(Rates) + 1, measured : [Hosts -> Nat], complete : BOOLEAN,
     early : BOOLEAN, fallen : BOOLEAN, failed : BOOLEAN]

TypeOK ==
    /\ run \in Runs
    /\ pc \in {"up", "server", "pidof", "setAlice", "setBob", "client", "resetAlice",
               "resetBob", "down", "over"}
    /\ i \in 1..Len(Rates) + 1
    /\ n \in 1..N_TIMES
    /\ qdisc \in [Hosts -> Nat]
    /\ server \in {"none", "plain", "tls"}
    /\ starting \in BOOLEAN
    /\ orphan \in BOOLEAN
    /\ fallen \in BOOLEAN
    /\ interrupted \subseteq Runs
    /\ log \subseteq LogType

Init ==
    /\ run = 1
    /\ pc = "up"
    /\ i = 1
    /\ n = 1
    /\ qdisc = [h \in Hosts |-> Unshaped]
    /\ server = "none"
    /\ starting = FALSE
    /\ orphan = FALSE
    /\ fallen = FALSE
    /\ interrupted = {}
    /\ log = {}

At(here) == pc = here
Go(there) == pc' = there /\ UNCHANGED <<run, interrupted>>
Links == qdisc
Processes == <<server, starting, orphan, fallen>>

----------------------------------------------------------------------------
(* The script.                                                              *)

\* docker-compose up -d leaves containers that are up as they are
Up ==
    /\ At("up")
    /\ Go("server")
    /\ UNCHANGED <<i, n, Links, Processes, log>>

\* iperf3 -D goes to the background; the port may be taken by the server of a
\* run before, and then it ends
StartServer ==
    /\ At("server")
    /\ starting' = (server = "none")
    /\ fallen' = FALSE
    /\ Go("pidof")
    /\ UNCHANGED <<i, n, Links, server, orphan, log>>

\* until pids=$(pidof iperf3): any iperf3 will do, listening or not
PidofServer ==
    /\ At("pidof")
    /\ starting \/ server # "none"
    /\ Go("setAlice")
    /\ UNCHANGED <<i, n, Links, Processes, log>>

\* tc qdisc add: with a discipline there it fails, so do the classes, and
\* link_set_rate.sh goes on and says that it is done
Shaped(h) == [qdisc EXCEPT ![h] = IF @ = Unshaped THEN RateOf(i) ELSE @]

SetAlice ==
    /\ At("setAlice")
    /\ qdisc' = Shaped("alice")
    /\ Go("setBob")
    /\ UNCHANGED <<i, n, Processes, log>>

SetBob ==
    /\ At("setBob")
    /\ qdisc' = Shaped("bob")
    /\ Go("client")
    /\ UNCHANGED <<i, n, Processes, log>>

\* the server serves one test at a time, and a client only in its own protocol
Served == server = Protocols[run] /\ ~starting /\ ~orphan

\* after N runs the links are reset; behind the last rate nothing is left to reset
AfterClient ==
    IF n < N_TIMES THEN n' = n + 1 /\ Go("client")
    ELSE n' = 1 /\ Go(IF i <= Len(Rates) THEN "resetAlice" ELSE "down")

\* what a client writes, given whether it fails on its own account
Log(fails) ==
    [run |-> run, place |-> i, measured |-> qdisc, complete |-> Served /\ ~fails,
     early |-> starting, fallen |-> fallen, failed |-> fails]

\* one iperf3 client, and its log, if it comes to open one: nobody looks at the
\* exit status
RunClient ==
    /\ At("client")
    /\ log' \in {{}} \cup {{Log(fails)} : fails \in BOOLEAN}
    /\ AfterClient
    /\ UNCHANGED <<i, Links, Processes>>

ResetAlice ==
    /\ At("resetAlice")
    /\ qdisc' = [qdisc EXCEPT !["alice"] = Unshaped]
    /\ Go("resetBob")
    /\ UNCHANGED <<i, n, Processes, log>>

\* Slip: bob is reset once, behind the loop
ResetBobLast ==
    /\ At("resetBob")
    /\ qdisc' = IF i < Len(Rates) THEN qdisc ELSE [qdisc EXCEPT !["bob"] = Unshaped]
    /\ i' = i + 1
    /\ Go(IF i < Len(Rates) THEN "setAlice" ELSE "client")
    /\ UNCHANGED <<n, Processes, log>>

\* the end of a rate, and on to the next, or to the runs without a limit
ResetBob ==
    /\ At("resetBob")
    /\ qdisc' = [qdisc EXCEPT !["bob"] = Unshaped]
    /\ i' = i + 1
    /\ Go(IF i < Len(Rates) THEN "setAlice" ELSE "client")
    /\ UNCHANGED <<n, Processes, log>>

NextRun ==
    /\ i' = 1
    /\ n' = 1
    /\ IF run < Len(Protocols) THEN run' = run + 1 /\ pc' = "up"
       ELSE run' = run /\ pc' = "over"

\* Slip: the containers are stopped, not removed with all they hold
StopOnly ==
    /\ At("down")
    /\ NextRun
    /\ UNCHANGED <<Links, Processes, interrupted, log>>

\* docker-compose down removes the containers, and all that runs in them
Down ==
    /\ At("down")
    /\ NextRun
    /\ qdisc' = [h \in Hosts |-> Unshaped]
    /\ server' = "none"
    /\ starting' = FALSE
    /\ orphan' = FALSE
    /\ UNCHANGED <<fallen, interrupted, log>>

----------------------------------------------------------------------------
(* The rest of the world.                                                   *)

\* the server of this run listens, and a server stays until its container goes
Listen ==
    /\ starting
    /\ starting' = FALSE
    /\ server' = Protocols[run]
    /\ UNCHANGED <<run, pc, i, n, Links, orphan, fallen, interrupted, log>>

\* the server ends on its own account: before pidof has seen it, and then the
\* script waits, or behind, before it listens or later, with any test it serves
ServerFails ==
    /\ starting \/ server # "none"
    /\ starting' = FALSE
    /\ server' = "none"
    /\ orphan' = FALSE
    /\ fallen' = TRUE
    /\ UNCHANGED <<run, pc, i, n, Links, interrupted, log>>

\* Ctrl-C ends the script.  What it has running in a container goes on there:
\* a server that starts will listen, a client that is served measures to its end.
Interrupt ==
    /\ pc # "over"
    /\ interrupted' = interrupted \cup {run}
    /\ server' = IF starting THEN Protocols[run] ELSE server
    /\ starting' = FALSE
    /\ orphan' = (orphan \/ (pc = "client" /\ Served))
    /\ NextRun
    /\ UNCHANGED <<Links, fallen, log>>

OrphanEnds ==
    /\ orphan
    /\ orphan' = FALSE
    /\ UNCHANGED <<run, pc, i, n, Links, server, starting, fallen, interrupted, log>>

Script ==
    \/ Up \/ StartServer \/ PidofServer \/ SetAlice \/ SetBob \/ RunClient
    \/ ResetAlice \/ ResetBob \/ Down

Next == Script \/ Listen \/ ServerFails \/ Interrupt \/ OrphanEnds

Spec == Init /\ [][Next]_vars

----------------------------------------------------------------------------
(* A log was measured at the rate it is filed under, on both links.  Only   *)
(* at the first rate of a run that follows an interrupted one may it not be *)
(* so, and the reset behind that rate heals it.  (process_docker_throughput *)
(* averages over all logs of a rate.)                                       *)
MisfiledForAReason ==
    \A l \in log :
        \/ \A h \in Hosts : l.measured[h] = RateOf(l.place)
        \/ l.place = 1 /\ l.run - 1 \in interrupted

(* A log without a result, at which process_docker_throughput.py ends with  *)
(* an exception, is that of a client that failed on its own account, that   *)
(* came before the server of its own run listened (pidof does not wait for  *)
(* that) or after it had ended on its own account, or of a run that follows *)
(* an interrupted one, whose server or client lives on.                     *)
IncompleteForAReason ==
    \A l \in log :
        l.complete \/ l.failed \/ l.early \/ l.fallen \/ l.run - 1 \in interrupted
=============================================================================

----------------------------- MODULE MacsecEval -----------------------------
(***************************************************************************)
(* scripts/macsec_eval_handshake.sh: N_TIMES times a hostapd in alice, a    *)
(* tcpdump on the bridge, a wpa_supplicant in bob, two sleeps, and a pkill  *)
(* of each that is not waited for.  A daemon holds its control socket until *)
(* it has ended, and one that comes before that fails.                      *)
(***************************************************************************)
EXTENDS Integers

CONSTANTS
    N_TIMES,    \* iterations
    Exchange    \* EAPOL packets until both sides have their keys

ASSUME TimesAssumption    == N_TIMES \in Nat \ {0}
ASSUME ExchangeAssumption == Exchange \in Nat \ {0}

VARIABLES
    pc,        \* the script's next command
    n,         \* its loop variable
    proc,      \* the daemons of each iteration
    dump,      \* the tcpdump of each iteration
    sent,      \* packets of each iteration's exchange on the wire
    captured,  \* those its tcpdump has seen
    cut,       \* iterations whose sleeps were too short for the exchange
    devices    \* the hosts that have a macsec0

vars == <<pc, n, proc, dump, sent, captured, cut, devices>>

Daemons == {"hostapd", "wpa_supplicant"}
Hosts   == {"alice", "bob"}
Rounds  == 1..N_TIMES

TypeOK ==
    /\ pc \in {"hostapd", "pidofHostapd", "capture", "wpa", "pidofWpa", "show", "sleep",
               "killDump", "killHostapd", "killWpa", "stopAlice", "stopBob", "done"}
    /\ n \in Rounds
    /\ proc \in [Daemons -> [Rounds -> {"none", "up", "failed", "stopping", "gone"}]]
    /\ dump \in [Rounds -> {"none", "starting", "capturing", "stopping", "gone"}]
    /\ sent \in [Rounds -> 0..Exchange]
    /\ captured \in [Rounds -> SUBSET (1..Exchange)]
    /\ cut \subseteq Rounds
    /\ devices \subseteq Hosts

Init ==
    /\ pc = "hostapd"
    /\ n = 1
    /\ proc = [d \in Daemons |-> [k \in Rounds |-> "none"]]
    /\ dump = [k \in Rounds |-> "none"]
    /\ sent = [k \in Rounds |-> 0]
    /\ captured = [k \in Rounds |-> {}]
    /\ cut = {}
    /\ devices = {}

Go(here, there) == pc = here /\ pc' = there /\ UNCHANGED n

----------------------------------------------------------------------------
(* The script.                                                              *)

Alive(d) == \E k \in Rounds : proc[d][k] \in {"up", "stopping"}

\* -B returns when the daemon is in the background, or has failed
Start(d) ==
    proc' = [proc EXCEPT ![d][n] = IF Alive(d) THEN "failed" ELSE "up"]

StartHostapd ==
    /\ Go("hostapd", "pidofHostapd")
    /\ Start("hostapd")
    /\ UNCHANGED <<dump, sent, captured, cut, devices>>

\* until pids=$(pidof ...): the one that is about to end will do as well
Pidof(d, here, there) ==
    /\ Go(here, there)
    /\ Alive(d)
    /\ UNCHANGED <<proc, dump, sent, captured, cut, devices>>

PidofHostapd == Pidof("hostapd", "pidofHostapd", "capture")

\* nohup sudo tcpdump ... &
StartCapture ==
    /\ Go("capture", "wpa")
    /\ dump' = [dump EXCEPT ![n] = "starting"]
    /\ UNCHANGED <<proc, sent, captured, cut, devices>>

StartWpa ==
    /\ Go("wpa", "pidofWpa")
    /\ Start("wpa_supplicant")
    /\ UNCHANGED <<dump, sent, captured, cut, devices>>

PidofWpa == Pidof("wpa_supplicant", "pidofWpa", "show")

\* Slip: the wait for a device is one
ShowDevice ==
    /\ Go("show", "sleep")
    /\ "bob" \in devices
    /\ UNCHANGED <<proc, dump, sent, captured, cut, devices>>

\* until macsec_devs=$(ip macsec show): no device is no error, so it never waits
Show ==
    /\ Go("show", "sleep")
    /\ UNCHANGED <<proc, dump, sent, captured, cut, devices>>

Both == \A d \in Daemons : proc[d][n] = "up"

\* Slip: no sleep
SleepSkipped ==
    /\ Go("sleep", "killDump")
    /\ cut' = IF Both /\ sent[n] < Exchange THEN cut \cup {n} ELSE cut
    /\ UNCHANGED <<proc, dump, sent, captured, devices>>

\* sleep 3, sleep 5: longer than a process takes to start or to end, which says
\* nothing about the exchange
Sleep ==
    /\ Go("sleep", "killDump")
    /\ \A k \in Rounds :
          /\ dump[k] \notin {"starting", "stopping"}
          /\ \A d \in Daemons : proc[d][k] # "stopping"
    /\ cut' = IF Both /\ sent[n] < Exchange THEN cut \cup {n} ELSE cut
    /\ UNCHANGED <<proc, dump, sent, captured, devices>>

KillDump ==
    /\ Go("killDump", "killHostapd")
    /\ dump' = [k \in Rounds |-> IF dump[k] = "capturing" THEN "stopping" ELSE dump[k]]
    /\ UNCHANGED <<proc, sent, captured, cut, devices>>

\* sudo pkill signals whoever bears the name, and the script goes on
Kill(d) ==
    proc' = [proc EXCEPT ![d] =
                [k \in Rounds |-> IF @[k] = "up" THEN "stopping" ELSE @[k]]]

KillHostapd ==
    /\ Go("killHostapd", "killWpa")
    /\ Kill("hostapd")
    /\ UNCHANGED <<dump, sent, captured, cut, devices>>

KillWpa ==
    /\ Go("killWpa", "stopAlice")
    /\ Kill("wpa_supplicant")
    /\ UNCHANGED <<dump, sent, captured, cut, devices>>

\* macsec_stop.sh in each container; without a device it fails, and that is all
StopAlice ==
    /\ Go("stopAlice", "stopBob")
    /\ devices' = devices \ {"alice"}
    /\ UNCHANGED <<proc, dump, sent, captured, cut>>

StopBob ==
    /\ pc = "stopBob"
    /\ devices' = devices \ {"bob"}
    /\ IF n < N_TIMES THEN n' = n + 1 /\ pc' = "hostapd" ELSE n' = n /\ pc' = "done"
    /\ UNCHANGED <<proc, dump, sent, captured, cut>>

----------------------------------------------------------------------------
(* The processes beside it.                                                 *)

CaptureStarts(k) ==
    /\ dump[k] = "starting"
    /\ dump' = [dump EXCEPT ![k] = "capturing"]
    /\ UNCHANGED <<pc, n, proc, sent, captured, cut, devices>>

CaptureEnds(k) ==
    /\ dump[k] = "stopping"
    /\ dump' = [dump EXCEPT ![k] = "gone"]
    /\ UNCHANGED <<pc, n, proc, sent, captured, cut, devices>>

\* a packet of the exchange, seen by the tcpdump that runs; after the last of
\* them both sides make their device
Transmit ==
    /\ Both
    /\ sent[n] < Exchange
    /\ sent' = [sent EXCEPT ![n] = @ + 1]
    /\ captured' = [captured EXCEPT ![n] =
                       IF dump[n] \in {"capturing", "stopping"} THEN @ \cup {sent[n] + 1} ELSE @]
    /\ devices' = IF sent[n] + 1 = Exchange THEN Hosts ELSE devices
    /\ UNCHANGED <<pc, n, proc, dump, cut>>

DaemonEnds(d, k) ==
    /\ proc[d][k] = "stopping"
    /\ proc' = [proc EXCEPT ![d][k] = "gone"]
    /\ UNCHANGED <<pc, n, dump, sent, captured, cut, devices>>

Script ==
    \/ StartHostapd \/ PidofHostapd \/ StartCapture \/ StartWpa \/ PidofWpa \/ Show
    \/ Sleep \/ KillDump \/ KillHostapd \/ KillWpa \/ StopAlice \/ StopBob

\* each wait for a daemon that has failed is one the script does not leave
Waiting ==
    \/ pc = "pidofHostapd" /\ proc["hostapd"][n] = "failed" /\ ~Alive("hostapd")
    \/ pc = "pidofWpa" /\ proc["wpa_supplicant"][n] = "failed" /\ ~Alive("wpa_supplicant")

Next ==
    \/ Script \/ Transmit
    \/ \E k \in Rounds : CaptureStarts(k) \/ CaptureEnds(k)
    \/ \E d \in Daemons, k \in Rounds : DaemonEnds(d, k)

Spec == Init /\ [][Next]_vars

\* every process runs; nothing is said of the exchange
FairSpec ==
    /\ Spec
    /\ WF_vars(Script)
    /\ \A k \in Rounds : WF_vars(CaptureStarts(k)) /\ WF_vars(CaptureEnds(k))
    /\ \A d \in Daemons, k \in Rounds : WF_vars(DaemonEnds(d, k))

----------------------------------------------------------------------------
(* What the captures are good for.                                          *)

\* the daemon of an iteration failed because that of the one before lived on
LostToThePrevious(k) ==
    \E d \in Daemons : proc[d][k] = "failed" /\ k > 1 /\ proc[d][k - 1] # "failed"

(* A capture lacks packets of its exchange only when tcpdump came late, when *)
(* the sleeps were too short, or when a daemon met its predecessor; and that *)
(* never happens to the same daemon twice in a row, since the sleeps let the *)
(* old one end.                                                              *)
LostForAReason ==
    \A k \in Rounds :
        k < n \/ pc = "done" =>
            \/ captured[k] = 1..Exchange
            \/ sent[k] > 0 /\ 1 \notin captured[k]
            \/ k \in cut
            \/ LostToThePrevious(k)

(* The script ends, unless it waits for a daemon that has failed and whose   *)
(* predecessor ended before pidof looked.                                    *)
Terminates == <>(pc = "done" \/ Waiting)
=============================================================================

------------------------- MODULE MacsecEval_proofs -------------------------
(***************************************************************************)
(* Proofs about MacsecEval, for any number of iterations and exchanges of   *)
(* any length.                                                              *)
(***************************************************************************)
EXTENDS MacsecEval, TLAPS

Started(d) ==
    IF d = "hostapd" THEN pc # "hostapd"
    ELSE pc \notin {"hostapd", "pidofHostapd", "capture", "wpa"}

Killed(d) ==
    pc \in {"stopAlice", "stopBob", "done"} \/ (d = "hostapd" /\ pc = "killWpa")

Slept == pc \in {"killDump", "killHostapd", "killWpa", "stopAlice", "stopBob", "done"}

\* the daemons of each iteration, by where the script is; those of the last but
\* one have ended, and after the sleeps those of the last
DaemonInv ==
    \A d \in Daemons, k \in Rounds :
        /\ k > n \/ (k = n /\ ~Started(d)) => proc[d][k] = "none"
        /\ k = n /\ Started(d) /\ ~Killed(d) => proc[d][k] \in {"up", "failed"}
        /\ k < n \/ (k = n /\ Killed(d)) => proc[d][k] \in {"failed", "stopping", "gone"}
        /\ k < n - 1 \/ (k < n /\ Slept) => proc[d][k] # "stopping"

\* a daemon fails at its predecessor, and then has let the next one pass
FailedInv ==
    \A d \in Daemons, k \in Rounds :
        proc[d][k] = "failed" => k > 1 /\ proc[d][k - 1] # "failed"

\* before its pkill a tcpdump that saw the first packet has seen all of them
CaptureInv ==
    /\ \A k \in Rounds :
          k > n \/ (k = n /\ pc \in {"hostapd", "pidofHostapd", "capture"}) =>
              dump[k] = "none" /\ captured[k] = {}
    /\ pc \notin {"hostapd", "pidofHostapd", "capture"} /\ (~Slept \/ pc = "killDump") =>
          dump[n] \in {"starting", "capturing"}
    /\ ~Slept /\ 1 \in captured[n] => dump[n] = "capturing" /\ captured[n] = 1..sent[n]
    /\ ~Slept => captured[n] \subseteq 1..sent[n]

Settled(k) ==
    \/ k \in cut
    \/ \E d \in Daemons : proc[d][k] = "failed"
    \/ sent[k] = Exchange /\ (captured[k] = 1..Exchange \/ 1 \notin captured[k])

SettledInv == \A k \in Rounds : k < n \/ (k = n /\ Slept) => Settled(k)

DoneInv == pc = "done" => n = N_TIMES

IInv == TypeOK /\ DoneInv /\ DaemonInv /\ FailedInv /\ CaptureInv /\ SettledInv

LEMMA Initially == Init => IInv
<1> SUFFICES ASSUME Init PROVE IInv
  OBVIOUS
<1>1. TypeOK
  <2>1. 1 \in Rounds /\ 0 \in 0..Exchange
    BY TimesAssumption, ExchangeAssumption DEF Rounds
  <2> QED BY <2>1 DEF Init, TypeOK
<1>2. DoneInv /\ DaemonInv /\ FailedInv
  BY TimesAssumption DEF Init, DoneInv, DaemonInv, FailedInv, Rounds, Daemons, Started, Killed, Slept
<1>3. CaptureInv /\ SettledInv
  BY TimesAssumption DEF Init, CaptureInv, SettledInv, Rounds, Slept
<1> QED BY <1>1, <1>2, <1>3 DEF IInv

\* what the captures and exchanges say stays when they and the failures do
LEMMA SettledStays ==
  ASSUME NEW k, Settled(k), sent'[k] = sent[k], captured'[k] = captured[k],
         cut \subseteq cut',
         \A d \in Daemons : proc[d][k] = "failed" => proc'[d][k] = "failed"
  PROVE  Settled(k)'
  BY DEF Settled

LEMMA StartFacts ==
  ASSUME TypeOK, NEW d \in Daemons, Start(d)
  PROVE  /\ proc' \in [Daemons -> [Rounds -> {"none", "up", "failed", "stopping", "gone"}]]
         /\ proc'[d][n] = IF Alive(d) THEN "failed" ELSE "up"
         /\ \A e \in Daemons, k \in Rounds :
               e # d \/ k # n => proc'[e][k] = proc[e][k]
<1>1. n \in Rounds
  BY DEF TypeOK
<1> QED BY <1>1 DEF Start, TypeOK

LEMMA KillFacts ==
  ASSUME TypeOK, NEW d \in Daemons, Kill(d)
  PROVE  /\ proc' \in [Daemons -> [Rounds -> {"none", "up", "failed", "stopping", "gone"}]]
         /\ \A k \in Rounds :
               proc'[d][k] = IF proc[d][k] = "up" THEN "stopping" ELSE proc[d][k]
         /\ \A e \in Daemons, k \in Rounds : e # d => proc'[e][k] = proc[e][k]
  BY DEF Kill, TypeOK

\* only the predecessor can be alive when a daemon starts
LEMMA PredecessorAlive ==
  ASSUME IInv, NEW d \in Daemons, ~Started(d), Alive(d)
  PROVE  n > 1 /\ proc[d][n - 1] = "stopping"
<1>1. PICK k \in Rounds : proc[d][k] \in {"up", "stopping"}
  BY DEF Alive
<1>2. n \in Nat /\ k \in Nat /\ k >= 1
  BY DEF IInv, TypeOK, Rounds
<1>3. k < n /\ ~(k < n - 1) /\ proc[d][k] = "stopping"
  BY <1>1, <1>2 DEF IInv, DaemonInv
<1>4. k = n - 1
  BY <1>2, <1>3
<1> QED BY <1>2, <1>3, <1>4

LEMMA StartStep ==
  ASSUME IInv, NEW d \in Daemons,
         (d = "hostapd" /\ StartHostapd) \/ (d = "wpa_supplicant" /\ StartWpa)
  PROVE  IInv'
<1> USE DEF IInv
<1>1. /\ Start(d) /\ ~Started(d)
      /\ \/ d = "hostapd" /\ pc = "hostapd" /\ pc' = "pidofHostapd"
         \/ d = "wpa_supplicant" /\ pc = "wpa" /\ pc' = "pidofWpa"
      /\ UNCHANGED <<n, dump, sent, captured, cut, devices>>
  BY DEF StartHostapd, StartWpa, Go, Started, Daemons
<1>2. n \in Rounds /\ n \in Nat /\ \A k \in Rounds : k \in Nat /\ k >= 1
  BY DEF TypeOK, Rounds
<1>3. /\ proc' \in [Daemons -> [Rounds -> {"none", "up", "failed", "stopping", "gone"}]]
      /\ proc'[d][n] = IF Alive(d) THEN "failed" ELSE "up"
      /\ \A e \in Daemons, k \in Rounds : e # d \/ k # n => proc'[e][k] = proc[e][k]
  BY <1>1, StartFacts
<1>4. TypeOK' /\ DoneInv'
  BY <1>1, <1>3 DEF TypeOK, DoneInv
<1>5. \A e \in Daemons : e # d => (Started(e) <=> Started(e)') /\ (Killed(e) <=> Killed(e)')
  BY <1>1 DEF Started, Killed, Daemons
<1>6. Started(d)' /\ ~Killed(d)' /\ ~Killed(d) /\ ~Slept /\ ~Slept'
  BY <1>1 DEF Started, Killed, Slept, Daemons
<1>7. DaemonInv'
  BY <1>1, <1>2, <1>3, <1>5, <1>6 DEF DaemonInv
<1>8. FailedInv'
  <2>1. proc'[d][n] = "failed" => n > 1 /\ proc[d][n - 1] = "stopping"
    BY <1>1, <1>3, PredecessorAlive
  <2> SUFFICES ASSUME NEW e \in Daemons, NEW k \in Rounds, proc'[e][k] = "failed"
               PROVE  k > 1 /\ proc'[e][k - 1] # "failed"
    BY DEF FailedInv
  <2>2. k > 1 => k - 1 \in Rounds /\ k - 1 # k
    BY <1>2, TimesAssumption DEF Rounds
  <2>3. CASE e = d /\ k = n
    BY <2>1, <2>2, <2>3, <1>2, <1>3
  <2>4. CASE e # d \/ k # n
    <3>1. k > 1 /\ proc[e][k - 1] # "failed"
      BY <2>4, <1>3 DEF FailedInv
    <3>2. CASE e # d \/ k - 1 # n
      BY <3>1, <3>2, <2>2, <1>3
    <3>3. CASE e = d /\ k - 1 = n
      <4>1. k \in Nat /\ n \in Nat /\ k - 1 = n
        BY <3>3, <1>2
      <4>2. proc[e][k] = "none"
        <5>1. k > n
          BY <4>1
        <5> QED BY <5>1 DEF DaemonInv
      <4> QED BY <4>2, <2>4, <1>3
    <3> QED BY <3>2, <3>3
  <2> QED BY <2>3, <2>4
<1>9. CaptureInv'
  BY <1>1 DEF CaptureInv, Slept
<1>10. SettledInv'
  <2> SUFFICES ASSUME NEW k \in Rounds, k < n PROVE Settled(k)'
    BY <1>1, <1>6 DEF SettledInv
  <2>1. k # n
    BY <1>2
  <2> QED BY <1>1, <1>3, <2>1, SettledStays DEF SettledInv
<1> QED BY <1>4, <1>7, <1>8, <1>9, <1>10

LEMMA WaitStep ==
  ASSUME IInv, PidofHostapd \/ PidofWpa \/ Show \/ StartCapture
  PROVE  IInv'
<1> USE DEF IInv
<1>1. /\ \/ pc = "pidofHostapd" /\ pc' = "capture"
         \/ pc = "capture" /\ pc' = "wpa"
         \/ pc = "pidofWpa" /\ pc' = "show"
         \/ pc = "show" /\ pc' = "sleep"
      /\ dump' = IF pc = "capture" THEN [dump EXCEPT ![n] = "starting"] ELSE dump
      /\ UNCHANGED <<n, proc, sent, captured, cut, devices>>
  BY DEF PidofHostapd, PidofWpa, Pidof, Show, StartCapture, Go
<1>2. n \in Rounds /\ n \in Nat /\ \A k \in Rounds : k \in Nat
  BY DEF TypeOK, Rounds
<1>3. TypeOK' /\ DoneInv'
  BY <1>1 DEF TypeOK, DoneInv
<1>4. ~Slept /\ ~Slept'
  BY <1>1 DEF Slept
<1>5. \A d \in Daemons : (Started(d) <=> Started(d)') /\ (Killed(d) <=> Killed(d)')
  BY <1>1 DEF Started, Killed, Daemons
<1>6. DaemonInv' /\ FailedInv'
  BY <1>1, <1>4, <1>5 DEF DaemonInv, FailedInv
<1>7. CaptureInv'
  BY <1>1, <1>2, <1>4 DEF CaptureInv, Slept, TypeOK
<1>8. SettledInv'
  BY <1>1, <1>4, SettledStays DEF SettledInv
<1> QED BY <1>3, <1>6, <1>7, <1>8

LEMMA SleepStep == ASSUME IInv, Sleep PROVE IInv'
<1> USE DEF IInv
<1>1. /\ pc = "sleep" /\ pc' = "killDump"
      /\ \A d \in Daemons, k \in Rounds : proc[d][k] # "stopping"
      /\ cut' = IF Both /\ sent[n] < Exchange THEN cut \cup {n} ELSE cut
      /\ UNCHANGED <<n, proc, dump, sent, captured, devices>>
  BY DEF Sleep, Go
<1>2. n \in Rounds /\ n \in Nat /\ sent[n] \in 0..Exchange
  BY DEF TypeOK, Rounds
<1>3. TypeOK' /\ DoneInv'
  BY <1>1, <1>2 DEF TypeOK, DoneInv
<1>4. \A d \in Daemons : Started(d) /\ Started(d)' /\ ~Killed(d) /\ ~Killed(d)'
  BY <1>1 DEF Started, Killed, Daemons
<1>5. DaemonInv' /\ FailedInv'
  BY <1>1, <1>4 DEF DaemonInv, FailedInv
<1>6. CaptureInv'
  BY <1>1 DEF CaptureInv, Slept
<1>7. Settled(n)'
  <2>1. CASE ~Both
    <3>1. PICK d \in Daemons : proc[d][n] # "up"
      BY <2>1 DEF Both
    <3>2. proc[d][n] = "failed"
      BY <3>1, <1>2, <1>4 DEF DaemonInv
    <3> QED BY <1>1, <3>2 DEF Settled
  <2>2. CASE sent[n] < Exchange /\ Both
    BY <2>2, <1>1 DEF Settled
  <2>3. CASE sent[n] >= Exchange
    <3>1. sent[n] = Exchange
      BY <2>3, <1>2, ExchangeAssumption
    <3>2. captured[n] = 1..Exchange \/ 1 \notin captured[n]
      BY <3>1, <1>1 DEF CaptureInv, Slept
    <3> QED BY <1>1, <3>1, <3>2 DEF Settled
  <2> QED BY <2>1, <2>2, <2>3, <1>2, ExchangeAssumption
<1>8. SettledInv'
  <2> SUFFICES ASSUME NEW k \in Rounds, k < n \/ k = n PROVE Settled(k)'
    BY <1>1 DEF SettledInv
  <2>1. CASE k < n
    <3>1. Settled(k) /\ cut \subseteq cut'
      BY <2>1, <1>1 DEF SettledInv
    <3> QED BY <3>1, <1>1, SettledStays
  <2>2. CASE k = n
    BY <2>2, <1>1, <1>7 DEF Settled
  <2> QED BY <2>1, <2>2
<1> QED BY <1>3, <1>5, <1>6, <1>8

LEMMA KillDumpStep == ASSUME IInv, KillDump PROVE IInv'
<1> USE DEF IInv
<1>1. /\ pc = "killDump" /\ pc' = "killHostapd"
      /\ dump' = [k \in Rounds |-> IF dump[k] = "capturing" THEN "stopping" ELSE dump[k]]
      /\ UNCHANGED <<n, proc, sent, captured, cut, devices>>
  BY DEF KillDump, Go
<1>2. TypeOK' /\ DoneInv'
  BY <1>1 DEF TypeOK, DoneInv
<1>3. Slept /\ Slept'
      /\ \A d \in Daemons : Started(d) /\ Started(d)' /\ ~Killed(d) /\ ~Killed(d)'
  BY <1>1 DEF Slept, Started, Killed, Daemons
<1>4. DaemonInv' /\ FailedInv'
  BY <1>1, <1>3 DEF DaemonInv, FailedInv
<1>5. CaptureInv'
  BY <1>1, <1>3 DEF CaptureInv, TypeOK
<1>6. SettledInv'
  BY <1>1, <1>3, SettledStays DEF SettledInv
<1> QED BY <1>2, <1>4, <1>5, <1>6

LEMMA KillDaemonStep ==
  ASSUME IInv, NEW d \in Daemons,
         (d = "hostapd" /\ KillHostapd) \/ (d = "wpa_supplicant" /\ KillWpa)
  PROVE  IInv'
<1> USE DEF IInv
<1>1. /\ Kill(d)
      /\ \/ d = "hostapd" /\ pc = "killHostapd" /\ pc' = "killWpa"
         \/ d = "wpa_supplicant" /\ pc = "killWpa" /\ pc' = "stopAlice"
      /\ UNCHANGED <<n, dump, sent, captured, cut, devices>>
  BY DEF KillHostapd, KillWpa, Go, Daemons
<1>2. /\ Slept /\ Slept'
      /\ Started(d) /\ Started(d)' /\ ~Killed(d) /\ Killed(d)'
      /\ \A e \in Daemons :
            e # d => (Started(e) <=> Started(e)') /\ (Killed(e) <=> Killed(e)')
  BY <1>1 DEF Slept, Started, Killed, Daemons
<1>3. /\ proc' \in [Daemons -> [Rounds -> {"none", "up", "failed", "stopping", "gone"}]]
      /\ \A k \in Rounds :
            proc'[d][k] = IF proc[d][k] = "up" THEN "stopping" ELSE proc[d][k]
      /\ \A e \in Daemons, k \in Rounds : e # d => proc'[e][k] = proc[e][k]
  BY <1>1, KillFacts
<1>4. n \in Rounds /\ n \in Nat /\ \A k \in Rounds : k \in Nat /\ k >= 1
  BY DEF TypeOK, Rounds
<1>5. TypeOK' /\ DoneInv'
  BY <1>1, <1>3 DEF TypeOK, DoneInv
<1>6. DaemonInv'
  <2> SUFFICES ASSUME NEW e \in Daemons, NEW k \in Rounds
               PROVE  /\ k > n \/ (k = n /\ ~Started(e)') => proc'[e][k] = "none"
                      /\ k = n /\ Started(e)' /\ ~Killed(e)' => proc'[e][k] \in {"up", "failed"}
                      /\ k < n \/ (k = n /\ Killed(e)')
                            => proc'[e][k] \in {"failed", "stopping", "gone"}
                      /\ k < n - 1 \/ (k < n /\ Slept') => proc'[e][k] # "stopping"
    BY <1>1 DEF DaemonInv
  <2>1. CASE e # d
    BY <2>1, <1>2, <1>3 DEF DaemonInv
  <2>2. CASE e = d
    BY <2>2, <1>2, <1>3, <1>4 DEF DaemonInv
  <2> QED BY <2>1, <2>2
<1>7. \A e \in Daemons, k \in Rounds : proc'[e][k] = "failed" <=> proc[e][k] = "failed"
  BY <1>3
<1>8. FailedInv'
  <2> SUFFICES ASSUME NEW e \in Daemons, NEW k \in Rounds, proc'[e][k] = "failed"
               PROVE  k > 1 /\ proc'[e][k - 1] # "failed"
    BY DEF FailedInv
  <2>1. k > 1 /\ proc[e][k - 1] # "failed"
    BY <1>7 DEF FailedInv
  <2>2. k - 1 \in Rounds
    BY <2>1, <1>4, TimesAssumption DEF Rounds
  <2> QED BY <2>1, <2>2, <1>7
<1>9. CaptureInv'
  BY <1>1, <1>2 DEF CaptureInv
<1>10. SettledInv'
  <2> SUFFICES ASSUME NEW k \in Rounds, k < n \/ k = n PROVE Settled(k)'
    BY <1>1 DEF SettledInv
  <2> QED BY <1>1, <1>2, <1>7, SettledStays DEF SettledInv
<1> QED BY <1>5, <1>6, <1>8, <1>9, <1>10

LEMMA StopStep ==
  ASSUME IInv, StopAlice \/ StopBob
  PROVE  IInv'
<1> USE DEF IInv
<1>1. /\ \/ pc = "stopAlice" /\ pc' = "stopBob" /\ n' = n
         \/ pc = "stopBob" /\ pc' = "done" /\ ~(n < N_TIMES) /\ n' = n
         \/ pc = "stopBob" /\ pc' = "hostapd" /\ n < N_TIMES /\ n' = n + 1
      /\ devices' \subseteq devices
      /\ UNCHANGED <<proc, dump, sent, captured, cut>>
  BY DEF StopAlice, StopBob, Go
<1>2. n \in Rounds /\ n \in Nat /\ \A k \in Rounds : k \in Nat /\ k >= 1
  BY DEF TypeOK, Rounds
<1>3. n' \in Rounds
  BY <1>1, <1>2, TimesAssumption DEF Rounds
<1>4. TypeOK' /\ DoneInv'
  <2>1. ~(n < N_TIMES) => n = N_TIMES
    BY TimesAssumption DEF TypeOK, Rounds
  <2> QED BY <1>1, <1>3, <2>1 DEF TypeOK, DoneInv
<1>5. FailedInv'
  BY <1>1 DEF FailedInv
<1>6. CASE n' = n
  <2>1. pc' \in {"stopBob", "done"} /\ Slept /\ Slept'
    BY <1>1, <1>2, <1>6 DEF Slept
  <2>2. \A d \in Daemons : Started(d) /\ Started(d)' /\ Killed(d) /\ Killed(d)'
    BY <1>1, <2>1 DEF Started, Killed, Daemons
  <2>3. DaemonInv'
    BY <1>1, <1>6, <2>1, <2>2 DEF DaemonInv
  <2>4. CaptureInv'
    BY <1>1, <1>6, <2>1 DEF CaptureInv, Slept
  <2>5. SettledInv'
    BY <1>1, <1>6, <2>1, SettledStays DEF SettledInv
  <2> QED BY <1>4, <1>5, <2>3, <2>4, <2>5
<1>7. CASE n' = n + 1
  <2>1. pc = "stopBob" /\ pc' = "hostapd" /\ Slept /\ ~Slept'
    BY <1>1, <1>2, <1>7 DEF Slept
  <2>2. \A d \in Daemons : Killed(d) /\ ~Started(d)' /\ ~Killed(d)'
    BY <2>1 DEF Started, Killed, Daemons
  <2>3. DaemonInv'
    <3> SUFFICES ASSUME NEW d \in Daemons, NEW k \in Rounds
                 PROVE  /\ k > n' \/ (k = n' /\ ~Started(d)') => proc[d][k] = "none"
                        /\ k < n' => proc[d][k] \in {"failed", "stopping", "gone"}
                        /\ k < n' - 1 => proc[d][k] # "stopping"
      BY <1>1, <2>1, <2>2 DEF DaemonInv
    <3>1. k \in Nat
      BY <1>2
    <3>2. /\ k > n' \/ k = n' => k > n
          /\ k < n' => k < n \/ k = n
          /\ k < n' - 1 => k < n
      BY <3>1, <1>2, <1>7
    <3> QED BY <3>2, <2>1, <2>2 DEF DaemonInv
  <2>4. CaptureInv'
    <3>1. \A k \in Rounds : k >= n + 1 => k > n
      BY <1>2
    <3> QED BY <1>1, <1>2, <1>3, <1>7, <2>1, <3>1 DEF CaptureInv, Slept
  <2>5. SettledInv'
    <3> SUFFICES ASSUME NEW k \in Rounds, k < n + 1 PROVE Settled(k)'
      BY <1>7, <2>1 DEF SettledInv
    <3>1. k < n \/ k = n
      BY <1>2
    <3> QED BY <1>1, <2>1, <3>1, SettledStays DEF SettledInv
  <2> QED BY <1>4, <1>5, <2>3, <2>4, <2>5
<1> QED BY <1>1, <1>6, <1>7

LEMMA CaptureStep ==
  ASSUME IInv, NEW k \in Rounds, CaptureStarts(k) \/ CaptureEnds(k)
  PROVE  IInv'
<1> USE DEF IInv
<1>1. /\ \/ dump[k] = "starting" /\ dump' = [dump EXCEPT ![k] = "capturing"]
         \/ dump[k] = "stopping" /\ dump' = [dump EXCEPT ![k] = "gone"]
      /\ UNCHANGED <<pc, n, proc, sent, captured, cut, devices>>
  BY DEF CaptureStarts, CaptureEnds
<1>2. TypeOK' /\ DoneInv'
  BY <1>1 DEF TypeOK, DoneInv
<1>3. DaemonInv' /\ FailedInv' /\ SettledInv'
  BY <1>1 DEF DaemonInv, FailedInv, SettledInv, Settled, Started, Killed, Slept
<1>4. CaptureInv'
  BY <1>1 DEF CaptureInv, Slept, TypeOK
<1> QED BY <1>2, <1>3, <1>4

LEMMA TransmitStep == ASSUME IInv, Transmit PROVE IInv'
<1> USE DEF IInv
<1>1. /\ Both /\ sent[n] < Exchange
      /\ sent' = [sent EXCEPT ![n] = @ + 1]
      /\ captured' = [captured EXCEPT ![n] =
                         IF dump[n] \in {"capturing", "stopping"}
                         THEN @ \cup {sent[n] + 1} ELSE @]
      /\ devices' \in SUBSET Hosts
      /\ UNCHANGED <<pc, n, proc, dump, cut>>
  BY DEF Transmit, TypeOK
<1>2. n \in Rounds /\ n \in Nat /\ sent[n] \in 0..Exchange /\ sent[n] \in Nat
  BY DEF TypeOK, Rounds
<1>3. sent[n] + 1 \in 0..Exchange /\ sent[n] + 1 \in 1..Exchange
  BY <1>1, <1>2, ExchangeAssumption
<1>4. TypeOK' /\ DoneInv'
  BY <1>1, <1>2, <1>3 DEF TypeOK, DoneInv
<1>5. DaemonInv' /\ FailedInv'
  BY <1>1 DEF DaemonInv, FailedInv, Started, Killed, Slept
<1>6. pc \notin {"hostapd", "pidofHostapd", "capture"}
  <2>1. proc["wpa_supplicant"][n] = "up" /\ "wpa_supplicant" \in Daemons
    BY <1>1 DEF Both, Daemons
  <2>2. Started("wpa_supplicant")
    BY <2>1, <1>2 DEF DaemonInv
  <2> QED BY <2>2 DEF Started
<1>7. CaptureInv'
  <2>1. \A k \in Rounds : k > n => dump'[k] = "none" /\ captured'[k] = {}
    BY <1>1, <1>2 DEF CaptureInv, TypeOK
  <2>2. ~Slept /\ 1 \in captured'[n] => dump[n] = "capturing" /\ captured'[n] = 1..sent'[n]
    <3> SUFFICES ASSUME ~Slept, 1 \in captured'[n]
                 PROVE  dump[n] = "capturing" /\ captured'[n] = 1..sent'[n]
      OBVIOUS
    <3>1. dump[n] \in {"starting", "capturing"}
      BY <1>6 DEF CaptureInv
    <3>2. sent'[n] = sent[n] + 1
      BY <1>1, <1>2 DEF TypeOK
    <3>3. CASE 1 \in captured[n]
      <4>1. dump[n] = "capturing" /\ captured[n] = 1..sent[n]
        BY <3>3 DEF CaptureInv
      <4>2. captured'[n] = captured[n] \cup {sent[n] + 1}
        BY <4>1, <1>1, <1>2 DEF TypeOK
      <4>3. (1..sent[n]) \cup {sent[n] + 1} = 1..sent[n] + 1
        BY <1>2
      <4> QED BY <3>2, <4>1, <4>2, <4>3
    <3>4. CASE 1 \notin captured[n]
      <4>1. dump[n] = "capturing" /\ captured'[n] = captured[n] \cup {sent[n] + 1}
        BY <3>1, <3>4, <1>1, <1>2 DEF TypeOK
      <4>2. sent[n] + 1 = 1
        BY <3>4, <4>1
      <4>3. captured[n] = {}
        BY <4>2, <1>2, <3>4 DEF CaptureInv
      <4> QED BY <3>2, <4>1, <4>2, <4>3
    <3> QED BY <3>3, <3>4
  <2>3. ~Slept => captured'[n] \subseteq 1..sent'[n]
    <3> SUFFICES ASSUME ~Slept PROVE captured'[n] \subseteq 1..sent'[n]
      OBVIOUS
    <3>1. captured[n] \subseteq 1..sent[n] /\ sent'[n] = sent[n] + 1
      BY <1>1, <1>2 DEF CaptureInv, TypeOK
    <3>2. captured'[n] \subseteq captured[n] \cup {sent[n] + 1}
      BY <1>1, <1>2 DEF TypeOK
    <3> QED BY <3>1, <3>2, <1>2
  <2> QED BY <1>1, <1>6, <2>1, <2>2, <2>3 DEF CaptureInv, Slept
<1>8. SettledInv'
  <2> SUFFICES ASSUME NEW k \in Rounds, k < n \/ (k = n /\ Slept) PROVE Settled(k)'
    BY <1>1 DEF SettledInv, Slept
  <2>1. CASE k # n
    BY <2>1, <1>1, SettledStays DEF SettledInv, TypeOK
  <2>2. CASE k = n
    <3>1. Slept /\ Settled(n)
      BY <2>2, <1>2 DEF SettledInv
    <3>2. \A d \in Daemons : proc[d][n] # "failed"
      BY <1>1 DEF Both
    <3>3. n \in cut
      BY <3>1, <3>2, <1>1, <1>2 DEF Settled
    <3> QED BY <2>2, <3>3, <1>1 DEF Settled
  <2> QED BY <2>1, <2>2
<1> QED BY <1>4, <1>5, <1>7, <1>8

LEMMA DaemonEndsStep ==
  ASSUME IInv, NEW d \in Daemons, NEW j \in Rounds, DaemonEnds(d, j)
  PROVE  IInv'
<1> USE DEF IInv
<1>1. /\ proc[d][j] = "stopping" /\ proc'[d][j] = "gone"
      /\ proc' \in [Daemons -> [Rounds -> {"none", "up", "failed", "stopping", "gone"}]]
      /\ \A e \in Daemons, k \in Rounds : e # d \/ k # j => proc'[e][k] = proc[e][k]
      /\ UNCHANGED <<pc, n, dump, sent, captured, cut, devices>>
  BY DEF DaemonEnds, TypeOK
<1>2. TypeOK' /\ DoneInv'
  BY <1>1 DEF TypeOK, DoneInv
<1>3. \A e \in Daemons, k \in Rounds : proc'[e][k] = "failed" <=> proc[e][k] = "failed"
  BY <1>1
<1>4. \A e \in Daemons : (Started(e) <=> Started(e)') /\ (Killed(e) <=> Killed(e)')
  BY <1>1 DEF Started, Killed
<1>5. Slept' <=> Slept
  BY <1>1 DEF Slept
<1>6. DaemonInv'
  <2> SUFFICES ASSUME NEW e \in Daemons, NEW k \in Rounds
               PROVE  /\ k > n \/ (k = n /\ ~Started(e)) => proc'[e][k] = "none"
                      /\ k = n /\ Started(e) /\ ~Killed(e) => proc'[e][k] \in {"up", "failed"}
                      /\ k < n \/ (k = n /\ Killed(e))
                            => proc'[e][k] \in {"failed", "stopping", "gone"}
                      /\ k < n - 1 \/ (k < n /\ Slept) => proc'[e][k] # "stopping"
    BY <1>1, <1>4, <1>5 DEF DaemonInv
  <2>1. CASE e # d \/ k # j
    BY <2>1, <1>1 DEF DaemonInv
  <2>2. CASE e = d /\ k = j
    BY <2>2, <1>1 DEF DaemonInv
  <2> QED BY <2>1, <2>2
<1>7. FailedInv'
  <2> SUFFICES ASSUME NEW e \in Daemons, NEW k \in Rounds, proc'[e][k] = "failed"
               PROVE  k > 1 /\ proc'[e][k - 1] # "failed"
    BY DEF FailedInv
  <2>1. k > 1 /\ proc[e][k - 1] # "failed"
    BY <1>3 DEF FailedInv
  <2>2. k - 1 \in Rounds
    BY <2>1, TimesAssumption DEF Rounds
  <2> QED BY <2>1, <2>2, <1>3
<1>8. CaptureInv'
  BY <1>1, <1>5 DEF CaptureInv
<1>9. SettledInv'
  BY <1>1, <1>3, <1>5, SettledStays DEF SettledInv
<1> QED BY <1>2, <1>6, <1>7, <1>8, <1>9

LEMMA Stutter == IInv /\ UNCHANGED vars => IInv'
  BY DEF vars, IInv, TypeOK, DoneInv, DaemonInv, FailedInv, CaptureInv, SettledInv, Settled,
     Started, Killed, Slept

(* The iterations keep apart: a daemon that is started finds at most the one *)
(* of the iteration before.                                                  *)
THEOREM Invariance == Spec => []IInv
<1>1. IInv /\ [Next]_vars => IInv'
  <2> SUFFICES ASSUME IInv, [Next]_vars PROVE IInv'
    OBVIOUS
  <2>1. CASE StartHostapd \/ StartWpa
    BY <2>1, StartStep DEF Daemons
  <2>2. CASE KillHostapd \/ KillWpa
    BY <2>2, KillDaemonStep DEF Daemons
  <2>3. CASE PidofHostapd \/ PidofWpa \/ Show \/ StartCapture \/ StopAlice \/ StopBob
    BY <2>3, WaitStep, StopStep
  <2>4. CASE Sleep \/ KillDump \/ Transmit \/ UNCHANGED vars
    BY <2>4, SleepStep, KillDumpStep, TransmitStep, Stutter
  <2>5. CASE \E k \in Rounds : CaptureStarts(k) \/ CaptureEnds(k)
    BY <2>5, CaptureStep
  <2>6. CASE \E d \in Daemons, k \in Rounds : DaemonEnds(d, k)
    BY <2>6, DaemonEndsStep
  <2> QED BY <2>1, <2>2, <2>3, <2>4, <2>5, <2>6 DEF Next, Script
<1> QED BY <1>1, Initially, PTL DEF Spec

(* The variables keep their types.                                           *)
THEOREM TypeCorrect == Spec => []TypeOK
BY Invariance, PTL DEF IInv

(* A capture lacks packets only when tcpdump came late, the sleeps were too  *)
(* short, or a daemon met its predecessor, which no daemon does twice in a   *)
(* row.                                                                      *)
THEOREM Lost == Spec => []LostForAReason
<1>1. IInv => LostForAReason
  <2> SUFFICES ASSUME IInv, NEW k \in Rounds, k < n \/ pc = "done"
               PROVE  \/ captured[k] = 1..Exchange
                      \/ sent[k] > 0 /\ 1 \notin captured[k]
                      \/ k \in cut
                      \/ LostToThePrevious(k)
    BY DEF LostForAReason
  <2>1. Settled(k)
    <3>1. k \in Nat /\ k <= N_TIMES /\ n \in Nat
      BY TimesAssumption DEF IInv, TypeOK, Rounds
    <3>2. pc = "done" => k < n \/ k = n
      BY <3>1, TimesAssumption DEF IInv, DoneInv
    <3> QED BY <3>2 DEF IInv, SettledInv, Slept
  <2> QED BY <2>1, ExchangeAssumption DEF IInv, FailedInv, Settled, LostToThePrevious
<1> QED BY <1>1, Invariance, PTL
=============================================================================

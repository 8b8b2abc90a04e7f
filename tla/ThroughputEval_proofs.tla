----------------------- MODULE ThroughputEval_proofs -----------------------
(***************************************************************************)
(* Proofs about ThroughputEval, for any rates, any number of repetitions    *)
(* and any sequence of runs.                                                *)
(***************************************************************************)
EXTENDS ThroughputEval, TLAPS

Clean == run - 1 \notin interrupted

\* where the script is in its loop over the rates
PlaceInv ==
    /\ pc \in {"up", "server", "pidof", "down"} => n = 1
    /\ pc \in {"up", "server", "pidof"} => i = 1
    /\ pc \in {"setAlice", "setBob", "resetAlice", "resetBob"} => i <= Len(Rates)

\* nothing was left by an interrupted run, or the first reset has removed it
Healed == Clean \/ i > 1

\* how the links are shaped at each command, once nothing is left over
QdiscInv ==
    /\ pc = "resetBob" => qdisc["alice"] = Unshaped
    /\ Healed /\ pc \in {"up", "server", "pidof", "setAlice"} =>
           \A h \in Hosts : qdisc[h] = Unshaped
    /\ Healed /\ pc = "setBob" => qdisc["alice"] = RateOf(i) /\ qdisc["bob"] = Unshaped
    /\ Healed /\ pc = "client" => \A h \in Hosts : qdisc[h] = RateOf(i)

\* a run that follows no interrupted one has the server to itself, until it ends
ServerInv ==
    Clean =>
      /\ pc # "over" => ~orphan
      /\ pc \in {"up", "server"} => server = "none" /\ ~starting
      /\ pc \notin {"up", "server", "over"} => starting \/ fallen \/ server = Protocols[run]

IInv ==
    /\ TypeOK
    /\ PlaceInv
    /\ QdiscInv
    /\ ServerInv
    /\ MisfiledForAReason
    /\ IncompleteForAReason

LEMMA Lengths ==
  /\ Len(Rates) \in Nat /\ Len(Rates) >= 1
  /\ Len(Protocols) \in Nat /\ Len(Protocols) >= 1
  /\ \A k \in Runs : Protocols[k] \in {"plain", "tls"}
  BY RatesAssumption, ProtocolsAssumption DEF Runs

LEMMA ElementOfSeq ==
  ASSUME NEW S, NEW q \in Seq(S), NEW k \in 1..Len(q)
  PROVE  q[k] \in S
  OBVIOUS

LEMMA RateTypes == \A k : RateOf(k) \in Nat
<1> SUFFICES ASSUME NEW k PROVE RateOf(k) \in Nat
  OBVIOUS
<1>1. CASE k \in 1..Len(Rates)
  <2>1. Rates \in Seq(Nat \ {0})
    BY RatesAssumption
  <2>2. Rates[k] \in Nat \ {0}
    BY <1>1, <2>1, ElementOfSeq, Zenon
  <2> QED BY <1>1, <2>2 DEF RateOf
<1>2. CASE k \notin 1..Len(Rates)
  BY <1>2 DEF RateOf, Unshaped
<1> QED BY <1>1, <1>2

LEMMA Initially == Init => IInv
<1> SUFFICES ASSUME Init PROVE IInv
  OBVIOUS
<1>1. TypeOK
  <2>1. 1 \in Runs /\ 1 \in 1..Len(Rates) + 1 /\ 1 \in 1..N_TIMES
    BY Lengths, TimesAssumption DEF Runs
  <2>2. [h \in Hosts |-> Unshaped] \in [Hosts -> Nat]
    BY DEF Unshaped
  <2> QED BY <2>1, <2>2 DEF Init, TypeOK
<1>2. PlaceInv /\ QdiscInv /\ ServerInv
  BY DEF Init, PlaceInv, QdiscInv, ServerInv, Hosts, Unshaped
<1>3. MisfiledForAReason /\ IncompleteForAReason
  BY DEF Init, MisfiledForAReason, IncompleteForAReason
<1> QED BY <1>1, <1>2, <1>3 DEF IInv

\* no log is written, and no interruption is forgotten
LEMMA LogsStay ==
  ASSUME MisfiledForAReason, IncompleteForAReason,
         log' = log, interrupted \subseteq interrupted'
  PROVE  MisfiledForAReason' /\ IncompleteForAReason'
<1>1. \A k : RateOf(k)' = RateOf(k)
  BY DEF RateOf, Unshaped
<1> QED BY <1>1 DEF MisfiledForAReason, IncompleteForAReason

LEMMA ShapedFacts ==
  ASSUME TypeOK, NEW h \in Hosts
  PROVE  /\ Shaped(h) \in [Hosts -> Nat]
         /\ qdisc[h] = Unshaped => Shaped(h)[h] = RateOf(i)
         /\ \A g \in Hosts : g # h => Shaped(h)[g] = qdisc[g]
  BY RateTypes DEF TypeOK, Shaped

LEMMA ScriptStep ==
  ASSUME IInv, Up \/ StartServer \/ PidofServer \/ SetAlice \/ SetBob
  PROVE  IInv'
<1> USE DEF IInv
<1> i \in Nat /\ i >= 1 /\ i <= Len(Rates) + 1 /\ run \in Nat
  BY Lengths DEF TypeOK, Runs
<1>1. CASE Up
  BY <1>1, LogsStay DEF Up, At, Go, Links, Processes, TypeOK, PlaceInv, QdiscInv, ServerInv,
     Healed, Clean
<1>2. CASE StartServer
  <2>1. TypeOK'
    BY <1>2 DEF StartServer, At, Go, Links, TypeOK
  <2>2. PlaceInv' /\ QdiscInv' /\ ServerInv'
    BY <1>2 DEF StartServer, At, Go, Links, PlaceInv, QdiscInv, ServerInv, Healed, Clean
  <2> QED BY <1>2, <2>1, <2>2, LogsStay DEF StartServer, Go
<1>3. CASE PidofServer
  <2>1. TypeOK'
    BY <1>3 DEF PidofServer, At, Go, Links, Processes, TypeOK
  <2>2. PlaceInv' /\ QdiscInv' /\ ServerInv'
    BY <1>3, Lengths DEF PidofServer, At, Go, Links, Processes, PlaceInv, QdiscInv, ServerInv,
       Healed, Clean
  <2> QED BY <1>3, <2>1, <2>2, LogsStay DEF PidofServer, Go
<1>4. CASE SetAlice
  <2> "alice" \in Hosts /\ "bob" \in Hosts
    BY DEF Hosts
  <2>1. TypeOK'
    BY <1>4, ShapedFacts DEF SetAlice, At, Go, Processes, TypeOK
  <2>2. PlaceInv' /\ ServerInv'
    BY <1>4 DEF SetAlice, At, Go, Processes, PlaceInv, ServerInv, Clean
  <2>3. RateOf(i)' = RateOf(i)
    BY <1>4 DEF SetAlice, RateOf, Unshaped
  <2>4. QdiscInv'
    BY <1>4, <2>3, ShapedFacts DEF SetAlice, At, Go, Processes, QdiscInv, Healed, Clean
  <2> QED BY <1>4, <2>1, <2>2, <2>4, LogsStay DEF SetAlice, Go
<1>5. CASE SetBob
  <2> "alice" \in Hosts /\ "bob" \in Hosts
    BY DEF Hosts
  <2>1. TypeOK'
    BY <1>5, ShapedFacts DEF SetBob, At, Go, Processes, TypeOK
  <2>2. PlaceInv' /\ ServerInv'
    BY <1>5 DEF SetBob, At, Go, Processes, PlaceInv, ServerInv, Clean
  <2>3. RateOf(i)' = RateOf(i)
    BY <1>5 DEF SetBob, RateOf, Unshaped
  <2>4. Healed => \A h \in Hosts : qdisc'[h] = RateOf(i)
    BY <1>5, ShapedFacts DEF SetBob, At, QdiscInv, Hosts
  <2>5. QdiscInv'
    BY <1>5, <2>3, <2>4 DEF SetBob, At, Go, Processes, QdiscInv, Healed, Clean
  <2> QED BY <1>5, <2>1, <2>2, <2>5, LogsStay DEF SetBob, Go
<1> QED BY <1>1, <1>2, <1>3, <1>4, <1>5

LEMMA ClientStep == IInv /\ RunClient => IInv'
<1> SUFFICES ASSUME IInv, RunClient PROVE IInv'
  OBVIOUS
<1> USE DEF IInv
<1>1. /\ log' = {} \/ \E fails \in BOOLEAN : log' = {Log(fails)}
      /\ UNCHANGED <<run, i, qdisc, server, starting, orphan, fallen, interrupted>>
      /\ pc = "client"
  BY DEF RunClient, AfterClient, At, Go, Links, Processes
<1>2. \/ n < N_TIMES /\ n' = n + 1 /\ pc' = "client"
      \/ n' = 1 /\ i <= Len(Rates) /\ pc' = "resetAlice"
      \/ n' = 1 /\ i = Len(Rates) + 1 /\ pc' = "down"
  <2>1. i \in Nat /\ i <= Len(Rates) + 1 /\ Len(Rates) \in Nat
    BY Lengths DEF TypeOK
  <2> QED BY <2>1 DEF RunClient, AfterClient, Go
<1>3. \A fails \in BOOLEAN : Log(fails) \in LogType
  BY DEF Log, LogType, TypeOK, Served
<1>4. n' \in 1..N_TIMES
  BY <1>2, TimesAssumption DEF TypeOK
<1>5. TypeOK'
  BY <1>1, <1>2, <1>3, <1>4 DEF TypeOK
<1>6. PlaceInv'
  BY <1>1, <1>2 DEF PlaceInv
<1>7. RateOf(i)' = RateOf(i)
  BY <1>1 DEF RateOf, Unshaped
<1>8. QdiscInv' /\ ServerInv'
  BY <1>1, <1>2, <1>7 DEF QdiscInv, ServerInv, Healed, Clean
<1>9. MisfiledForAReason'
  <2>1. ASSUME NEW fails \in BOOLEAN
        PROVE  \/ \A h \in Hosts : Log(fails).measured[h] = RateOf(Log(fails).place)
               \/ Log(fails).place = 1 /\ Log(fails).run - 1 \in interrupted
    <3> /\ Log(fails).measured = qdisc
        /\ Log(fails).place = i
        /\ Log(fails).run = run
      BY DEF Log
    <3>1. CASE Healed
      BY <3>1, <1>1 DEF QdiscInv
    <3>2. CASE ~Healed
      <4>1. i \in Nat /\ i >= 1
        BY Lengths DEF TypeOK
      <4> QED BY <3>2, <4>1 DEF Healed, Clean
    <3> QED BY <3>1, <3>2
  <2>2. \A k : RateOf(k)' = RateOf(k)
    BY DEF RateOf, Unshaped
  <2> QED BY <1>1, <2>1, <2>2 DEF MisfiledForAReason
<1>10. IncompleteForAReason'
  <2>1. ASSUME NEW fails \in BOOLEAN
        PROVE  \/ Log(fails).complete \/ Log(fails).failed \/ Log(fails).early
               \/ Log(fails).fallen \/ Log(fails).run - 1 \in interrupted
    BY <1>1 DEF ServerInv, Clean, Served, Log
  <2> QED BY <1>1, <2>1 DEF IncompleteForAReason
<1> QED BY <1>5, <1>6, <1>8, <1>9, <1>10

LEMMA ResetStep == IInv /\ (ResetAlice \/ ResetBob) => IInv'
<1> SUFFICES ASSUME IInv, ResetAlice \/ ResetBob PROVE IInv'
  OBVIOUS
<1> USE DEF IInv
<1> i \in Nat /\ i >= 1 /\ Len(Rates) \in Nat
  BY Lengths DEF TypeOK
<1> "alice" \in Hosts /\ "bob" \in Hosts
  BY DEF Hosts
<1>1. CASE ResetAlice
  <2>1. TypeOK'
    BY <1>1 DEF ResetAlice, At, Go, Processes, TypeOK, Unshaped
  <2>2. PlaceInv' /\ ServerInv'
    BY <1>1 DEF ResetAlice, At, Go, Processes, PlaceInv, ServerInv, Clean
  <2>3. QdiscInv'
    BY <1>1 DEF ResetAlice, At, Go, Processes, QdiscInv, TypeOK
  <2> QED BY <1>1, <2>1, <2>2, <2>3, LogsStay DEF ResetAlice, Go
<1>2. CASE ResetBob
  <2>1. i <= Len(Rates) /\ i' = i + 1
    BY <1>2 DEF ResetBob, At, PlaceInv
  <2>2. pc' = IF i < Len(Rates) THEN "setAlice" ELSE "client"
    BY <1>2 DEF ResetBob, Go
  <2>3. TypeOK'
    <3>1. i' \in 1..Len(Rates) + 1
      BY <2>1
    <3> QED BY <1>2, <2>2, <3>1 DEF ResetBob, At, Go, Processes, TypeOK, Unshaped
  <2>4. PlaceInv' /\ ServerInv'
    BY <1>2, <2>1, <2>2 DEF ResetBob, At, Go, Processes, PlaceInv, ServerInv, Clean
  <2>5. \A h \in Hosts : qdisc'[h] = Unshaped
    BY <1>2 DEF ResetBob, At, QdiscInv, TypeOK, Hosts
  <2>6. pc' = "client" => RateOf(i)' = Unshaped
    BY <2>1, <2>2 DEF RateOf, Unshaped
  <2>7. QdiscInv'
    BY <2>2, <2>5, <2>6 DEF QdiscInv, Unshaped
  <2> QED BY <1>2, <2>3, <2>4, <2>7, LogsStay DEF ResetBob, Go
<1> QED BY <1>1, <1>2

\* a run begins at the first rate, or there is none left
LEMMA NextRunFacts ==
  ASSUME TypeOK, NextRun
  PROVE  /\ i' = 1 /\ n' = 1
         /\ run' \in Runs
         /\ \/ run' = run + 1 /\ pc' = "up"
            \/ run' = run /\ pc' = "over"
<1>1. run \in Nat /\ run >= 1 /\ run <= Len(Protocols) /\ Len(Protocols) \in Nat
  BY Lengths DEF TypeOK, Runs
<1> QED BY <1>1 DEF NextRun, Runs

LEMMA EndStep == IInv /\ (Down \/ Interrupt) => IInv'
<1> SUFFICES ASSUME IInv, Down \/ Interrupt PROVE IInv'
  OBVIOUS
<1> USE DEF IInv
<1>1. /\ NextRun
      /\ log' = log
  BY DEF Down, Interrupt
<1>2. /\ i' = 1 /\ n' = 1
      /\ run' \in Runs
      /\ \/ run' = run + 1 /\ pc' = "up"
         \/ run' = run /\ pc' = "over"
  BY <1>1, NextRunFacts
<1>3. /\ 1 \in 1..Len(Rates) + 1
      /\ 1 \in 1..N_TIMES
      /\ Protocols[run] \in {"plain", "tls"}
  BY Lengths, TimesAssumption DEF TypeOK
<1>4. PlaceInv'
  BY <1>2 DEF PlaceInv
<1>5. CASE Down
  <2>1. TypeOK'
    BY <1>5, <1>2, <1>3 DEF Down, TypeOK, Unshaped
  <2>2. QdiscInv' /\ ServerInv'
    BY <1>5, <1>2 DEF Down, QdiscInv, ServerInv, Unshaped
  <2> QED BY <1>4, <1>5, <2>1, <2>2, LogsStay DEF Down
<1>6. CASE Interrupt
  <2>1. TypeOK'
    BY <1>6, <1>2, <1>3 DEF Interrupt, Links, TypeOK, Served
  <2>2. pc' # "over" => ~Clean' /\ ~Healed'
    <3>1. run \in Nat
      BY DEF TypeOK, Runs
    <3> QED BY <1>6, <1>2, <3>1 DEF Interrupt, Clean, Healed
  <2>3. QdiscInv' /\ ServerInv'
    BY <1>2, <2>2 DEF QdiscInv, ServerInv
  <2> QED BY <1>4, <1>6, <2>1, <2>3, LogsStay DEF Interrupt
<1> QED BY <1>5, <1>6

LEMMA WorldStep == IInv /\ (Listen \/ ServerFails \/ OrphanEnds) => IInv'
<1> SUFFICES ASSUME IInv, Listen \/ ServerFails \/ OrphanEnds PROVE IInv'
  OBVIOUS
<1> USE DEF IInv
<1>1. UNCHANGED <<run, pc, i, n, qdisc, interrupted, log>>
  BY DEF Listen, ServerFails, OrphanEnds, Links
<1>2. RateOf(i)' = RateOf(i)
  BY <1>1 DEF RateOf, Unshaped
<1>3. PlaceInv' /\ QdiscInv'
  BY <1>1, <1>2 DEF PlaceInv, QdiscInv, Healed, Clean
<1>4. CASE Listen
  <2>1. TypeOK'
    BY <1>4, <1>1, Lengths DEF Listen, TypeOK
  <2>2. ServerInv'
    BY <1>4, <1>1 DEF Listen, ServerInv, Clean
  <2> QED BY <1>1, <1>3, <2>1, <2>2, LogsStay
<1>5. CASE OrphanEnds
  <2>1. TypeOK' /\ ServerInv'
    BY <1>5, <1>1 DEF OrphanEnds, TypeOK, ServerInv, Clean
  <2> QED BY <1>1, <1>3, <2>1, LogsStay
<1>6. CASE ServerFails
  <2>1. TypeOK'
    BY <1>6, <1>1 DEF ServerFails, TypeOK
  <2>2. ServerInv'
    BY <1>6, <1>1, Zenon DEF ServerFails, ServerInv, Clean
  <2> QED BY <1>1, <1>3, <2>1, <2>2, LogsStay
<1> QED BY <1>4, <1>5, <1>6

LEMMA Stutter == IInv /\ UNCHANGED vars => IInv'
<1> SUFFICES ASSUME IInv, UNCHANGED vars PROVE IInv'
  OBVIOUS
<1>1. RateOf(i)' = RateOf(i)
  BY DEF vars, RateOf, Unshaped
<1> QED BY <1>1, LogsStay DEF vars, IInv, TypeOK, PlaceInv, QdiscInv, ServerInv, Healed, Clean

(* Through any runs and interruptions, the links are shaped as the place in *)
(* the script says, once a run has its first reset behind it.               *)
THEOREM Invariance == Spec => []IInv
<1>1. IInv /\ [Next]_vars => IInv'
  BY ScriptStep, ClientStep, ResetStep, EndStep, WorldStep, Stutter DEF Next, Script
<1> QED BY <1>1, Initially, PTL DEF Spec

(* The variables keep their types.                                          *)
THEOREM TypeCorrect == Spec => []TypeOK
BY Invariance, PTL DEF IInv

(* A log is misfiled only at the first rate of a run that follows an        *)
(* interrupted one: link_set_rate.sh does not see that tc fails.            *)
THEOREM Misfiled == Spec => []MisfiledForAReason
BY Invariance, PTL DEF IInv

(* A log lacks its result only when its client failed on its own account or *)
(* came before the server listened or after it had ended on its own         *)
(* account, or in a run that follows an interrupted one.                    *)
THEOREM Incomplete == Spec => []IncompleteForAReason
BY Invariance, PTL DEF IInv
=============================================================================

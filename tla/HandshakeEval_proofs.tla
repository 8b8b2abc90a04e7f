------------------------- MODULE HandshakeEval_proofs -------------------------
(***************************************************************************)
(* Safety of the handshake evaluation for any number of runs, any number of   *)
(* iterations in each and any number of flights.  The heart of the argument   *)
(* is a count: what a server has served is the number of connections it took  *)
(* that are closed, and no run has more connections than its server serves.   *)
(***************************************************************************)
EXTENDS HandshakeEval, FiniteSetTheorems, TLAPS

\* the connections the script has yet to begin, and those it is done with
Later(c) ==
    \/ c[1] > run
    \/ c[1] = run /\ c[2] > n
    \/ c = Now /\ pc \in {"server", "pidof", "capture"}

Past(c) ==
    \/ c[1] < run
    \/ c[1] = run /\ c[2] < n
    \/ c = Now /\ pc \in {"kill", "done"}

OrderInv ==
    /\ pc \in {"server", "pidof"} => n = 1
    /\ \A c \in Conns : Later(c) => conn[c] = "none"
    /\ \A c \in Conns : Past(c) => conn[c] \notin {"none", "open"}
    /\ pc = "sleep" => conn[Now] # "none"

\* a tcpdump that was begun is found by pkill
DumpInv ==
    /\ CapturesStopped
    /\ pc = "kill" => \A c \in Conns : dump[c] \notin {"starting", "stopping"}

\* a connection and the server that took it
ConnInv ==
    \A c \in Conns :
        /\ conn[c] \in {"none", "refused"} <=> by[c] = 0
        /\ by[c] <= c[1]
        /\ conn[c] = "open" => c = Now /\ server[by[c]] = "listening"
        /\ conn[c] = "failed" => server[by[c]] = "gone"
        /\ by[c] # 0 => server[by[c]] \in {"listening", "gone"}

\* a server is there from its run on, and ends for a reason
ServerInv ==
    \A r \in Runs :
        /\ server[r] = "none" <=> r > run \/ (r = run /\ pc = "server")
        /\ server[r] = "listening" => served[r] < N_TIMES[r]
        /\ server[r] = "gone" =>
              \/ \A c \in Conns : by[c] # r
              \/ \E c \in Conns : by[c] = r /\ conn[c] = "failed"
              \/ served[r] = N_TIMES[r]

\* the connections a server has served to the end
Closed(r) == {c \in Conns : by[c] = r /\ conn[c] = "closed"}

CountInv ==
    \A r \in Runs : IsFiniteSet(Closed(r)) /\ served[r] = Cardinality(Closed(r))

IInv == TypeOK /\ OrderInv /\ DumpInv /\ ConnInv /\ ServerInv /\ CountInv /\ LeftOverForAReason

-----------------------------------------------------------------------------
(* Runs and connections.                                                     *)

LEMMA NTimes == Rounds \in Nat \ {0} /\ \A r \in Runs : N_TIMES[r] \in Nat \ {0}
BY TimesAssumption DEF Rounds, Runs

LEMMA ConnOf == \A r \in Runs : \A k \in 1..N_TIMES[r] : <<r, k>> \in Conns
BY DEF Conns

LEMMA ConnIs ==
    \A c \in Conns : c[1] \in Runs /\ c[2] \in 1..N_TIMES[c[1]] /\ c = <<c[1], c[2]>>
BY DEF Conns

\* the connections of one run
Own(r) == {r} \X (1..N_TIMES[r])

LEMMA OwnCard ==
    ASSUME NEW r \in Runs
    PROVE  /\ Own(r) \subseteq Conns
           /\ IsFiniteSet(Own(r))
           /\ Cardinality(Own(r)) = N_TIMES[r]
<1>1. Own(r) \subseteq Conns BY DEF Own, Conns
<1> DEFINE N == N_TIMES[r]
           I == 1..N
           S == {r}
<1>2. IsFiniteSet(S) /\ Cardinality(S) = 1 BY FS_Singleton
<1>3. N \in Nat \ {0} BY NTimes
<1>i. 1 \in Int /\ N \in Int /\ 1 <= N /\ N - 1 + 1 = N BY <1>3
<1> HIDE DEF N
<1>4. IsFiniteSet(I) /\ Cardinality(I) = N
  <2>1. IsFiniteSet(1..N) /\ Cardinality(1..N) = IF 1 > N THEN 0 ELSE N - 1 + 1
    BY <1>i, FS_Interval
  <2> QED BY <1>i, <2>1
<1> HIDE DEF I, S
<1>5. IsFiniteSet(S \X I) /\ Cardinality(S \X I) = 1 * N
  <2>1. IsFiniteSet(S \X I) /\ Cardinality(S \X I) = Cardinality(S) * Cardinality(I)
    BY <1>2, <1>4, FS_Product
  <2> QED BY <1>2, <1>4, <2>1
<1>6. Own(r) = S \X I BY DEF Own, S, I, N
<1>7. 1 * N = N BY <1>3
<1> QED BY <1>1, <1>5, <1>6, <1>7 DEF N

LEMMA NowIsConn == TypeOK => Now \in Conns /\ run \in Nat /\ n \in Nat
BY ConnOf, NTimes DEF TypeOK, Now, Runs

\* A server that all clients of its run reached has ended when the next run's
\* clients come.
LEMMA AllReached ==
    ASSUME IInv, NEW r \in Runs, r < run,
           \A k \in 1..N_TIMES[r] : by[<<r, k>>] = r
    PROVE  server[r] # "listening"
<1> SUFFICES ASSUME server[r] = "listening" PROVE FALSE
  OBVIOUS
<1>1. ASSUME NEW c \in Own(r) PROVE c \in Closed(r)
  <2>1. c \in Conns /\ c[1] = r /\ by[c] = r
    BY ConnOf DEF Own
  <2>2. conn[c] \notin {"none", "open"}
    BY <2>1 DEF IInv, OrderInv, Past
  <2>3. r # 0 BY NTimes DEF Runs
  <2>4. conn[c] \notin {"refused", "failed"}
    BY <2>1, <2>3 DEF IInv, ConnInv
  <2> QED BY <2>1, <2>2, <2>4 DEF IInv, TypeOK, Closed
<1>2. N_TIMES[r] <= Cardinality(Closed(r))
  <2>1. IsFiniteSet(Closed(r)) /\ Own(r) \in SUBSET Closed(r) BY <1>1 DEF IInv, CountInv
  <2> QED BY <2>1, OwnCard, FS_Subset
<1>3. served[r] < N_TIMES[r] /\ served[r] = Cardinality(Closed(r)) /\ served[r] \in Nat
  BY DEF IInv, ServerInv, CountInv, TypeOK
<1> QED BY <1>2, <1>3, NTimes

\* As long as a client of its run has not come, a server has connections left.
LEMMA OneToCome ==
    ASSUME IInv, conn[Now] = "none"
    PROVE  served[run] < N_TIMES[run]
<1>1. run \in Runs /\ Now \in Conns /\ Now = <<run, n>> /\ n \in 1..N_TIMES[run]
  BY NowIsConn DEF IInv, TypeOK, Now
<1>2. ASSUME NEW c \in Closed(run) PROVE c \in Own(run) \ {Now}
  <2>1. c \in Conns /\ by[c] = run /\ conn[c] = "closed" BY DEF Closed
  <2>2. run <= c[1] BY <2>1 DEF IInv, ConnInv
  <2>3. c[1] \in Runs /\ c[2] \in 1..N_TIMES[c[1]] /\ c = <<c[1], c[2]>> BY <2>1, ConnIs
  <2>4. ~(c[1] > run) BY <2>1 DEF IInv, OrderInv, Later
  <2>5. c[1] = run BY <1>1, <2>2, <2>3, <2>4 DEF Runs
  <2> QED BY <1>1, <2>1, <2>3, <2>5 DEF Own
<1>3. Closed(run) \in SUBSET (Own(run) \ {Now}) BY <1>2
<1>4. /\ IsFiniteSet(Own(run) \ {Now})
      /\ Cardinality(Own(run) \ {Now}) = N_TIMES[run] - 1
  <2>1. Now \in Own(run) BY <1>1 DEF Own
  <2> QED BY <1>1, <2>1, OwnCard, FS_RemoveElement
<1>5. Cardinality(Closed(run)) <= N_TIMES[run] - 1 BY <1>3, <1>4, FS_Subset
<1>6. served[run] = Cardinality(Closed(run)) /\ served[run] \in Nat
  BY <1>1 DEF IInv, CountInv, TypeOK
<1> QED BY <1>1, <1>5, <1>6, NTimes

-----------------------------------------------------------------------------
\* Nothing has begun.
LEMMA InitInv == Init => IInv
<1> SUFFICES ASSUME Init PROVE IInv
  OBVIOUS
<1> USE NTimes DEF Init
<1>0. 1 \in Runs /\ 1 \in 1..N_TIMES[1] BY DEF Runs
<1>1. TypeOK
  <2>1. ServerAlert \in Nat BY FlightsAssumption DEF ServerAlert
  <2>2. served \in [Runs -> Nat] /\ \A r \in Runs : served[r] <= N_TIMES[r] OBVIOUS
  <2>3. file \in [Conns -> Seq(Packets)] OBVIOUS
  <2>4. by \in [Conns -> 0..Rounds] /\ sent \in [Conns -> 0..ServerAlert]
    BY <2>1
  <2> QED BY <1>0, <2>2, <2>3, <2>4 DEF TypeOK
<1>2. OrderInv
  <2>1. \A c \in Conns : ~Past(c)
    BY ConnIs DEF Past, Runs
  <2> QED BY <2>1 DEF OrderInv
<1>3. DumpInv BY DEF DumpInv, CapturesStopped
<1>4. ConnInv
  <2>1. \A c \in Conns : 0 <= c[1] BY ConnIs DEF Runs
  <2> QED BY <2>1 DEF ConnInv
<1>5. ServerInv
  <2>1. \A r \in Runs : r > 1 \/ r = 1 BY DEF Runs
  <2> QED BY <2>1 DEF ServerInv
<1>6. CountInv
  <2>1. \A r \in Runs : Closed(r) = {} BY DEF Closed
  <2> QED BY <2>1, FS_EmptySet DEF CountInv
<1>7. LeftOverForAReason BY DEF LeftOverForAReason
<1> QED BY <1>1, <1>2, <1>3, <1>4, <1>5, <1>6, <1>7 DEF IInv

\* Connections and what was served are untouched: so are the counts and reasons.
LEMMA SameCounts ==
    ASSUME IInv, UNCHANGED <<conn, by, served>>
    PROVE  CountInv' /\ LeftOverForAReason'
BY DEF IInv, CountInv, Closed, LeftOverForAReason

\* The steps of the script that move no connection.
LEMMA ScriptInv ==
    ASSUME IInv, StartServer \/ PidofServer \/ StartCapture \/ ClientReturns \/ Sleep
    PROVE  IInv'
<1> USE NTimes DEF IInv
<1>n. Now \in Conns /\ run \in Runs /\ run \in Nat /\ n \in Nat BY NowIsConn DEF TypeOK
<1>s. UNCHANGED <<run, n, conn, by, served, sent, file>>
  BY DEF StartServer, PidofServer, StartCapture, ClientReturns, Sleep, Go, servers, dumps, wire
<1>c. CountInv' /\ LeftOverForAReason' BY <1>s, SameCounts
<1>w. Now' = Now BY <1>s DEF Now
<1>1. CASE StartServer
  <2>1. /\ pc = "server" /\ pc' = "pidof" /\ server' = [server EXCEPT ![run] = "starting"]
        /\ dump' = dump
    BY <1>1 DEF StartServer, Go, dumps
  <2>2. server[run] = "none" BY <1>n, <2>1 DEF ServerInv
  <2>3. \A c \in Conns : by[c] # run
    <3>1. \A c \in Conns : by[c] # 0 => server[by[c]] \in {"listening", "gone"} BY DEF ConnInv
    <3> QED BY <1>n, <2>2, <3>1 DEF Runs
  <2>4. TypeOK' BY <1>n, <1>s, <2>1 DEF TypeOK
  <2>5. OrderInv' BY <1>s, <1>w, <2>1 DEF OrderInv, Later, Past
  <2>6. DumpInv' BY <1>s, <1>w, <2>1 DEF DumpInv, CapturesStopped
  <2>7. ConnInv' BY <1>n, <1>s, <1>w, <2>1, <2>3 DEF ConnInv, TypeOK
  <2>8. ServerInv'
    <3>1. server'[run] = "starting" /\ \A r \in Runs : r # run => server'[r] = server[r]
      BY <1>n, <2>1 DEF TypeOK
    <3>2. SUFFICES ASSUME NEW r \in Runs
                   PROVE  /\ server'[r] = "none" <=> r > run
                          /\ server'[r] = "listening" => served[r] < N_TIMES[r]
                          /\ server'[r] = "gone" =>
                                \/ \A c \in Conns : by[c] # r
                                \/ \E c \in Conns : by[c] = r /\ conn[c] = "failed"
                                \/ served[r] = N_TIMES[r]
      BY <1>s, <2>1 DEF ServerInv
    <3>3. CASE r = run
      <4>1. ~(r > run) BY <1>n, <3>3
      <4> QED BY <3>1, <3>3, <4>1
    <3>4. CASE r # run
      <4>1. server'[r] = server[r] BY <3>1, <3>4
      <4> QED BY <3>4, <4>1 DEF ServerInv
    <3> QED BY <3>3, <3>4
  <2> QED BY <1>c, <2>4, <2>5, <2>6, <2>7, <2>8
<1>2. CASE PidofServer
  <2>1. pc = "pidof" /\ pc' = "capture" /\ server' = server /\ dump' = dump
    BY <1>2 DEF PidofServer, Go, servers, dumps
  <2>4. TypeOK' BY <1>s, <2>1 DEF TypeOK
  <2>5. OrderInv' BY <1>s, <1>w, <2>1 DEF OrderInv, Later, Past
  <2>6. DumpInv' BY <1>s, <1>w, <2>1 DEF DumpInv, CapturesStopped
  <2>7. ConnInv' BY <1>s, <1>w, <2>1 DEF ConnInv
  <2>8. ServerInv' BY <1>s, <2>1 DEF ServerInv
  <2> QED BY <1>c, <2>4, <2>5, <2>6, <2>7, <2>8
<1>3. CASE StartCapture
  <2>1. /\ pc = "capture" /\ pc' = "client" /\ server' = server
        /\ dump' = [dump EXCEPT ![Now] = "starting"]
    BY <1>3 DEF StartCapture, Go, servers
  <2>4. TypeOK' BY <1>n, <1>s, <2>1 DEF TypeOK
  <2>5. OrderInv' BY <1>s, <1>w, <2>1 DEF OrderInv, Later, Past
  <2>6. DumpInv' BY <1>n, <1>s, <1>w, <2>1 DEF DumpInv, CapturesStopped, TypeOK
  <2>7. ConnInv' BY <1>s, <1>w, <2>1 DEF ConnInv
  <2>8. ServerInv' BY <1>s, <2>1 DEF ServerInv
  <2> QED BY <1>c, <2>4, <2>5, <2>6, <2>7, <2>8
<1>4. CASE ClientReturns
  <2>1. /\ pc = "client" /\ pc' = "sleep" /\ server' = server /\ dump' = dump
        /\ conn[Now] # "none"
    BY <1>4 DEF ClientReturns, Go, servers, dumps
  <2>4. TypeOK' BY <1>s, <2>1 DEF TypeOK
  <2>5. OrderInv' BY <1>s, <1>w, <2>1 DEF OrderInv, Later, Past
  <2>6. DumpInv' BY <1>s, <1>w, <2>1 DEF DumpInv, CapturesStopped
  <2>7. ConnInv' BY <1>s, <1>w, <2>1 DEF ConnInv
  <2>8. ServerInv' BY <1>s, <2>1 DEF ServerInv
  <2> QED BY <1>c, <2>4, <2>5, <2>6, <2>7, <2>8
<1>5. CASE Sleep
  <2>1. /\ pc = "sleep" /\ pc' = "kill" /\ server' = server /\ dump' = dump
        /\ \A c \in Conns : dump[c] \notin {"starting", "stopping"} /\ conn[c] # "open"
    BY <1>5 DEF Sleep, Go, servers, dumps
  <2>4. TypeOK' BY <1>s, <2>1 DEF TypeOK
  <2>5. OrderInv' BY <1>n, <1>s, <1>w, <2>1 DEF OrderInv, Later, Past
  <2>6. DumpInv' BY <1>s, <1>w, <2>1 DEF DumpInv, CapturesStopped
  <2>7. ConnInv' BY <1>s, <1>w, <2>1 DEF ConnInv
  <2>8. ServerInv' BY <1>s, <2>1 DEF ServerInv
  <2> QED BY <1>c, <2>4, <2>5, <2>6, <2>7, <2>8
<1> QED BY <1>1, <1>2, <1>3, <1>4, <1>5

\* pkill, and on to the next iteration, the next run, or the end.
LEMMA KillInv == ASSUME IInv, Kill PROVE IInv'
<1> USE NTimes DEF IInv
<1>n. /\ Now \in Conns /\ run \in Runs /\ run \in Nat /\ n \in 1..N_TIMES[run]
      /\ \A c \in Conns : c[1] \in Nat /\ c[2] \in Nat /\ c = <<c[1], c[2]>>
                          /\ c[1] \in Runs /\ c[2] <= N_TIMES[c[1]]
  <2>1. Now \in Conns /\ run \in Runs /\ run \in Nat /\ n \in 1..N_TIMES[run]
    BY NowIsConn DEF TypeOK
  <2>2. ASSUME NEW c \in Conns
        PROVE  /\ c[1] \in Nat /\ c[2] \in Nat /\ c = <<c[1], c[2]>>
               /\ c[1] \in Runs /\ c[2] <= N_TIMES[c[1]]
    <3>1. c[1] \in Runs /\ c[2] \in 1..N_TIMES[c[1]] /\ c = <<c[1], c[2]>> BY ConnIs
    <3>2. N_TIMES[c[1]] \in Nat BY <3>1
    <3> QED BY <3>1, <3>2 DEF Runs
  <2> QED BY <2>1, <2>2
<1>s. UNCHANGED <<server, conn, by, served, sent, file>>
  BY DEF Kill, servers, wire
<1>c. CountInv' /\ LeftOverForAReason' BY <1>s, SameCounts
<1>d. /\ pc = "kill"
      /\ dump' = [c \in Conns |-> IF dump[c] = "capturing" THEN "stopping" ELSE dump[c]]
  BY DEF Kill
<1>1. \/ /\ n < N_TIMES[run] /\ n' = n + 1 /\ run' = run /\ pc' = "capture"
      \/ n = N_TIMES[run] /\ run < Rounds /\ run' = run + 1 /\ n' = 1 /\ pc' = "server"
      \/ n = N_TIMES[run] /\ run = Rounds /\ pc' = "done" /\ run' = run /\ n' = n
  BY <1>n DEF Kill, Runs
<1>2. \A c \in Conns : dump'[c] \in {"none", "stopping", "gone"}
  BY <1>d DEF DumpInv, TypeOK
<1>3. TypeOK'
  <2>1. run' \in Runs /\ n' \in 1..N_TIMES[run'] BY <1>n, <1>1 DEF Runs
  <2>2. dump' \in [Conns -> {"none", "starting", "capturing", "stopping", "gone"}]
    BY <1>2, <1>d
  <2>3. pc' \in {"capture", "server", "done"} BY <1>1
  <2> QED BY <1>s, <2>1, <2>2, <2>3 DEF TypeOK
<1>4. OrderInv'
  <2>1. \A c \in Conns : c = Now \/ Later(c) \/ Past(c)
    BY <1>n, <1>d DEF Later, Past, Now
  <2>2. Past(Now) BY <1>d DEF Past
  <2>3. ASSUME NEW c \in Conns, Later(c)' PROVE Later(c)
    BY <1>n, <1>1, <2>3 DEF Later, Now
  <2>4. ASSUME NEW c \in Conns, Past(c)' PROVE Past(c)
    <3>1. c[1] \in Nat /\ c[2] \in Nat /\ c = <<c[1], c[2]>> /\ n \in Nat /\ run \in Nat
      BY <1>n
    <3>2. CASE n' = n + 1 /\ run' = run /\ pc' = "capture"
      <4>1. c[1] < run \/ (c[1] = run /\ c[2] < n + 1) BY <2>4, <3>2 DEF Past
      <4>2. c[1] < run \/ (c[1] = run /\ c[2] < n) \/ c = <<run, n>> BY <3>1, <4>1
      <4> QED BY <1>d, <4>2 DEF Past, Now
    <3>3. CASE n = N_TIMES[run] /\ run' = run + 1 /\ n' = 1 /\ pc' = "server"
      <4>1. c[1] < run + 1 \/ (c[1] = run + 1 /\ c[2] < 1) BY <2>4, <3>3 DEF Past
      <4>2. c[2] >= 1 BY ConnIs, <3>1
      <4>3. c[1] < run \/ c[1] = run BY <3>1, <4>1, <4>2
      <4>4. c[1] = run => c[2] <= n BY <1>n, <3>3
      <4>5. c[1] < run \/ (c[1] = run /\ c[2] < n) \/ c = <<run, n>>
        BY <3>1, <4>3, <4>4
      <4> QED BY <1>d, <4>5 DEF Past, Now
    <3>4. CASE n' = n /\ run' = run /\ pc' = "done"
      BY <1>d, <2>4, <3>4 DEF Past, Now
    <3> QED BY <1>1, <3>2, <3>3, <3>4
  <2> QED BY <1>1, <1>s, <2>3, <2>4 DEF OrderInv
<1>5. DumpInv' BY <1>1, <1>2 DEF DumpInv, CapturesStopped
<1>6. ConnInv'
  <2>1. \A c \in Conns : conn[c] # "open"
    BY <1>d DEF ConnInv, OrderInv, Past
  <2> QED BY <1>s, <2>1 DEF ConnInv
<1>7. ServerInv' BY <1>n, <1>s, <1>1, <1>d DEF ServerInv, Runs
<1> QED BY <1>c, <1>3, <1>4, <1>5, <1>6, <1>7

LEMMA Places == ClientAlert \in Nat /\ ServerAlert = ClientAlert + 1 /\ 1 <= ServerAlert
BY FlightsAssumption DEF ClientAlert, ServerAlert

\* A packet on the wire is a packet in the captures.
LEMMA WireType ==
    ASSUME TypeOK, NEW c \in Conns, NEW p \in 1..ServerAlert, OnWire(c, p)
    PROVE  file' \in [Conns -> Seq(Packets)] /\ sent' \in [Conns -> 0..ServerAlert]
<1>1. <<c, p>> \in Packets BY DEF Packets
<1>2. \A f \in Conns : Append(file[f], <<c, p>>) \in Seq(Packets)
  BY <1>1 DEF TypeOK
<1>3. file' \in [Conns -> Seq(Packets)] BY <1>2 DEF OnWire, TypeOK
<1>4. sent' \in [Conns -> 0..ServerAlert] BY Places DEF OnWire, TypeOK
<1> QED BY <1>3, <1>4

\* The client is taken by whoever listens, or refused.
LEMMA ConnectInv == ASSUME IInv, ClientConnects PROVE IInv'
<1> USE NTimes DEF IInv
<1>n. /\ Now \in Conns /\ run \in Runs /\ run \in Nat /\ n \in Nat
      /\ Now = <<run, n>> /\ Now[1] = run
  BY NowIsConn DEF TypeOK, Now
<1>s. UNCHANGED <<run, n, server, served, dump>>
  BY DEF ClientConnects, Go, servers
<1>w. Now' = Now BY <1>s DEF Now
<1>d. pc = "client" /\ conn[Now] = "none" /\ by[Now] = 0
  BY <1>n DEF ClientConnects, ConnInv
<1>t. file' \in [Conns -> Seq(Packets)] /\ sent' \in [Conns -> 0..ServerAlert]
  BY <1>n, Places, WireType DEF ClientConnects
<1>u. DumpInv'
  <2>1. pc' \in {"client", "sleep"} BY DEF ClientConnects, Go
  <2> QED BY <1>s, <1>w, <1>d, <2>1 DEF DumpInv, CapturesStopped
<1>1. ASSUME NEW r \in Runs, server[r] = "listening", pc' = "client",
             conn' = [conn EXCEPT ![Now] = "open"], by' = [by EXCEPT ![Now] = r]
      PROVE  IInv'
  <2> USE <1>1
  <2>0. /\ r \in Nat \ {0} /\ r <= run /\ conn'[Now] = "open" /\ by'[Now] = r
        /\ \A c \in Conns : c # Now => conn'[c] = conn[c] /\ by'[c] = by[c]
    BY <1>n, <1>d DEF ServerInv, TypeOK, Runs
  <2>1. TypeOK'
    <3>1. r \in 0..Rounds BY DEF Runs
    <3>2. by' \in [Conns -> 0..Rounds] BY <3>1 DEF TypeOK
    <3>3. conn' \in [Conns -> {"none", "open", "refused", "failed", "closed"}]
      BY DEF TypeOK
    <3> QED BY <1>s, <1>t, <3>2, <3>3 DEF TypeOK
  <2>2. OrderInv' BY <1>n, <1>s, <1>w, <1>d, <2>0 DEF OrderInv, Later, Past, Now
  <2>3. ConnInv' BY <1>n, <1>s, <1>w, <2>0 DEF ConnInv
  <2>4. ServerInv'
    <3>1. \A c \in Conns : conn[c] = "failed" => c # Now BY <1>d
    <3> QED BY <1>n, <1>s, <1>d, <2>0, <3>1 DEF ServerInv
  <2>5. CountInv'
    <3>1. \A q \in Runs : Closed(q)' = Closed(q) BY <1>n, <1>d, <2>0 DEF Closed
    <3> QED BY <1>s, <3>1 DEF CountInv
  <2>6. LeftOverForAReason'
    <3> SUFFICES ASSUME NEW c \in Conns, by'[c] \notin {0, c[1]}
                 PROVE  \E k \in 1..N_TIMES[by'[c]] : by'[<<by'[c], k>>] # by'[c]
      BY DEF LeftOverForAReason
    <3>1. CASE c = Now
      <4>1. r < run BY <1>n, <2>0, <3>1
      <4>2. PICK k \in 1..N_TIMES[r] : by[<<r, k>>] # r BY <4>1, AllReached
      <4>3. <<r, k>> \in Conns /\ <<r, k>> # Now BY <1>n, <4>1, ConnOf DEF Now
      <4> QED BY <2>0, <3>1, <4>2, <4>3
    <3>2. CASE c # Now
      <4>1. by'[c] = by[c] /\ by[c] \in Runs BY <2>0, <3>2 DEF TypeOK, Runs
      <4>2. PICK k \in 1..N_TIMES[by[c]] : by[<<by[c], k>>] # by[c]
        BY <4>1 DEF LeftOverForAReason
      <4>3. <<by[c], k>> \in Conns BY <4>1, ConnOf
      <4>4. CASE <<by[c], k>> # Now BY <2>0, <4>1, <4>2, <4>3, <4>4
      <4>5. CASE <<by[c], k>> = Now
        <5>1. by[c] = run BY <4>5 DEF Now
        <5>2. by[c] <= c[1] /\ c[1] \in Nat BY ConnIs DEF ConnInv, Runs
        <5>3. c[1] > run BY <1>n, <5>1, <5>2, <4>1
        <5>4. conn[c] = "none" BY <5>3 DEF OrderInv, Later
        <5> QED BY <5>4, <4>1 DEF ConnInv
      <4> QED BY <4>4, <4>5
    <3> QED BY <3>1, <3>2
  <2> QED BY <1>u, <2>1, <2>2, <2>3, <2>4, <2>5, <2>6
<1>2. ASSUME conn' = [conn EXCEPT ![Now] = "refused"], by' = by, pc' = "sleep"
      PROVE  IInv'
  <2> USE <1>2
  <2>0. /\ conn'[Now] = "refused"
        /\ \A c \in Conns : c # Now => conn'[c] = conn[c]
    BY <1>n DEF TypeOK
  <2>1. TypeOK' BY <1>n, <1>s, <1>t DEF TypeOK
  <2>2. OrderInv' BY <1>n, <1>s, <1>w, <1>d, <2>0 DEF OrderInv, Later, Past, Now
  <2>3. ConnInv' BY <1>n, <1>s, <1>w, <1>d, <2>0 DEF ConnInv
  <2>4. ServerInv'
    <3>1. \A c \in Conns : conn[c] = "failed" => conn'[c] = "failed" BY <1>d, <2>0
    <3> QED BY <1>s, <1>d, <3>1 DEF ServerInv
  <2>5. CountInv'
    <3>1. \A q \in Runs : Closed(q)' = Closed(q) BY <1>n, <1>d, <2>0 DEF Closed
    <3> QED BY <1>s, <3>1 DEF CountInv
  <2>6. LeftOverForAReason' BY DEF LeftOverForAReason
  <2> QED BY <1>u, <2>1, <2>2, <2>3, <2>4, <2>5, <2>6
<1> QED BY <1>1, <1>2 DEF ClientConnects, Go

\* A handshake that fails takes the server with it.
LEMMA FailInv == ASSUME IInv, ClientFails PROVE IInv'
<1> USE NTimes DEF IInv
<1>n. /\ Now \in Conns /\ run \in Runs /\ run \in Nat /\ n \in Nat /\ Now = <<run, n>>
  BY NowIsConn DEF TypeOK, Now
<1>s. /\ UNCHANGED <<run, n, served, dump, file, by, sent>>
      /\ pc = "client" /\ pc' = "sleep" /\ conn[Now] = "open"
      /\ conn' = [conn EXCEPT ![Now] = "failed"]
      /\ server' = [server EXCEPT ![by[Now]] = "gone"]
  BY DEF ClientFails, Go, dumps
<1>w. Now' = Now BY <1>s DEF Now
<1>b. by[Now] \in Runs /\ server[by[Now]] = "listening"
  <2>1. by[Now] \in 0..Rounds BY <1>n DEF TypeOK
  <2>2. by[Now] # 0 /\ server[by[Now]] = "listening" BY <1>n, <1>s DEF ConnInv
  <2> QED BY <2>1, <2>2 DEF Runs
<1>d. /\ conn'[Now] = "failed" /\ \A c \in Conns : c # Now => conn'[c] = conn[c]
      /\ server'[by[Now]] = "gone"
      /\ \A r \in Runs : r # by[Now] => server'[r] = server[r]
  BY <1>n, <1>s, <1>b DEF TypeOK
<1>1. TypeOK' BY <1>n, <1>s, <1>b DEF TypeOK
<1>2. OrderInv' BY <1>n, <1>s, <1>w, <1>d DEF OrderInv, Later, Past
<1>3. DumpInv' BY <1>s, <1>w DEF DumpInv, CapturesStopped
<1>4. ConnInv'
  <2> SUFFICES ASSUME NEW c \in Conns
               PROVE  /\ conn'[c] \in {"none", "refused"} <=> by[c] = 0
                      /\ by[c] <= c[1]
                      /\ conn'[c] = "open" => c = Now /\ server'[by[c]] = "listening"
                      /\ conn'[c] = "failed" => server'[by[c]] = "gone"
                      /\ by[c] # 0 => server'[by[c]] \in {"listening", "gone"}
    BY <1>s, <1>w DEF ConnInv
  <2>1. by[c] = 0 \/ by[c] \in Runs BY DEF TypeOK, Runs
  <2>2. conn[c] = "failed" => by[c] # 0 BY DEF ConnInv
  <2> QED BY <1>s, <1>b, <1>d, <2>1, <2>2 DEF ConnInv
<1>5. ServerInv'
  <2> SUFFICES ASSUME NEW r \in Runs
               PROVE  /\ server'[r] = "none" <=> r > run \/ (r = run /\ pc' = "server")
                      /\ server'[r] = "listening" => served[r] < N_TIMES[r]
                      /\ server'[r] = "gone" =>
                            \/ \A c \in Conns : by[c] # r
                            \/ \E c \in Conns : by[c] = r /\ conn'[c] = "failed"
                            \/ served[r] = N_TIMES[r]
    BY <1>s DEF ServerInv
  <2>1. CASE r = by[Now] BY <1>n, <1>s, <1>b, <1>d, <2>1 DEF ServerInv
  <2>2. CASE r # by[Now]
    <3>1. \A c \in Conns : conn[c] = "failed" => conn'[c] = "failed" BY <1>d
    <3> QED BY <1>s, <1>d, <2>2, <3>1 DEF ServerInv
  <2> QED BY <2>1, <2>2
<1>6. CountInv'
  <2>1. \A q \in Runs : Closed(q)' = Closed(q) BY <1>s, <1>d DEF Closed
  <2> QED BY <1>s, <2>1 DEF CountInv
<1>7. LeftOverForAReason' BY <1>s DEF LeftOverForAReason
<1> QED BY <1>1, <1>2, <1>3, <1>4, <1>5, <1>6, <1>7

\* The server ends its connection, counts it, and stops after the last.
LEMMA HangUpInv == ASSUME IInv, NEW c \in Conns, HangUp(c) PROVE IInv'
<1> USE NTimes DEF IInv
<1> DEFINE s == by[c]
<1>n. /\ Now \in Conns /\ run \in Runs /\ run \in Nat /\ n \in Nat /\ Now = <<run, n>>
  BY NowIsConn DEF TypeOK, Now
<1>s. /\ UNCHANGED <<pc, run, n, dump, by>>
      /\ conn[c] = "open" /\ conn' = [conn EXCEPT ![c] = "closed"]
      /\ served' = [served EXCEPT ![s] = served[s] + 1]
      /\ server' = [server EXCEPT ![s] = IF served[s] + 1 = N_TIMES[s] THEN "gone" ELSE server[s]]
  BY DEF HangUp, script
<1>w. Now' = Now BY <1>s DEF Now
<1>b. /\ c = Now /\ s \in Runs /\ server[s] = "listening"
      /\ served[s] \in Nat /\ served[s] < N_TIMES[s]
  <2>1. s \in 0..Rounds BY DEF TypeOK
  <2>2. c = Now /\ s # 0 /\ server[s] = "listening" BY <1>s DEF ConnInv
  <2>3. s \in Runs BY <2>1, <2>2 DEF Runs
  <2> QED BY <2>2, <2>3 DEF ServerInv, TypeOK
<1>d. /\ conn'[c] = "closed" /\ \A d \in Conns : d # c => conn'[d] = conn[d]
      /\ served'[s] = served[s] + 1 /\ \A r \in Runs : r # s => served'[r] = served[r]
      /\ server'[s] = IF served[s] + 1 = N_TIMES[s] THEN "gone" ELSE "listening"
      /\ \A r \in Runs : r # s => server'[r] = server[r]
  BY <1>n, <1>s, <1>b DEF TypeOK
<1>1. TypeOK'
  <2>1. file' \in [Conns -> Seq(Packets)] /\ sent' \in [Conns -> 0..ServerAlert]
    BY Places, WireType DEF HangUp
  <2>2. served' \in [Runs -> Nat] /\ \A r \in Runs : served'[r] <= N_TIMES[r]
    BY <1>s, <1>b, <1>d DEF TypeOK
  <2>3. server' \in [Runs -> {"none", "starting", "listening", "gone"}]
    BY <1>s, <1>b DEF TypeOK
  <2>4. conn' \in [Conns -> {"none", "open", "refused", "failed", "closed"}]
    BY <1>s DEF TypeOK
  <2> QED BY <1>s, <2>1, <2>2, <2>3, <2>4 DEF TypeOK
<1>2. OrderInv' BY <1>n, <1>s, <1>w, <1>b, <1>d DEF OrderInv, Later, Past
<1>3. DumpInv' BY <1>s, <1>w DEF DumpInv, CapturesStopped
<1>4. ConnInv'
  <2> SUFFICES ASSUME NEW d \in Conns
               PROVE  /\ conn'[d] \in {"none", "refused"} <=> by[d] = 0
                      /\ by[d] <= d[1]
                      /\ conn'[d] = "open" => d = Now /\ server'[by[d]] = "listening"
                      /\ conn'[d] = "failed" => server'[by[d]] = "gone"
                      /\ by[d] # 0 => server'[by[d]] \in {"listening", "gone"}
    BY <1>s, <1>w DEF ConnInv
  <2>1. by[d] = 0 \/ by[d] \in Runs BY DEF TypeOK, Runs
  <2>2. conn[d] = "failed" => by[d] # 0 BY DEF ConnInv
  <2>3. conn[d] = "failed" => by[d] # s BY <1>b DEF ConnInv
  <2> QED BY <1>s, <1>b, <1>d, <2>1, <2>2, <2>3 DEF ConnInv
<1>5. ServerInv'
  <2> SUFFICES ASSUME NEW r \in Runs
               PROVE  /\ server'[r] = "none" <=> r > run \/ (r = run /\ pc = "server")
                      /\ server'[r] = "listening" => served'[r] < N_TIMES[r]
                      /\ server'[r] = "gone" =>
                            \/ \A d \in Conns : by[d] # r
                            \/ \E d \in Conns : by[d] = r /\ conn'[d] = "failed"
                            \/ served'[r] = N_TIMES[r]
    BY <1>s DEF ServerInv
  <2>1. CASE r = s
    <3>1. ~(r > run \/ (r = run /\ pc = "server")) BY <1>b, <2>1 DEF ServerInv
    <3> QED BY <1>b, <1>d, <2>1, <3>1
  <2>2. CASE r # s
    <3>1. \A d \in Conns : conn[d] = "failed" => conn'[d] = "failed" BY <1>s, <1>d
    <3> QED BY <1>d, <2>2, <3>1 DEF ServerInv
  <2> QED BY <2>1, <2>2
<1>6. CountInv'
  <2> SUFFICES ASSUME NEW r \in Runs
               PROVE  IsFiniteSet(Closed(r)') /\ served'[r] = Cardinality(Closed(r)')
    BY DEF CountInv
  <2>1. CASE r = s
    <3>1. Closed(r)' = Closed(r) \cup {c} /\ c \notin Closed(r)
      BY <1>s, <1>d, <2>1 DEF Closed
    <3>2. IsFiniteSet(Closed(r)) /\ served[r] = Cardinality(Closed(r)) BY DEF CountInv
    <3> QED BY <1>d, <2>1, <3>1, <3>2, FS_AddElement
  <2>2. CASE r # s
    <3>1. Closed(r)' = Closed(r) BY <1>s, <1>d, <2>2 DEF Closed
    <3> QED BY <1>d, <2>2, <3>1 DEF CountInv
  <2> QED BY <2>1, <2>2
<1>7. LeftOverForAReason' BY <1>s DEF LeftOverForAReason
<1> QED BY <1>1, <1>2, <1>3, <1>4, <1>5, <1>6, <1>7

\* The server comes to listen, or ends before it does.
LEMMA ServerStartInv ==
    ASSUME IInv, NEW r \in Runs, ServerListens(r) \/ ServerFails(r)
    PROVE  IInv'
<1> USE NTimes DEF IInv
<1>s. /\ UNCHANGED <<pc, run, n, served, dump, file, conn, by, sent>>
      /\ server[r] = "starting" /\ server' = [server EXCEPT ![r] = server'[r]]
      /\ server'[r] \in {"listening", "gone"}
  BY DEF ServerListens, ServerFails, script, dumps, wire, TypeOK
<1>w. Now' = Now BY <1>s DEF Now
<1>d. \A q \in Runs : q # r => server'[q] = server[q] BY <1>s DEF TypeOK
<1>b. \A c \in Conns : by[c] # r
  <2>1. \A c \in Conns : by[c] # 0 => server[by[c]] \in {"listening", "gone"} BY DEF ConnInv
  <2>2. r # 0 BY DEF Runs
  <2> QED BY <1>s, <2>1, <2>2
<1>e. \A c \in Conns : by[c] = 0 \/ by[c] \in Runs BY DEF TypeOK, Runs
<1>1. TypeOK' BY <1>s DEF TypeOK
<1>2. OrderInv' BY <1>s, <1>w DEF OrderInv, Later, Past
<1>3. DumpInv' BY <1>s, <1>w DEF DumpInv, CapturesStopped
<1>4. ConnInv'
  <2>1. \A c \in Conns : by[c] # 0 => server'[by[c]] = server[by[c]]
    BY <1>b, <1>d, <1>e
  <2>2. \A c \in Conns : conn[c] \in {"open", "failed"} => by[c] # 0 BY DEF ConnInv
  <2> QED BY <1>s, <1>w, <2>1, <2>2 DEF ConnInv
<1>5. ServerInv'
  <2> SUFFICES ASSUME NEW q \in Runs
               PROVE  /\ server'[q] = "none" <=> q > run \/ (q = run /\ pc = "server")
                      /\ server'[q] = "listening" => served[q] < N_TIMES[q]
                      /\ server'[q] = "gone" =>
                            \/ \A d \in Conns : by[d] # q
                            \/ \E d \in Conns : by[d] = q /\ conn[d] = "failed"
                            \/ served[q] = N_TIMES[q]
    BY <1>s DEF ServerInv
  <2>1. CASE q = r
    <3>1. Closed(r) = {} BY <1>b DEF Closed
    <3>2. served[r] = 0 BY <3>1, FS_EmptySet DEF CountInv
    <3>3. ~(r > run \/ (r = run /\ pc = "server")) BY <1>s DEF ServerInv
    <3> QED BY <1>s, <1>b, <2>1, <3>2, <3>3
  <2>2. CASE q # r BY <1>d, <2>2 DEF ServerInv
  <2> QED BY <2>1, <2>2
<1>6. CountInv' /\ LeftOverForAReason' BY <1>s, SameCounts
<1> QED BY <1>1, <1>2, <1>3, <1>4, <1>5, <1>6

\* tcpdump starts or ends, or a packet is on the wire.
LEMMA WireInv ==
    ASSUME IInv, NEW c \in Conns, CaptureStarts(c) \/ CaptureEnds(c) \/ Transmit(c)
    PROVE  IInv'
<1> USE DEF IInv
<1>s. UNCHANGED <<pc, run, n, server, served, conn, by>>
  BY DEF CaptureStarts, CaptureEnds, Transmit, script, servers, wire
<1>w. Now' = Now BY <1>s DEF Now
<1>1. TypeOK'
  <2>1. CASE CaptureStarts(c) \/ CaptureEnds(c)
    BY <2>1 DEF CaptureStarts, CaptureEnds, script, servers, wire, TypeOK
  <2>2. CASE Transmit(c)
    <3>1. sent[c] + 1 \in 1..ServerAlert BY <2>2, Places DEF Transmit, TypeOK
    <3>2. file' \in [Conns -> Seq(Packets)] /\ sent' \in [Conns -> 0..ServerAlert]
      BY <2>2, <3>1, WireType DEF Transmit
    <3> QED BY <1>s, <2>2, <3>2 DEF Transmit, TypeOK
  <2> QED BY <2>1, <2>2
<1>2. OrderInv' BY <1>s, <1>w DEF OrderInv, Later, Past
<1>3. DumpInv'
  <2>1. CASE CaptureStarts(c)
    BY <1>s, <1>w, <2>1 DEF CaptureStarts, DumpInv, CapturesStopped, TypeOK
  <2>2. CASE CaptureEnds(c)
    BY <1>s, <1>w, <2>2 DEF CaptureEnds, DumpInv, CapturesStopped, TypeOK
  <2>3. CASE Transmit(c)
    BY <1>s, <1>w, <2>3 DEF Transmit, DumpInv, CapturesStopped
  <2> QED BY <2>1, <2>2, <2>3
<1>4. ConnInv' BY <1>s, <1>w DEF ConnInv
<1>5. ServerInv' BY <1>s DEF ServerInv
<1>6. CountInv' /\ LeftOverForAReason' BY <1>s, SameCounts
<1> QED BY <1>1, <1>2, <1>3, <1>4, <1>5, <1>6

\* A step that changes nothing, as the end of the script.
LEMMA StutterInv == IInv /\ UNCHANGED vars => IInv'
<1> SUFFICES ASSUME IInv, UNCHANGED vars PROVE IInv'
  OBVIOUS
<1>1. UNCHANGED <<pc, run, n, server, served, dump, file, conn, by, sent>>
  BY DEF vars, script, servers, dumps, wire
<1>2. Now' = Now BY <1>1 DEF Now
<1>3. CountInv' /\ LeftOverForAReason' BY <1>1, SameCounts
<1>4. TypeOK' /\ OrderInv' /\ DumpInv'
  BY <1>1, <1>2 DEF IInv, TypeOK, OrderInv, Later, Past, DumpInv, CapturesStopped
<1>5. ConnInv' /\ ServerInv' BY <1>1, <1>2 DEF IInv, ConnInv, ServerInv
<1> QED BY <1>3, <1>4, <1>5 DEF IInv

LEMMA NextInv == IInv /\ [Next]_vars => IInv'
<1> SUFFICES ASSUME IInv, [Next]_vars PROVE IInv'
  OBVIOUS
<1>1. CASE Script
  BY <1>1, ScriptInv, ConnectInv, FailInv, KillInv DEF Script
<1>2. CASE \E r \in Runs : ServerListens(r) \/ ServerFails(r)
  BY <1>2, ServerStartInv
<1>3. CASE \E c \in Conns : CaptureStarts(c) \/ CaptureEnds(c) \/ Transmit(c) \/ HangUp(c)
  BY <1>3, WireInv, HangUpInv
<1>4. CASE Done \/ UNCHANGED vars BY <1>4, StutterInv DEF Done
<1> QED BY <1>1, <1>2, <1>3, <1>4 DEF Next

-----------------------------------------------------------------------------
(* What a capture holds.  Only the connection of the iteration is on the      *)
(* wire, and its tcpdump is not signalled before it has ended: a capture that *)
(* begins with the SYN has every packet after it, up to the server's alert.   *)

\* when a tcpdump is there
CaptureInv ==
    /\ \A c \in Conns : conn[c] = "none" /\ c # Now => dump[c] = "none"
    /\ pc \in {"server", "pidof", "capture"} => dump[Now] = "none"
    /\ pc \in {"client", "sleep", "kill"} => dump[Now] \in {"starting", "capturing"}

Begins(c) == file[c] # <<>> /\ file[c][1] = <<c, 1>>

Holds(c, k) == k <= Len(file[c]) /\ \A j \in 1..k : file[c][j] = <<c, j>>

FileInv(c) ==
    /\ conn[c] = "none" => file[c] = <<>>
    /\ conn[c] = "open" =>
          /\ sent[c] >= 1
          /\ Begins(c) => /\ dump[c] = "capturing"
                          /\ Len(file[c]) = sent[c] /\ Holds(c, sent[c])
    /\ conn[c] = "closed" /\ Begins(c) => Holds(c, ServerAlert)

WholeInv == CaptureInv /\ \A c \in Conns : FileInv(c)

LEMMA InitWhole == Init => WholeInv
<1> SUFFICES ASSUME Init PROVE WholeInv
  OBVIOUS
<1>1. Now \in Conns BY InitInv, NowIsConn DEF IInv
<1> QED BY <1>1 DEF Init, WholeInv, CaptureInv, FileInv

\* steps that put nothing on the wire
LEMMA SameFile ==
    ASSUME NEW c \in Conns, FileInv(c), UNCHANGED <<file, sent>>,
           conn'[c] = conn[c] \/ (conn[c] # "none" /\ conn'[c] \notin {"none", "open", "closed"}),
           conn[c] = "open" /\ dump[c] = "capturing" => dump'[c] = "capturing"
    PROVE  FileInv(c)'
BY DEF FileInv, Begins, Holds

\* a packet at the end of a capture
LEMMA Longer ==
    ASSUME NEW S, NEW s \in Seq(S), NEW e \in S
    PROVE  /\ Len(Append(s, e)) = Len(s) + 1 /\ Len(s) \in Nat
           /\ \A j \in 1..Len(s) : Append(s, e)[j] = s[j]
           /\ Append(s, e)[Len(s) + 1] = e
           /\ s # <<>> => Len(s) >= 1
OBVIOUS

\* the capture of a connection that is not the one on the wire
LEMMA OtherFile ==
    ASSUME TypeOK, NEW c \in Conns, NEW p \in 1..ServerAlert, OnWire(c, p),
           NEW d \in Conns, d # c, conn'[d] = conn[d], conn[d] # "open",
           conn[d] = "none" => dump[d] = "none",
           FileInv(d)
    PROVE  FileInv(d)'
<1>1. file[d] \in Seq(Packets) /\ <<c, p>> \in Packets
  BY DEF TypeOK, Packets
<1>2. CASE file'[d] = file[d]
  BY <1>2 DEF FileInv, Begins, Holds
<1>3. CASE file'[d] = Append(file[d], <<c, p>>) /\ dump[d] # "none"
  <2>1. conn[d] # "none" BY <1>3
  <2>2. SUFFICES ASSUME conn[d] = "closed", Begins(d)' PROVE Holds(d, ServerAlert)'
    BY <2>1 DEF FileInv
  <2>3. file[d] # <<>>
    <3>1. CASE file[d] = <<>>
      <4>1. file'[d] = <<<<c, p>>>> BY <1>3, <3>1
      <4> QED BY <2>2, <4>1 DEF Begins
    <3> QED BY <3>1
  <2>4. file'[d][1] = file[d][1] BY <1>1, <1>3, <2>3, Longer
  <2>5. Holds(d, ServerAlert) BY <2>2, <2>3, <2>4 DEF Begins, FileInv
  <2>6. Len(file[d]) \in Nat /\ ServerAlert \in Nat BY <1>1, Places
  <2> QED BY <1>1, <1>3, <2>5, <2>6, Longer DEF Holds
<1> QED BY <1>2, <1>3 DEF OnWire

\* the capture of the connection on the wire, one packet on
LEMMA OwnFile ==
    ASSUME TypeOK, NEW c \in Conns, FileInv(c), conn[c] = "open",
           OnWire(c, sent[c] + 1), sent[c] < ServerAlert, Begins(c)'
    PROVE  /\ sent'[c] = sent[c] + 1
           /\ dump[c] = "capturing" /\ Len(file'[c]) = sent'[c] /\ Holds(c, sent[c])'
<1>1. sent[c] \in Nat /\ sent[c] >= 1 /\ file[c] \in Seq(Packets) /\ sent'[c] = sent[c] + 1
  BY Places DEF TypeOK, FileInv, OnWire
<1>2. <<c, sent[c] + 1>> \in Packets BY <1>1, Places DEF Packets
<1>3. file'[c] = file[c] \/ file'[c] = Append(file[c], <<c, sent[c] + 1>>)
  BY DEF OnWire
<1>4. Begins(c)
  <2>1. CASE file[c] = <<>>
    <3>1. file'[c] = <<>> \/ file'[c] = <<<<c, sent[c] + 1>>>> BY <1>3, <2>1
    <3> QED BY <1>1, <3>1 DEF Begins
  <2>2. CASE file[c] # <<>>
    <3>1. file'[c][1] = file[c][1] BY <1>1, <1>2, <1>3, <2>2, Longer
    <3> QED BY <2>2, <3>1 DEF Begins
  <2> QED BY <2>1, <2>2
<1>5. dump[c] = "capturing" /\ Len(file[c]) = sent[c] /\ Holds(c, sent[c])
  BY <1>4 DEF FileInv
<1>6. file'[c] = Append(file[c], <<c, sent[c] + 1>>)
  BY <1>5 DEF OnWire
<1>7. Len(file'[c]) = sent[c] + 1 BY <1>1, <1>2, <1>5, <1>6, Longer
<1>8. ASSUME NEW j \in 1..(sent[c] + 1) PROVE file'[c][j] = <<c, j>>
  <2>1. CASE j <= sent[c]
    <3>1. j \in 1..Len(file[c]) /\ j \in 1..sent[c] BY <1>1, <1>5, <2>1
    <3>2. file[c][j] = <<c, j>> BY <1>5, <3>1 DEF Holds
    <3>3. file'[c][j] = file[c][j] BY <1>1, <1>2, <1>6, <3>1, Longer
    <3> QED BY <3>2, <3>3
  <2>2. CASE j = sent[c] + 1 BY <1>1, <1>2, <1>5, <1>6, <2>2, Longer
  <2> QED BY <1>1, <2>1, <2>2
<1>9. Holds(c, sent[c])'
  <2>1. sent[c] + 1 <= Len(file'[c]) BY <1>1, <1>7
  <2> QED BY <1>1, <1>8, <2>1 DEF Holds
<1> QED BY <1>1, <1>5, <1>7, <1>9

\* the script, apart from its client
LEMMA ScriptWhole ==
    ASSUME IInv, WholeInv, StartServer \/ PidofServer \/ StartCapture \/ ClientReturns \/ Sleep
    PROVE  WholeInv'
<1>n. Now \in Conns BY NowIsConn DEF IInv
<1>s. UNCHANGED <<run, n, conn, sent, file>>
  BY DEF StartServer, PidofServer, StartCapture, ClientReturns, Sleep, Go, servers, dumps, wire
<1>w. Now' = Now BY <1>s DEF Now
<1>1. CASE StartServer \/ PidofServer \/ ClientReturns \/ Sleep
  <2>1. dump' = dump /\ (pc' \in {"server", "pidof", "capture"} => pc \in {"server", "pidof"})
        /\ (pc' \in {"client", "sleep", "kill"} => pc \in {"client", "sleep"})
    BY <1>1 DEF StartServer, PidofServer, ClientReturns, Sleep, Go, dumps
  <2>2. CaptureInv' BY <1>s, <1>w, <2>1 DEF WholeInv, CaptureInv
  <2>3. \A c \in Conns : FileInv(c)' BY <1>s, <2>1, SameFile DEF WholeInv
  <2> QED BY <2>2, <2>3 DEF WholeInv
<1>2. CASE StartCapture
  <2>1. /\ pc = "capture" /\ pc' = "client" /\ dump' = [dump EXCEPT ![Now] = "starting"]
        /\ conn[Now] = "none"
    BY <1>n, <1>2 DEF StartCapture, Go, IInv, OrderInv, Later
  <2>2. /\ dump'[Now] = "starting" /\ \A c \in Conns : c # Now => dump'[c] = dump[c]
    BY <1>n, <2>1 DEF IInv, TypeOK
  <2>3. CaptureInv' BY <1>s, <1>w, <2>1, <2>2 DEF WholeInv, CaptureInv
  <2>4. \A c \in Conns : FileInv(c)'
    BY <1>s, <2>1, <2>2, SameFile DEF WholeInv
  <2> QED BY <2>3, <2>4 DEF WholeInv
<1> QED BY <1>1, <1>2

\* pkill comes when no connection is open
LEMMA KillWhole == ASSUME IInv, WholeInv, Kill PROVE WholeInv'
<1>n. Now \in Conns /\ Now' \in Conns /\ run \in Nat /\ n \in Nat
  <2>1. Now \in Conns /\ run \in Nat /\ n \in Nat BY NowIsConn DEF IInv
  <2>2. run' \in Runs /\ n' \in 1..N_TIMES[run'] BY KillInv DEF IInv, TypeOK
  <2> QED BY <2>1, <2>2, ConnOf DEF Now
<1>s. UNCHANGED <<conn, sent, file>> /\ pc = "kill" /\ pc' \in {"capture", "server", "done"}
  BY DEF Kill, servers, wire
<1>1. \A c \in Conns : conn[c] # "open"
  BY <1>s DEF IInv, ConnInv, OrderInv, Past
<1>2. \A c \in Conns : dump[c] = "none" => dump'[c] = "none"
  BY DEF Kill
<1>3. conn[Now] # "none" BY <1>n, <1>s DEF IInv, OrderInv, Past
<1>4. pc' # "done" => Now' # Now /\ conn[Now'] = "none"
  <2>1. OrderInv' BY KillInv DEF IInv
  <2>2. pc' # "done" => Later(Now)' BY <1>s DEF Later, Now
  <2>3. pc' # "done" => \A c \in Conns : c = Now' => conn'[c] = "none"
    BY <1>s, <2>1 DEF OrderInv, Later
  <2> QED BY <1>n, <1>s, <1>3, <2>3
<1>5. CaptureInv' BY <1>n, <1>s, <1>2, <1>3, <1>4 DEF WholeInv, CaptureInv
<1>6. \A c \in Conns : FileInv(c)' BY <1>s, <1>1, SameFile DEF WholeInv
<1> QED BY <1>5, <1>6 DEF WholeInv

\* the client's SYN, or its failure
LEMMA ClientWhole == ASSUME IInv, WholeInv, ClientConnects \/ ClientFails PROVE WholeInv'
<1>n. Now \in Conns BY NowIsConn DEF IInv
<1>s. UNCHANGED <<run, n, dump>> /\ pc = "client" /\ pc' \in {"client", "sleep"}
  BY DEF ClientConnects, ClientFails, Go, servers, dumps
<1>w. Now' = Now BY <1>s DEF Now
<1>1. CASE ClientFails
  <2>1. conn[Now] = "open" /\ conn' = [conn EXCEPT ![Now] = "failed"] /\ UNCHANGED <<file, sent>>
    BY <1>1 DEF ClientFails, dumps
  <2>2. conn'[Now] = "failed" /\ \A c \in Conns : c # Now => conn'[c] = conn[c]
    BY <1>n, <2>1 DEF IInv, TypeOK
  <2>3. CaptureInv' BY <1>s, <1>w, <2>2 DEF WholeInv, CaptureInv
  <2>4. \A c \in Conns : FileInv(c)' BY <1>s, <2>1, <2>2, SameFile DEF WholeInv
  <2> QED BY <2>3, <2>4 DEF WholeInv
<1>2. CASE ClientConnects
  <2>1. /\ conn[Now] = "none" /\ OnWire(Now, 1) /\ conn'[Now] \in {"open", "refused"}
        /\ \A c \in Conns : c # Now => conn'[c] = conn[c]
    BY <1>n, <1>2 DEF ClientConnects, IInv, TypeOK
  <2>2. CaptureInv' BY <1>s, <1>w, <2>1 DEF WholeInv, CaptureInv
  <2>3. FileInv(Now)'
    <3>1. file[Now] = <<>> /\ dump[Now] \in {"starting", "capturing"}
      BY <1>n, <1>s, <2>1 DEF WholeInv, FileInv, CaptureInv
    <3>2. sent'[Now] = 1 BY <1>n, <2>1 DEF OnWire, IInv, TypeOK
    <3>3. CASE dump[Now] = "starting"
      <4>1. file'[Now] = <<>> BY <1>n, <2>1, <3>1, <3>3 DEF OnWire
      <4>2. conn'[Now] = "open" \/ conn'[Now] = "refused" BY <2>1
      <4> QED BY <1>w, <3>2, <4>1, <4>2 DEF FileInv, Begins
    <3>4. CASE dump[Now] = "capturing"
      <4>0. file'[Now] = Append(file[Now], <<Now, 1>>) BY <1>n, <2>1, <3>4 DEF OnWire
      <4>1. file'[Now] = <<<<Now, 1>>>> BY <3>1, <4>0
      <4>2. Len(file'[Now]) = 1 /\ file'[Now][1] = <<Now, 1>> BY <4>1
      <4>3. \A j \in 1..1 : file'[Now][j] = <<Now, j>> BY <4>2
      <4> QED BY <1>s, <1>w, <2>1, <3>2, <3>4, <4>2, <4>3 DEF FileInv, Begins, Holds
    <3> QED BY <3>1, <3>3, <3>4
  <2>4. ASSUME NEW c \in Conns, c # Now PROVE FileInv(c)'
    <3>1. conn[c] # "open" BY <2>4 DEF IInv, ConnInv
    <3>2. conn[c] = "none" => dump[c] = "none" BY <2>4 DEF WholeInv, CaptureInv
    <3>3. 1 \in 1..ServerAlert BY Places
    <3> QED BY <1>n, <2>1, <2>4, <3>1, <3>2, <3>3, OtherFile DEF WholeInv, IInv
  <2> QED BY <1>w, <2>2, <2>3, <2>4 DEF WholeInv
<1> QED BY <1>1, <1>2

\* the connection goes on, or is closed by the server
LEMMA PacketWhole ==
    ASSUME IInv, WholeInv, NEW c \in Conns, Transmit(c) \/ HangUp(c)
    PROVE  WholeInv'
<1>s. /\ UNCHANGED <<pc, run, n, dump>> /\ conn[c] = "open" /\ conn'[c] \in {"open", "closed"}
      /\ \A d \in Conns : d # c => conn'[d] = conn[d]
  BY DEF Transmit, HangUp, script, servers, IInv, TypeOK
<1>w. Now' = Now BY <1>s DEF Now
<1>1. /\ OnWire(c, sent[c] + 1) /\ sent[c] < ServerAlert /\ sent[c] \in Nat
      /\ conn'[c] = "closed" => sent[c] + 1 = ServerAlert
  BY Places DEF Transmit, HangUp, IInv, TypeOK
<1>2. CaptureInv' BY <1>s, <1>w DEF WholeInv, CaptureInv
<1>3. FileInv(c)'
  <2>1. FileInv(c) BY DEF WholeInv
  <2>2. sent'[c] >= 1 BY <1>1 DEF OnWire, IInv, TypeOK
  <2>3. conn'[c] # "none" BY <1>s
  <2>4. Begins(c)' => /\ sent'[c] = sent[c] + 1
                      /\ dump[c] = "capturing" /\ Len(file'[c]) = sent'[c]
                      /\ Holds(c, sent[c])'
    BY <1>s, <1>1, <2>1, OwnFile DEF IInv
  <2>5. Holds(c, sent[c])' /\ sent'[c] = ServerAlert => Holds(c, ServerAlert)'
    BY DEF Holds
  <2> QED BY <1>s, <1>1, <2>2, <2>3, <2>4, <2>5 DEF FileInv
<1>4. ASSUME NEW d \in Conns, d # c PROVE FileInv(d)'
  <2>1. c = Now /\ conn[d] # "open" BY <1>s, <1>4 DEF IInv, ConnInv
  <2>2. conn[d] = "none" => dump[d] = "none" BY <1>4, <2>1 DEF WholeInv, CaptureInv
  <2>3. sent[c] + 1 \in 1..ServerAlert BY <1>1, Places
  <2> QED BY <1>s, <1>1, <1>4, <2>1, <2>2, <2>3, OtherFile DEF WholeInv, IInv
<1> QED BY <1>2, <1>3, <1>4 DEF WholeInv

\* tcpdump starts or ends by itself
LEMMA DumpWhole ==
    ASSUME IInv, WholeInv, NEW c \in Conns, CaptureStarts(c) \/ CaptureEnds(c)
    PROVE  WholeInv'
<1>s. /\ UNCHANGED <<pc, run, n, conn, sent, file>>
      /\ dump[c] \in {"starting", "stopping"} /\ \A d \in Conns : d # c => dump'[d] = dump[d]
      /\ dump[c] = "starting" => dump'[c] = "capturing"
  BY DEF CaptureStarts, CaptureEnds, script, servers, wire, IInv, TypeOK
<1>w. Now' = Now /\ Now \in Conns BY <1>s, NowIsConn DEF Now, IInv
<1>1. CaptureInv' BY <1>s, <1>w DEF WholeInv, CaptureInv
<1>2. \A d \in Conns : FileInv(d)' BY <1>s, SameFile DEF WholeInv
<1> QED BY <1>1, <1>2 DEF WholeInv

LEMMA QuietWhole ==
    ASSUME WholeInv, UNCHANGED <<pc, run, n, dump, file, conn, sent>>
    PROVE  WholeInv'
<1>1. Now' = Now BY DEF Now
<1>2. \A d \in Conns : FileInv(d)' BY SameFile DEF WholeInv
<1> QED BY <1>1, <1>2 DEF WholeInv, CaptureInv

LEMMA NextWhole == IInv /\ WholeInv /\ [Next]_vars => WholeInv'
<1> SUFFICES ASSUME IInv, WholeInv, [Next]_vars PROVE WholeInv'
  OBVIOUS
<1>1. CASE Script BY <1>1, ScriptWhole, KillWhole, ClientWhole DEF Script
<1>2. CASE \E c \in Conns : CaptureStarts(c) \/ CaptureEnds(c) \/ Transmit(c) \/ HangUp(c)
  BY <1>2, DumpWhole, PacketWhole
<1>3. CASE Done \/ UNCHANGED vars \/ \E r \in Runs : ServerListens(r) \/ ServerFails(r)
  <2>1. UNCHANGED <<pc, run, n, dump, file, conn, sent>>
    BY <1>3 DEF Done, vars, ServerListens, ServerFails, script, dumps, wire
  <2> QED BY <2>1, QuietWhole
<1> QED BY <1>1, <1>2, <1>3 DEF Next

\* the first packets of such a capture, as the parser counts them
LEMMA FirstKept ==
    ASSUME NEW c \in Conns, file[c] \in Seq(Packets), Holds(c, ServerAlert),
           NEW k \in 1..Flights
    PROVE  Keeps(file[c], k, <<c, k + 1>>)
<1> DEFINE cap == file[c]
<1>1. /\ k \in Nat /\ 1 <= k /\ k + 1 <= ServerAlert /\ ServerAlert \in Nat
      /\ ServerAlert <= Len(cap) /\ Len(cap) \in Nat /\ DOMAIN cap = 1..Len(cap)
  BY FlightsAssumption DEF Holds, ServerAlert
<1>2. \A j \in 1..ServerAlert : cap[j] = <<c, j>> BY DEF Holds
<1>3. \A j \in 1..(k + 1) : j \in DOMAIN cap /\ j \in 1..ServerAlert BY <1>1
<1>4. \A j \in 1..(k + 1) : cap[j][2] = j BY <1>2, <1>3
<1>5. {j \in Counted(cap) : j <= k + 1} = 2..(k + 1)
  <2>1. ASSUME NEW j \in Counted(cap), j <= k + 1 PROVE j \in 2..(k + 1)
    <3>1. j \in 1..(k + 1) BY <1>1, <2>1 DEF Counted
    <3>2. cap[j][2] = j /\ cap[j][2] \in Payload BY <1>4, <3>1 DEF Counted
    <3> QED BY <1>1, <3>1, <3>2 DEF Payload
  <2>2. ASSUME NEW j \in 2..(k + 1) PROVE j \in Counted(cap) /\ j <= k + 1
    <3>1. j \in 1..(k + 1) BY <1>1
    <3>2. cap[j][2] = j /\ j \in DOMAIN cap BY <1>3, <1>4, <3>1
    <3>3. j \in Payload BY <1>1 DEF Payload
    <3> QED BY <1>1, <3>2, <3>3 DEF Counted
  <2> QED BY <2>1, <2>2
<1>6. Cardinality(2..(k + 1)) = k
  <2>1. Cardinality(2..(k + 1)) = IF 2 > k + 1 THEN 0 ELSE (k + 1) - 2 + 1
    BY <1>1, FS_Interval
  <2> QED BY <1>1, <2>1
<1>7. k + 1 \in Counted(cap) /\ cap[k + 1] = <<c, k + 1>>
  <2>1. k + 1 \in 2..(k + 1) /\ k + 1 \in 1..ServerAlert BY <1>1
  <2> QED BY <1>2, <1>5, <2>1
<1> QED BY <1>5, <1>6, <1>7 DEF Keeps

\* The invariant holds of every sequence of runs of tls_eval_handshake.sh.
THEOREM Invariance == Spec => []IInv
<1>1. IInv /\ [Next]_vars => IInv' BY NextInv
<1> QED BY InitInv, <1>1, PTL DEF Spec

\* Types; in particular no server serves more connections than -C says.
THEOREM TypeCorrect == Spec => []TypeOK
<1>1. IInv => TypeOK BY DEF IInv
<1> QED BY Invariance, <1>1, PTL

\* A capture that begins with the SYN of its connection gives the flights of
\* that handshake, whatever came before it and comes behind.
THEOREM MeasuresItsOwn == Spec => []MeasuresItsHandshake
<1>1. IInv /\ WholeInv => MeasuresItsHandshake
  BY FirstKept DEF IInv, TypeOK, WholeInv, FileInv, Begins, MeasuresItsHandshake
<1>2. IInv /\ WholeInv /\ [Next]_vars => WholeInv' BY NextWhole
<1> QED BY InitWhole, <1>1, <1>2, Invariance, PTL DEF Spec

\* Every tcpdump is signalled by the pkill of its own iteration.
THEOREM NoCaptureLeft == Spec => []CapturesStopped
<1>1. IInv => CapturesStopped BY DEF IInv, DumpInv
<1> QED BY Invariance, <1>1, PTL

\* A server takes a client of a later run only if one of its own missed it.
THEOREM LeftOver == Spec => []LeftOverForAReason
<1>1. IInv => LeftOverForAReason BY DEF IInv
<1> QED BY Invariance, <1>1, PTL

\* A client is refused only while its server starts, never came to listen, or
\* fell with a failed handshake: never because -C counted too few.
THEOREM Refused == Spec => RefusedForAReason
<1>1. ASSUME IInv, [Next]_vars, NEW c \in Conns, conn[c] = "none", conn'[c] = "refused"
      PROVE  \/ server[c[1]] = "starting"
             \/ \A d \in Conns : by[d] # c[1]
             \/ \E d \in Conns : by[d] = c[1] /\ conn[d] = "failed"
  <2>1. ClientConnects
    <3>1. CASE UNCHANGED conn BY <1>1, <3>1
    <3>2. CASE ClientFails BY <1>1, <3>2 DEF ClientFails, IInv, TypeOK
    <3>3. CASE \E d \in Conns : HangUp(d) BY <1>1, <3>3 DEF HangUp, IInv, TypeOK
    <3> QED
      BY <1>1, <3>1, <3>2, <3>3
      DEF Next, Script, Done, StartServer, PidofServer, StartCapture, ClientReturns, Sleep,
          Kill, ServerListens, ServerFails, CaptureStarts, CaptureEnds, Transmit, wire, vars
  <2>2. /\ pc = "client" /\ c = Now /\ \A r \in Runs : server[r] # "listening"
    <3>1. Now \in Conns BY <1>1, NowIsConn DEF IInv
    <3>2. conn \in [Conns -> {"none", "open", "refused", "failed", "closed"}]
      BY <1>1 DEF IInv, TypeOK
    <3> QED BY <1>1, <2>1, <3>1, <3>2 DEF ClientConnects
  <2>3. c[1] = run /\ run \in Runs /\ run \in Nat
    BY <1>1, <2>2, NowIsConn DEF Now, IInv, TypeOK
  <2>4. server[run] \notin {"none", "listening"}
    BY <1>1, <2>2, <2>3 DEF IInv, ServerInv
  <2>5. served[run] < N_TIMES[run] /\ served[run] \in Nat /\ N_TIMES[run] \in Nat
    BY <1>1, <2>2, <2>3, OneToCome, NTimes DEF IInv, TypeOK
  <2>6. server[run] \in {"starting", "gone"}
    BY <1>1, <2>3, <2>4 DEF IInv, TypeOK
  <2> QED BY <1>1, <2>3, <2>5, <2>6 DEF IInv, ServerInv
<1>2. IInv /\ [Next]_vars =>
        [\A c \in Conns :
          conn[c] = "none" /\ conn'[c] = "refused"
              => \/ server[c[1]] = "starting"
                 \/ \A d \in Conns : by[d] # c[1]
                 \/ \E d \in Conns : by[d] = c[1] /\ conn[d] = "failed"]_vars
  BY <1>1
<1> QED BY Invariance, <1>2, PTL DEF Spec, RefusedForAReason
=============================================================================

----------------------- MODULE BenchConnections_proofs -----------------------
(***************************************************************************)
(* BenchConnections for every number of connections and every build: the    *)
(* connections follow one another, the averages are taken over what they    *)
(* are divided by, and every connection of the second loop is given a       *)
(* session that can be resumed.                                             *)
(*                                                                          *)
(* The last needs the ticket followed on its way: it is still owed, or it   *)
(* is the first record not read yet, or it was taken in; so the answer,     *)
(* which comes behind it, is never read before it.                          *)
(***************************************************************************)
EXTENDS BenchConnections, TLAPS

Wanted == IF resumeSession THEN 2 ELSE 1

\* the loops, what they have counted and printed
LoopInv ==
    /\ version = 4 => Has("TLS13")
    /\ loops <= Wanted
    /\ done = i
    /\ pc \in {"connect", "handshake", "write", "read", "close"} => i < times
    /\ pc # "loops" => loops < Wanted
    /\ pc = "loops" /\ loops < Wanted => i = times
    /\ Len(averages) = IF pc = "loops" THEN Wanted - loops ELSE Wanted - loops - 1
    /\ \A k \in 1..Len(averages) : averages[k] = times
    /\ end = "return" => pc = "loops" /\ loops = 0

\* the connection in hand
ConnectionInv ==
    /\ objects = IF pc \in {"loops", "new"} THEN 0 ELSE 1
    /\ sockets = IF pc \in {"handshake", "write", "read", "close"} THEN 1 ELSE 0
    /\ pc \in {"loops", "new", "connect", "handshake"} => ~up /\ inbox = <<>>
    /\ pc \in {"write", "read"} => Has("TLS13") /\ resumeSession

\* the ticket of the connection in hand, in a build that has tickets
TicketInv ==
    pc \in {"write", "read"} /\ version = 4 /\ Has("SESSION_TICKET") =>
        IF "ticket" \in owes THEN inbox = <<>>
        ELSE ticketed \/ (inbox # <<>> /\ Head(inbox) \in {"ticket", "close"})

\* whether a connection that is about to close can be resumed
ClosingInv ==
    /\ version = 3 /\ pc \in {"write", "read", "close"} => ticketed
    /\ version = 4 /\ Has("SESSION_TICKET") /\ resumeSession /\ pc = "close" => ticketed
    /\ version = 4 /\ ~Has("SESSION_TICKET") /\ pc \in {"write", "read", "close"} =>
          /\ ~ticketed /\ "ticket" \notin owes
          /\ \A k \in 1..Len(inbox) : inbox[k] # "ticket"

Usable == IF version = 4 /\ ~Has("SESSION_TICKET") THEN "bare" ELSE "usable"

\* the session kept from the first loop, and given to those of the second
SessionInv ==
    resumeSession /\ Has("SESSION_CACHE") =>
        /\ loops = 0 \/ (loops = 1 /\ pc \in {"loops", "new"} /\ i = times)
              => benchSession = Usable
        /\ loops = 0 /\ pc \in {"handshake", "write", "read", "close"} => given = Usable

IInv == TypeOK /\ LoopInv /\ ConnectionInv /\ TicketInv /\ ClosingInv /\ SessionInv

----------------------------------------------------------------------------
LEMMA TimesNumber == TypeOK => times \in Nat /\ times >= 1
BY TimesAssumption DEF TypeOK

LEMMA InitIInv == Init => IInv
<1> SUFFICES ASSUME Init PROVE IInv
  OBVIOUS
<1>1. TypeOK
  <2>1. times \in Nat /\ times >= 1
    BY TimesAssumption DEF Init
  <2>2. inbox \in Seq({"ticket", "reply", "close"}) /\ averages \in Seq(Nat) /\ Len(averages) <= 2
    BY DEF Init
  <2>3. loops \in 0..2
    BY DEF Init
  <2>4. i \in 0..times /\ done \in 0..times
    BY <2>1 DEF Init
  <2>5. shares \subseteq {"default", "X25519"} /\ owes \subseteq {"ticket", "reply", "close"}
    BY DEF Init
  <2>6. /\ pc \in {"loops", "new", "connect", "handshake", "write", "read", "close"}
        /\ given \in {"none", "bare", "usable"} /\ benchSession \in {"none", "bare", "usable"}
        /\ end \in {"run", "return", "err_sys"}
    BY DEF Init
  <2>7. objects \in 0..1 /\ sockets \in 0..1
    BY DEF Init
  <2>8. up \in BOOLEAN /\ ticketed \in BOOLEAN
    BY DEF Init
  <2>9. /\ times \in Times /\ version \in {3, 4} /\ resumeSession \in BOOLEAN
        /\ useX25519 \in BOOLEAN /\ helloRetry \in BOOLEAN
    BY DEF Init
  <2> QED BY <2>2, <2>3, <2>4, <2>5, <2>6, <2>7, <2>8, <2>9 DEF TypeOK
<1>2. LoopInv
  BY <1>1, TimesAssumption DEF Init, LoopInv, Wanted, Has, TypeOK
<1>3. ConnectionInv /\ TicketInv /\ ClosingInv /\ SessionInv
  BY TimesAssumption DEF Init, ConnectionInv, TicketInv, ClosingInv, SessionInv
<1> QED BY <1>1, <1>2, <1>3 DEF IInv

LEMMA StartLoopStep == ASSUME IInv, StartLoop PROVE IInv'
<1> USE TimesNumber DEF StartLoop, At, arguments, connection
<1>1. TypeOK'
  BY DEF IInv, TypeOK, LoopInv, ConnectionInv, Wanted
<1>2. LoopInv'
  BY DEF IInv, TypeOK, LoopInv, Wanted, Has
<1>3. ConnectionInv'
  BY DEF IInv, TypeOK, LoopInv, ConnectionInv, Has
<1>4. TicketInv' /\ ClosingInv'
  BY DEF IInv, TypeOK, LoopInv, ConnectionInv, TicketInv, ClosingInv, Has
<1>5. SessionInv'
  BY DEF IInv, TypeOK, LoopInv, ConnectionInv, ClosingInv, SessionInv, Usable, Wanted, Has, BenchResume
<1> QED BY <1>1, <1>2, <1>3, <1>4, <1>5 DEF IInv

LEMMA NewStep == ASSUME IInv, New PROVE IInv'
<1> USE TimesNumber DEF New, At, arguments, connection
<1>1. TypeOK'
  <2>1. inbox' \in Seq({"ticket", "reply", "close"})
    BY DEF IInv, TypeOK
  <2>2. objects' \in 0..1 /\ sockets' \in 0..1
    BY DEF IInv, TypeOK, LoopInv, ConnectionInv
  <2>3. shares' \subseteq {"default", "X25519"} /\ owes' \subseteq {"ticket", "reply", "close"}
    BY DEF IInv, TypeOK
  <2>4. loops' \in 0..2 /\ i' \in 0..times' /\ done' \in 0..times' /\ averages' \in Seq(Nat) /\ Len(averages') <= 2
    BY DEF IInv, TypeOK, LoopInv, Wanted
  <2> QED BY <2>1, <2>2, <2>3, <2>4 DEF IInv, TypeOK
<1>2. LoopInv'
  BY DEF IInv, TypeOK, LoopInv, Wanted, Has
<1>3. ConnectionInv'
  BY DEF IInv, TypeOK, LoopInv, ConnectionInv, Has
<1>4. TicketInv' /\ ClosingInv'
  BY DEF IInv, TypeOK, LoopInv, ConnectionInv, TicketInv, ClosingInv, Has
<1>5. SessionInv'
  BY DEF IInv, TypeOK, LoopInv, ConnectionInv, ClosingInv, SessionInv, Usable, Wanted, Has, BenchResume
<1> QED BY <1>1, <1>2, <1>3, <1>4, <1>5 DEF IInv

LEMMA AttachStep == ASSUME IInv, Attach PROVE IInv'
<1> USE TimesNumber DEF Attach, At, arguments, connection
<1>1. TypeOK'
  BY DEF IInv, TypeOK, LoopInv, ConnectionInv, Wanted
<1>2. LoopInv'
  BY DEF IInv, TypeOK, LoopInv, Wanted, Has
<1>3. ConnectionInv'
  BY DEF IInv, TypeOK, LoopInv, ConnectionInv, Has
<1>4. TicketInv' /\ ClosingInv'
  BY DEF IInv, TypeOK, LoopInv, ConnectionInv, TicketInv, ClosingInv, Has
<1>5. SessionInv'
  BY DEF IInv, TypeOK, LoopInv, ConnectionInv, ClosingInv, SessionInv, Usable, Wanted, Has, BenchResume
<1> QED BY <1>1, <1>2, <1>3, <1>4, <1>5 DEF IInv

LEMMA HandshakeStep == ASSUME IInv, Handshake PROVE IInv'
<1> USE TimesNumber DEF Handshake, At, arguments, connection
<1>1. TypeOK'
  BY DEF IInv, TypeOK, LoopInv, ConnectionInv, Wanted
<1>2. LoopInv'
  BY DEF IInv, TypeOK, LoopInv, Wanted, Has
<1>3. ConnectionInv'
  BY DEF IInv, TypeOK, LoopInv, ConnectionInv, Has
<1>4. TicketInv' /\ ClosingInv'
  <2>1. inbox' = <<>>
    BY DEF IInv, ConnectionInv
  <2>2. TicketInv'
    BY <2>1 DEF IInv, TypeOK, TicketInv, Has
  <2>3. version = 4 => Has("TLS13")
    BY DEF IInv, LoopInv
  <2>4. version' = version /\ resumeSession' = resumeSession /\ (ticketed' <=> version = 3)
    OBVIOUS
  <2>5. pc' = IF Has("TLS13") /\ resumeSession THEN "write" ELSE "close"
    OBVIOUS
  <2>6. ~Has("SESSION_TICKET") => "ticket" \notin owes'
    OBVIOUS
  <2>7. \A k \in 1..Len(inbox') : FALSE
    BY <2>1
  <2>8. version' = 4 /\ resumeSession' => pc' = "write"
    BY <2>3, <2>4, <2>5
  <2>9. ClosingInv'
    BY <2>4, <2>6, <2>7, <2>8 DEF ClosingInv, Has
  <2> QED BY <2>2, <2>9
<1>5. SessionInv'
  BY DEF IInv, TypeOK, LoopInv, ConnectionInv, ClosingInv, SessionInv, Usable, Wanted, Has, BenchResume
<1> QED BY <1>1, <1>2, <1>3, <1>4, <1>5 DEF IInv

LEMMA WriteStep == ASSUME IInv, Write PROVE IInv'
<1> USE TimesNumber DEF Write, At, arguments, connection
<1>1. TypeOK'
  BY DEF IInv, TypeOK, LoopInv, ConnectionInv, Wanted
<1>2. LoopInv'
  BY DEF IInv, TypeOK, LoopInv, Wanted, Has
<1>3. ConnectionInv'
  BY DEF IInv, TypeOK, LoopInv, ConnectionInv, Has
<1>4. TicketInv' /\ ClosingInv'
  BY DEF IInv, TypeOK, LoopInv, ConnectionInv, TicketInv, ClosingInv, Has
<1>5. SessionInv'
  BY DEF IInv, TypeOK, LoopInv, ConnectionInv, ClosingInv, SessionInv, Usable, Wanted, Has, BenchResume
<1> QED BY <1>1, <1>2, <1>3, <1>4, <1>5 DEF IInv

LEMMA ReadStep == ASSUME IInv, Read PROVE IInv'
<1> USE TimesNumber DEF Read, At, arguments, connection
<1>1. TypeOK'
  <2>1. inbox' \in Seq({"ticket", "reply", "close"})
    BY DEF IInv, TypeOK
  <2>2. objects' \in 0..1 /\ sockets' \in 0..1
    BY DEF IInv, TypeOK, LoopInv, ConnectionInv
  <2>3. shares' \subseteq {"default", "X25519"} /\ owes' \subseteq {"ticket", "reply", "close"}
    BY DEF IInv, TypeOK
  <2>4. loops' \in 0..2 /\ i' \in 0..times' /\ done' \in 0..times' /\ averages' \in Seq(Nat) /\ Len(averages') <= 2
    BY DEF IInv, TypeOK, LoopInv, Wanted
  <2> QED BY <2>1, <2>2, <2>3, <2>4 DEF IInv, TypeOK
<1>2. LoopInv'
  BY DEF IInv, TypeOK, LoopInv, Wanted, Has
<1>3. ConnectionInv'
  BY DEF IInv, TypeOK, LoopInv, ConnectionInv, Has
<1>4. TicketInv' /\ ClosingInv'
  <2>1. CASE Head(inbox) = "close"
    BY <2>1 DEF IInv, TicketInv, ClosingInv, Has
  <2>2. CASE Head(inbox) # "close"
    <3>1. inbox \in Seq({"ticket", "reply", "close"}) /\ inbox # <<>>
      BY DEF IInv, TypeOK
    <3>2. Head(inbox) = inbox[1] /\ \A k \in 1..Len(Tail(inbox)) : Tail(inbox)[k] = inbox[k + 1]
      BY <3>1
    <3>3. /\ inbox' = Tail(inbox) /\ ticketed' = (ticketed \/ Head(inbox) = "ticket")
          /\ pc' = IF Head(inbox) = "reply" THEN "close" ELSE "read"
      BY <2>2
    <3>4. TicketInv'
      BY <3>1, <3>3, <2>2 DEF IInv, TypeOK, TicketInv, Has
    <3>5. ClosingInv'
      BY <3>1, <3>2, <3>3, <2>2 DEF IInv, TypeOK, ConnectionInv, TicketInv, ClosingInv, Has
    <3> QED BY <3>4, <3>5
  <2> QED BY <2>1, <2>2
<1>5. SessionInv'
  BY DEF IInv, TypeOK, LoopInv, ConnectionInv, ClosingInv, SessionInv, Usable, Wanted, Has, BenchResume
<1> QED BY <1>1, <1>2, <1>3, <1>4, <1>5 DEF IInv

LEMMA CloseStep == ASSUME IInv, Close PROVE IInv'
<1> USE TimesNumber DEF Close, At, arguments, connection
<1>1. TypeOK'
  <2>1. inbox' \in Seq({"ticket", "reply", "close"})
    BY DEF IInv, TypeOK
  <2>2. objects' \in 0..1 /\ sockets' \in 0..1
    BY DEF IInv, TypeOK, LoopInv, ConnectionInv
  <2>3. shares' \subseteq {"default", "X25519"} /\ owes' \subseteq {"ticket", "reply", "close"}
    BY DEF IInv, TypeOK
  <2>4. loops' \in 0..2 /\ i' \in 0..times' /\ done' \in 0..times' /\ averages' \in Seq(Nat) /\ Len(averages') <= 2
    BY DEF IInv, TypeOK, LoopInv, Wanted
  <2> QED BY <2>1, <2>2, <2>3, <2>4 DEF IInv, TypeOK
<1>2. LoopInv'
  BY DEF IInv, TypeOK, LoopInv, Wanted, Has
<1>3. ConnectionInv'
  BY DEF IInv, TypeOK, LoopInv, ConnectionInv, Has
<1>4. TicketInv' /\ ClosingInv'
  BY DEF IInv, TypeOK, LoopInv, ConnectionInv, TicketInv, ClosingInv, Has
<1>5. SessionInv'
  BY DEF IInv, TypeOK, LoopInv, ConnectionInv, ClosingInv, SessionInv, Usable, Wanted, Has, BenchResume
<1> QED BY <1>1, <1>2, <1>3, <1>4, <1>5 DEF IInv

LEMMA AverageStep == ASSUME IInv, Average PROVE IInv'
<1> USE TimesNumber DEF Average, At, arguments, connection
<1>1. TypeOK'
  BY DEF IInv, TypeOK, LoopInv, ConnectionInv, Wanted
<1>2. LoopInv'
  BY DEF IInv, TypeOK, LoopInv, Wanted, Has
<1>3. ConnectionInv'
  BY DEF IInv, TypeOK, LoopInv, ConnectionInv, Has
<1>4. TicketInv' /\ ClosingInv'
  BY DEF IInv, TypeOK, LoopInv, ConnectionInv, TicketInv, ClosingInv, Has
<1>5. SessionInv'
  BY DEF IInv, TypeOK, LoopInv, ConnectionInv, ClosingInv, SessionInv, Usable, Wanted, Has, BenchResume
<1> QED BY <1>1, <1>2, <1>3, <1>4, <1>5 DEF IInv

LEMMA ReturnStep == ASSUME IInv, Return PROVE IInv'
<1> USE TimesNumber DEF Return, At, arguments, connection
<1>1. TypeOK'
  BY DEF IInv, TypeOK, LoopInv, ConnectionInv, Wanted
<1>2. LoopInv'
  BY DEF IInv, TypeOK, LoopInv, Wanted, Has
<1>3. ConnectionInv'
  BY DEF IInv, TypeOK, LoopInv, ConnectionInv, Has
<1>4. TicketInv' /\ ClosingInv'
  BY DEF IInv, TypeOK, LoopInv, ConnectionInv, TicketInv, ClosingInv, Has
<1>5. SessionInv'
  BY DEF IInv, TypeOK, LoopInv, ConnectionInv, ClosingInv, SessionInv, Usable, Wanted, Has, BenchResume
<1> QED BY <1>1, <1>2, <1>3, <1>4, <1>5 DEF IInv

LEMMA ErrSysStep == ASSUME IInv, ErrSys PROVE IInv'
<1> USE TimesNumber DEF ErrSys, At, arguments, connection
<1>1. TypeOK'
  BY DEF IInv, TypeOK, LoopInv, ConnectionInv, Wanted
<1>2. LoopInv'
  BY DEF IInv, TypeOK, LoopInv, Wanted, Has
<1>3. ConnectionInv'
  BY DEF IInv, TypeOK, LoopInv, ConnectionInv, Has
<1>4. TicketInv' /\ ClosingInv'
  BY DEF IInv, TypeOK, LoopInv, ConnectionInv, TicketInv, ClosingInv, Has
<1>5. SessionInv'
  BY DEF IInv, TypeOK, LoopInv, ConnectionInv, ClosingInv, SessionInv, Usable, Wanted, Has, BenchResume
<1> QED BY <1>1, <1>2, <1>3, <1>4, <1>5 DEF IInv

LEMMA PeerStep == ASSUME IInv, NEW r \in {"ticket", "reply", "close"}, PeerSends(r) PROVE IInv'
<1> USE DEF PeerSends, arguments
<1>1. inbox \in Seq({"ticket", "reply", "close"}) /\ inbox' = Append(inbox, r)
  BY DEF IInv, TypeOK
<1>2. /\ inbox' \in Seq({"ticket", "reply", "close"}) /\ inbox' # <<>>
      /\ inbox = <<>> => Head(inbox') = r
      /\ inbox # <<>> => Head(inbox') = Head(inbox)
      /\ \A k \in 1..Len(inbox') : inbox'[k] = r \/ \E j \in 1..Len(inbox) : inbox'[k] = inbox[j]
  BY <1>1
<1>3. owes' \subseteq owes
  OBVIOUS
<1>4. pc \in {"write", "read", "close"}
  BY DEF IInv, TypeOK, ConnectionInv
<1>5. TypeOK'
  <2>1. owes' \subseteq {"ticket", "reply", "close"}
    BY <1>3 DEF IInv, TypeOK
  <2>2. UNCHANGED <<times, version, resumeSession, useX25519, helloRetry, pc, loops, i, objects,
                    sockets, shares, given, up, ticketed, benchSession, done, averages, end>>
    OBVIOUS
  <2>3. inbox' \in Seq({"ticket", "reply", "close"})
    BY <1>2
  <2> HIDE DEF PeerSends
  <2> QED BY <2>1, <2>2, <2>3 DEF IInv, TypeOK
<1>6. LoopInv' /\ SessionInv'
  BY DEF IInv, LoopInv, SessionInv, Usable, Wanted, Has
<1>7. ConnectionInv'
  BY <1>4 DEF IInv, ConnectionInv, Has
<1>8. TicketInv'
  BY <1>2 DEF IInv, TypeOK, TicketInv, Has
<1>9. ClosingInv'
  BY <1>2, <1>3 DEF IInv, TypeOK, ClosingInv, Has
<1> QED BY <1>5, <1>6, <1>7, <1>8, <1>9 DEF IInv

LEMMA NextIInv == IInv /\ [Next]_vars => IInv'
<1> SUFFICES ASSUME IInv, [Next]_vars PROVE IInv'
  OBVIOUS
<1>1. CASE UNCHANGED vars
  BY <1>1 DEF vars, arguments, connection, IInv, TypeOK, LoopInv, ConnectionInv, TicketInv,
       ClosingInv, SessionInv, Usable, Wanted, Has
<1>2. CASE Client
  BY <1>2, StartLoopStep, NewStep, AttachStep, HandshakeStep, WriteStep, ReadStep, CloseStep,
     AverageStep, ReturnStep DEF Client
<1> QED BY <1>1, <1>2, ErrSysStep, PeerStep DEF Next, Done

\* The inductive invariant of the connection benchmark, for any number of connections.
THEOREM Invariance == Spec => []IInv
  BY InitIInv, NextIInv, PTL DEF Spec

----------------------------------------------------------------------------
(* What follows from it.                                                    *)

\* Type correctness: at most one object and one socket, counters in range.
THEOREM TypeCorrect == Spec => []TypeOK
<1>1. IInv => TypeOK
  BY DEF IInv
<1> QED BY <1>1, Invariance, PTL

\* Every connection of the -r loop is given a session that can be resumed: the
\* read before wolfSSL_get_session has taken the ticket in, in every build.
THEOREM SecondLoopResumes == Spec => []ResumesUsable
<1>1. IInv => ResumesUsable
  BY DEF IInv, SessionInv, BenchResume, Usable, ResumesUsable
<1> QED BY <1>1, Invariance, PTL

\* Each average printed is over exactly the connections it is divided by.
THEOREM AveragesOverAll == Spec => []AveragesFair
<1>1. IInv => AveragesFair
  <2> SUFFICES ASSUME IInv, end = "return"
               PROVE  averages = [k \in 1..(IF resumeSession THEN 2 ELSE 1) |-> times]
    BY DEF AveragesFair
  <2>1. /\ averages \in Seq(Nat) /\ Len(averages) = Wanted
        /\ \A k \in 1..Len(averages) : averages[k] = times
    BY DEF IInv, TypeOK, LoopInv, Wanted
  <2>2. averages = [k \in 1..Len(averages) |-> averages[k]]
    BY <2>1
  <2> QED BY <2>1, <2>2 DEF Wanted
<1> QED BY <1>1, Invariance, PTL

\* Nothing of a connection is left when the next one begins.
THEOREM NothingLeftBetween == Spec => []OneAfterAnother
<1>1. IInv => OneAfterAnother
  BY DEF IInv, LoopInv, ConnectionInv, OneAfterAnother
<1> QED BY <1>1, Invariance, PTL
=============================================================================

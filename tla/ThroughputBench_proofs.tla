----------------------- MODULE ThroughputBench_proofs -----------------------
(***************************************************************************)
(* ThroughputBench for every buffer size and every total: the echo stays    *)
(* aligned with rx_buffer, so that a comparison can only fail where nothing *)
(* was read, or after a read was given up.                                  *)
(*                                                                          *)
(* Every chunk but the last is BufferSize long.  So, before the last chunk, *)
(* a record that is begun is always finished, and the places it fills are   *)
(* its own; the last chunk may leave a record unfinished, but nothing is    *)
(* read after it.                                                           *)
(***************************************************************************)
EXTENDS ThroughputBench, SequenceTheorems, TLAPS

\* every record of s has at least n bytes
AtLeast(s, n) == \A i \in 1..Len(s) : s[i] >= n

\* the chunk in hand fills the buffer, or is the last
ChunkInv ==
    pc \in {"select", "read", "compare"} =>
        /\ len \in 1..BufferSize
        /\ xfer + len <= total
        /\ len = BufferSize \/ xfer + len = total

\* how far the first record on its way is read, section by section
AlignInv ==
    /\ xfer < total /\ pc \in {"connect", "write"} =>
           /\ AtLeast(toPeer, BufferSize) /\ AtLeast(toClient, BufferSize)
           /\ off = 0
    /\ pc \in {"select", "read", "compare"} =>
           /\ AtLeast(toPeer, len) /\ AtLeast(toClient, len)
    /\ pc = "select" => off = 0
    /\ pc = "read" => rxPos <= len /\ (rxPos < len => off = rxPos)
    /\ pc = "read" /\ rxPos = BufferSize => off = 0
    /\ pc = "compare" /\ len = BufferSize => off = 0

\* what was read stands at its place
PlaceInv == \A p \in Places : rx[p] \in {0, p}

IInv ==
    /\ TypeOK
    /\ ChunkInv
    /\ ~gaveUp => AlignInv /\ PlaceInv
    /\ end = "run" <=> pc # "end"
    /\ end = "ok" => xfer = total
    /\ NoFalseAlarm

----------------------------------------------------------------------------
(* Records on their way.                                                    *)

LEMMA AppendAtLeast ==
  ASSUME NEW s \in Seq(Records), NEW r \in Records, NEW n \in Nat,
         AtLeast(s, n), r >= n
  PROVE  Append(s, r) \in Seq(Records) /\ AtLeast(Append(s, r), n)
  BY DEF AtLeast

LEMMA TailAtLeast ==
  ASSUME NEW s \in Seq(Records), s # <<>>, NEW n \in Nat
  PROVE  /\ Head(s) \in Records
         /\ Tail(s) \in Seq(Records)
         /\ AtLeast(s, n) => Head(s) >= n /\ AtLeast(Tail(s), n)
<1>1. Head(s) = s[1] /\ Len(s) \in Nat /\ Len(s) > 0
  OBVIOUS
<1>2. Tail(s) \in Seq(Records) /\ Len(Tail(s)) = Len(s) - 1
      /\ \A i \in 1..Len(Tail(s)) : Tail(s)[i] = s[i + 1]
  OBVIOUS
<1> QED BY <1>1, <1>2 DEF AtLeast

LEMMA LessAtLeast ==
  ASSUME NEW s \in Seq(Records), NEW m \in Nat, NEW n \in Nat, n <= m, AtLeast(s, m)
  PROVE  AtLeast(s, n)
<1> SUFFICES ASSUME NEW i \in 1..Len(s) PROVE s[i] >= n
  BY DEF AtLeast
<1>1. s[i] \in Nat /\ s[i] >= m
  BY BufferAssumption DEF AtLeast, Records, Places
<1> QED BY <1>1

----------------------------------------------------------------------------
(* The invariant, action by action.                                         *)

LEMMA InitIInv == Init => IInv
<1> SUFFICES ASSUME Init PROVE IInv
  OBVIOUS
<1>1. BufferSize \in Nat /\ BufferSize > 0 /\ total \in Nat /\ total > 0
  BY BufferAssumption, TotalsAssumption DEF Init
<1>2. TypeOK
  <2>1. gaveUp \in BOOLEAN /\ (gaveUp => async)
    BY DEF Init
  <2>2. xfer \in 0..total /\ len \in 0..BufferSize /\ rxPos \in 0..BufferSize
        /\ off \in 0..(BufferSize - 1)
    BY <1>1 DEF Init
  <2> QED BY <2>1, <2>2 DEF Init, TypeOK
<1> QED
  BY <1>1, <1>2 DEF Init, IInv, ChunkInv, AlignInv, PlaceInv, AtLeast, NoFalseAlarm

LEMMA Numbers ==
  ASSUME TypeOK
  PROVE  /\ BufferSize \in Nat /\ BufferSize > 0 /\ total \in Nat /\ total > 0
         /\ xfer \in Nat /\ xfer <= total /\ len \in Nat /\ rxPos \in Nat /\ off \in Nat
  BY BufferAssumption, TotalsAssumption DEF TypeOK

LEMMA FailsStep == ASSUME IInv, Fails PROVE IInv'
<1>1. UNCHANGED <<total, udp, async, gaveUp, xfer, len, rxPos, rx, toPeer, toClient, off, open>>
  BY DEF Fails, setup, wire
<1>2. pc' = "end" /\ end' = "err_sys"
  BY DEF Fails, Ends
<1> QED
  BY <1>1, <1>2
     DEF IInv, TypeOK, ChunkInv, AlignInv, PlaceInv, AtLeast, NoFalseAlarm

LEMMA ConnectStep == ASSUME IInv, Connect PROVE IInv'
<1>1. UNCHANGED <<total, udp, async, gaveUp, xfer, len, rxPos, rx, toPeer, toClient, off, open, end>>
  BY DEF Connect, setup, wire
<1>2. pc = "connect" /\ pc' = "write" /\ end = "run"
  BY DEF Connect, At
<1> QED
  BY <1>1, <1>2
     DEF IInv, TypeOK, ChunkInv, AlignInv, PlaceInv, AtLeast, NoFalseAlarm

LEMMA WriteStep == ASSUME IInv, Write PROVE IInv'
<1>1. UNCHANGED <<total, udp, async, gaveUp, xfer, rxPos, rx, toClient, off, open, end>>
  BY DEF Write, setup
<1>2. pc = "write" /\ pc' = "select" /\ end = "run" /\ xfer < total
  BY DEF Write, At
<1>3. /\ len' \in 1..BufferSize
      /\ xfer + len' <= total
      /\ len' = BufferSize \/ xfer + len' = total
  BY <1>2, Numbers DEF IInv, Write, NextChunk
<1>4. toPeer' = Append(toPeer, len')
  BY DEF Write
<1>5. toPeer' \in Seq(Records)
  BY <1>3, <1>4, AppendAtLeast DEF IInv, TypeOK, Records, Places
<1>6. TypeOK'
  BY <1>1, <1>2, <1>3, <1>5, Numbers DEF IInv, TypeOK
<1>7. ChunkInv'
  BY <1>1, <1>3 DEF ChunkInv
<1>8. ASSUME ~gaveUp PROVE AlignInv'
  <2>1. AtLeast(toPeer, len') /\ AtLeast(toClient, len') /\ off = 0
    BY <1>2, <1>3, <1>8, Numbers, LessAtLeast DEF IInv, TypeOK, AlignInv
  <2>2. AtLeast(toPeer', len')
    BY <1>3, <1>4, <2>1, AppendAtLeast, Numbers DEF IInv, TypeOK, Records, Places
  <2> QED BY <1>1, <1>2, <2>1, <2>2 DEF AlignInv, AtLeast
<1> QED
  BY <1>1, <1>2, <1>6, <1>7, <1>8 DEF IInv, PlaceInv, NoFalseAlarm

LEMMA SelectStep == ASSUME IInv, Select PROVE IInv'
<1>1. UNCHANGED <<total, udp, async, gaveUp, xfer, len, rx, toPeer, toClient, off, open, end>>
  BY DEF Select, setup, wire
<1>2. /\ pc = "select" /\ end = "run"
      /\ \/ pc' = "read" /\ rxPos' = 0
         \/ pc' = "compare" /\ rxPos' = rxPos
  BY DEF Select, At
<1>3. TypeOK'
  BY <1>1, <1>2, Numbers DEF IInv, TypeOK
<1>4. ChunkInv'
  BY <1>1, <1>2 DEF IInv, ChunkInv
<1>5. ASSUME ~gaveUp PROVE AlignInv'
  BY <1>1, <1>2, <1>5, Numbers DEF IInv, AlignInv, ChunkInv, AtLeast
<1> QED
  BY <1>1, <1>2, <1>3, <1>4, <1>5 DEF IInv, PlaceInv, NoFalseAlarm

LEMMA ReadStep == ASSUME IInv, Read PROVE IInv'
<1>1. UNCHANGED <<total, udp, async, gaveUp, pc, xfer, len, toPeer, open, end>>
  BY DEF Read, setup
<1>2. /\ pc = "read" /\ end = "run" /\ rxPos < len /\ toClient # <<>>
      /\ toClient \in Seq(Records)
  BY DEF Read, At, IInv, TypeOK
<1>3. PICK n \in 1..(len - rxPos) :
        /\ off + n <= Head(toClient)
        /\ rx' = [p \in Places |->
                     IF p \in (rxPos + 1)..(rxPos + n) THEN off + (p - rxPos) ELSE rx[p]]
        /\ rxPos' = rxPos + n
        /\ IF off + n = Head(toClient)
           THEN toClient' = Tail(toClient) /\ off' = 0
           ELSE toClient' = toClient /\ off' = off + n
  BY DEF Read
<1>4. /\ Head(toClient) \in Records
      /\ Tail(toClient) \in Seq(Records)
      /\ \A m \in Nat : AtLeast(toClient, m) => Head(toClient) >= m /\ AtLeast(Tail(toClient), m)
  BY <1>2, TailAtLeast
<1>5. Head(toClient) \in Nat /\ Head(toClient) <= BufferSize /\ n \in Nat /\ n > 0
      /\ len \in Nat /\ len <= BufferSize /\ rxPos + n <= len
  BY <1>3, <1>4, Numbers DEF Records, Places, IInv, TypeOK
<1>6. TypeOK'
  <2> BufferSize \in Nat /\ BufferSize > 0 /\ off \in Nat /\ rxPos \in Nat
    BY Numbers DEF IInv
  <2>0. off + n <= Head(toClient)
    BY <1>3
  <2>1. off' \in 0..(BufferSize - 1) /\ toClient' \in Seq(Records)
    <3>1. CASE off + n = Head(toClient)
      BY <1>3, <1>4, <3>1
    <3>2. CASE off + n # Head(toClient)
      <4>1. toClient' = toClient /\ off' = off + n
        BY <1>3, <3>2
      <4>2. off + n < Head(toClient) /\ off + n >= 0
        BY <1>5, <2>0, <3>2
      <4>3. off + n \in 0..(BufferSize - 1)
        BY <1>5, <4>2
      <4> QED BY <1>2, <4>1, <4>3
    <3> QED BY <3>1, <3>2
  <2>2. \A p \in (rxPos + 1)..(rxPos + n) : off + (p - rxPos) \in Places
    <3> SUFFICES ASSUME NEW p \in (rxPos + 1)..(rxPos + n) PROVE off + (p - rxPos) \in 1..BufferSize
      BY DEF Places
    <3>1. p \in Int /\ p >= rxPos + 1 /\ p <= rxPos + n
      BY <1>5
    <3> QED BY <1>5, <2>0, <3>1
  <2>3. rx' \in [Places -> {0} \cup Places]
    BY <1>3, <2>2 DEF IInv, TypeOK
  <2>4. rxPos' \in 0..BufferSize
    BY <1>3, <1>5, Numbers DEF IInv, TypeOK
  <2> QED BY <1>1, <2>1, <2>3, <2>4 DEF IInv, TypeOK
<1>7. ChunkInv'
  BY <1>1 DEF IInv, ChunkInv
<1>8. ASSUME ~gaveUp PROVE AlignInv' /\ PlaceInv'
  <2>1. off = rxPos /\ AtLeast(toClient, len) /\ AtLeast(toPeer, len)
    BY <1>2, <1>8 DEF IInv, AlignInv
  <2>2. Head(toClient) >= len
    BY <1>4, <1>5, <2>1
  <2>3. AtLeast(toClient', len)
    BY <1>3, <1>4, <1>5, <2>1
  <2>4. rxPos' < len => off' = rxPos'
    BY <1>3, <1>5, <2>1, <2>2, Numbers DEF IInv
  <2>5. rxPos' = BufferSize => off' = 0
    BY <1>3, <1>5, <2>1, <2>2, Numbers DEF IInv
  <2>6. AlignInv'
    BY <1>1, <1>2, <1>3, <1>5, <2>1, <2>3, <2>4, <2>5 DEF AlignInv, AtLeast
  <2>7. PlaceInv'
    <3> SUFFICES ASSUME NEW p \in Places PROVE rx'[p] \in {0, p}
      BY DEF PlaceInv
    <3>1. p \in (rxPos + 1)..(rxPos + n) => off + (p - rxPos) = p
      BY <2>1, Numbers DEF IInv, Places
    <3> QED BY <1>3, <1>8, <3>1 DEF IInv, PlaceInv
  <2> QED BY <2>6, <2>7
<1> QED BY <1>1, <1>2, <1>6, <1>7, <1>8 DEF IInv, NoFalseAlarm

LEMMA ReadEndsStep == ASSUME IInv, ReadEnds PROVE IInv'
<1>1. UNCHANGED <<total, udp, async, gaveUp, xfer, len, rxPos, rx, toPeer, toClient, off, open, end>>
  BY DEF ReadEnds, setup, wire
<1>2. pc = "read" /\ pc' = "compare" /\ end = "run" /\ rxPos = len
  BY DEF ReadEnds, At
<1>3. TypeOK'
  BY <1>1, <1>2 DEF IInv, TypeOK
<1>4. ASSUME ~gaveUp PROVE AlignInv'
  BY <1>1, <1>2, <1>4 DEF IInv, AlignInv, AtLeast
<1> QED
  BY <1>1, <1>2, <1>3, <1>4 DEF IInv, ChunkInv, PlaceInv, NoFalseAlarm

LEMMA GiveUpStep == ASSUME IInv, GiveUp PROVE IInv'
<1>1. UNCHANGED <<total, udp, async, xfer, len, rxPos, rx, toPeer, toClient, off, open, end>>
  BY DEF GiveUp, setup, wire
<1>2. pc = "read" /\ pc' = "compare" /\ end = "run" /\ async /\ gaveUp'
  BY DEF GiveUp, At
<1>3. TypeOK'
  BY <1>1, <1>2 DEF IInv, TypeOK
<1> QED
  BY <1>1, <1>2, <1>3 DEF IInv, ChunkInv, NoFalseAlarm

LEMMA CompareStep == ASSUME IInv, Compare PROVE IInv'
<1>1. UNCHANGED <<total, udp, async, gaveUp, len, rxPos, rx, toPeer, toClient, off, open>>
  BY DEF Compare, setup, wire
<1>2. pc = "compare" /\ end = "run"
  BY DEF Compare, At
<1>3. CASE xfer' = xfer + len /\ pc' = "write" /\ end' = end
  <2>1. xfer' <= total /\ xfer' \in Nat /\ (xfer' < total => len = BufferSize)
    BY <1>2, <1>3, Numbers DEF IInv, ChunkInv
  <2>2. TypeOK'
    BY <1>1, <1>3, <2>1, Numbers DEF IInv, TypeOK
  <2>3. ASSUME ~gaveUp PROVE AlignInv'
    BY <1>1, <1>2, <1>3, <2>1, <2>3, Numbers DEF IInv, AlignInv, AtLeast
  <2> QED
    BY <1>1, <1>2, <1>3, <2>2, <2>3 DEF IInv, ChunkInv, PlaceInv, NoFalseAlarm
<1>4. CASE /\ \E p \in 1..len : rx[p] # p
           /\ Ends("mismatch") /\ xfer' = xfer
  <2>1. TypeOK'
    BY <1>1, <1>4 DEF IInv, TypeOK, Ends
  <2>2. NoFalseAlarm'
    <3>1. PICK p \in 1..len : rx[p] # p
      BY <1>4
    <3>2. p \in Places
      BY <3>1, Numbers DEF IInv, TypeOK, Places
    <3>3. ~gaveUp => rx[p] = 0
      BY <3>1, <3>2 DEF IInv, PlaceInv
    <3> QED BY <1>1, <3>1, <3>3 DEF NoFalseAlarm
  <2>3. ASSUME ~gaveUp PROVE AlignInv' /\ PlaceInv'
    BY <1>1, <1>4, <2>3 DEF IInv, AlignInv, PlaceInv, Ends
  <2> QED BY <1>1, <1>4, <2>1, <2>2, <2>3 DEF IInv, ChunkInv, Ends
<1> QED BY <1>3, <1>4 DEF Compare

LEMMA ReportStep == ASSUME IInv, Report PROVE IInv'
<1>1. UNCHANGED <<total, udp, async, gaveUp, xfer, len, rxPos, rx, toPeer, toClient, off, open>>
  BY DEF Report, setup, wire
<1>2. pc' = "end" /\ end' = "ok" /\ xfer >= total
  BY DEF Report, Ends
<1>3. xfer = total
  BY <1>2, Numbers DEF IInv
<1>4. TypeOK'
  BY <1>1, <1>2 DEF IInv, TypeOK
<1> QED
  BY <1>1, <1>2, <1>3, <1>4 DEF IInv, ChunkInv, AlignInv, PlaceInv, NoFalseAlarm

LEMMA EchoStep == ASSUME IInv, Echo PROVE IInv'
<1>1. UNCHANGED <<total, udp, async, gaveUp, pc, xfer, len, rxPos, rx, off, open, end>>
  BY DEF Echo, setup
<1>2. /\ end = "run" /\ toPeer # <<>>
      /\ toPeer \in Seq(Records) /\ toClient \in Seq(Records)
      /\ toClient' = Append(toClient, Head(toPeer)) /\ toPeer' = Tail(toPeer)
  BY DEF Echo, IInv, TypeOK
<1>3. /\ Head(toPeer) \in Records /\ toPeer' \in Seq(Records)
      /\ \A m \in Nat : AtLeast(toPeer, m) => Head(toPeer) >= m /\ AtLeast(toPeer', m)
  BY <1>2, TailAtLeast
<1>4. /\ toClient' \in Seq(Records)
      /\ \A m \in Nat : AtLeast(toPeer, m) /\ AtLeast(toClient, m) => AtLeast(toClient', m)
  <2>1. toClient' \in Seq(Records)
    BY <1>2, <1>3
  <2> QED BY <1>2, <1>3, <2>1, AppendAtLeast
<1>5. TypeOK'
  BY <1>1, <1>3, <1>4 DEF IInv, TypeOK
<1>6. ASSUME ~gaveUp PROVE AlignInv'
  <2>1. BufferSize \in Nat /\ len \in Nat
    BY Numbers DEF IInv
  <2> QED BY <1>1, <1>3, <1>4, <1>6, <2>1 DEF IInv, AlignInv
<1> QED BY <1>1, <1>5, <1>6 DEF IInv, ChunkInv, PlaceInv, NoFalseAlarm

LEMMA LoseStep == ASSUME IInv, Lose PROVE IInv'
<1>1. UNCHANGED <<total, udp, async, gaveUp, pc, xfer, len, rxPos, rx, toClient, off, open, end>>
  BY DEF Lose, setup
<1>2. end = "run" /\ toPeer # <<>> /\ toPeer \in Seq(Records) /\ toPeer' = Tail(toPeer)
  BY DEF Lose, IInv, TypeOK
<1>3. /\ toPeer' \in Seq(Records)
      /\ \A m \in Nat : AtLeast(toPeer, m) => AtLeast(toPeer', m)
  BY <1>2, TailAtLeast
<1>4. TypeOK'
  BY <1>1, <1>3 DEF IInv, TypeOK
<1>5. ASSUME ~gaveUp PROVE AlignInv'
  <2>1. BufferSize \in Nat /\ len \in Nat
    BY Numbers DEF IInv
  <2>2. AtLeast(toClient', BufferSize) <=> AtLeast(toClient, BufferSize)
    BY <1>1 DEF AtLeast
  <2>3. AtLeast(toClient', len) <=> AtLeast(toClient, len)
    BY <1>1 DEF AtLeast
  <2> QED BY <1>1, <1>3, <1>5, <2>1, <2>2, <2>3 DEF IInv, AlignInv
<1> QED BY <1>1, <1>4, <1>5 DEF IInv, ChunkInv, PlaceInv, NoFalseAlarm

LEMMA ClosesStep == ASSUME IInv, PeerCloses PROVE IInv'
<1>1. UNCHANGED <<total, udp, async, gaveUp, pc, xfer, len, rxPos, rx, toPeer, toClient, off, end>>
  BY DEF PeerCloses, setup
<1>2. open' = FALSE
  BY DEF PeerCloses
<1>3. TypeOK'
  BY <1>1, <1>2 DEF IInv, TypeOK
<1>4. ASSUME ~gaveUp PROVE AlignInv'
  <2>1. \A m : AtLeast(toPeer', m) <=> AtLeast(toPeer, m)
    BY <1>1 DEF AtLeast
  <2>2. \A m : AtLeast(toClient', m) <=> AtLeast(toClient, m)
    BY <1>1 DEF AtLeast
  <2> QED BY <1>1, <1>4, <2>1, <2>2 DEF IInv, AlignInv
<1> QED BY <1>1, <1>3, <1>4 DEF IInv, ChunkInv, PlaceInv, NoFalseAlarm

LEMMA NextIInv == IInv /\ [Next]_vars => IInv'
<1> SUFFICES ASSUME IInv, [Next]_vars PROVE IInv'
  OBVIOUS
<1>1. CASE Next
  <2>1. CASE Client
    BY <2>1, ConnectStep, WriteStep, SelectStep, ReadStep, ReadEndsStep, GiveUpStep, CompareStep, ReportStep
       DEF Client
  <2>2. CASE Done
    BY <2>2 DEF Done, vars, setup, wire, IInv, TypeOK, ChunkInv, AlignInv, PlaceInv, AtLeast,
         NoFalseAlarm
  <2> QED
    BY <1>1, <2>1, <2>2, FailsStep, EchoStep, LoseStep, ClosesStep DEF Next
<1>2. CASE UNCHANGED vars
  BY <1>2 DEF vars, setup, wire, IInv, TypeOK, ChunkInv, AlignInv, PlaceInv, AtLeast,
       NoFalseAlarm
<1> QED BY <1>1, <1>2

\* The inductive invariant of the throughput benchmark, for any sizes and any build.
THEOREM Invariance == Spec => []IInv
  BY InitIInv, NextIInv, PTL DEF Spec

----------------------------------------------------------------------------
(* What follows from it.                                                    *)

\* Type correctness: no count leaves its range, no place of rx_buffer is
\* written beyond its end.
THEOREM TypeCorrect == Spec => []TypeOK
<1>1. IInv => TypeOK
  BY DEF IInv
<1> QED BY <1>1, Invariance, PTL

\* Whatever the buffer's size, the total, the build and the lateness of the echoes,
\* the comparison of ClientBenchmarkThroughput fails on a faithful echo only where
\* the buffer was never filled, or once a pending read was given up.
THEOREM EchoNeverMistaken == Spec => []NoFalseAlarm
<1>1. IInv => NoFalseAlarm
  BY DEF IInv
<1> QED BY <1>1, Invariance, PTL

\* A benchmark that reports has counted the total asked for, to the byte.
THEOREM TotalReported == Spec => []ReportsTheTotal
<1>1. IInv => ReportsTheTotal
  BY DEF IInv, ReportsTheTotal
<1> QED BY <1>1, Invariance, PTL
=============================================================================

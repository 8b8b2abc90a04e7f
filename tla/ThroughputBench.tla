--------------------------- MODULE ThroughputBench ---------------------------
(***************************************************************************)
(* ClientBenchmarkThroughput() of tls13-dev/host/client.c (option -B): the  *)
(* same random block is written again and again, the echo of each chunk is  *)
(* awaited for DEFAULT_TIMEOUT_SEC, read and compared.                      *)
(*                                                                          *)
(* A byte is known by its place in tx_buffer, 1..BufferSize; 0 stands for    *)
(* what XMALLOC left in rx_buffer.  A record is known by its length, since   *)
(* every chunk starts at place 1.                                           *)
(***************************************************************************)
EXTENDS Integers, Sequences

CONSTANTS
    BufferSize,   \* TEST_BUFFER_SIZE
    Totals        \* the values of -B explored

ASSUME BufferAssumption == BufferSize \in Nat \ {0}
ASSUME TotalsAssumption == Totals \subseteq Nat \ {0}

VARIABLES
    total,    \* throughput, the argument of -B
    udp,      \* -u: records may be lost
    async,    \* the build has WOLFSSL_ASYNC_CRYPT
    pc,       \* "connect", "write", "select", "read", "compare", "end"
    xfer,     \* xfer_bytes: bytes counted as transferred
    len,      \* length of the chunk in hand
    rxPos,    \* rx_pos: bytes of it read so far
    rx,       \* rx_buffer
    toPeer,   \* records on their way to the peer
    toClient, \* echoed records that are not read whole
    off,      \* bytes read of the first of them
    open,     \* the peer has not closed
    gaveUp,   \* a pending read was given up: its loop was left before the chunk was whole
    end       \* "run", "ok", "mismatch", "err_sys"

setup == <<total, udp, async>>
wire  == <<toPeer, toClient, off, open>>
vars  == <<setup, pc, xfer, len, rxPos, rx, wire, gaveUp, end>>

Places  == 1..BufferSize
Records == Places

TypeOK ==
    /\ total \in Totals /\ udp \in BOOLEAN /\ async \in BOOLEAN
    /\ pc \in {"connect", "write", "select", "read", "compare", "end"}
    /\ xfer \in 0..total
    /\ len \in 0..BufferSize
    /\ rxPos \in 0..BufferSize
    /\ rx \in [Places -> {0} \cup Places]
    /\ toPeer \in Seq(Records) /\ toClient \in Seq(Records)
    /\ off \in 0..(BufferSize - 1)
    /\ open \in BOOLEAN
    /\ gaveUp \in BOOLEAN /\ (gaveUp => async)
    /\ end \in {"run", "ok", "mismatch", "err_sys"}

Init ==
    /\ total \in Totals /\ udp \in BOOLEAN /\ async \in BOOLEAN
    /\ pc = "connect"
    /\ xfer = 0 /\ len = 0 /\ rxPos = 0
    /\ rx = [p \in Places |-> 0]
    /\ toPeer = <<>> /\ toClient = <<>> /\ off = 0
    /\ open = TRUE
    /\ gaveUp = FALSE
    /\ end = "run"

At(here) == end = "run" /\ pc = here
Ends(how) == end' = how /\ pc' = "end"

\* Slip: a read that returns no data is tried again, whatever the error
FailsNotReading ==
    /\ end = "run"
    /\ pc \in {"connect", "write"}
    /\ Ends("err_sys")
    /\ UNCHANGED <<setup, gaveUp, xfer, len, rxPos, rx, wire>>

\* err_sys of a call that failed
Fails ==
    /\ end = "run"
    /\ pc \in {"connect", "write", "read"}
    /\ Ends("err_sys")
    /\ UNCHANGED <<setup, gaveUp, xfer, len, rxPos, rx, wire>>

Connect ==
    /\ At("connect")
    /\ pc' = "write"
    /\ UNCHANGED <<setup, gaveUp, xfer, len, rxPos, rx, wire, end>>

\* Slip: the last chunk is not cut to what is left
NextChunkWhole == BufferSize

NextChunk == IF total - xfer < BufferSize THEN total - xfer ELSE BufferSize

\* the loop's condition, and the chunk it writes
Write ==
    /\ At("write") /\ xfer < total
    /\ len' = NextChunk
    /\ toPeer' = Append(toPeer, NextChunk)
    /\ pc' = "select"
    /\ UNCHANGED <<setup, gaveUp, xfer, rxPos, rx, toClient, off, open, end>>

\* tcp_select: an echo or the peer's close makes the socket readable; the wait
\* may also end first, and then nothing is read
Select ==
    /\ At("select")
    /\ \/ /\ toClient # <<>> \/ ~open
          /\ pc' = "read" /\ rxPos' = 0
       \/ pc' = "compare" /\ rxPos' = rxPos
    /\ UNCHANGED <<setup, gaveUp, xfer, len, rx, wire, end>>

\* wolfSSL_read: bytes of one record, to where the chunk is filled up to
Read ==
    /\ At("read") /\ rxPos < len /\ toClient # <<>>
    /\ \E n \in 1..(len - rxPos) :
          /\ off + n <= Head(toClient)
          /\ rx' = [p \in Places |->
                       IF p \in (rxPos + 1)..(rxPos + n) THEN off + (p - rxPos) ELSE rx[p]]
          /\ rxPos' = rxPos + n
          /\ IF off + n = Head(toClient)
             THEN toClient' = Tail(toClient) /\ off' = 0
             ELSE toClient' = toClient /\ off' = off + n
    /\ UNCHANGED <<setup, gaveUp, pc, xfer, len, toPeer, open, end>>

\* Slip: the first read is taken for the whole chunk
ReadEndsShort ==
    /\ At("read")
    /\ rxPos > 0
    /\ pc' = "compare"
    /\ UNCHANGED <<setup, gaveUp, xfer, len, rxPos, rx, wire, end>>

\* the chunk is whole
ReadEnds ==
    /\ At("read")
    /\ rxPos = len
    /\ pc' = "compare"
    /\ UNCHANGED <<setup, gaveUp, xfer, len, rxPos, rx, wire, end>>

\* a read is pending and wolfSSL_AsyncPoll fails: the loop is left with what it
\* has, and the rest of the echo stays in front of the next
GiveUp ==
    /\ At("read") /\ async /\ rxPos < len
    /\ pc' = "compare"
    /\ gaveUp' = TRUE
    /\ UNCHANGED <<setup, xfer, len, rxPos, rx, wire, end>>

\* XMEMCMP; a place never written to may compare either way
Compare ==
    /\ At("compare")
    /\ \/ /\ \A p \in 1..len : rx[p] \in {0, p}
          /\ xfer' = xfer + len
          /\ pc' = "write" /\ end' = end
       \/ /\ \E p \in 1..len : rx[p] # p
          /\ Ends("mismatch") /\ xfer' = xfer
    /\ UNCHANGED <<setup, gaveUp, len, rxPos, rx, wire>>

\* shutdown, free, close and the figures
Report ==
    /\ At("write") /\ xfer >= total
    /\ Ends("ok")
    /\ UNCHANGED <<setup, gaveUp, xfer, len, rxPos, rx, wire>>

\* the peer: it echoes each record whole, or closes; UDP loses either copy
Echo ==
    /\ end = "run" /\ open /\ toPeer # <<>>
    /\ toClient' = Append(toClient, Head(toPeer))
    /\ toPeer' = Tail(toPeer)
    /\ UNCHANGED <<setup, gaveUp, pc, xfer, len, rxPos, rx, off, open, end>>

Lose ==
    /\ end = "run" /\ udp /\ toPeer # <<>>
    /\ toPeer' = Tail(toPeer)
    /\ UNCHANGED <<setup, gaveUp, pc, xfer, len, rxPos, rx, toClient, off, open, end>>

PeerCloses ==
    /\ end = "run" /\ open /\ pc # "connect"
    /\ open' = FALSE
    /\ UNCHANGED <<setup, gaveUp, pc, xfer, len, rxPos, rx, toPeer, toClient, off, end>>

Done == end # "run" /\ UNCHANGED vars

Client == Connect \/ Write \/ Select \/ Read \/ ReadEnds \/ GiveUp \/ Compare \/ Report

Next == Client \/ Fails \/ Echo \/ Lose \/ PeerCloses \/ Done

Spec == Init /\ [][Next]_vars

\* The client runs; a read of a closed connection fails; over TCP the peer
\* echoes what it gets.
FairSpec ==
    /\ Spec
    /\ WF_vars(Client)
    /\ WF_vars(pc = "read" /\ ~open /\ Fails)
    /\ WF_vars(~udp /\ Echo)

----------------------------------------------------------------------------
\* A faithful echo is never taken for a wrong one, however late it is and in
\* whatever pieces it is read, in a build for asynchronous devices too: the
\* comparison fails only where no echo has filled the buffer yet, or once a
\* pending read was given up in the middle of an echo.
NoFalseAlarm ==
    end = "mismatch" => gaveUp \/ \E p \in 1..len : rx[p] = 0

\* What is reported is what was asked for, to the byte.
ReportsTheTotal == end = "ok" => xfer = total

\* The benchmark ends over TCP, whether the peer echoes or closes.
Terminates == <>(end # "run" \/ udp)
=============================================================================

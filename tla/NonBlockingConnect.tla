-------------------------- MODULE NonBlockingConnect --------------------------
(***************************************************************************)
(* NonBlockingSSL_Connect() of tls13-dev/host/client.c (option -N): call     *)
(* wolfSSL_connect until it is done, waiting in between for the socket to    *)
(* become readable, for a time-out, or for the crypto device.                *)
(*                                                                          *)
(* The library, the peer and the network are external.  The handshake is a   *)
(* sequence of flights of the client, each answered by the peer; with        *)
(* endsReading FALSE (TLS 1.3) the last flight has no answer.  Flights and    *)
(* answers are known by their number.  Over DTLS both may be lost, and both   *)
(* sides send again; MaxResends bounds what the peer repeats of its own       *)
(* accord.                                                                  *)
(***************************************************************************)
EXTENDS Integers

CONSTANTS
    Flights,      \* flights of the client in a handshake
    MaxTimeouts,  \* time-outs in a row after which DTLS gives up
    MaxResends    \* bound on the answers the peer repeats when its timer expires

ASSUME FlightsAssumption == Flights \in Nat \ {0}
ASSUME BoundsAssumption == MaxTimeouts \in Nat /\ MaxResends \in Nat

VARIABLES
    dtls,        \* the session is DTLS
    async,       \* the build has WOLFSSL_ASYNC_CRYPT
    endsReading, \* the last flight is answered
    pc,          \* "connect", "loop", "judge", "return"
    ret,         \* ret: is it SSL_SUCCESS, which is 1?
    error,       \* error
    selectRet,   \* select_ret
    read,        \* answers the library has read
    sent,        \* the flight that follows them is sent
    out,         \* part of it could not be written: "stuck"; there is room now: "drained"
    op,          \* the device: "idle", "running", "done" for the next flight
    timeouts,    \* time-outs the library has counted since the last answer
    toPeer,      \* flights on their way
    toClient,    \* answers on their way or in the socket
    peer,        \* flights the peer has received
    resends,     \* answers repeated by the peer
    broken       \* the connection was closed or the handshake refused

setup  == <<dtls, async, endsReading>>
local  == <<ret, error, selectRet>>
ssl    == <<read, sent, out, op, timeouts>>
net    == <<toPeer, toClient, peer, resends, broken>>
vars   == <<setup, pc, local, ssl, net>>

Numbers == 1..Flights

TypeOK ==
    /\ dtls \in BOOLEAN /\ async \in BOOLEAN /\ endsReading \in BOOLEAN
    /\ pc \in {"connect", "loop", "judge", "return"}
    /\ ret \in {"success", "other"}
    /\ error \in {"none", "wantRead", "wantWrite", "pending", "fatal"}
    /\ selectRet \in {"fail", "timeout", "recvReady", "errorReady"}
    /\ read \in 0..Flights /\ sent \in BOOLEAN
    /\ out \in {"empty", "stuck", "drained"} /\ op \in {"idle", "running", "done"}
    /\ timeouts \in 0..MaxTimeouts
    /\ toPeer \subseteq Numbers /\ toClient \subseteq Numbers
    /\ peer \in 0..Flights /\ resends \in 0..MaxResends
    /\ broken \in BOOLEAN

\* select_ret is 0, TEST_SELECT_FAIL, before the first wait
Init ==
    /\ dtls \in BOOLEAN /\ async \in BOOLEAN /\ endsReading \in BOOLEAN
    /\ pc = "connect"
    /\ ret = "other" /\ error = "none" /\ selectRet = "fail"
    /\ read = 0 /\ sent = FALSE /\ out = "empty" /\ op = "idle" /\ timeouts = 0
    /\ toPeer = {} /\ toClient = {} /\ peer = 0 /\ resends = 0 /\ broken = FALSE

-----------------------------------------------------------------------------
(* wolfSSL_connect *)

HasAnswer(k) == k < Flights \/ endsReading

Advances == sent /\ read + 1 \in toClient

Returns(r, e) == ret' = r /\ error' = e

\* the peer hung up or refused, or the answer read is not accepted
CallFails ==
    /\ broken \/ Advances
    /\ Returns("other", "fatal")
    /\ broken' = TRUE
    /\ UNCHANGED <<ssl, toPeer, toClient, peer, resends>>

\* All answers are read, those of earlier flights dropped, and the next flight
\* is written as far as possible.
CallAdvances ==
    LET done    == read + (IF Advances THEN 1 ELSE 0)
        waiting == sent /\ ~Advances
        over    == done = Flights
        writing == ~over /\ ~waiting
    IN
    /\ ~(broken /\ waiting)
    /\ read' = done
    /\ toClient' = IF sent THEN {} ELSE toClient
    /\ timeouts' = IF Advances THEN 0 ELSE timeouts
    /\ \/ /\ over
          /\ Returns("success", "none") /\ sent' = FALSE
          /\ UNCHANGED <<out, op, toPeer>>
       \/ /\ waiting
          /\ Returns("other", "wantRead")
          /\ UNCHANGED <<sent, out, op, toPeer>>
       \/ /\ writing /\ async /\ op # "done" /\ out = "empty"
          /\ Returns("other", "pending") /\ op' = "running" /\ sent' = FALSE
          /\ UNCHANGED <<out, toPeer>>
       \/ /\ writing /\ op # "running" /\ out # "drained"
          /\ Returns("other", "wantWrite") /\ out' = "stuck" /\ sent' = FALSE
          /\ UNCHANGED <<op, toPeer>>
       \/ /\ writing /\ op # "running" /\ out # "stuck"
          /\ IF HasAnswer(done + 1) THEN Returns("other", "wantRead")
                                    ELSE Returns("success", "none")
          /\ sent' = TRUE /\ out' = "empty" /\ op' = "idle"
          /\ toPeer' = toPeer \cup {done + 1}
    /\ UNCHANGED <<peer, resends, broken>>

wolfSSL_connect == CallFails \/ CallAdvances

\* Slip: the library's count of time-outs is not asked, the flight is sent again
GotTimeoutAlways ==
    /\ timeouts' = timeouts + 1
    /\ toPeer' \in {toPeer \cup {read + 1}} \cup (IF sent THEN {} ELSE {toPeer})
    /\ UNCHANGED <<read, sent, out, op, toClient, peer, resends, broken>>

\* wolfSSL_dtls_got_timeout() >= 0: one more time-out is allowed, and the flight
\* is sent again, as much of it as there is
GotTimeout ==
    /\ timeouts < MaxTimeouts
    /\ timeouts' = timeouts + 1
    /\ toPeer' \in {toPeer \cup {read + 1}} \cup (IF sent THEN {} ELSE {toPeer})
    /\ UNCHANGED <<read, sent, out, op, toClient, peer, resends, broken>>

\* wolfSSL_dtls_got_timeout() < 0: too many, or the repeated flight is blocked
GotTimeoutFails ==
    /\ timeouts = MaxTimeouts \/ out # "empty"
    /\ UNCHANGED <<ssl, net>>

-----------------------------------------------------------------------------
(* NonBlockingSSL_Connect *)

Connect ==
    /\ pc = "connect"
    /\ wolfSSL_connect
    /\ pc' = "loop"
    /\ UNCHANGED <<setup, selectRet>>

Again == ret # "success" /\ error \in {"wantRead", "wantWrite", "pending"}

Return ==
    /\ pc = "loop" /\ ~Again
    /\ pc' = "return"
    /\ UNCHANGED <<setup, local, ssl, net>>

\* wolfSSL_AsyncPoll returns the number of events that are done: 1 is
\* SSL_SUCCESS, and less than 0 leaves the loop
Poll ==
    /\ pc = "loop" /\ Again /\ error = "pending"
    /\ \/ pc' = "judge" /\ ret' = IF op = "done" THEN "success" ELSE "other"
       \/ pc' = "return" /\ ret' = "other"
    /\ UNCHANGED <<setup, error, selectRet, ssl, net>>

Readable == toClient # {} \/ broken

\* tcp_select waits for the socket to be readable, whatever the call wanted
Select ==
    /\ pc = "loop" /\ Again /\ error # "pending"
    /\ \/ Readable /\ selectRet' = "recvReady"
       \/ broken /\ selectRet' = "errorReady"
       \/ ~Readable /\ selectRet' = "timeout"
       \/ selectRet' = "fail"
    /\ pc' = "judge"
    /\ UNCHANGED <<setup, ret, error, ssl, net>>

Ready == selectRet \in {"recvReady", "errorReady"} \/ error = "pending"

\* Slip: the result of the wait alone decides, also when there was no wait
JudgeSelectOnly ==
    /\ pc = "judge"
    /\ \/ /\ selectRet \in {"recvReady", "errorReady"}
          /\ wolfSSL_connect
       \/ /\ selectRet = "timeout" /\ ~dtls
          /\ error' = "wantRead" /\ UNCHANGED <<ret, ssl, net>>
       \/ /\ selectRet = "timeout" /\ dtls
          /\ \/ GotTimeout /\ error' = "wantRead"
             \/ GotTimeoutFails /\ error' = "fatal"
          /\ UNCHANGED ret
       \/ /\ selectRet = "fail"
          /\ error' = "fatal" /\ UNCHANGED <<ret, ssl, net>>
    /\ pc' = "loop"
    /\ UNCHANGED <<setup, selectRet>>

\* Slip: a DTLS time-out is not reported to the library
JudgeNoResend ==
    /\ pc = "judge"
    /\ \/ Ready /\ wolfSSL_connect
       \/ /\ ~Ready /\ selectRet = "timeout"
          /\ error' = "wantRead" /\ UNCHANGED <<ret, ssl, net>>
       \/ /\ ~Ready /\ selectRet = "fail"
          /\ error' = "fatal" /\ UNCHANGED <<ret, ssl, net>>
    /\ pc' = "loop"
    /\ UNCHANGED <<setup, selectRet>>

\* Slip: any time-out is asked about and ends a session that is not DTLS
JudgeTimeoutEnds ==
    /\ pc = "judge"
    /\ \/ Ready /\ wolfSSL_connect
       \/ /\ ~Ready /\ selectRet = "timeout" /\ dtls
          /\ \/ GotTimeout /\ error' = "wantRead"
             \/ GotTimeoutFails /\ error' = "fatal"
          /\ UNCHANGED ret
       \/ /\ ~Ready /\ (selectRet = "fail" \/ ~dtls)
          /\ error' = "fatal" /\ UNCHANGED <<ret, ssl, net>>
    /\ pc' = "loop"
    /\ UNCHANGED <<setup, selectRet>>

\* what the wait ended with decides on the next call
Judge ==
    /\ pc = "judge"
    /\ \/ Ready /\ wolfSSL_connect
       \/ /\ ~Ready /\ selectRet = "timeout" /\ ~dtls
          /\ error' = "wantRead" /\ UNCHANGED <<ret, ssl, net>>
       \/ /\ ~Ready /\ selectRet = "timeout" /\ dtls
          /\ \/ GotTimeout /\ error' = "wantRead"
             \/ GotTimeoutFails /\ error' = "fatal"
          /\ UNCHANGED ret
       \/ /\ ~Ready /\ selectRet = "fail"
          /\ error' = "fatal" /\ UNCHANGED <<ret, ssl, net>>
    /\ pc' = "loop"
    /\ UNCHANGED <<setup, selectRet>>

Client == Connect \/ Return \/ Poll \/ Select \/ Judge

-----------------------------------------------------------------------------
(* The peer, the network and the device *)

PeerAnswers ==
    /\ ~broken
    /\ \E k \in toPeer :
          /\ toPeer' = toPeer \ {k}
          /\ peer' = IF k > peer THEN k ELSE peer
          /\ toClient' = IF HasAnswer(k) THEN toClient \cup {k} ELSE toClient
    /\ UNCHANGED <<setup, pc, local, ssl, resends, broken>>

PeerResends ==
    /\ dtls /\ ~broken /\ resends < MaxResends
    /\ peer > 0 /\ HasAnswer(peer)
    /\ toClient' = toClient \cup {peer}
    /\ resends' = resends + 1
    /\ UNCHANGED <<setup, pc, local, ssl, toPeer, peer, broken>>

PeerHangsUp ==
    /\ ~broken /\ broken' = TRUE
    /\ UNCHANGED <<setup, pc, local, ssl, toPeer, toClient, peer, resends>>

Lose ==
    /\ dtls
    /\ \/ \E k \in toPeer : toPeer' = toPeer \ {k} /\ UNCHANGED toClient
       \/ \E k \in toClient : toClient' = toClient \ {k} /\ UNCHANGED toPeer
    /\ UNCHANGED <<setup, pc, local, ssl, peer, resends, broken>>

Drain ==
    /\ out = "stuck" /\ out' = "drained"
    /\ UNCHANGED <<setup, pc, local, read, sent, op, timeouts, net>>

DeviceDone ==
    /\ op = "running" /\ op' = "done"
    /\ UNCHANGED <<setup, pc, local, read, sent, out, timeouts, net>>

Returned == pc = "return" /\ UNCHANGED vars

Next ==
    \/ Client
    \/ PeerAnswers \/ PeerResends \/ PeerHangsUp \/ Lose \/ Drain \/ DeviceDone
    \/ Returned

Spec == Init /\ [][Next]_vars

FairSpec ==
    Spec /\ WF_vars(Client) /\ WF_vars(PeerAnswers) /\ WF_vars(Drain) /\ WF_vars(DeviceDone)

-----------------------------------------------------------------------------
(* Properties *)

\* SSL_SUCCESS is returned only of a handshake the peer has gone through too:
\* it has received every flight that is answered.  A count of events from
\* wolfSSL_AsyncPoll, which may be 1, is never taken for it.
SuccessMeansAnswered ==
    pc = "return" /\ ret = "success" =>
        peer >= IF endsReading THEN Flights ELSE Flights - 1

\* Another result is returned for a reason: the connection is broken, select or
\* the poll failed, or DTLS has sent again for long enough or could not send.  A
\* time-out alone never ends a TCP handshake, whose answer may still come.
GivesUpForAReason ==
    pc = "return" /\ ret # "success" =>
        \/ broken \/ selectRet = "fail" \/ error = "pending"
        \/ dtls /\ (timeouts = MaxTimeouts \/ out # "empty")

\* The call returns.  Over DTLS it does so whatever is lost; over TCP unless a
\* write was blocked.
Terminates == <>(pc = "return") \/ <>[](~dtls /\ out # "empty")
=============================================================================

--------------------------- MODULE ClientContract ---------------------------
(***************************************************************************)
(* What a run of the client promises whoever starts it: it opens its        *)
(* sessions one at a time and in order, never a second while the first is   *)
(* open; it gives one verdict; and the verdict is "ok" only when every      *)
(* session the command line asked for was opened and closed.                *)
(***************************************************************************)
EXTENDS Naturals

VARIABLES
    wanted,   \* how many sessions this run is to have: 0, 1 or 2
    opened,   \* the sessions whose handshake succeeded
    closed,   \* those closed again
    verdict   \* "none", "ok" or "failed"

vars == <<wanted, opened, closed, verdict>>

Order == <<"ssl", "sslResume">>

Init ==
    /\ wanted \in 0..2
    /\ opened = {}
    /\ closed = {}
    /\ verdict = "none"

\* the sessions before the i-th
Before(i) == {Order[j] : j \in 1..(i - 1)}

Open(i) ==
    /\ verdict = "none" /\ i <= wanted
    /\ opened = Before(i) /\ closed = Before(i)
    /\ opened' = opened \cup {Order[i]}
    /\ UNCHANGED <<wanted, closed, verdict>>

Close(i) ==
    /\ verdict = "none"
    /\ opened = Before(i + 1) /\ closed = Before(i)
    /\ closed' = closed \cup {Order[i]}
    /\ UNCHANGED <<wanted, opened, verdict>>

Succeed ==
    /\ verdict = "none"
    /\ opened = Before(wanted + 1) /\ closed = opened
    /\ verdict' = "ok"
    /\ UNCHANGED <<wanted, opened, closed>>

Fail ==
    /\ verdict = "none"
    /\ verdict' = "failed"
    /\ UNCHANGED <<wanted, opened, closed>>

Next == \/ \E i \in 1..2 : Open(i) \/ Close(i)
        \/ Succeed \/ Fail

Spec == Init /\ [][Next]_vars
=============================================================================

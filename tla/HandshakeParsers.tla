-------------------------- MODULE HandshakeParsers --------------------------
(***************************************************************************)
(* What each process_<protocol>_handshake.py looks for in a capture, as a    *)
(* table, and what its figures mean, said of the capture as a whole.         *)
(*                                                                          *)
(* A capture is a sequence of packets [time, size]: the time stamp, and the  *)
(* bytes behind the headers the program strips (0 for a bare TCP segment).   *)
(***************************************************************************)
EXTENDS Integers, Sequences, FiniteSetsExt, Functions

CONSTANTS
    MacsecFirst,  \* packets before MACsec's key exchange counts: 14 in the code
    MacsecSize    \* the size that ends it: 134 - 14 in the code

ASSUME MacsecAssumption == MacsecFirst \in Nat \ {0} /\ MacsecSize \in Nat

\* skip: packets without payload are passed over; stop: packets kept at most;
\* key, total: the places in ret the two times are read from
Rules ==
    [tls12  |-> [skip |-> TRUE,  stop |-> 4, key |-> 3, total |-> 4],
     tls13  |-> [skip |-> TRUE,  stop |-> 3, key |-> 2, total |-> 3],
     ikev2  |-> [skip |-> FALSE, stop |-> 4, key |-> 2, total |-> 4],
     dtls12 |-> [skip |-> FALSE, stop |-> 6, key |-> 5, total |-> 6]]

Protocols == {"tls12", "tls13", "ikev2", "dtls12", "macsec"}

IndexError == [error |-> "IndexError"]

----------------------------------------------------------------------------
(* The figures a parser is to give, from the places of the packets.          *)

\* the packets a parser counts, by their places in the capture
Counted(p, cap) ==
    {i \in DOMAIN cap : p = "macsec" \/ ~Rules[p].skip \/ cap[i].size > 0}

\* how many of them there are up to a place
Ordinal(p, cap, i) == Cardinality({j \in Counted(p, cap) : j <= i})

\* MACsec's last packet is the first large one from the 14th on, or the last
\* there is; the others' is the stop-th that counts
LastPlace(p, cap) ==
    IF p = "macsec"
    THEN LET large == {i \in MacsecFirst..Len(cap) : cap[i].size >= MacsecSize}
         IN  IF large = {} THEN Len(cap) ELSE Min(large)
    ELSE CHOOSE i \in Counted(p, cap) : Ordinal(p, cap, i) = Rules[p].stop

Complete(p, cap) ==
    Cardinality(Counted(p, cap)) >= IF p = "macsec" THEN MacsecFirst ELSE Rules[p].stop

KeyTime(p, cap) ==
    IF p = "macsec"
    THEN cap[LastPlace(p, cap)].time - cap[MacsecFirst].time
    ELSE LET i == CHOOSE i \in Counted(p, cap) : Ordinal(p, cap, i) = Rules[p].key
         IN  cap[i].time - cap[1].time

\* the sizes of the packets at some places, added up
Bytes(packets, places) == FoldFunctionOnSet(+, 0, [j \in DOMAIN packets |-> packets[j].size], places)

Figures(p, cap) ==
    IF ~Complete(p, cap) THEN IndexError
    ELSE LET last == LastPlace(p, cap)
         IN  [key   |-> KeyTime(p, cap),
              total |-> cap[last].time - cap[1].time,
              size  |-> Bytes(cap, {i \in Counted(p, cap) : i <= last})]
=============================================================================

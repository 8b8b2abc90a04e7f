------------------------ MODULE MCHandshakeAnalysis ------------------------
(***************************************************************************)
(* Directories for HandshakeAnalysis.  Packets come at the squares, so that  *)
(* no two pairs of places are as far apart as each other.                    *)
(***************************************************************************)
EXTENDS HandshakeAnalysis

CONSTANTS Sizes, MaxPackets

Stamped(sizes) == [k \in DOMAIN sizes |-> [time |-> k * k, size |-> sizes[k]]]

\* every capture up to MaxPackets long, alone in its directory
Alone == {<<Stamped(s)>> : s \in UNION {[1..n -> Sizes] : n \in 0..MaxPackets}}

\* captures that are complete, and one that is not
Short == Stamped(<<0, 7>>)
Long  == Stamped(<<0, 0, 7, 0, 9, 7, 9, 7>>)
Other == Stamped(<<7, 9, 7, 9, 200, 7, 0>>)

Several == {<<>>, <<Long, Other>>, <<Long, Short, Other>>, <<Other, Long, Other>>}

AllDirectories == Alone \cup Several
=============================================================================

--------------------------- MODULE Captures_proofs ---------------------------
(***************************************************************************)
(* Proofs about the captures: what the DTLS evaluation writes (DtlsEval),   *)
(* for any number of iterations, any even number of flights and any bound   *)
(* on the time-outs; and what the analysers make of the captures they read  *)
(* (HandshakeAnalysis), for captures of any length and any number of them.  *)
(***************************************************************************)
EXTENDS DtlsEval, HandshakeAnalysis, FiniteSetTheorems, WellFoundedInduction,
        SequenceTheorems, TLAPS

----------------------------------------------------------------------------
(* Sums over finite sets.  A fold is a recursive function; it is known by   *)
(* induction over the subsets of a finite set.                              *)

Less == {ss \in Nat \X Nat : ss[1] < ss[2]}

LEMMA LeastNumber ==
  ASSUME NEW S, S \subseteq Nat, S # {}
  PROVE  \E x \in S : \A y \in S : x <= y
<1>1. IsWellFoundedOn(Less, Nat)
  BY NatLessThanWellFounded DEF OpToRel, Less
<1>2. PICK x \in S : \A y \in S : <<y, x>> \notin Less
  BY <1>1, WFMin
<1>3. \A y \in S : <<y, x>> \in Nat \X Nat
  OBVIOUS
<1>4. \A y \in S : ~(y < x)
  BY <1>2, <1>3 DEF Less
<1> QED BY <1>4

\* the element a fold takes next
Chosen(s) == CHOOSE x \in s : TRUE

\* it folds the values of g over the sets of D
Folds(it, g, D) ==
    it = [s \in D |-> IF s = {} THEN 0 ELSE g[Chosen(s)] + it[s \ {Chosen(s)}]]

UpTo(S, m) == {s \in SUBSET S : Cardinality(s) <= m}

LEMMA Chosens ==
  ASSUME NEW S, IsFiniteSet(S), NEW s \in SUBSET S, s # {}
  PROVE  /\ Chosen(s) \in s /\ s \ {Chosen(s)} \in SUBSET S
         /\ IsFiniteSet(s) /\ Cardinality(s) \in Nat
         /\ Cardinality(s \ {Chosen(s)}) = Cardinality(s) - 1
<1>1. Chosen(s) \in s
  BY DEF Chosen
<1>2. IsFiniteSet(s) /\ Cardinality(s) \in Nat
  BY FS_Subset, FS_CardinalityType
<1>3. Cardinality(s \ {Chosen(s)}) = Cardinality(s) - 1
  BY <1>1, <1>2, FS_RemoveElement
<1> QED BY <1>1, <1>2, <1>3

LEMMA FoldUpTo ==
  ASSUME NEW g, NEW S, IsFiniteSet(S), NEW m \in Nat
  PROVE  \E it : Folds(it, g, UpTo(S, m))
<1> DEFINE Rest(it, s) == IF s = {} THEN 0 ELSE g[Chosen(s)] + it[s \ {Chosen(s)}]
           Lacking == {l \in Nat : ~ \E it : it = [s \in UpTo(S, l) |-> Rest(it, s)]}
<1> SUFFICES ASSUME Lacking # {} PROVE FALSE
  BY DEF Folds
<1>1. PICK l \in Lacking : \A x \in Lacking : l <= x
  BY LeastNumber
<1>2. \A s \in SUBSET S : Cardinality(s) \in Nat /\ (Cardinality(s) = 0 <=> s = {})
  BY FS_Subset, FS_CardinalityType, FS_EmptySet
<1>3. l # 0
  <2>1. UpTo(S, 0) = {{}}
    BY <1>2 DEF UpTo
  <2>2. [s \in UpTo(S, 0) |-> Rest(<<>>, s)] = [s \in UpTo(S, 0) |-> 0]
    BY <2>1
  <2> DEFINE zero == [s \in UpTo(S, 0) |-> 0]
  <2>3. zero = [s \in UpTo(S, 0) |-> Rest(zero, s)]
    BY <2>1
  <2>4. 0 \notin Lacking
    BY <2>3
  <2> QED BY <1>1, <2>4
<1>4. l - 1 \in Nat /\ l - 1 \notin Lacking
  <2>1. l \in Nat
    BY <1>1
  <2>2. l - 1 \in Nat /\ ~(l <= l - 1)
    BY <1>3, <2>1
  <2> HIDE DEF Lacking
  <2> QED BY <1>1, <2>2
<1>5. PICK r : r = [s \in UpTo(S, l - 1) |-> Rest(r, s)]
  BY <1>4
<1> DEFINE it == [s \in UpTo(S, l) |-> Rest(r, s)]
<1>6. ASSUME NEW s \in UpTo(S, l), s # {}
      PROVE  s \ {Chosen(s)} \in UpTo(S, l - 1) /\ s \ {Chosen(s)} \in UpTo(S, l)
  <2>1. s \in SUBSET S /\ Cardinality(s) <= l /\ l \in Nat
    BY <1>1, <1>6 DEF UpTo
  <2>2. s \ {Chosen(s)} \in SUBSET S /\ Cardinality(s \ {Chosen(s)}) = Cardinality(s) - 1
        /\ Cardinality(s) \in Nat
    BY <1>6, <2>1, Chosens
  <2> QED BY <2>1, <2>2 DEF UpTo
<1>7. \A s \in UpTo(S, l - 1) : s \in UpTo(S, l) => it[s] = r[s]
  <2>1. \A s \in UpTo(S, l - 1) : r[s] = Rest(r, s)
    <3> HIDE DEF Rest
    <3> QED BY <1>5
  <2> HIDE DEF Rest
  <2> QED BY <2>1
<1>8. \A s \in UpTo(S, l) : Rest(r, s) = Rest(it, s)
  <2> HIDE DEF it
  <2> QED BY <1>6, <1>7
<1>9. it = [s \in UpTo(S, l) |-> Rest(it, s)]
  <2> HIDE DEF Rest
  <2> QED BY <1>8
<1>10. l \notin Lacking
  <2> HIDE DEF it, Rest
  <2> QED BY <1>9
<1> QED BY <1>1, <1>10

LEMMA Folding ==
  ASSUME NEW g, NEW S, IsFiniteSet(S)
  PROVE  \E it : /\ Folds(it, g, SUBSET S)
                 /\ FoldFunctionOnSet(+, 0, g, S) = it[S]
<1>1. UpTo(S, Cardinality(S)) = SUBSET S
  BY FS_Subset, FS_CardinalityType DEF UpTo
<1>2. Cardinality(S) \in Nat
  BY FS_CardinalityType
<1>3. \E it : Folds(it, g, SUBSET S)
  <2>1. \A m \in Nat : \E it : Folds(it, g, UpTo(S, m))
    BY FoldUpTo
  <2>2. \E it : Folds(it, g, UpTo(S, Cardinality(S)))
    BY <1>2, <2>1
  <2> QED BY <1>1, <2>2
<1> DEFINE fold == CHOOSE it : it = [s \in SUBSET S |->
                      IF s = {} THEN 0 ELSE g[Chosen(s)] + it[s \ {Chosen(s)}]]
<1>4. Folds(fold, g, SUBSET S)
  BY <1>3 DEF Folds
<1>5. FoldFunctionOnSet(+, 0, g, S) = fold[S]
  BY DEF FoldFunctionOnSet, MapThenFoldSet, Chosen
<1> HIDE DEF fold
<1> QED BY <1>4, <1>5

\* induction over the subsets of a finite set
LEMMA Subsets ==
  ASSUME NEW S, IsFiniteSet(S), NEW P,
         {} \in P, \A s \in SUBSET S : s # {} /\ (\A x \in s : s \ {x} \in P) => s \in P
  PROVE  SUBSET S \subseteq P
<1> DEFINE Bad == {m \in Nat : \E s \in SUBSET S : Cardinality(s) = m /\ s \notin P}
<1>1. ASSUME Bad # {} PROVE FALSE
  <2>1. PICK m \in Bad : \A x \in Bad : m <= x
    BY <1>1, LeastNumber
  <2>2. PICK s \in SUBSET S : Cardinality(s) = m /\ s \notin P
    BY <2>1
  <2>3. s # {} /\ IsFiniteSet(s) /\ m \in Nat
    BY <2>1, <2>2, FS_Subset
  <2>4. PICK x \in s : s \ {x} \notin P
    BY <2>2, <2>3
  <2>5. Cardinality(s \ {x}) = m - 1 /\ Cardinality(s \ {x}) \in Nat /\ s \ {x} \in SUBSET S
    BY <2>2, <2>3, <2>4, FS_RemoveElement, FS_CardinalityType
  <2>6. m - 1 \in Bad
    BY <2>4, <2>5
  <2>7. ~(m <= m - 1)
    BY <2>3
  <2> HIDE DEF Bad
  <2> QED BY <2>1, <2>6, <2>7
<1>2. \A s \in SUBSET S : Cardinality(s) \in Nat
  BY FS_Subset, FS_CardinalityType
<1> QED BY <1>1, <1>2

\* the sum of the values of g over S
Total(g, S) == FoldFunctionOnSet(+, 0, g, S)

\* the fold over s is that of the rest of s and the value at x
Splits(it, g, s, x) == it[s] = g[x] + it[s \ {x}]

LEMMA FoldStep ==
  ASSUME NEW g, NEW S, IsFiniteSet(S), NEW it, Folds(it, g, SUBSET S)
  PROVE  /\ it[{}] = 0
         /\ \A s \in SUBSET S : s # {} =>
              Chosen(s) \in s /\ Splits(it, g, s, Chosen(s))
  BY Chosens DEF Folds, Splits

LEMMA FoldIsInt ==
  ASSUME NEW g, NEW S, IsFiniteSet(S), \A x \in S : g[x] \in Int,
         NEW it, Folds(it, g, SUBSET S)
  PROVE  \A s \in SUBSET S : it[s] \in Int
<1>0. /\ it[{}] = 0
      /\ \A s \in SUBSET S : s # {} =>
           Chosen(s) \in s /\ Splits(it, g, s, Chosen(s))
  BY FoldStep
<1> DEFINE P == {s \in SUBSET S : it[s] \in Int}
<1>1. ASSUME NEW s \in SUBSET S, s # {}, \A x \in s : s \ {x} \in P
      PROVE  s \in P
  <2>1. it[s] = g[Chosen(s)] + it[s \ {Chosen(s)}] /\ it[s \ {Chosen(s)}] \in Int
        /\ Chosen(s) \in S
    BY <1>0, <1>1 DEF Splits
  <2> QED BY <2>1
<1>2. {} \in P
  BY <1>0
<1>3. SUBSET S \subseteq P
  <2> HIDE DEF P
  <2> QED BY <1>1, <1>2, Subsets
<1> QED BY <1>3

Same(g, h, x) == g[x] = h[x]

\* two folds agree where their functions do
LEMMA FoldsAgree ==
  ASSUME NEW g, NEW S, IsFiniteSet(S), NEW it, Folds(it, g, SUBSET S),
         NEW h, NEW T, IsFiniteSet(T), NEW jt, Folds(jt, h, SUBSET T),
         NEW s \in SUBSET S, s \subseteq T, \A x \in s : Same(g, h, x)
  PROVE  Same(it, jt, s)
<1>0. /\ it[{}] = 0
      /\ \A r \in SUBSET S : r # {} =>
           Chosen(r) \in r /\ Splits(it, g, r, Chosen(r))
  BY FoldStep
<1>10. /\ jt[{}] = 0
       /\ \A r \in SUBSET T : r # {} =>
            Chosen(r) \in r /\ Splits(jt, h, r, Chosen(r))
  BY FoldStep
<1> DEFINE P == {r \in SUBSET s : Same(it, jt, r)}
<1>1. ASSUME NEW r \in SUBSET s, r # {}, \A x \in r : r \ {x} \in P
      PROVE  r \in P
  <2>1. r \in SUBSET S /\ r \in SUBSET T
    BY <1>1
  <2>2. /\ Chosen(r) \in r
        /\ it[r] = g[Chosen(r)] + it[r \ {Chosen(r)}]
        /\ jt[r] = h[Chosen(r)] + jt[r \ {Chosen(r)}]
    BY <1>0, <1>10, <1>1, <2>1 DEF Splits
  <2>3. g[Chosen(r)] = h[Chosen(r)] /\ it[r \ {Chosen(r)}] = jt[r \ {Chosen(r)}]
    BY <1>1, <2>2 DEF Same
  <2> QED BY <2>2, <2>3 DEF Splits, Same
<1>2. {} \in P
  BY <1>0, <1>10 DEF Same
<1>3. SUBSET s \subseteq P
  <2>1. IsFiniteSet(s)
    BY FS_Subset
  <2> HIDE DEF P
  <2> QED BY <1>1, <1>2, <2>1, Subsets
<1> QED BY <1>3

\* the order of a sum does not matter
LEMMA FoldRemove ==
  ASSUME NEW g, NEW S, IsFiniteSet(S), \A x \in S : g[x] \in Int,
         NEW it, Folds(it, g, SUBSET S)
  PROVE  \A s \in SUBSET S : \A x \in s : Splits(it, g, s, x)
<1>0. /\ it[{}] = 0
      /\ \A s \in SUBSET S : s # {} =>
           Chosen(s) \in s /\ Splits(it, g, s, Chosen(s))
  BY FoldStep
<1>10. \A s \in SUBSET S : it[s] \in Int
  BY FoldIsInt
<1> DEFINE P == {s \in SUBSET S : \A x \in s : Splits(it, g, s, x)}
<1>1. ASSUME NEW s \in SUBSET S, s # {}, \A x \in s : s \ {x} \in P
      PROVE  s \in P
  <2> DEFINE c == Chosen(s)
  <2>1. c \in s /\ it[s] = g[c] + it[s \ {c}]
    BY <1>0, <1>1 DEF Splits
  <2> HIDE DEF c
  <2>2. ASSUME NEW x \in s, x # c PROVE it[s] = g[x] + it[s \ {x}]
    <3>1. it[s \ {c}] = g[x] + it[(s \ {c}) \ {x}]
      BY <1>1, <2>1, <2>2 DEF Splits
    <3>2. it[s \ {x}] = g[c] + it[(s \ {x}) \ {c}]
      BY <1>1, <2>1, <2>2 DEF Splits
    <3>3. (s \ {c}) \ {x} = (s \ {x}) \ {c} /\ (s \ {x}) \ {c} \in SUBSET S
      OBVIOUS
    <3>4. g[x] \in Int /\ g[c] \in Int /\ it[(s \ {x}) \ {c}] \in Int
      BY <1>10, <2>1, <3>3
    <3> DEFINE rest == it[(s \ {x}) \ {c}]
    <3>5. /\ it[s \ {c}] = g[x] + rest /\ it[s \ {x}] = g[c] + rest
          /\ g[x] \in Int /\ g[c] \in Int /\ rest \in Int
      BY <3>1, <3>2, <3>3, <3>4
    <3> HIDE DEF rest
    <3>6. g[c] + (g[x] + rest) = g[x] + (g[c] + rest)
      BY <3>5
    <3> QED BY <2>1, <3>5, <3>6
  <2> QED BY <2>1, <2>2 DEF Splits
<1>2. {} \in P
  OBVIOUS
<1>3. SUBSET S \subseteq P
  <2> HIDE DEF P
  <2> QED BY <1>1, <1>2, Subsets
<1> QED BY <1>3

\* a sum, element by element
LEMMA TotalFacts ==
  ASSUME NEW g, NEW S, IsFiniteSet(S), \A x \in S : g[x] \in Int
  PROVE  /\ Total(g, S) \in Int
         /\ Total(g, {}) = 0
         /\ \A x \in S : Total(g, S) = g[x] + Total(g, S \ {x})
<1>1. PICK it : Folds(it, g, SUBSET S) /\ Total(g, S) = it[S]
  BY Folding DEF Total
<1>2. Total(g, S) \in Int
  BY <1>1, FoldIsInt
<1>3. ASSUME NEW x \in S PROVE Total(g, S) = g[x] + Total(g, S \ {x})
  <2>1. IsFiniteSet(S \ {x})
    BY FS_RemoveElement
  <2>2. PICK jt : Folds(jt, g, SUBSET (S \ {x})) /\ Total(g, S \ {x}) = jt[S \ {x}]
    BY <2>1, Folding DEF Total
  <2>3. S \ {x} \in SUBSET (S \ {x}) /\ S \ {x} \subseteq S
    OBVIOUS
  <2>4. jt[S \ {x}] = it[S \ {x}]
    <3>1. \A y \in S \ {x} : Same(g, g, y)
      BY DEF Same
    <3>2. Same(jt, it, S \ {x})
      BY <1>1, <2>1, <2>2, <2>3, <3>1, FoldsAgree
    <3> QED BY <3>2 DEF Same
  <2>5. \A s \in SUBSET S : \A y \in s : Splits(it, g, s, y)
    BY <1>1, FoldRemove
  <2>6. it[S] = g[x] + it[S \ {x}]
    BY <2>5 DEF Splits
  <2> QED BY <1>1, <2>2, <2>4, <2>6
<1>4. Total(g, {}) = 0
  <2>1. IsFiniteSet({})
    BY FS_EmptySet
  <2>2. PICK jt : Folds(jt, g, SUBSET {}) /\ Total(g, {}) = jt[{}]
    BY <2>1, Folding DEF Total
  <2> QED BY <2>1, <2>2, FoldStep
<1> QED BY <1>2, <1>3, <1>4

\* it depends on the values in S only
LEMMA TotalAgrees ==
  ASSUME NEW g, NEW h, NEW S, IsFiniteSet(S), \A x \in S : g[x] = h[x]
  PROVE  Total(g, S) = Total(h, S)
<1>1. PICK it : Folds(it, g, SUBSET S) /\ Total(g, S) = it[S]
  BY Folding DEF Total
<1>2. PICK jt : Folds(jt, h, SUBSET S) /\ Total(h, S) = jt[S]
  BY Folding DEF Total
<1>3. S \in SUBSET S /\ S \subseteq S
  OBVIOUS
<1>4. \A x \in S : Same(g, h, x)
  BY DEF Same
<1>5. Same(it, jt, S)
  BY <1>1, <1>2, <1>3, <1>4, FoldsAgree
<1> QED BY <1>1, <1>2, <1>5 DEF Same

\* no term of a sum of natural numbers exceeds it
LEMMA TotalBounds ==
  ASSUME NEW g, NEW S, IsFiniteSet(S), \A x \in S : g[x] \in Nat
  PROVE  Total(g, S) \in Nat /\ \A x \in S : g[x] <= Total(g, S)
<1> DEFINE P == {s \in SUBSET S : Total(g, s) \in Nat}
<1>1. ASSUME NEW s \in SUBSET S, s # {}, \A x \in s : s \ {x} \in P
      PROVE  s \in P
  <2>1. IsFiniteSet(s)
    BY FS_Subset
  <2>2. PICK x \in s : TRUE
    BY <1>1
  <2>3. Total(g, s) = g[x] + Total(g, s \ {x})
    BY <2>1, TotalFacts
  <2> QED BY <1>1, <2>3
<1>2. {} \in P
  <2>1. \A x \in S : g[x] \in Int
    OBVIOUS
  <2>2. Total(g, {}) = 0
    BY <2>1, TotalFacts
  <2> QED BY <2>2
<1>3. SUBSET S \subseteq P
  <2> HIDE DEF P
  <2> QED BY <1>1, <1>2, Subsets
<1>4. ASSUME NEW x \in S PROVE g[x] <= Total(g, S)
  <2>1. Total(g, S) = g[x] + Total(g, S \ {x})
    BY TotalFacts
  <2>2. Total(g, S \ {x}) \in Nat /\ g[x] \in Nat
    BY <1>3
  <2> QED BY <2>1, <2>2
<1> QED BY <1>3, <1>4

----------------------------------------------------------------------------
(* The DTLS evaluation.  The captures are understood through the one        *)
(* connection that is open, n, and through the peer of the server, which is *)
(* n or a client that failed and that the server still waits for.           *)

Over(c) == conn[c] \in {"failed", "closed"}

\* the connections before n are over, those behind it have not begun
ScriptInv ==
    /\ pc = "server" <=> server = "none"
    /\ \A c \in Conns : (c < n => Over(c)) /\ (c > n => conn[c] = "none")
    /\ pc \in {"server", "pidof", "capture"} => conn[n] = "none"
    /\ pc = "client" => conn[n] \in {"none", "open"}
    /\ pc = "sleep" => conn[n] # "none"
    /\ pc \in {"kill", "done"} => Over(n)
    /\ \A c \in late : conn[c] # "none"

\* the tcpdump before n may still be ending; the one of n runs beside the client
DumpInv ==
    /\ \A c \in Conns :
         /\ c > n => dump[c] = "none"
         /\ c < n => dump[c] \in {"stopping", "gone"}
         /\ c + 1 < n => dump[c] = "gone"
         /\ dump[c] \in {"none", "starting"} => Len(file[c]) = 0
    /\ pc \in {"server", "pidof", "capture"} => dump[n] = "none"
    /\ pc \in {"client", "sleep"} => dump[n] \in {"starting", "capturing"}
    /\ pc = "kill" => dump[n] = "capturing" /\ \A c \in Conns : c < n => dump[c] = "gone"
    /\ pc = "done" => dump[n] \in {"stopping", "gone"}
    /\ conn[n] # "none" /\ n \notin late => dump[n] # "starting"

\* the server's peer is a client that is not closed
ServerInv ==
    /\ server # "listening" => peer = 0 /\ Len(toServer) = 0
    /\ server \in {"none", "starting"} => atServer = 0 /\ served = 0
    /\ server # "gone" => served < N_TIMES
    /\ peer <= n
    /\ peer # 0 => conn[peer] \in {"open", "failed"}
    /\ server = "listening" => (peer = 0 <=> atServer = 0)
    /\ peer = n => atServer <= atClient + 1
    /\ atServer % 2 = 0

\* what is on the wire was sent, between the open client and its server
FlightsInv ==
    /\ Len(toServer) > 0 => peer \in {0, n} /\ conn[n] = "open"
    /\ Len(toClient) > 0 => peer = n /\ conn[n] = "open" /\ pc = "client"
    /\ \A k \in 1..Len(toServer) : toServer[k] <= atClient
    /\ \A k \in 1..Len(toClient) : toClient[k] <= atServer
    /\ conn[n] = "open" => atClient % 2 = 1 /\ (pc = "client" <=> atClient < Alert)
    /\ conn[n] = "open" /\ peer # n => atClient = 1

\* the client d failed, and the server has not been there for another since
Lost(d) == conn[d] = "failed" /\ (peer = d \/ server = "gone")

\* of what a capture holds of another connection
ForeignInv ==
    \A c \in Conns : \A k \in 1..Len(file[c]) :
        LET d == file[c][k][1]
        IN  /\ conn[d] # "none"
            /\ d <= c + 1
            /\ d < c => Lost(d) /\ \A e \in c..N_TIMES : conn[e] # "closed"
            /\ d = c + 1 /\ conn[c] = "closed" =>
                  \A m \in 1..Len(file[c]) : m > k => file[c][m][1] = d

\* while the server waits for a client that failed, no other is served
StuckInv ==
    \A d, e \in Conns : conn[d] = "failed" /\ peer = d /\ e > d => conn[e] # "closed"

\* a capture that was there from the start has every flight at least once before the alert
WholeInv ==
    \A c \in Conns \ late :
        /\ conn[c] \in {"open", "closed"} =>
             \A k \in 1..Flights : k <= Len(file[c]) =>
                 file[c][k][1] < c \/ file[c][k] \in Handshake(c)
        /\ conn[c] = "closed" => Len(file[c]) >= Alert
        /\ conn[c] = "open" =>
             Len(file[c]) >= atClient /\ (peer = c => Len(file[c]) >= atServer)

\* the last flight of the handshake sent so far
Sent == IF atServer > atClient THEN atServer ELSE atClient

\* without time-outs each flight is sent once and is the only one on the wire,
\* and the capture is of the last ones
Latest ==
    /\ Len(file[n]) <= Sent
    /\ n \in late <=> Len(file[n]) < Sent
    /\ \A k \in 1..Len(file[n]) : file[n][k] = <<n, Sent - Len(file[n]) + k>>

OneOnTheWire ==
    \/ Len(toServer) = 0 /\ Len(toClient) = 0 /\ peer = 0 /\ atClient = 1
    \/ /\ Len(toServer) = 1 /\ toServer[1] = atClient
       /\ Len(toClient) = 0 /\ atServer = atClient - 1
    \/ /\ Len(toServer) = 0 /\ atServer = atClient + 1
       /\ Len(toClient) = 1 /\ toClient[1] = atServer

Quiet == conn[n] = "open" /\ timeouts[n] = 0 /\ peer \in {0, n} /\ server # "gone"

QuietOpenInv == Quiet => Latest /\ OneOnTheWire

\* and so it stays when the connection is closed: its last packets, then the next one's
QuietClosedInv ==
    \A c \in Conns : conn[c] = "closed" /\ timeouts[c] = 0 =>
        \E m \in 0..Alert :
            /\ m <= Len(file[c])
            /\ c \in late <=> m < Alert
            /\ \A k \in 1..m : file[c][k] = <<c, Alert - m + k>>
            /\ \A k \in m + 1..Len(file[c]) : file[c][k][1] = c + 1

IInv ==
    /\ TypeOK /\ ScriptInv /\ DumpInv /\ ServerInv /\ FlightsInv
    /\ ForeignInv /\ StuckInv /\ WholeInv /\ QuietOpenInv /\ QuietClosedInv

----------------------------------------------------------------------------
(* Facts about the constants, the sequences and the captures.               *)

LEMMA Numbers ==
  /\ N_TIMES \in Nat /\ 1 \in Conns /\ Conns \subseteq Nat /\ 0 \notin Conns
  /\ Flights \in Nat /\ Flights >= 2 /\ Flights % 2 = 0
  /\ Alert \in Nat /\ Alert = Flights + 1 /\ Alert % 2 = 1
  BY TimesAssumption, FlightsAssumption DEF Conns, Alert

LEMMA Queue ==
  ASSUME NEW S, NEW s \in Seq(S)
  PROVE  /\ Len(s) \in Nat /\ (s # <<>> <=> Len(s) > 0)
         /\ \A k \in 1..Len(s) : s[k] \in S
         /\ s # <<>> => /\ Head(s) = s[1] /\ Tail(s) \in Seq(S) /\ Len(Tail(s)) = Len(s) - 1
                        /\ \A k \in 1..Len(Tail(s)) : Tail(s)[k] = s[k + 1]
  BY HeadTailProperties, EmptySeq, ElementOfSeq

LEMMA Appended ==
  ASSUME NEW S, NEW s \in Seq(S), NEW x \in S
  PROVE  /\ Append(s, x) \in Seq(S) /\ Len(Append(s, x)) = Len(s) + 1
         /\ \A k \in 1..Len(s) : Append(s, x)[k] = s[k]
         /\ Append(s, x)[Len(s) + 1] = x
  OBVIOUS

\* a datagram is written by the tcpdumps that run, which are those of n and before n
LEMMA Captured ==
  ASSUME TypeOK, DumpInv, NEW p \in Packets, Capture(p)
  PROVE  /\ file' \in [Conns -> Seq(Packets)]
         /\ \A c \in Conns : dump[c] \in {"capturing", "stopping"} =>
              /\ c = n \/ c + 1 = n
              /\ Len(file'[c]) = Len(file[c]) + 1
              /\ \A k \in 1..Len(file[c]) : file'[c][k] = file[c][k]
              /\ file'[c][Len(file[c]) + 1] = p
         /\ \A c \in Conns : dump[c] \notin {"capturing", "stopping"} => file'[c] = file[c]
<1>1. file' = [c \in Conns |-> IF dump[c] \in {"capturing", "stopping"}
                             THEN Append(file[c], p) ELSE file[c]]
  BY DEF Capture
<1>2. \A c \in Conns : file[c] \in Seq(Packets)
  BY DEF TypeOK
<1>3. \A c \in Conns : Append(file[c], p) \in Seq(Packets)
  BY <1>2, Appended
<1>4. file' \in [Conns -> Seq(Packets)]
  BY <1>1, <1>2, <1>3
<1>5. ASSUME NEW c \in Conns, dump[c] \in {"capturing", "stopping"}
      PROVE  /\ c = n \/ c + 1 = n
             /\ Len(file'[c]) = Len(file[c]) + 1
             /\ \A k \in 1..Len(file[c]) : file'[c][k] = file[c][k]
             /\ file'[c][Len(file[c]) + 1] = p
  <2>1. c = n \/ c + 1 = n
    BY <1>5, Numbers DEF DumpInv, TypeOK
  <2>2. file'[c] = Append(file[c], p)
    BY <1>1, <1>5
  <2> QED BY <1>2, <2>1, <2>2, Appended
<1> QED BY <1>1, <1>4, <1>5

\* what the packets in the queues are numbered
LEMMA Heads ==
  ASSUME TypeOK
  PROVE  /\ Len(toServer) \in Nat /\ (toServer # <<>> <=> Len(toServer) > 0)
         /\ Len(toClient) \in Nat /\ (toClient # <<>> <=> Len(toClient) > 0)
         /\ toServer # <<>> =>
              /\ Head(toServer) = toServer[1] /\ toServer[1] \in 1..Alert
              /\ Tail(toServer) \in Seq(1..Alert) /\ Len(Tail(toServer)) = Len(toServer) - 1
              /\ \A k \in 1..Len(Tail(toServer)) : Tail(toServer)[k] = toServer[k + 1]
         /\ toClient # <<>> =>
              /\ Head(toClient) = toClient[1] /\ toClient[1] \in 1..Flights
              /\ Tail(toClient) \in Seq(1..Flights) /\ Len(Tail(toClient)) = Len(toClient) - 1
              /\ \A k \in 1..Len(Tail(toClient)) : Tail(toClient)[k] = toClient[k + 1]
<1>1. toServer \in Seq(1..Alert) /\ toClient \in Seq(1..Flights)
  BY DEF TypeOK
<1>2. /\ Len(toServer) \in Nat /\ (toServer # <<>> <=> Len(toServer) > 0)
      /\ \A k \in 1..Len(toServer) : toServer[k] \in 1..Alert
      /\ toServer # <<>> =>
           /\ Head(toServer) = toServer[1] /\ Tail(toServer) \in Seq(1..Alert)
           /\ Len(Tail(toServer)) = Len(toServer) - 1
           /\ \A k \in 1..Len(Tail(toServer)) : Tail(toServer)[k] = toServer[k + 1]
  BY <1>1, Queue
<1>3. /\ Len(toClient) \in Nat /\ (toClient # <<>> <=> Len(toClient) > 0)
      /\ \A k \in 1..Len(toClient) : toClient[k] \in 1..Flights
      /\ toClient # <<>> =>
           /\ Head(toClient) = toClient[1] /\ Tail(toClient) \in Seq(1..Flights)
           /\ Len(Tail(toClient)) = Len(toClient) - 1
           /\ \A k \in 1..Len(Tail(toClient)) : Tail(toClient)[k] = toClient[k + 1]
  BY <1>1, Queue
<1> QED BY <1>2, <1>3

\* the flights that follow one another: there is a number for each
LEMMA NextFlights ==
  ASSUME IInv
  PROVE  /\ toClient # <<>> /\ Head(toClient) = atClient + 1 /\ conn[n] = "open" =>
              atClient + 2 \in 1..Alert /\ atClient + 1 <= atServer
         /\ toServer # <<>> /\ Head(toServer) = atServer + 1 /\ Head(toServer) # Alert =>
              atServer + 2 \in 1..Flights /\ atServer + 1 <= atClient
<1>1. atClient \in 0..Alert /\ atServer \in 0..Flights
  BY DEF IInv, TypeOK
<1>2. ASSUME toClient # <<>>, Head(toClient) = atClient + 1
      PROVE  atClient + 2 \in 1..Alert /\ atClient + 1 <= atServer
  <2>1. atClient + 1 <= atServer
    BY <1>2, Heads DEF IInv, FlightsInv
  <2> QED BY <1>1, <2>1, Numbers
<1>3. ASSUME toServer # <<>>, Head(toServer) = atServer + 1, Head(toServer) # Alert
      PROVE  atServer + 2 \in 1..Flights /\ atServer + 1 <= atClient
  <2>1. atServer + 1 <= atClient /\ atServer + 1 < Alert
    BY <1>1, <1>3, Heads, Numbers DEF IInv, FlightsInv
  <2>2. atServer % 2 = 0
    BY DEF IInv, ServerInv
  <2>3. atServer # Flights - 1
    BY <1>1, <2>2, Numbers
  <2> QED BY <1>1, <2>1, <2>3, Numbers
<1> QED BY <1>2, <1>3

\* a client that waits has sent a flight, and not the alert
LEMMA Waiting ==
  ASSUME IInv, ClientWaits
  PROVE  /\ atClient \in 1..Alert /\ atClient \in 1..Flights /\ atClient + 1 <= Flights
         /\ conn[n] = "open" /\ pc = "client"
<1>1. atClient \in 0..Alert
  BY DEF IInv, TypeOK
<1>2. conn[n] = "open" /\ pc = "client"
  BY DEF ClientWaits
<1>3. atClient % 2 = 1 /\ atClient < Alert
  BY <1>2 DEF IInv, FlightsInv
<1>4. atClient # 0 /\ atClient # Flights
  BY <1>3, Numbers
<1> QED BY <1>1, <1>2, <1>3, <1>4, Numbers

\* the alert is of the client of this iteration, which is the peer and has returned
LEMMA Goodbye ==
  ASSUME IInv, ServerCloses
  PROVE  /\ peer = n /\ conn[n] = "open" /\ pc = "sleep" /\ atClient = Alert
         /\ Len(toServer) > 0 /\ Len(toClient) = 0
<1>1. TypeOK /\ ScriptInv /\ FlightsInv
  BY DEF IInv
<1>2. Len(toServer) > 0 /\ toServer[1] = Alert /\ Len(toServer) \in Nat /\ Len(toClient) \in Nat
  BY <1>1, Heads DEF ServerCloses
<1>3. conn[n] = "open" /\ toServer[1] <= atClient
  <2>1. 1 \in 1..Len(toServer)
    BY <1>2
  <2> QED BY <1>1, <1>2, <2>1 DEF FlightsInv
<1>4. atClient = Alert
  BY <1>1, <1>2, <1>3, Numbers DEF TypeOK
<1>5. peer # n => atClient = 1
  BY <1>1, <1>3 DEF FlightsInv
<1>6. peer = n
  BY <1>4, <1>5, Numbers
<1>7. pc = "client" <=> atClient < Alert
  BY <1>1, <1>3 DEF FlightsInv
<1>8. pc # "client"
  BY <1>4, <1>7, Numbers
<1>9. pc = "sleep"
  BY <1>1, <1>3, <1>8 DEF TypeOK, ScriptInv, Over
<1>10. ~(Len(toClient) > 0)
  BY <1>1, <1>8 DEF FlightsInv
<1> QED BY <1>2, <1>3, <1>4, <1>6, <1>9, <1>10

\* what has arrived at the server is of the client that is open
LEMMA Arrived ==
  ASSUME IInv, toServer # <<>>
  PROVE  peer \in {0, n} /\ conn[n] = "open"
  BY Heads DEF IInv, FlightsInv

LEMMA TimeOutCounts ==
  ASSUME TypeOK, NEW c \in Conns, TimeOut(c)
  PROVE  /\ timeouts' \in [Conns -> 0..MaxTimeouts]
         /\ timeouts'[c] > 0 /\ \A d \in Conns : d # c => timeouts'[d] = timeouts[d]
<1>1. timeouts \in [Conns -> 0..MaxTimeouts] /\ MaxTimeouts \in Nat
  BY TimeoutsAssumption DEF TypeOK
<1>2. Total(timeouts, Conns) < MaxTimeouts
  <2>1. DOMAIN timeouts = Conns
    BY <1>1
  <2>2. FoldFunctionOnSet(+, 0, timeouts, DOMAIN timeouts) < MaxTimeouts
    BY DEF TimeOut, FoldFunction
  <2> QED BY <2>1, <2>2 DEF Total
<1>3. IsFiniteSet(Conns)
  BY Numbers, FS_Interval DEF Conns
<1>4. Total(timeouts, Conns) \in Nat /\ timeouts[c] <= Total(timeouts, Conns)
  BY <1>1, <1>3, TotalBounds
<1>5. timeouts' = [timeouts EXCEPT ![c] = @ + 1]
  BY DEF TimeOut
<1>6. timeouts[c] + 1 \in 0..MaxTimeouts /\ timeouts[c] + 1 > 0
  BY <1>1, <1>2, <1>4
<1> QED BY <1>1, <1>5, <1>6

\* what a send of the client of n does to the wire
LEMMA ClientSendsFacts ==
  ASSUME TypeOK, NEW g \in 1..Alert, ClientSends(g)
  PROVE  /\ toServer' \in Seq(1..Alert)
         /\ Capture(<<n, g>>) /\ <<n, g>> \in Packets
         /\ Reaches(n) => /\ Len(toServer') = Len(toServer) + 1
                          /\ toServer'[Len(toServer) + 1] = g
                          /\ \A k \in 1..Len(toServer) : toServer'[k] = toServer[k]
         /\ ~Reaches(n) => toServer' = toServer
<1>1. toServer \in Seq(1..Alert) /\ n \in Conns
  BY DEF TypeOK
<1>2. /\ Append(toServer, g) \in Seq(1..Alert)
      /\ Len(Append(toServer, g)) = Len(toServer) + 1
      /\ \A k \in 1..Len(toServer) : Append(toServer, g)[k] = toServer[k]
      /\ Append(toServer, g)[Len(toServer) + 1] = g
  BY <1>1, Appended
<1> QED BY <1>1, <1>2 DEF ClientSends, Packets

\* and one of the server
LEMMA ServerSendsFacts ==
  ASSUME TypeOK, NEW c \in Conns, NEW g \in 1..Flights, ServerSends(c, g)
  PROVE  /\ toClient' \in Seq(1..Flights)
         /\ Capture(<<c, g>>) /\ <<c, g>> \in Packets
         /\ c = n /\ pc = "client" =>
              /\ Len(toClient') = Len(toClient) + 1
              /\ toClient'[Len(toClient) + 1] = g
              /\ \A k \in 1..Len(toClient) : toClient'[k] = toClient[k]
         /\ ~(c = n /\ pc = "client") => toClient' = toClient
<1>1. toClient \in Seq(1..Flights)
  BY DEF TypeOK
<1>2. /\ Append(toClient, g) \in Seq(1..Flights)
      /\ Len(Append(toClient, g)) = Len(toClient) + 1
      /\ \A k \in 1..Len(toClient) : Append(toClient, g)[k] = toClient[k]
      /\ Append(toClient, g)[Len(toClient) + 1] = g
  BY <1>1, Appended
<1>3. <<c, g>> \in Packets
  BY Numbers DEF Packets
<1>4. /\ Capture(<<c, g>>)
      /\ c = n /\ pc = "client" => toClient' = Append(toClient, g)
      /\ ~(c = n /\ pc = "client") => toClient' = toClient
  BY DEF ServerSends
<1> QED BY <1>1, <1>2, <1>3, <1>4

LEMMA TypeStep == ASSUME IInv, Next PROVE TypeOK'
<1>0. TypeOK /\ DumpInv
  BY DEF IInv
<1> USE <1>0 DEF TypeOK, script, servers, clients, wire
<1>1. CASE StartServer
  BY <1>1 DEF StartServer, Go
<1>16. CASE PidofServer
  BY <1>16 DEF PidofServer, Go
<1>17. CASE Sleep
  BY <1>17 DEF Sleep, Go
<1>2. CASE StartCapture
  <2>1. dump' = [dump EXCEPT ![n] = "starting"]
    BY <1>2 DEF StartCapture
  <2>2. dump' \in [Conns -> {"none", "starting", "capturing", "stopping", "gone"}]
    BY <2>1
  <2>3. pc' = "client" /\ UNCHANGED <<n, servers, clients, wire>>
    BY <1>2 DEF StartCapture, Go
  <2> QED BY <2>2, <2>3
<1>3. CASE Kill
  <2>1. n' \in Conns
    <3>1. n' = n \/ (n < N_TIMES /\ n' = n + 1)
      BY <1>3 DEF Kill
    <3>2. n \in Conns /\ N_TIMES \in Nat
      BY TimesAssumption DEF TypeOK
    <3> QED BY <3>1, <3>2 DEF Conns
  <2>2. dump' \in [Conns -> {"none", "starting", "capturing", "stopping", "gone"}]
    BY <1>3 DEF Kill
  <2>3. pc' \in {"capture", "done"}
    BY <1>3 DEF Kill
  <2> QED BY <1>3, <2>1, <2>2, <2>3 DEF Kill
<1>4. CASE ClientStarts
  <2>1. 1 \in 1..Alert /\ ClientSends(1)
    BY <1>4, Numbers DEF ClientStarts
  <2>2. toServer' \in Seq(1..Alert) /\ file' \in [Conns -> Seq(Packets)]
    BY <2>1, ClientSendsFacts, Captured
  <2>3. conn' \in [Conns -> {"none", "open", "failed", "closed"}] /\ late' \subseteq Conns
        /\ atClient' \in 0..Alert
    BY <1>4, <2>1 DEF ClientStarts
  <2> QED BY <1>4, <2>2, <2>3 DEF ClientStarts
<1>5. CASE ClientReceives
  <2>1. atClient + 2 \in 1..Alert /\ ClientSends(atClient + 2) /\ toClient # <<>>
    BY <1>5, NextFlights DEF ClientReceives, ClientWaits
  <2>2. toServer' \in Seq(1..Alert) /\ file' \in [Conns -> Seq(Packets)]
    BY <2>1, ClientSendsFacts, Captured
  <2>3. toClient' \in Seq(1..Flights)
    BY <1>5, <2>1, Heads, EmptySeq DEF ClientReceives
  <2>4. pc' \in {"client", "sleep"} /\ n' \in Conns
    BY <1>5 DEF ClientReceives, ClientWaits, Go
  <2>5. atClient' \in 0..Alert
    BY <1>5, <2>1 DEF ClientReceives
  <2> QED BY <1>5, <2>2, <2>3, <2>4, <2>5 DEF ClientReceives
<1>6. CASE ClientPassesOver
  <2>1. toClient # <<>> /\ toClient' = Tail(toClient)
    BY <1>6 DEF ClientPassesOver
  <2>2. toClient' \in Seq(1..Flights)
    BY <2>1, Heads
  <2>3. toServer' \in Seq(1..Alert) /\ file' \in [Conns -> Seq(Packets)]
    <3>1. CASE UNCHANGED <<file, toServer>>
      BY <3>1
    <3>2. CASE ClientSends(atClient)
      <4>1. atClient \in 1..Alert
        BY <1>6, Waiting DEF ClientPassesOver
      <4> QED BY <3>2, <4>1, ClientSendsFacts, Captured
    <3> QED BY <1>6, <3>1, <3>2 DEF ClientPassesOver
  <2> QED BY <1>6, <2>2, <2>3 DEF ClientPassesOver
<1>7. CASE ClientTimesOut
  <2>1. atClient \in 1..Alert /\ ClientSends(atClient) /\ TimeOut(n)
    BY <1>7, Waiting DEF ClientTimesOut
  <2>2. toServer' \in Seq(1..Alert) /\ file' \in [Conns -> Seq(Packets)]
    BY <2>1, ClientSendsFacts, Captured
  <2>3. timeouts' \in [Conns -> 0..MaxTimeouts]
    BY <2>1, TimeOutCounts
  <2> QED BY <1>7, <2>2, <2>3 DEF ClientTimesOut
<1>8. CASE ClientFails
  <2>1. toClient' \in Seq(1..Flights)
    BY <1>8, EmptySeq DEF ClientFails
  <2> QED BY <1>8, <2>1 DEF ClientFails, Go
<1>9. CASE ServerListens \/ ServerFails
  BY <1>9, Numbers DEF ServerListens, ServerFails
<1>10. CASE ServerReceives
  <2>1. atServer + 2 \in 1..Flights /\ ServerSends(n, atServer + 2) /\ toServer # <<>>
    BY <1>10, NextFlights DEF ServerReceives
  <2>2. toClient' \in Seq(1..Flights) /\ file' \in [Conns -> Seq(Packets)]
    BY <2>1, ServerSendsFacts, Captured
  <2>3. toServer' \in Seq(1..Alert)
    BY <1>10, <2>1, Heads DEF ServerReceives
  <2>4. atServer' \in 0..Flights
    BY <1>10, <2>1 DEF ServerReceives
  <2> QED BY <1>10, <2>2, <2>3, <2>4 DEF ServerReceives
<1>11. CASE ServerPassesOver
  <2>1. toServer # <<>> /\ toServer' = Tail(toServer) /\ Head(toServer) <= atServer
    BY <1>11 DEF ServerPassesOver
  <2>2. toServer' \in Seq(1..Alert)
    BY <2>1, Heads
  <2>3. toClient' \in Seq(1..Flights) /\ file' \in [Conns -> Seq(Packets)]
    <3>1. CASE UNCHANGED <<file, toClient>>
      BY <3>1
    <3>2. CASE ServerSends(peer, atServer)
      <4>1. atServer \in 1..Flights
        <5>1. Head(toServer) \in 1..Alert
          BY <2>1, Heads
        <5>2. atServer \in 0..Flights /\ Flights \in Nat
          BY Numbers DEF TypeOK
        <5> QED BY <2>1, <5>1, <5>2
      <4>2. peer \in Conns
        BY <1>11, <4>1 DEF ServerPassesOver, IInv, ServerInv
      <4> QED BY <3>2, <4>1, <4>2, ServerSendsFacts, Captured
    <3> QED BY <1>11, <3>1, <3>2 DEF ServerPassesOver
  <2> QED BY <1>11, <2>2, <2>3 DEF ServerPassesOver
<1>12. CASE ServerTimesOut
  <2>1. /\ atServer \in 1..Flights /\ peer \in Conns
        /\ ServerSends(peer, atServer) /\ TimeOut(peer)
    BY <1>12, Numbers DEF ServerTimesOut
  <2>2. toClient' \in Seq(1..Flights) /\ file' \in [Conns -> Seq(Packets)]
    BY <2>1, ServerSendsFacts, Captured
  <2>3. timeouts' \in [Conns -> 0..MaxTimeouts]
    BY <2>1, TimeOutCounts
  <2> QED BY <1>12, <2>2, <2>3 DEF ServerTimesOut
<1>13. CASE ServerCloses
  <2>1. toServer' \in Seq(1..Alert)
    BY <1>13, EmptySeq DEF ServerCloses
  <2>2. served' \in 0..N_TIMES
    BY <1>13, Numbers DEF ServerCloses, IInv, ServerInv
  <2>3. atServer' \in 0..Flights /\ peer' \in {0} \cup Conns /\ server' \in {"listening", "gone"}
    BY <1>13, Numbers DEF ServerCloses
  <2>4. conn' \in [Conns -> {"none", "open", "failed", "closed"}]
    BY <1>13 DEF ServerCloses
  <2> QED BY <1>13, <2>1, <2>2, <2>3, <2>4 DEF ServerCloses
<1>14. ASSUME NEW c \in Conns, CaptureStarts(c) \/ CaptureEnds(c) PROVE TypeOK'
  BY <1>14 DEF CaptureStarts, CaptureEnds
<1>15. CASE UNCHANGED vars
  BY <1>15 DEF vars
<1> QED
  BY <1>1, <1>2, <1>3, <1>4, <1>5, <1>6, <1>7, <1>8, <1>9, <1>10, <1>11, <1>12, <1>13, <1>14,
     <1>15, <1>16, <1>17 DEF Next, Script, Client, Server, Done

----------------------------------------------------------------------------
(* What an action does to the connections and the captures of them.         *)

LEMMA ScriptStep == ASSUME IInv, Next PROVE ScriptInv'
<1>0. TypeOK /\ ScriptInv
  BY DEF IInv
<1> USE <1>0 DEF TypeOK, ScriptInv, Over, Go, script, servers, clients, wire
<1>1. CASE StartServer
  BY <1>1 DEF StartServer
<1>2. CASE PidofServer
  BY <1>2 DEF PidofServer
<1>3. CASE StartCapture
  BY <1>3 DEF StartCapture
<1>4. CASE Sleep
  BY <1>4 DEF Sleep
<1>5. CASE Kill
  <2>0. UNCHANGED <<server, conn, late>> /\ Over(n) /\ server # "none"
    BY <1>5 DEF Kill
  <2>1. CASE n < N_TIMES /\ n' = n + 1 /\ pc' = "capture"
    <3>1. n \in 1..N_TIMES /\ n < N_TIMES /\ N_TIMES \in Nat
      BY <2>1, Numbers DEF Conns
    <3>2. n' \in Conns /\ n' > n
      BY <2>1, <3>1 DEF Conns
    <3>3. \A c \in Conns : (c < n' => c < n \/ c = n) /\ (c > n' => c > n)
      BY <2>1, <3>1, Numbers DEF Conns
    <3>4. conn[n'] = "none"
      BY <3>2
    <3>5. \A c \in Conns : (c < n' => Over(c)) /\ (c > n' => conn[c] = "none")
      BY <2>0, <3>3
    <3> QED BY <2>0, <2>1, <3>4, <3>5
  <2>2. CASE n' = n /\ pc' = "done"
    BY <1>5, <2>2 DEF Kill
  <2> QED BY <1>5, <2>1, <2>2 DEF Kill
<1>6. CASE ClientStarts
  BY <1>6 DEF ClientStarts
<1>7. CASE ClientReceives
  BY <1>7 DEF ClientReceives, ClientWaits
<1>8. CASE ClientPassesOver \/ ClientTimesOut
  BY <1>8 DEF ClientPassesOver, ClientTimesOut
<1>9. CASE ClientFails
  BY <1>9 DEF ClientFails, ClientWaits
<1>10. CASE ServerListens \/ ServerFails
  BY <1>10 DEF ServerListens, ServerFails
<1>11. CASE ServerReceives \/ ServerPassesOver \/ ServerTimesOut
  BY <1>11 DEF ServerReceives, ServerPassesOver, ServerTimesOut
<1>12. CASE ServerCloses
  <2>1. conn[n] = "open" /\ peer = n /\ pc = "sleep"
    BY <1>12, Goodbye
  <2> QED BY <1>12, <2>1 DEF ServerCloses
<1>13. CASE \E c \in Conns : CaptureStarts(c) \/ CaptureEnds(c)
  BY <1>13 DEF CaptureStarts, CaptureEnds
<1>14. CASE UNCHANGED vars
  BY <1>14 DEF vars
<1> QED
  BY <1>1, <1>2, <1>3, <1>4, <1>5, <1>6, <1>7, <1>8, <1>9, <1>10, <1>11, <1>12, <1>13, <1>14
     DEF Next, Script, Client, Server, Done

----------------------------------------------------------------------------
(* What a step does to the connections and to the captures of them.         *)

\* a datagram is captured when the client or its server sends one, or when the
\* server sends to the client that failed
FromOpen(p) ==
    /\ p[1] = n /\ conn'[n] = "open"
    /\ p[2] = Alert => peer = n /\ conn[n] = "open" /\ atServer >= Flights
FromLost(p) ==
    /\ p[1] = peer /\ peer \in Conns /\ peer <= n /\ conn[peer] = "failed"
    /\ UNCHANGED <<conn, peer, server>>

Writes(p) == Capture(p) /\ UNCHANGED <<n, dump>> /\ (FromOpen(p) \/ FromLost(p))

\* a datagram for the peer is for the client that is open or for one that failed
LEMMA ToPeer ==
  ASSUME IInv, peer # 0, NEW p, p[1] = peer, p[2] \in 1..Flights, UNCHANGED <<conn, peer, server>>
  PROVE  peer \in Conns /\ (FromOpen(p) \/ FromLost(p))
<1>1. /\ peer \in Conns /\ n \in Conns /\ peer <= n /\ conn[peer] \in {"open", "failed"}
      /\ \A c \in Conns : c < n => Over(c)
  BY DEF IInv, TypeOK, ServerInv, ScriptInv
<1>2. CASE conn[peer] = "failed"
  BY <1>1, <1>2 DEF FromLost
<1>3. CASE conn[peer] = "open"
  <2>1. ~(peer < n)
    BY <1>1, <1>3 DEF Over
  <2>2. peer = n
    BY <1>1, <2>1, Numbers
  <2>3. p[2] # Alert
    BY Numbers
  <2> QED BY <1>1, <1>3, <2>2, <2>3 DEF FromOpen
<1> QED BY <1>1, <1>2, <1>3

LEMMA Written ==
  ASSUME IInv, Next
  PROVE  file' = file \/ \E p \in Packets : Writes(p)
<1>0. TypeOK
  BY DEF IInv
<1>1. CASE Script \/ ClientFails \/ ServerListens \/ ServerFails \/ ServerCloses \/ Done
  BY <1>1 DEF Script, StartServer, PidofServer, StartCapture, Sleep, Kill, ClientFails,
     ServerListens, ServerFails, ServerCloses, Done, vars, wire
<1>2. CASE \E c \in Conns : CaptureStarts(c) \/ CaptureEnds(c)
  BY <1>2 DEF CaptureStarts, CaptureEnds, wire
<1>3. ASSUME NEW g \in 1..Alert, ClientSends(g), UNCHANGED <<n, dump>>, conn'[n] = "open",
             g = Alert => peer = n /\ conn[n] = "open" /\ atServer >= Flights
      PROVE  \E p \in Packets : Writes(p)
  <2>1. Capture(<<n, g>>) /\ <<n, g>> \in Packets
    BY <1>0, <1>3, ClientSendsFacts
  <2>2. FromOpen(<<n, g>>)
    BY <1>3 DEF FromOpen
  <2> QED BY <1>3, <2>1, <2>2 DEF Writes
<1>4. CASE ClientStarts
  <2>1. conn'[n] = "open"
    BY <1>0, <1>4 DEF ClientStarts, TypeOK
  <2>2. 1 \in 1..Alert /\ 1 # Alert
    BY Numbers
  <2> QED BY <1>3, <1>4, <2>1, <2>2 DEF ClientStarts, script
<1>5. CASE ClientReceives
  <2>1. atClient + 2 \in 1..Alert /\ atClient + 1 <= atServer
    BY <1>5, NextFlights DEF ClientReceives, ClientWaits
  <2>2. /\ ClientSends(atClient + 2) /\ UNCHANGED <<n, dump>> /\ conn'[n] = "open"
        /\ toClient # <<>> /\ conn[n] = "open"
    BY <1>5 DEF ClientReceives, ClientWaits, Go, script
  <2>3. peer = n
    BY <1>0, <2>2, Heads DEF IInv, FlightsInv
  <2>4. atClient + 2 = Alert => atServer >= Flights
    BY <1>0, <2>1, Numbers DEF TypeOK
  <2> QED BY <1>3, <2>1, <2>2, <2>3, <2>4
<1>6. CASE ClientPassesOver \/ ClientTimesOut
  <2>1. atClient \in 1..Alert /\ atClient # Alert
    BY <1>6, Waiting, Numbers DEF ClientPassesOver, ClientTimesOut
  <2>2. UNCHANGED <<n, dump>> /\ conn'[n] = "open" /\ (file' = file \/ ClientSends(atClient))
    BY <1>6 DEF ClientPassesOver, ClientTimesOut, ClientWaits, script, clients
  <2> QED BY <1>3, <2>1, <2>2
<1>7. CASE ServerReceives
  <2>1. atServer + 2 \in 1..Flights /\ n \in Conns
    BY <1>0, <1>7, NextFlights DEF ServerReceives, TypeOK
  <2>2. ServerSends(n, atServer + 2) /\ UNCHANGED <<n, dump>> /\ conn' = conn /\ toServer # <<>>
    BY <1>7 DEF ServerReceives, script, clients
  <2>3. Capture(<<n, atServer + 2>>) /\ <<n, atServer + 2>> \in Packets
    BY <1>0, <2>1, <2>2, ServerSendsFacts
  <2>4. FromOpen(<<n, atServer + 2>>)
    <3>1. conn'[n] = "open" /\ atServer + 2 # Alert
      BY <2>1, <2>2, Arrived, Numbers
    <3> QED BY <3>1 DEF FromOpen
  <2> QED BY <2>2, <2>3, <2>4 DEF Writes
<1>8. CASE ServerPassesOver \/ ServerTimesOut
  <2>1. /\ UNCHANGED <<n, dump, conn, peer, server>>
        /\ file' = file \/ ServerSends(peer, atServer)
    BY <1>8 DEF ServerPassesOver, ServerTimesOut, script, clients, servers
  <2>2. atServer \in 1..Flights /\ peer # 0
    <3>1. CASE ServerPassesOver
      <4>1. server = "listening" /\ toServer # <<>> /\ Head(toServer) <= atServer
        BY <3>1 DEF ServerPassesOver
      <4>2. atServer \in 1..Flights
        <5>1. Head(toServer) \in 1..Alert
          BY <1>0, <4>1, Heads
        <5>2. atServer \in 0..Flights /\ Flights \in Nat
          BY <1>0, Numbers DEF TypeOK
        <5> QED BY <4>1, <5>1, <5>2
      <4> QED BY <4>1, <4>2 DEF IInv, ServerInv
    <3>2. CASE ServerTimesOut
      BY <1>0, <3>2, Numbers DEF ServerTimesOut, TypeOK
    <3> QED BY <1>8, <3>1, <3>2
  <2>3. CASE ServerSends(peer, atServer)
    <3>1. /\ peer \in Conns
          /\ FromOpen(<<peer, atServer>>) \/ FromLost(<<peer, atServer>>)
      BY <2>1, <2>2, ToPeer
    <3>2. Capture(<<peer, atServer>>) /\ <<peer, atServer>> \in Packets
      BY <1>0, <2>2, <2>3, <3>1, ServerSendsFacts
    <3> QED BY <2>1, <3>1, <3>2 DEF Writes
  <2> QED BY <2>1, <2>3
<1> QED
  BY <1>1, <1>2, <1>4, <1>5, <1>6, <1>7, <1>8 DEF Next, Client, Server

\* a connection begins, fails or ends once, that of this iteration alone
LEMMA Connections ==
  ASSUME IInv, Next, NEW c \in Conns
  PROVE  /\ conn[c] # "none" => conn'[c] # "none"
         /\ conn[c] \in {"failed", "closed"} => conn'[c] = conn[c]
         /\ conn'[c] = "closed" /\ conn[c] # "closed" => ServerCloses /\ c = n
         /\ conn'[c] = "open" => conn[c] = "open" \/ (ClientStarts /\ c = n)
<1>0. TypeOK
  BY DEF IInv
<1>1. CASE UNCHANGED conn
  BY <1>1
<1>2. CASE ClientStarts
  BY <1>0, <1>2 DEF ClientStarts, TypeOK
<1>3. CASE ClientFails
  BY <1>0, <1>3 DEF ClientFails, ClientWaits, TypeOK
<1>4. CASE ServerCloses
  <2>1. peer = n /\ conn[n] = "open"
    BY <1>4, Goodbye
  <2>2. conn' = [conn EXCEPT ![n] = "closed"]
    BY <1>4, <2>1 DEF ServerCloses
  <2> QED BY <1>0, <1>4, <2>1, <2>2 DEF TypeOK
<1> QED
  BY <1>1, <1>2, <1>3, <1>4 DEF Next, Script, Client, Server, Done, vars, clients, StartServer,
     PidofServer, StartCapture, Sleep, Kill, ClientReceives, ClientPassesOver, ClientTimesOut,
     ServerListens, ServerFails, ServerReceives, ServerPassesOver, ServerTimesOut,
     CaptureStarts, CaptureEnds

\* a server that waits for a client that failed does so until it gives up
LEMMA LostStays ==
  ASSUME IInv, Next, NEW d \in Conns, Lost(d)
  PROVE  Lost(d)' /\ ~ServerCloses
<1>0. TypeOK /\ ServerInv /\ conn[d] = "failed" /\ 0 \notin Conns
  BY Numbers DEF IInv, Lost
<1>1. conn'[d] = "failed"
  BY <1>0, Connections
<1>2. ~ServerCloses
  BY <1>0, Goodbye DEF Lost, ServerCloses
<1>3. ~ServerReceives
  BY <1>0, Arrived DEF Lost, ServerReceives
<1>4. peer = d => server = "listening"
  BY <1>0 DEF ServerInv
<1>5. ~StartServer /\ ~ServerListens
  <2>1. pc = "server" <=> server = "none"
    BY DEF IInv, ScriptInv
  <2> QED BY <1>4, <2>1 DEF Lost, StartServer, ServerListens
<1>6. CASE ServerFails
  BY <1>1, <1>2, <1>6 DEF ServerFails, Lost
<1>7. CASE UNCHANGED <<peer, server>>
  BY <1>1, <1>2, <1>7 DEF Lost
<1> QED
  BY <1>2, <1>3, <1>5, <1>6, <1>7 DEF Next, Script, Client, Server, Done, vars, servers,
     PidofServer, StartCapture, Sleep, Kill, ClientStarts, ClientReceives, ClientPassesOver,
     ClientTimesOut, ClientFails, ServerPassesOver, ServerTimesOut, CaptureStarts, CaptureEnds

\* nothing is captured before the tcpdump runs
LEMMA Unwritten ==
  ASSUME IInv, Next, NEW c \in Conns, dump[c] \notin {"capturing", "stopping"}
  PROVE  Len(file'[c]) = Len(file[c])
<1>1. TypeOK /\ DumpInv
  BY DEF IInv
<1>2. CASE \E p \in Packets : Writes(p)
  BY <1>1, <1>2, Captured DEF Writes
<1> QED BY <1>2, Written

LEMMA DumpStep == ASSUME IInv, Next PROVE DumpInv'
<1>0. /\ TypeOK /\ DumpInv /\ n \in Conns
      /\ dump \in [Conns -> {"none", "starting", "capturing", "stopping", "gone"}]
      /\ \A c \in Conns : c \in Nat
  BY Numbers DEF IInv, TypeOK
<1>1. \A c \in Conns : dump[c] \in {"none", "starting"} => Len(file'[c]) = 0
  BY <1>0, Unwritten DEF DumpInv
<1>2. conn[n] # "none" /\ n \notin late => dump[n] # "starting"
  BY <1>0 DEF DumpInv
<1>3. CASE UNCHANGED <<pc, n, dump, conn, late>>
  BY <1>0, <1>1, <1>3 DEF DumpInv
<1>4. CASE StartServer \/ PidofServer
  BY <1>0, <1>1, <1>4 DEF StartServer, PidofServer, Go, clients, DumpInv
<1>5. CASE StartCapture
  <2>1. dump' = [dump EXCEPT ![n] = "starting"] /\ pc' = "client" /\ UNCHANGED <<n, conn>>
    BY <1>5 DEF StartCapture, Go, clients
  <2>2. conn[n] = "none" /\ dump[n] = "none"
    BY <1>5 DEF StartCapture, IInv, ScriptInv, DumpInv
  <2>3. dump'[n] = "starting" /\ \A c \in Conns : c # n => dump'[c] = dump[c]
    BY <1>0, <2>1
  <2> QED BY <1>0, <1>1, <2>1, <2>2, <2>3 DEF DumpInv
<1>6. CASE Sleep
  <2>1. /\ pc = "sleep" /\ pc' = "kill" /\ UNCHANGED <<n, dump, conn, late>>
        /\ \A c \in Conns : dump[c] \notin {"starting", "stopping"}
    BY <1>6 DEF Sleep, Go, clients
  <2> QED BY <1>0, <1>1, <2>1 DEF DumpInv
<1>7. CASE Kill
  <2>1. /\ \A c \in Conns : dump'[c] = IF dump[c] = "capturing" THEN "stopping" ELSE dump[c]
        /\ UNCHANGED <<conn, late>> /\ pc = "kill"
        /\ (n < N_TIMES /\ n' = n + 1 /\ pc' = "capture") \/ (n' = n /\ pc' = "done")
    BY <1>7 DEF Kill, clients
  <2>2. dump[n] = "capturing" /\ \A c \in Conns : c < n => dump[c] = "gone"
    BY <1>0, <2>1 DEF DumpInv
  <2>3. CASE n' = n /\ pc' = "done"
    <3>1. \A c \in Conns : /\ c > n => dump'[c] = "none"
                           /\ c < n => dump'[c] = "gone"
                           /\ dump'[c] \in {"none", "starting"} => Len(file'[c]) = 0
      BY <1>0, <1>1, <2>1, <2>2 DEF DumpInv
    <3>2. \A c \in Conns : c + 1 < n => c < n
      BY <1>0
    <3>3. dump'[n] = "stopping"
      BY <1>0, <2>1, <2>2
    <3>4. \A c \in Conns : /\ c > n' => dump'[c] = "none"
                           /\ c < n' => dump'[c] \in {"stopping", "gone"}
                           /\ c + 1 < n' => dump'[c] = "gone"
                           /\ dump'[c] \in {"none", "starting"} => Len(file'[c]) = 0
      BY <2>3, <3>1, <3>2
    <3>5. pc' = "done" /\ dump'[n'] = "stopping"
      BY <2>3, <3>3
    <3> QED BY <3>4, <3>5 DEF DumpInv
  <2>4. CASE n < N_TIMES /\ n' = n + 1 /\ pc' = "capture"
    <3>1. n' \in Conns
      BY <1>0, <2>4, Numbers DEF Conns
    <3>2. \A c \in Conns : /\ c > n' => c > n
                           /\ c < n' => c < n \/ c = n
                           /\ c + 1 < n' => c < n
      BY <1>0, <2>4
    <3>3. conn[n'] = "none" /\ dump'[n'] = "none"
      <4>1. n' > n
        BY <1>0, <2>4
      <4> QED BY <2>1, <3>1, <4>1 DEF IInv, ScriptInv, DumpInv
    <3>4. \A c \in Conns : /\ c > n' => dump'[c] = "none"
                           /\ c < n' => dump'[c] \in {"stopping", "gone"}
                           /\ c + 1 < n' => dump'[c] = "gone"
                           /\ dump'[c] \in {"none", "starting"} => Len(file'[c]) = 0
      BY <1>0, <1>1, <2>1, <2>2, <3>2 DEF DumpInv
    <3> QED BY <2>1, <2>4, <3>3, <3>4 DEF DumpInv
  <2> QED BY <2>1, <2>3, <2>4
<1>8. CASE ClientStarts
  <2>1. /\ pc = "client" /\ UNCHANGED <<pc, n, dump>>
        /\ late' = IF dump[n] = "starting" THEN late \cup {n} ELSE late
    BY <1>8 DEF ClientStarts, script
  <2> QED BY <1>0, <1>1, <2>1 DEF DumpInv
<1>9. CASE ClientReceives
  <2>1. /\ pc = "client" /\ pc' \in {"client", "sleep"} /\ UNCHANGED <<n, dump, conn, late>>
    BY <1>9 DEF ClientReceives, ClientWaits, Go, script
  <2> QED BY <1>0, <1>1, <2>1 DEF DumpInv
<1>10. CASE ClientFails
  <2>1. /\ pc = "client" /\ pc' = "sleep" /\ UNCHANGED <<n, dump, late>> /\ conn[n] = "open"
    BY <1>10 DEF ClientFails, ClientWaits, Go
  <2> QED BY <1>0, <1>1, <1>2, <2>1 DEF DumpInv
<1>11. CASE ServerCloses
  <2>1. conn[n] = "open" /\ UNCHANGED <<pc, n, dump, late>>
    BY <1>11, Goodbye DEF ServerCloses, script
  <2> QED BY <1>0, <1>1, <1>2, <2>1 DEF DumpInv
<1>12. ASSUME NEW c \in Conns, CaptureStarts(c) \/ CaptureEnds(c) PROVE DumpInv'
  <2>1. /\ UNCHANGED <<pc, n, conn, late>>
        /\ \A e \in Conns : e # c => dump'[e] = dump[e]
    BY <1>0, <1>12 DEF CaptureStarts, CaptureEnds, script, clients
  <2>2. \/ dump[c] = "starting" /\ dump'[c] = "capturing"
        \/ dump[c] = "stopping" /\ dump'[c] = "gone"
    BY <1>0, <1>12 DEF CaptureStarts, CaptureEnds
  <2>3. CASE dump[c] = "starting" /\ dump'[c] = "capturing"
    <3>1. ~(c > n) /\ ~(c < n)
      BY <1>0, <2>3 DEF DumpInv
    <3>2. c = n
      BY <1>0, <3>1
    <3> QED BY <1>0, <1>1, <2>1, <2>3, <3>2 DEF DumpInv
  <2>4. CASE dump[c] = "stopping" /\ dump'[c] = "gone"
    BY <1>0, <1>1, <2>1, <2>4 DEF DumpInv
  <2> QED BY <2>2, <2>3, <2>4
<1> QED
  BY <1>3, <1>4, <1>5, <1>6, <1>7, <1>8, <1>9, <1>10, <1>11, <1>12 DEF Next, Script, Client,
     Server, Done, vars, script, clients, ClientPassesOver, ClientTimesOut, ServerListens,
     ServerFails, ServerReceives, ServerPassesOver, ServerTimesOut

LEMMA ServerStep == ASSUME IInv, Next PROVE ServerInv'
<1>0. /\ TypeOK /\ ServerInv /\ ScriptInv /\ Conns \subseteq Nat /\ 0 \notin Conns
      /\ n \in Conns /\ N_TIMES \in Nat /\ Alert \in Nat /\ Flights \in Nat
  BY Numbers DEF IInv, TypeOK
<1>1. CASE UNCHANGED <<server, peer, served, atServer, n, conn, atClient, toServer>>
  BY <1>1, <1>0 DEF ServerInv
<1>2. CASE StartServer
  <2>1. /\ server = "none" /\ server' = "starting"
        /\ UNCHANGED <<peer, served, atServer, n, conn, atClient, toServer>>
    BY <1>0, <1>2 DEF StartServer, Go, clients, wire, ScriptInv
  <2> QED BY <1>0, <2>1 DEF ServerInv
<1>3. CASE PidofServer \/ StartCapture \/ Sleep
  BY <1>1, <1>3 DEF PidofServer, StartCapture, Sleep, Go, servers, clients, wire
<1>4. CASE Kill
  <2>1. /\ UNCHANGED <<server, peer, served, atServer, conn, atClient, toServer>>
        /\ n' = n \/ (n < N_TIMES /\ n' = n + 1)
    BY <1>4 DEF Kill, servers, clients, wire
  <2>2. CASE n < N_TIMES /\ n' = n + 1
    <3>1. peer <= n' /\ peer # n'
      BY <1>0, <2>2 DEF ServerInv, TypeOK
    <3> QED BY <1>0, <2>1, <3>1 DEF ServerInv
  <2> QED BY <1>0, <2>1, <2>2 DEF ServerInv
<1>5. CASE ClientStarts
  <2>1. /\ UNCHANGED <<server, peer, served, atServer, n>> /\ ClientSends(1)
        /\ conn[n] = "none" /\ conn' = [conn EXCEPT ![n] = "open"]
    BY <1>5 DEF ClientStarts, servers, script
  <2>2. peer # n
    BY <1>0, <2>1 DEF ServerInv
  <2>3. server # "listening" => toServer' = toServer
    BY <2>1 DEF ClientSends, Reaches
  <2>4. peer # 0 => conn'[peer] = conn[peer]
    BY <1>0, <2>1, <2>2 DEF TypeOK
  <2> QED BY <1>0, <2>1, <2>2, <2>3, <2>4 DEF ServerInv
<1>6. CASE ClientReceives \/ ClientPassesOver \/ ClientTimesOut
  <2>1. /\ UNCHANGED <<server, peer, served, atServer, n, conn>>
        /\ atClient' = atClient \/ atClient' = atClient + 2
        /\ toServer' = toServer \/ \E g : ClientSends(g)
    BY <1>6 DEF ClientReceives, ClientPassesOver, ClientTimesOut, servers, clients, script, Go
  <2>2. server # "listening" => toServer' = toServer
    BY <2>1 DEF ClientSends, Reaches
  <2>3. atServer <= atClient + 1 => atServer <= atClient' + 1
    BY <1>0, <2>1 DEF TypeOK
  <2> QED BY <1>0, <2>1, <2>2, <2>3 DEF ServerInv
<1>7. CASE ClientFails
  <2>1. /\ UNCHANGED <<server, peer, served, atServer, n, atClient, toServer>>
        /\ conn' = [conn EXCEPT ![n] = "failed"]
    BY <1>7 DEF ClientFails, servers, Go
  <2>2. peer # 0 => conn'[peer] \in {"open", "failed"}
    BY <1>0, <2>1 DEF ServerInv, TypeOK
  <2> QED BY <1>0, <2>1, <2>2 DEF ServerInv
<1>8. CASE ServerListens
  <2>1. /\ UNCHANGED <<peer, served, atServer, n, conn, atClient, toServer>>
        /\ server = "starting" /\ server' = "listening"
    BY <1>8 DEF ServerListens, script, clients, wire
  <2> QED BY <1>0, <2>1 DEF ServerInv
<1>9. CASE ServerFails
  <2>1. /\ UNCHANGED <<served, atServer, n, conn, atClient, toServer>>
        /\ server \in {"starting", "listening"} /\ server' = "gone" /\ peer' = 0
        /\ server = "listening" => peer # 0 /\ conn[peer] = "failed"
    BY <1>9 DEF ServerFails, script, clients, wire
  <2>2. ~(Len(toServer) > 0)
    <3>1. Len(toServer) > 0 => peer \in {0, n} /\ conn[n] = "open"
      BY DEF IInv, FlightsInv
    <3> QED BY <1>0, <2>1, <3>1 DEF ServerInv
  <2>3. Len(toServer) = 0
    BY <1>0, <2>2, Heads
  <2> QED BY <1>0, <2>1, <2>3 DEF ServerInv, TypeOK
<1>10. CASE ServerReceives
  <2>1. /\ UNCHANGED <<server, served, n, conn, atClient>> /\ server = "listening"
        /\ peer' = n /\ atServer' = atServer + 2 /\ toServer # <<>>
        /\ Head(toServer) = atServer + 1 /\ Head(toServer) # Alert
    BY <1>10 DEF ServerReceives, script, clients
  <2>2. atServer + 1 <= atClient
    BY <2>1, NextFlights
  <2>3. atServer \in Nat /\ atClient \in Nat /\ atServer % 2 = 0
    BY <1>0 DEF TypeOK, ServerInv
  <2>4. conn[n] = "open"
    BY <2>1, Arrived
  <2>5. atServer' <= atClient' + 1 /\ atServer' % 2 = 0 /\ atServer' # 0
    BY <2>1, <2>2, <2>3
  <2> QED BY <1>0, <2>1, <2>4, <2>5 DEF ServerInv
<1>11. CASE ServerPassesOver
  <2>1. /\ UNCHANGED <<server, peer, served, atServer, n, conn, atClient>> /\ server = "listening"
    BY <1>11 DEF ServerPassesOver, script, clients, servers
  <2> QED BY <1>0, <2>1 DEF ServerInv
<1>12. CASE ServerTimesOut
  BY <1>1, <1>12 DEF ServerTimesOut, script, clients, servers
<1>13. CASE ServerCloses
  <2>1. /\ UNCHANGED <<n, atClient>> /\ peer' = 0 /\ atServer' = 0 /\ toServer' = <<>>
        /\ served' = served + 1
        /\ server' = IF served + 1 = N_TIMES THEN "gone" ELSE "listening"
        /\ server = "listening"
    BY <1>13 DEF ServerCloses, script
  <2>2. served < N_TIMES /\ served \in Nat
    BY <1>0, <2>1 DEF ServerInv, TypeOK
  <2>3. /\ server' \in {"gone", "listening"}
        /\ server' # "gone" => served' < N_TIMES
    BY <1>0, <2>1, <2>2
  <2>4. Len(toServer') = 0
    BY <2>1
  <2>5. atServer' % 2 = 0 /\ peer' <= n' /\ peer' # n'
    BY <1>0, <2>1
  <2> QED BY <2>1, <2>3, <2>4, <2>5 DEF ServerInv
<1>14. CASE (\E c \in Conns : CaptureStarts(c) \/ CaptureEnds(c)) \/ Done
  BY <1>1, <1>14 DEF CaptureStarts, CaptureEnds, Done, vars, script, clients, servers, wire
<1> QED
  BY <1>2, <1>3, <1>4, <1>5, <1>6, <1>7, <1>8, <1>9, <1>10, <1>11, <1>12, <1>13, <1>14
     DEF Next, Script, Client, Server

\* what the client sends is no later than what it has sent
LEMMA Outgoing ==
  ASSUME TypeOK, FlightsInv, NEW g \in 1..Alert, ClientSends(g),
         atClient' \in Nat, g <= atClient', atClient <= atClient'
  PROVE  /\ Len(toServer') > 0 => peer \in {0, n}
         /\ \A k \in 1..Len(toServer') : toServer'[k] <= atClient'
<1>1. \A k \in 1..Len(toServer) : toServer[k] <= atClient
  BY DEF FlightsInv
<1>2. Len(toServer) > 0 => peer \in {0, n}
  BY DEF FlightsInv
<1>3. toServer \in Seq(1..Alert) /\ Len(toServer) \in Nat /\ Alert \in Nat /\ atClient \in Nat
  BY Heads, Numbers DEF TypeOK
<1>4. \A k \in 1..Len(toServer) : toServer[k] \in 1..Alert
  BY <1>3, Queue
<1>5. CASE Reaches(n)
  <2>1. /\ Len(toServer') = Len(toServer) + 1
        /\ toServer'[Len(toServer) + 1] = g
        /\ \A k \in 1..Len(toServer) : toServer'[k] = toServer[k]
    BY <1>5, ClientSendsFacts
  <2>2. ASSUME NEW k \in 1..Len(toServer') PROVE toServer'[k] <= atClient'
    <3>1. k \in 1..Len(toServer) \/ k = Len(toServer) + 1
      BY <1>3, <2>1
    <3> QED BY <1>1, <1>3, <1>4, <2>1, <3>1
  <2> QED BY <1>5, <2>2 DEF Reaches
<1>6. CASE ~Reaches(n)
  <2>1. toServer' = toServer
    BY <1>6, ClientSendsFacts
  <2> QED BY <1>1, <1>2, <1>3, <1>4, <2>1
<1> QED BY <1>5, <1>6

\* nor is what the server sends
LEMMA Incoming ==
  ASSUME TypeOK, FlightsInv, NEW c \in Conns, NEW g \in 1..Flights, ServerSends(c, g),
         atServer' \in Nat, g <= atServer', atServer <= atServer'
  PROVE  /\ Len(toClient') > 0 => pc = "client" /\ (Len(toClient) > 0 \/ c = n)
         /\ \A k \in 1..Len(toClient') : toClient'[k] <= atServer'
<1>1. \A k \in 1..Len(toClient) : toClient[k] <= atServer
  BY DEF FlightsInv
<1>2. Len(toClient) > 0 => pc = "client"
  BY DEF FlightsInv
<1>3. toClient \in Seq(1..Flights) /\ Len(toClient) \in Nat /\ Flights \in Nat /\ atServer \in Nat
  BY Heads, Numbers DEF TypeOK
<1>4. \A k \in 1..Len(toClient) : toClient[k] \in 1..Flights
  BY <1>3, Queue
<1>5. CASE c = n /\ pc = "client"
  <2>1. /\ Len(toClient') = Len(toClient) + 1
        /\ toClient'[Len(toClient) + 1] = g
        /\ \A k \in 1..Len(toClient) : toClient'[k] = toClient[k]
    BY <1>5, ServerSendsFacts
  <2>2. ASSUME NEW k \in 1..Len(toClient') PROVE toClient'[k] <= atServer'
    <3>1. k \in 1..Len(toClient) \/ k = Len(toClient) + 1
      BY <1>3, <2>1
    <3> QED BY <1>1, <1>3, <1>4, <2>1, <3>1
  <2> QED BY <1>5, <2>2
<1>6. CASE ~(c = n /\ pc = "client")
  <2>1. toClient' = toClient
    BY <1>6, ServerSendsFacts
  <2> QED BY <1>1, <1>2, <1>3, <1>4, <2>1
<1> QED BY <1>5, <1>6

\* what is left when the first has been taken
LEMMA Taken ==
  ASSUME NEW S, NEW s \in Seq(S), s # <<>>, NEW b, \A k \in 1..Len(s) : s[k] <= b
  PROVE  \A k \in 1..Len(Tail(s)) : Tail(s)[k] <= b
<1>1. /\ Len(s) \in Nat /\ Len(Tail(s)) = Len(s) - 1
      /\ \A k \in 1..Len(Tail(s)) : Tail(s)[k] = s[k + 1]
  BY Queue
<1>2. \A k \in 1..Len(Tail(s)) : k + 1 \in 1..Len(s)
  BY <1>1
<1> QED BY <1>1, <1>2

LEMMA FlightsStep == ASSUME IInv, Next PROVE FlightsInv'
<1>0. /\ TypeOK /\ FlightsInv /\ n \in Conns /\ Conns \subseteq Nat /\ 0 \notin Conns
      /\ Alert \in Nat /\ Alert = Flights + 1 /\ Flights >= 2 /\ Flights \in Nat
      /\ Len(toServer) \in Nat /\ Len(toClient) \in Nat
      /\ toServer \in Seq(1..Alert) /\ toClient \in Seq(1..Flights)
  BY Numbers, Heads DEF IInv, TypeOK
<1>1. CASE UNCHANGED <<toServer, toClient, peer, n, conn, pc, atClient, atServer>>
  BY <1>0, <1>1 DEF FlightsInv
<1>2. CASE StartServer \/ PidofServer \/ StartCapture
  <2>1. conn[n] = "none"
    BY <1>2 DEF StartServer, PidofServer, StartCapture, IInv, ScriptInv
  <2>2. UNCHANGED <<toServer, toClient, peer, n, conn, atClient, atServer>>
    BY <1>2 DEF StartServer, PidofServer, StartCapture, Go, clients, wire, servers
  <2> QED BY <1>0, <2>1, <2>2 DEF FlightsInv
<1>3. CASE Sleep
  <2>1. /\ pc = "sleep" /\ pc' = "kill" /\ conn[n] # "open"
        /\ UNCHANGED <<toServer, toClient, peer, n, conn, atClient, atServer>>
    BY <1>0, <1>3 DEF Sleep, Go, clients, wire, servers
  <2> QED BY <1>0, <2>1 DEF FlightsInv
<1>4. CASE Kill
  <2>1. /\ pc = "kill" /\ n' \in {n, n + 1}
        /\ UNCHANGED <<toServer, toClient, peer, conn, atClient, atServer>>
    BY <1>4 DEF Kill, clients, wire, servers
  <2>2. conn[n] # "open" /\ conn[n'] # "open"
    <3>1. conn[n] # "open"
      BY <2>1 DEF IInv, ScriptInv, Over
    <3>2. n' \in Conns
      BY TypeStep DEF TypeOK
    <3>3. n' = n \/ n' > n
      BY <1>0, <2>1
    <3> QED BY <3>1, <3>2, <3>3 DEF IInv, ScriptInv
  <2>3. ~(Len(toServer) > 0) /\ ~(Len(toClient) > 0)
    BY <1>0, <2>2 DEF FlightsInv
  <2> QED BY <1>0, <2>1, <2>2, <2>3 DEF FlightsInv
<1>5. CASE ClientStarts
  <2>1. /\ pc = "client" /\ conn[n] = "none" /\ conn' = [conn EXCEPT ![n] = "open"]
        /\ atClient' = 1 /\ ClientSends(1) /\ 1 \in 1..Alert
        /\ UNCHANGED <<pc, n, peer, atServer, toClient>>
    BY <1>0, <1>5 DEF ClientStarts, script, servers
  <2>2. conn'[n] = "open"
    BY <1>0, <2>1 DEF TypeOK
  <2>3. ~(Len(toServer) > 0) /\ ~(Len(toClient) > 0)
    BY <1>0, <2>1 DEF FlightsInv
  <2>4. /\ Len(toServer') > 0 => peer \in {0, n}
        /\ \A k \in 1..Len(toServer') : toServer'[k] <= 1
    <3>1. CASE Reaches(n)
      <4>1. Len(toServer') = Len(toServer) + 1 /\ toServer'[Len(toServer) + 1] = 1
        BY <1>0, <2>1, <3>1, ClientSendsFacts
      <4> QED BY <1>0, <2>3, <3>1, <4>1 DEF Reaches
    <3>2. CASE ~Reaches(n)
      <4>1. toServer' = toServer
        BY <1>0, <2>1, <3>2, ClientSendsFacts
      <4> QED BY <1>0, <2>3, <4>1
    <3> QED BY <3>1, <3>2
  <2>5. atClient' % 2 = 1 /\ atClient' < Alert
    BY <1>0, <2>1
  <2>6. Len(toServer') > 0 => peer' \in {0, n'} /\ conn'[n'] = "open"
    BY <2>1, <2>2, <2>4
  <2>7. ~(Len(toClient') > 0) /\ \A k \in 1..Len(toClient') : toClient'[k] <= atServer'
    BY <1>0, <2>1, <2>3
  <2> QED BY <2>1, <2>2, <2>4, <2>5, <2>6, <2>7 DEF FlightsInv
<1>6. CASE ClientReceives
  <2>1. /\ pc = "client" /\ conn[n] = "open" /\ UNCHANGED <<n, conn, peer, atServer>>
        /\ toClient # <<>> /\ Head(toClient) = atClient + 1 /\ atClient' = atClient + 2
        /\ ClientSends(atClient + 2)
        /\ IF atClient + 2 = Alert THEN toClient' = <<>> /\ pc' = "sleep"
           ELSE toClient' = Tail(toClient) /\ pc' = pc
    BY <1>6 DEF ClientReceives, ClientWaits, Go, script, servers
  <2>2. atClient + 2 \in 1..Alert
    BY <2>1, NextFlights
  <2>3. peer = n
    BY <1>0, <2>1, Heads DEF FlightsInv
  <2>4. atClient \in Nat /\ atClient % 2 = 1
    BY <1>0, <2>1 DEF FlightsInv, TypeOK
  <2>5. /\ atClient' \in Nat /\ atClient' % 2 = 1 /\ atClient' <= Alert
        /\ pc' = "client" <=> atClient' < Alert
    BY <1>0, <2>1, <2>2, <2>4
  <2>6. \A k \in 1..Len(toServer') : toServer'[k] <= atClient'
    BY <1>0, <2>1, <2>2, <2>4, Outgoing
  <2>7. \A k \in 1..Len(toClient') : toClient'[k] <= atServer
    <3>1. CASE toClient' = <<>>
      BY <3>1
    <3>2. CASE toClient' = Tail(toClient)
      BY <1>0, <2>1, <3>2, Taken DEF FlightsInv
    <3> QED BY <2>1, <3>1, <3>2
  <2>8. Len(toClient') > 0 => pc' = "client"
    BY <2>1
  <2> QED BY <2>1, <2>3, <2>5, <2>6, <2>7, <2>8 DEF FlightsInv
<1>7. CASE ClientPassesOver \/ ClientTimesOut
  <2>1. /\ UNCHANGED <<pc, n, conn, peer, atClient, atServer>> /\ conn[n] = "open"
        /\ toServer' = toServer \/ ClientSends(atClient)
        /\ toClient' = toClient \/ (toClient # <<>> /\ toClient' = Tail(toClient))
    BY <1>7 DEF ClientPassesOver, ClientTimesOut, ClientWaits, script, servers, clients
  <2>2. atClient \in 1..Alert /\ atClient \in Nat
    BY <1>7, Waiting DEF ClientPassesOver, ClientTimesOut
  <2>3. /\ Len(toServer') > 0 => peer \in {0, n}
        /\ \A k \in 1..Len(toServer') : toServer'[k] <= atClient
    <3>1. CASE toServer' = toServer
      BY <1>0, <3>1 DEF FlightsInv
    <3>2. CASE ClientSends(atClient)
      BY <1>0, <2>1, <2>2, <3>2, Outgoing
    <3> QED BY <2>1, <3>1, <3>2
  <2>4. /\ Len(toClient') > 0 => Len(toClient) > 0
        /\ \A k \in 1..Len(toClient') : toClient'[k] <= atServer
    <3>1. CASE toClient' = toClient
      BY <1>0, <3>1 DEF FlightsInv
    <3>2. CASE toClient # <<>> /\ toClient' = Tail(toClient)
      BY <1>0, <3>2, Taken, Heads DEF FlightsInv
    <3> QED BY <2>1, <3>1, <3>2
  <2> QED BY <1>0, <2>1, <2>3, <2>4 DEF FlightsInv
<1>8. CASE ClientFails
  <2>1. /\ UNCHANGED <<n, peer, atClient, atServer>> /\ toServer = <<>> /\ toServer' = <<>>
        /\ toClient' = <<>> /\ conn' = [conn EXCEPT ![n] = "failed"]
    BY <1>8 DEF ClientFails, ClientWaits, Go, servers
  <2>2. conn'[n'] = "failed" /\ Len(toServer') = 0 /\ Len(toClient') = 0
    BY <1>0, <2>1 DEF TypeOK
  <2> QED BY <2>2 DEF FlightsInv
<1>9. CASE ServerListens
  BY <1>1, <1>9 DEF ServerListens, script, clients, wire
<1>10. CASE ServerFails
  <2>1. /\ UNCHANGED <<pc, n, conn, atClient, atServer, toServer, toClient>> /\ peer' = 0
        /\ server = "starting" \/ (peer # 0 /\ conn[peer] = "failed")
    BY <1>10 DEF ServerFails, script, clients, wire
  <2>2. peer # n \/ conn[n] # "open"
    BY <1>0, <2>1 DEF IInv, ServerInv
  <2>3. ~(Len(toClient) > 0) /\ (Len(toServer) > 0 => conn[n] = "open")
        /\ (conn[n] = "open" => atClient = 1)
    BY <1>0, <2>2 DEF FlightsInv
  <2> QED BY <1>0, <2>1, <2>3 DEF FlightsInv
<1>11. CASE ServerReceives
  <2>1. /\ UNCHANGED <<pc, n, conn, atClient>> /\ peer' = n /\ atServer' = atServer + 2
        /\ toServer # <<>> /\ toServer' = Tail(toServer)
        /\ Head(toServer) = atServer + 1 /\ Head(toServer) # Alert
        /\ ServerSends(n, atServer + 2)
    BY <1>11 DEF ServerReceives, script, clients
  <2>2. atServer + 2 \in 1..Flights /\ conn[n] = "open" /\ atServer \in Nat
    BY <1>0, <2>1, NextFlights, Arrived DEF TypeOK
  <2>3. \A k \in 1..Len(toServer') : toServer'[k] <= atClient
    BY <1>0, <2>1, Taken DEF FlightsInv
  <2>4. /\ Len(toClient') > 0 => pc = "client"
        /\ \A k \in 1..Len(toClient') : toClient'[k] <= atServer'
    BY <1>0, <2>1, <2>2, Incoming
  <2>5. peer' \in {0, n'} /\ peer' = n' /\ conn'[n'] = "open"
    BY <2>1, <2>2
  <2>6. atClient' % 2 = 1 /\ (pc' = "client" <=> atClient' < Alert)
    BY <1>0, <2>1, <2>2 DEF FlightsInv
  <2> QED BY <2>1, <2>3, <2>4, <2>5, <2>6 DEF FlightsInv
<1>12. CASE ServerPassesOver \/ ServerTimesOut
  <2>1. /\ UNCHANGED <<pc, n, conn, peer, atClient, atServer>>
        /\ toServer' = toServer \/ (toServer # <<>> /\ toServer' = Tail(toServer))
        /\ toClient' = toClient \/ ServerSends(peer, atServer)
    BY <1>12 DEF ServerPassesOver, ServerTimesOut, script, clients, servers
  <2>2. /\ Len(toServer') > 0 => Len(toServer) > 0
        /\ \A k \in 1..Len(toServer') : toServer'[k] <= atClient
    <3>1. CASE toServer' = toServer
      BY <1>0, <3>1 DEF FlightsInv
    <3>2. CASE toServer # <<>> /\ toServer' = Tail(toServer)
      BY <1>0, <3>2, Taken, Heads DEF FlightsInv
    <3> QED BY <2>1, <3>1, <3>2
  <2>3. atServer \in 1..Flights /\ peer \in Conns /\ (peer = n => conn[n] \in {"open", "failed"})
    <3>1. server = "listening" /\ atServer # 0
      <4>1. CASE ServerPassesOver
        <5>1. server = "listening" /\ Head(toServer) <= atServer /\ toServer # <<>>
          BY <4>1 DEF ServerPassesOver
        <5>2. Head(toServer) \in 1..Alert
          BY <1>0, <5>1, Heads
        <5> QED BY <5>1, <5>2, Numbers
      <4>2. CASE ServerTimesOut
        BY <1>0, <4>2 DEF ServerTimesOut, TypeOK
      <4> QED BY <1>12, <4>1, <4>2
    <3>2. peer # 0
      BY <3>1 DEF IInv, ServerInv
    <3> QED BY <1>0, <3>1, <3>2 DEF IInv, ServerInv, TypeOK
  <2>4. /\ Len(toClient') > 0 => pc = "client" /\ peer = n /\ conn[n] = "open"
        /\ \A k \in 1..Len(toClient') : toClient'[k] <= atServer
    <3>1. CASE toClient' = toClient
      BY <1>0, <3>1 DEF FlightsInv
    <3>2. CASE ServerSends(peer, atServer)
      <4>1. /\ Len(toClient') > 0 => pc = "client" /\ (Len(toClient) > 0 \/ peer = n)
            /\ \A k \in 1..Len(toClient') : toClient'[k] <= atServer
        BY <1>0, <2>1, <2>3, <3>2, Incoming
      <4>2. pc = "client" => conn[n] \in {"none", "open"}
        BY DEF IInv, ScriptInv
      <4> QED BY <1>0, <2>3, <4>1, <4>2 DEF FlightsInv
    <3> QED BY <2>1, <3>1, <3>2
  <2> QED BY <1>0, <2>1, <2>2, <2>4 DEF FlightsInv
<1>13. CASE ServerCloses
  <2>1. /\ peer = n /\ Len(toClient) = 0 /\ UNCHANGED <<n, toClient>>
        /\ toServer' = <<>> /\ conn' = [conn EXCEPT ![peer] = "closed"]
    BY <1>13, Goodbye DEF ServerCloses, script
  <2>2. conn'[n'] = "closed" /\ Len(toServer') = 0 /\ Len(toClient') = 0
    BY <1>0, <2>1 DEF TypeOK
  <2> QED BY <2>2 DEF FlightsInv
<1>14. CASE (\E c \in Conns : CaptureStarts(c) \/ CaptureEnds(c)) \/ Done
  BY <1>1, <1>14 DEF CaptureStarts, CaptureEnds, Done, vars, script, clients, servers, wire
<1> QED
  BY <1>2, <1>3, <1>4, <1>5, <1>6, <1>7, <1>8, <1>9, <1>10, <1>11, <1>12, <1>13, <1>14
     DEF Next, Script, Client, Server

LEMMA StuckStep == ASSUME IInv, Next PROVE StuckInv'
<1>1. SUFFICES ASSUME NEW d \in Conns, NEW e \in Conns,
                      conn'[d] = "failed", peer' = d, e > d
               PROVE  conn'[e] # "closed"
  BY DEF StuckInv
<1>2. /\ TypeOK /\ n \in Conns /\ Conns \subseteq Nat /\ 0 \notin Conns
      /\ \A c \in Conns : c > n => conn[c] = "none"
  BY Numbers DEF IInv, TypeOK, ScriptInv
<1>3. SUFFICES ASSUME conn'[e] = "closed" PROVE FALSE
  OBVIOUS
<1>4. CASE ServerCloses
  BY <1>1, <1>2, <1>4 DEF ServerCloses
<1>5. CASE ServerReceives
  <2>1. peer' = n /\ conn' = conn /\ conn[n] = "open"
    BY <1>5, Arrived DEF ServerReceives, clients
  <2> QED BY <1>1, <2>1
<1>6. CASE ServerFails
  BY <1>1, <1>2, <1>6 DEF ServerFails
<1>7. CASE peer' = peer /\ ~ServerCloses
  <2>1. conn[e] = "closed"
    BY <1>3, <1>7, Connections
  <2>2. e <= n
    BY <1>2, <2>1
  <2>3. conn[d] # "failed"
    BY <1>1, <1>7, <2>1 DEF IInv, StuckInv
  <2>4. conn[d] = "open"
    BY <1>1, <1>2, <1>7, <2>3 DEF IInv, ServerInv
  <2>5. d < n
    BY <1>1, <1>2, <2>2
  <2> QED BY <2>4, <2>5 DEF IInv, ScriptInv, Over
<1> QED
  BY <1>4, <1>5, <1>6, <1>7 DEF Next, Script, Client, Server, Done, vars, servers, StartServer,
     PidofServer, StartCapture, Sleep, Kill, ClientStarts, ClientReceives, ClientPassesOver,
     ClientTimesOut, ClientFails, ServerListens, ServerPassesOver, ServerTimesOut,
     CaptureStarts, CaptureEnds

\* what a packet of connection d in the capture of c tells
Foreign(c, d) ==
    /\ conn[d] # "none"
    /\ d <= c + 1
    /\ d < c => Lost(d) /\ \A e \in c..N_TIMES : conn[e] # "closed"

LEMMA Connection ==
  ASSUME TypeOK, NEW c \in Conns, NEW k \in 1..Len(file[c])
  PROVE  file[c][k] \in Packets /\ file[c][k][1] \in Conns
<1>1. file[c] \in Seq(Packets)
  BY DEF TypeOK
<1>2. file[c][k] \in Packets
  BY <1>1, Queue
<1> QED BY <1>2 DEF Packets

\* it goes on to be so, and a connection does not close that the capture has the next of
LEMMA ForeignStays ==
  ASSUME IInv, Next, NEW c \in Conns, NEW d \in Conns, Foreign(c, d)
  PROVE  /\ Foreign(c, d)'
         /\ d = c + 1 /\ conn'[c] = "closed" => conn[c] = "closed"
<1>1. conn'[d] # "none"
  BY Connections DEF Foreign
<1>2. ASSUME d < c PROVE Lost(d)' /\ \A e \in c..N_TIMES : conn'[e] # "closed"
  <2>1. Lost(d)' /\ ~ServerCloses
    BY <1>2, LostStays DEF Foreign
  <2>2. \A e \in c..N_TIMES : e \in Conns
    BY Numbers DEF Conns
  <2> QED BY <1>2, <2>1, <2>2, Connections DEF Foreign
<1>3. ASSUME d = c + 1, conn'[c] = "closed", conn[c] # "closed" PROVE FALSE
  <2>1. c = n
    BY <1>3, Connections
  <2>2. d > n
    BY <1>3, <2>1, Numbers
  <2> QED BY <2>2 DEF Foreign, IInv, ScriptInv
<1> QED BY <1>1, <1>2, <1>3 DEF Foreign

\* and is so of a datagram that is captured now
LEMMA ForeignNow ==
  ASSUME IInv, Next, NEW p \in Packets, Writes(p),
         NEW c \in Conns, dump[c] \in {"capturing", "stopping"}
  PROVE  /\ p[1] \in Conns /\ Foreign(c, p[1])'
         /\ conn'[c] = "closed" => p[1] = c + 1
<1>1. /\ TypeOK /\ DumpInv /\ n \in Conns /\ Conns \subseteq Nat /\ p[1] \in Conns
      /\ UNCHANGED <<n, dump>> /\ Capture(p)
  BY Numbers DEF IInv, TypeOK, Writes, Packets
<1>2. c = n \/ c + 1 = n
  BY <1>1, Captured
<1>3. CASE FromOpen(p)
  <2>1. p[1] = n /\ conn'[n] = "open"
    BY <1>3 DEF FromOpen
  <2>2. n <= c + 1 /\ ~(n < c)
    BY <1>1, <1>2
  <2> QED BY <1>1, <1>2, <2>1, <2>2 DEF Foreign
<1>4. CASE FromLost(p)
  <2>1. /\ p[1] = peer /\ peer <= n /\ conn[peer] = "failed"
        /\ UNCHANGED <<conn, peer, server>>
    BY <1>4 DEF FromLost
  <2>2. peer \in Conns /\ peer <= c + 1
    <3>1. peer \in Conns /\ peer \in Nat /\ n \in Nat /\ c \in Nat
      BY <1>1, <2>1
    <3> QED BY <1>2, <2>1, <3>1
  <2>3. \A e \in Conns : e > peer => conn[e] # "closed"
    BY <2>1, <2>2 DEF IInv, StuckInv
  <2>4. \A e \in c..N_TIMES : e \in Conns /\ e >= c /\ e \in Nat
    BY Numbers DEF Conns
  <2>5. peer < c => \A e \in c..N_TIMES : conn[e] # "closed"
    BY <1>1, <2>2, <2>3, <2>4
  <2>6. Lost(peer)
    BY <2>1 DEF Lost
  <2>7. Foreign(c, p[1])'
    <3>1. conn'[p[1]] = "failed" /\ p[1] <= c + 1
      BY <2>1, <2>2
    <3>2. p[1] < c => Lost(p[1])' /\ \A e \in c..N_TIMES : conn'[e] # "closed"
      BY <2>1, <2>5, <2>6 DEF Lost
    <3> QED BY <3>1, <3>2 DEF Foreign
  <2>8. conn[c] = "closed" => peer = c + 1
    <3>1. conn[c] = "closed" => ~(c > peer) /\ peer # c
      BY <2>1, <2>3
    <3> QED BY <1>1, <2>2, <3>1
  <2> QED BY <1>1, <2>1, <2>7, <2>8
<1> QED BY <1>3, <1>4 DEF Writes

\* what a capture has is what it had, or the datagram that is captured now
LEMMA Growth ==
  ASSUME IInv, Next, NEW c \in Conns
  PROVE  \/ file'[c] = file[c]
         \/ \E p \in Packets :
              /\ Writes(p) /\ dump[c] \in {"capturing", "stopping"}
              /\ Len(file'[c]) = Len(file[c]) + 1 /\ Len(file[c]) \in Nat
              /\ file'[c][Len(file[c]) + 1] = p
              /\ \A k \in 1..Len(file[c]) : file'[c][k] = file[c][k]
<1>0. TypeOK /\ DumpInv
  BY DEF IInv
<1>1. CASE file' = file
  BY <1>1
<1>2. ASSUME NEW p \in Packets, Writes(p), dump[c] \in {"capturing", "stopping"}
      PROVE  /\ Len(file'[c]) = Len(file[c]) + 1 /\ Len(file[c]) \in Nat
             /\ file'[c][Len(file[c]) + 1] = p
             /\ \A k \in 1..Len(file[c]) : file'[c][k] = file[c][k]
  <2>1. Capture(p)
    BY <1>2 DEF Writes
  <2>2. file[c] \in Seq(Packets)
    BY <1>0 DEF TypeOK
  <2> QED BY <1>0, <1>2, <2>1, <2>2, Captured, Queue
<1>3. CASE \E p \in Packets : Writes(p) /\ dump[c] \notin {"capturing", "stopping"}
  BY <1>0, <1>3, Captured DEF Writes
<1> QED BY <1>1, <1>2, <1>3, Written

LEMMA ForeignStep == ASSUME IInv, Next PROVE ForeignInv'
<1>0. TypeOK /\ TypeOK' /\ ForeignInv
  BY TypeStep DEF IInv
<1>1. SUFFICES ASSUME NEW c \in Conns, NEW k \in 1..Len(file'[c]), NEW d, d = file'[c][k][1]
               PROVE  /\ Foreign(c, d)'
                      /\ d = c + 1 /\ conn'[c] = "closed" =>
                           \A m \in 1..Len(file'[c]) : m > k => file'[c][m][1] = d
  BY DEF ForeignInv, Foreign
<1>2. ASSUME k \in 1..Len(file[c]), file'[c][k] = file[c][k]
      PROVE  /\ d \in Conns /\ Foreign(c, d)'
             /\ d = c + 1 /\ conn'[c] = "closed" =>
                  \A m \in 1..Len(file[c]) : m > k => file[c][m][1] = d
  <2>1. d \in Conns /\ d = file[c][k][1]
    BY <1>0, <1>1, <1>2, Connection
  <2>2. /\ Foreign(c, d)
        /\ d = c + 1 /\ conn[c] = "closed" =>
             \A m \in 1..Len(file[c]) : m > k => file[c][m][1] = d
    BY <1>0, <1>2, <2>1 DEF ForeignInv, Foreign
  <2> QED BY <2>1, <2>2, ForeignStays
<1>3. CASE file'[c] = file[c]
  BY <1>1, <1>2, <1>3
<1>4. ASSUME NEW p \in Packets, Writes(p), dump[c] \in {"capturing", "stopping"},
             Len(file'[c]) = Len(file[c]) + 1, Len(file[c]) \in Nat,
             file'[c][Len(file[c]) + 1] = p,
             \A j \in 1..Len(file[c]) : file'[c][j] = file[c][j]
      PROVE  /\ Foreign(c, d)'
             /\ d = c + 1 /\ conn'[c] = "closed" =>
                  \A m \in 1..Len(file'[c]) : m > k => file'[c][m][1] = d
  <2>1. /\ Foreign(c, p[1])'
        /\ conn'[c] = "closed" => p[1] = c + 1
    BY <1>4, ForeignNow
  <2>2. CASE k = Len(file[c]) + 1
    <3>1. d = p[1]
      BY <1>1, <1>4, <2>2
    <3>2. \A m \in 1..Len(file'[c]) : ~(m > k)
      BY <1>4, <2>2
    <3> QED BY <2>1, <3>1, <3>2
  <2>3. CASE k \in 1..Len(file[c])
    <3>1. /\ Foreign(c, d)'
          /\ d = c + 1 /\ conn'[c] = "closed" =>
               \A m \in 1..Len(file[c]) : m > k => file[c][m][1] = d
      BY <1>2, <1>4, <2>3
    <3>2. ASSUME d = c + 1, conn'[c] = "closed", NEW m \in 1..Len(file'[c]), m > k
          PROVE  file'[c][m][1] = d
      <4>1. m \in 1..Len(file[c]) \/ m = Len(file[c]) + 1
        BY <1>4
      <4>2. CASE m \in 1..Len(file[c])
        BY <1>4, <3>1, <3>2, <4>2
      <4>3. CASE m = Len(file[c]) + 1
        BY <1>4, <2>1, <3>2, <4>3
      <4> QED BY <4>1, <4>2, <4>3
    <3> QED BY <3>1, <3>2
  <2> QED BY <1>1, <1>4, <2>2, <2>3
<1> QED BY <1>3, <1>4, Growth

\* the tcpdump of an open connection runs, unless it comes late
LEMMA Captures ==
  ASSUME IInv, \/ conn[n] = "open" /\ n \notin late
               \/ ClientStarts /\ n \notin late'
  PROVE  dump[n] = "capturing"
<1>1. n \in Conns /\ DumpInv /\ ScriptInv /\ TypeOK
  BY DEF IInv, TypeOK
<1>2. CASE conn[n] = "open" /\ n \notin late
  <2>1. pc \in {"client", "sleep"}
    BY <1>1, <1>2 DEF TypeOK, ScriptInv, Over
  <2> QED BY <1>1, <1>2, <2>1 DEF DumpInv
<1>3. CASE ClientStarts /\ n \notin late'
  <2>1. pc = "client" /\ late' = IF dump[n] = "starting" THEN late \cup {n} ELSE late
    BY <1>3 DEF ClientStarts
  <2>2. dump[n] # "starting"
    BY <1>3, <2>1
  <2> QED BY <1>1, <2>1, <2>2 DEF DumpInv
<1> QED BY <1>2, <1>3

\* connections that come late do so from their start
LEMMA Late ==
  ASSUME IInv, Next, NEW c \in Conns
  PROVE  /\ c \in late => c \in late'
         /\ conn[c] # "none" /\ c \in late' => c \in late
<1>1. CASE late' = late
  BY <1>1
<1>2. CASE ClientStarts
  BY <1>2 DEF ClientStarts
<1> QED
  BY <1>1, <1>2 DEF Next, Script, Client, Server, Done, vars, clients, StartServer,
     PidofServer, StartCapture, Sleep, Kill, ClientReceives, ClientPassesOver, ClientTimesOut,
     ClientFails, ServerListens, ServerFails, ServerReceives, ServerPassesOver, ServerTimesOut,
     ServerCloses, CaptureStarts, CaptureEnds

\* time-outs are only ever counted
LEMMA OnlyCounted ==
  ASSUME IInv, Next, NEW c \in Conns
  PROVE  /\ timeouts'[c] = 0 => timeouts[c] = 0
         /\ ClientTimesOut => timeouts'[n] > 0
         /\ ServerTimesOut => timeouts'[peer] > 0
<1>0. TypeOK /\ n \in Conns /\ timeouts \in [Conns -> 0..MaxTimeouts] /\ MaxTimeouts \in Nat
  BY TimeoutsAssumption DEF IInv, TypeOK
<1>1. CASE ClientTimesOut
  <2>1. TimeOut(n)
    BY <1>1 DEF ClientTimesOut
  <2>2. ~ServerTimesOut \/ peer = n \/ peer # n
    OBVIOUS
  <2>3. timeouts'[n] > 0 /\ \A d \in Conns : d # n => timeouts'[d] = timeouts[d]
    BY <1>0, <2>1, TimeOutCounts
  <2>4. ServerTimesOut => timeouts'[peer] > 0
    <3>1. ServerTimesOut => TimeOut(peer) /\ peer \in Conns
      BY <1>0 DEF ServerTimesOut, TypeOK
    <3> QED BY <1>0, <3>1, TimeOutCounts
  <2>5. timeouts'[c] = 0 => timeouts[c] = 0
    <3>1. c = n => timeouts'[c] # 0
      BY <2>3
    <3> QED BY <2>3, <3>1
  <2> QED BY <2>3, <2>4, <2>5
<1>2. CASE ServerTimesOut
  <2>1. TimeOut(peer) /\ peer \in Conns
    BY <1>0, <1>2 DEF ServerTimesOut, TypeOK
  <2>3. timeouts'[peer] > 0 /\ \A d \in Conns : d # peer => timeouts'[d] = timeouts[d]
    BY <1>0, <2>1, TimeOutCounts
  <2>4. ClientTimesOut => timeouts'[n] > 0
    <3>1. ClientTimesOut => TimeOut(n)
      BY DEF ClientTimesOut
    <3> QED BY <1>0, <3>1, TimeOutCounts
  <2>5. timeouts'[c] = 0 => timeouts[c] = 0
    <3>1. c = peer => timeouts'[c] # 0
      BY <2>3
    <3> QED BY <2>3, <3>1
  <2> QED BY <2>3, <2>4, <2>5
<1>3. CASE ~ClientTimesOut /\ ~ServerTimesOut
  <2>1. timeouts' = timeouts
    BY <1>3 DEF Next, Script, Client, Server, Done, vars, wire, StartServer, PidofServer,
       StartCapture, Sleep, Kill, ClientStarts, ClientReceives, ClientPassesOver, ClientFails,
       ServerListens, ServerFails, ServerReceives, ServerPassesOver, ServerCloses,
       CaptureStarts, CaptureEnds
  <2> QED BY <1>3, <2>1
<1> QED BY <1>1, <1>2, <1>3

LEMMA QuietClosedStep == ASSUME IInv, Next PROVE QuietClosedInv'
<1>1. SUFFICES ASSUME NEW c \in Conns, conn'[c] = "closed", timeouts'[c] = 0
               PROVE  \E m \in 0..Alert :
                        /\ m <= Len(file'[c])
                        /\ c \in late' <=> m < Alert
                        /\ \A k \in 1..m : file'[c][k] = <<c, Alert - m + k>>
                        /\ \A k \in m + 1..Len(file'[c]) : file'[c][k][1] = c + 1
  BY DEF QuietClosedInv
<1>2. timeouts[c] = 0
  BY <1>1, OnlyCounted
<1>3. CASE conn[c] = "closed"
  <2>1. PICK m \in 0..Alert :
          /\ m <= Len(file[c])
          /\ c \in late <=> m < Alert
          /\ \A k \in 1..m : file[c][k] = <<c, Alert - m + k>>
          /\ \A k \in m + 1..Len(file[c]) : file[c][k][1] = c + 1
    BY <1>2, <1>3 DEF IInv, QuietClosedInv
  <2>2. c \in late' <=> c \in late
    BY <1>3, Late
  <2> DEFINE Goal == /\ m <= Len(file'[c])
                     /\ \A k \in 1..m : file'[c][k] = <<c, Alert - m + k>>
                     /\ \A k \in m + 1..Len(file'[c]) : file'[c][k][1] = c + 1
  <2>3. ASSUME file'[c] = file[c] PROVE Goal
    BY <2>1, <2>3
  <2>4. ASSUME file'[c] # file[c] PROVE Goal
    <3>0. PICK p \in Packets :
            /\ Writes(p) /\ dump[c] \in {"capturing", "stopping"}
            /\ Len(file'[c]) = Len(file[c]) + 1 /\ Len(file[c]) \in Nat
            /\ file'[c][Len(file[c]) + 1] = p
            /\ \A k \in 1..Len(file[c]) : file'[c][k] = file[c][k]
      BY <2>4, Growth
    <3>1. p[1] = c + 1
      BY <1>1, <3>0, ForeignNow
    <3>2. m \in Nat /\ \A k \in 1..m : k \in 1..Len(file[c])
      BY <2>1, <3>0, Numbers
    <3>3. \A k \in m + 1..Len(file'[c]) :
            k = Len(file[c]) + 1 \/ (k \in m + 1..Len(file[c]) /\ k \in 1..Len(file[c]))
      BY <3>0, <3>2
    <3>4. m <= Len(file'[c])
      BY <2>1, <3>0, <3>2
    <3>5. ASSUME NEW k \in 1..m PROVE file'[c][k] = <<c, Alert - m + k>>
      <4>1. k \in 1..Len(file[c])
        BY <3>2
      <4>2. file'[c][k] = file[c][k]
        BY <3>0, <4>1
      <4>3. file[c][k] = <<c, Alert - m + k>>
        BY <2>1
      <4> QED BY <4>2, <4>3
    <3>6. ASSUME NEW k \in m + 1..Len(file'[c]) PROVE file'[c][k][1] = c + 1
      <4>1. CASE k = Len(file[c]) + 1
        BY <3>0, <3>1, <4>1
      <4>2. CASE k \in m + 1..Len(file[c]) /\ k \in 1..Len(file[c])
        <5>1. file'[c][k] = file[c][k]
          BY <3>0, <4>2
        <5>2. file[c][k][1] = c + 1
          BY <2>1, <4>2
        <5> QED BY <5>1, <5>2
      <4> QED BY <3>3, <4>1, <4>2
    <3> QED BY <3>4, <3>5, <3>6
  <2>5. Goal
    <3> HIDE DEF Goal
    <3> QED BY <2>3, <2>4
  <2>6. c \in late' <=> m < Alert
    BY <2>1, <2>2
  <2> QED BY <2>5, <2>6
<1>4. CASE conn[c] # "closed"
  <2>1. ServerCloses /\ c = n
    BY <1>1, <1>4, Connections
  <2>2. /\ peer = n /\ conn[n] = "open" /\ atClient = Alert /\ Len(toServer) > 0
        /\ server = "listening" /\ UNCHANGED <<file, late>>
    BY <2>1, Goodbye DEF ServerCloses
  <2>3. QuietOpenInv /\ TypeOK /\ Len(toServer) \in Nat /\ Len(file[n]) \in Nat
    <3>1. TypeOK /\ QuietOpenInv
      BY DEF IInv
    <3>2. file[n] \in Seq(Packets)
      BY <3>1 DEF TypeOK
    <3> QED BY <3>1, <3>2, Heads, Queue
  <2>4. /\ Len(file[n]) <= Sent
        /\ n \in late <=> Len(file[n]) < Sent
        /\ \A k \in 1..Len(file[n]) : file[n][k] = <<n, Sent - Len(file[n]) + k>>
        /\ \/ Len(toServer) = 0
           \/ atServer = atClient - 1
    BY <1>2, <2>1, <2>2, <2>3 DEF QuietOpenInv, Quiet, Latest, OneOnTheWire
  <2>5. Sent = Alert
    BY <2>2, <2>3, <2>4, Numbers DEF Sent, TypeOK
  <2> DEFINE m == Len(file[n])
  <2>6. m \in 0..Alert
    BY <2>3, <2>4, <2>5, Numbers
  <2>7. \A k \in m + 1..Len(file[n]) : FALSE
    BY <2>3
  <2>8. /\ m <= Len(file'[c])
        /\ c \in late' <=> m < Alert
        /\ \A k \in 1..m : file'[c][k] = <<c, Alert - m + k>>
        /\ \A k \in m + 1..Len(file'[c]) : file'[c][k][1] = c + 1
    BY <2>1, <2>2, <2>3, <2>4, <2>5, <2>7
  <2> QED BY <2>6, <2>8
<1> QED BY <1>3, <1>4

\* before a client starts, its capture has what is sent to a client that failed
LEMMA Before ==
  ASSUME IInv, conn[n] = "none", NEW k \in 1..Len(file[n])
  PROVE  file[n][k][1] < n /\ Lost(file[n][k][1])
<1>1. n \in Conns /\ TypeOK /\ ForeignInv /\ ScriptInv
  BY DEF IInv, TypeOK
<1>2. PICK d \in Conns : d = file[n][k][1]
  BY <1>1, Connection
<1>3. conn[d] # "none" /\ (d < n => Lost(d))
  BY <1>1, <1>2 DEF ForeignInv
<1>4. d < n
  <2>1. d # n /\ ~(d > n)
    BY <1>1, <1>3 DEF ScriptInv
  <2> QED BY <1>1, <2>1, Numbers
<1> QED BY <1>2, <1>3, <1>4

\* the capture of an open connection grows with every datagram
LEMMA Grown ==
  ASSUME IInv, NEW p \in Packets, Capture(p), dump[n] = "capturing"
  PROVE  Len(file'[n]) = Len(file[n]) + 1 /\ Len(file[n]) \in Nat
<1>1. TypeOK /\ DumpInv /\ n \in Conns
  BY DEF IInv, TypeOK
<1>2. file[n] \in Seq(Packets)
  BY <1>1 DEF TypeOK
<1> QED BY <1>1, <1>2, Captured, Queue

\* what the captures of connections that are not late have on record
Recorded(c) ==
    /\ conn[c] = "closed" => Len(file[c]) >= Alert
    /\ conn[c] = "open" =>
         Len(file[c]) >= atClient /\ (peer = c => Len(file[c]) >= atServer)

LEMMA RecordedStep ==
  ASSUME IInv, Next, NEW c \in Conns, c \notin late'
  PROVE  Recorded(c)'
<1>0. /\ TypeOK /\ n \in Conns /\ Conns \subseteq Nat /\ Alert \in Nat /\ 0 \notin Conns
      /\ atClient \in Nat /\ atServer \in Nat
  <2>1. TypeOK
    BY DEF IInv
  <2>2. Conns \subseteq Nat /\ Alert \in Nat /\ Flights \in Nat /\ 0 \notin Conns
    BY Numbers
  <2>3. n \in Conns /\ atClient \in 0..Alert /\ atServer \in 0..Flights
    BY <2>1 DEF TypeOK
  <2> QED BY <2>1, <2>2, <2>3
<1>1. c \notin late /\ Recorded(c)
  BY Late DEF IInv, WholeInv, Recorded
<1>2. /\ Len(file[c]) \in Nat /\ Len(file'[c]) \in Nat /\ Len(file'[c]) >= Len(file[c])
  <2>1. file[c] \in Seq(Packets)
    BY <1>0 DEF TypeOK
  <2>2. Len(file[c]) \in Nat
    BY <2>1, Queue
  <2>3. CASE file'[c] = file[c]
    BY <2>2, <2>3
  <2>4. CASE file'[c] # file[c]
    <3>1. Len(file'[c]) = Len(file[c]) + 1
      BY <2>4, Growth
    <3> QED BY <2>2, <3>1
  <2> QED BY <2>3, <2>4
<1>3. ASSUME conn'[c] = "closed" PROVE Len(file'[c]) >= Alert
  <2>1. CASE conn[c] = "closed"
    BY <1>0, <1>1, <1>2, <2>1 DEF Recorded
  <2>2. CASE conn[c] # "closed"
    <3>1. ServerCloses /\ c = n
      BY <1>3, <2>2, Connections
    <3>2. conn[n] = "open" /\ atClient = Alert
      BY <3>1, Goodbye
    <3> QED BY <1>0, <1>1, <1>2, <3>1, <3>2 DEF Recorded
  <2> QED BY <2>1, <2>2
<1>4. ASSUME conn'[c] = "open"
      PROVE  Len(file'[c]) >= atClient' /\ (peer' = c => Len(file'[c]) >= atServer')
  <2>1. CASE ClientStarts
    <3>1. /\ atClient' = 1 /\ peer' = peer /\ ClientSends(1) /\ 1 \in 1..Alert
          /\ conn[n] = "none" /\ conn' = [conn EXCEPT ![n] = "open"]
      BY <1>0, <2>1, Numbers DEF ClientStarts, servers
    <3>2. c = n
      <4>1. c # n => conn[c] = "open"
        BY <1>0, <1>4, <3>1 DEF TypeOK
      <4>2. ~(c < n) \/ conn[c] # "open"
        BY DEF IInv, ScriptInv, Over
      <4>3. ~(c > n) \/ conn[c] # "open"
        BY DEF IInv, ScriptInv
      <4> QED BY <1>0, <4>1, <4>2, <4>3
    <3>3. dump[n] = "capturing"
      BY <2>1, <3>2, Captures
    <3>4. Len(file'[n]) = Len(file[n]) + 1 /\ Len(file[n]) \in Nat
      BY <1>0, <3>1, <3>3, ClientSendsFacts, Grown
    <3>5. peer # n
      BY <1>0, <3>1 DEF IInv, ServerInv
    <3> QED BY <3>1, <3>2, <3>4, <3>5
  <2>2. ASSUME conn[c] = "open"
        PROVE  /\ c = n /\ dump[n] = "capturing" /\ Len(file[c]) >= atClient
               /\ peer = c => Len(file[c]) >= atServer
    <3>1. c = n
      <4>1. ~(c < n) /\ ~(c > n)
        BY <2>2 DEF IInv, ScriptInv, Over
      <4> QED BY <1>0, <4>1
    <3> QED BY <1>1, <2>2, <3>1, Captures DEF Recorded
  <2>3. CASE ClientReceives
    <3>1. /\ conn' = conn /\ conn[n] = "open" /\ toClient # <<>> /\ UNCHANGED <<peer, atServer>>
          /\ atClient' = atClient + 2 /\ ClientSends(atClient + 2)
          /\ Head(toClient) = atClient + 1
      BY <2>3 DEF ClientReceives, ClientWaits, servers
    <3>2. atClient + 2 \in 1..Alert /\ atClient + 1 <= atServer
      BY <3>1, NextFlights
    <3>3. peer = n
      BY <1>0, <3>1, Heads DEF IInv, FlightsInv
    <3>4. c = n /\ dump[n] = "capturing" /\ Len(file[c]) >= atServer
      BY <1>4, <2>2, <3>1, <3>3
    <3>5. Len(file'[c]) = Len(file[c]) + 1
      BY <1>0, <3>1, <3>2, <3>4, ClientSendsFacts, Grown
    <3> QED BY <1>0, <1>2, <3>1, <3>2, <3>4, <3>5
  <2>4. CASE ServerReceives
    <3>1. /\ conn' = conn /\ toServer # <<>> /\ UNCHANGED atClient
          /\ atServer' = atServer + 2 /\ ServerSends(n, atServer + 2)
          /\ Head(toServer) = atServer + 1 /\ Head(toServer) # Alert
      BY <2>4 DEF ServerReceives, clients
    <3>2. atServer + 2 \in 1..Flights /\ atServer + 1 <= atClient
      BY <3>1, NextFlights
    <3>3. c = n /\ dump[n] = "capturing" /\ Len(file[c]) >= atClient
      BY <1>4, <2>2, <3>1
    <3>4. Len(file'[c]) = Len(file[c]) + 1
      BY <1>0, <3>1, <3>2, <3>3, ServerSendsFacts, Grown
    <3> QED BY <1>0, <1>2, <3>1, <3>2, <3>3, <3>4
  <2>5. CASE /\ UNCHANGED <<atClient, atServer>> /\ (peer' = peer \/ peer' = 0)
             /\ ~ClientStarts
    <3>1. conn[c] = "open"
      BY <1>4, <2>5, Connections
    <3>2. Len(file[c]) >= atClient /\ (peer = c => Len(file[c]) >= atServer)
      BY <1>1, <3>1 DEF Recorded
    <3> QED BY <1>0, <1>2, <2>5, <3>2
  <2>6. CASE ServerCloses
    <3>1. c # n
      BY <1>0, <1>4, <2>6, Goodbye DEF ServerCloses, TypeOK
    <3>2. conn[c] = "open"
      BY <1>4, <2>6, <3>1, Connections
    <3> QED BY <2>2, <3>1, <3>2
  <2> QED
    BY <2>1, <2>3, <2>4, <2>5, <2>6 DEF Next, Script, Client, Server, Done, vars, servers,
       clients, StartServer, PidofServer, StartCapture, Sleep, Kill, ClientPassesOver,
       ClientTimesOut, ClientFails, ServerListens, ServerFails, ServerPassesOver,
       ServerTimesOut, CaptureStarts, CaptureEnds
<1> QED BY <1>3, <1>4 DEF Recorded

LEMMA WholeStep == ASSUME IInv, Next PROVE WholeInv'
<1>0. /\ TypeOK /\ n \in Conns /\ Conns \subseteq Nat /\ Alert \in Nat /\ Alert = Flights + 1
      /\ Flights \in Nat
  BY Numbers DEF IInv, TypeOK
<1>1. SUFFICES ASSUME NEW c \in Conns, c \notin late', conn'[c] \in {"open", "closed"},
                      NEW k \in 1..Flights, k <= Len(file'[c])
               PROVE  file'[c][k][1] < c \/ file'[c][k] \in Handshake(c)
  BY RecordedStep DEF WholeInv, Recorded, Handshake
<1>2. c \notin late
  BY <1>1, Late
<1>3. Len(file[c]) \in Nat
  <2>1. file[c] \in Seq(Packets)
    BY <1>0 DEF TypeOK
  <2> QED BY <2>1, Queue
<1>4. conn[c] \in {"open", "closed"} \/ (c = n /\ conn[n] = "none")
  BY <1>1, Connections, Goodbye DEF ClientStarts
<1>5. ASSUME k <= Len(file[c]) PROVE file[c][k][1] < c \/ file[c][k] \in Handshake(c)
  <2>1. CASE conn[c] \in {"open", "closed"}
    BY <1>2, <1>5, <2>1 DEF IInv, WholeInv
  <2>2. CASE c = n /\ conn[n] = "none"
    <3>1. k \in 1..Len(file[n])
      BY <1>3, <1>5, <2>2
    <3> QED BY <2>2, <3>1, Before
  <2> QED BY <1>4, <2>1, <2>2
<1>6. CASE file'[c] = file[c]
  BY <1>1, <1>5, <1>6
<1>7. CASE file'[c] # file[c]
  <2>0. PICK p \in Packets :
          /\ Writes(p) /\ dump[c] \in {"capturing", "stopping"}
          /\ Len(file'[c]) = Len(file[c]) + 1 /\ Len(file[c]) \in Nat
          /\ file'[c][Len(file[c]) + 1] = p
          /\ \A j \in 1..Len(file[c]) : file'[c][j] = file[c][j]
    BY <1>7, Growth
  <2>1. k \in 1..Len(file[c]) \/ k = Len(file[c]) + 1
    BY <1>1, <2>0
  <2>2. CASE k \in 1..Len(file[c])
    <3>1. file'[c][k] = file[c][k] /\ k <= Len(file[c])
      BY <2>0, <2>2
    <3> QED BY <1>5, <3>1
  <2>3. CASE k = Len(file[c]) + 1
    <3>1. file'[c][k] = p /\ Len(file[c]) < Flights
      BY <1>0, <2>0, <2>3
    <3>2. p[1] \in Conns /\ p[2] \in 1..Alert /\ p = <<p[1], p[2]>>
      BY DEF Packets
    <3>3. conn[c] # "closed" /\ (conn[c] = "open" /\ peer = c => ~(atServer >= Flights))
      <4>1. Recorded(c)
        BY <1>2 DEF IInv, WholeInv, Recorded
      <4> QED BY <1>0, <1>3, <3>1, <4>1 DEF Recorded, TypeOK
    <3>4. c = n
      <4>1. conn[c] = "open" => ~(c < n) /\ ~(c > n)
        BY DEF IInv, ScriptInv, Over
      <4> QED BY <1>0, <1>4, <3>3, <4>1
    <3>5. CASE FromOpen(p)
      <4>1. p[1] = c /\ (p[2] = Alert => peer = c /\ conn[c] = "open" /\ atServer >= Flights)
        BY <3>4, <3>5 DEF FromOpen
      <4>2. p[2] # Alert
        BY <3>3, <4>1
      <4>3. p[2] \in 1..Flights
        BY <1>0, <3>2, <4>2
      <4> QED BY <3>1, <3>2, <4>1, <4>3 DEF Handshake
    <3>6. CASE FromLost(p)
      <4>1. p[1] = peer /\ peer <= n /\ conn[peer] = "failed" /\ peer \in Conns
        BY <3>6 DEF FromLost
      <4>2. peer # n
        BY <1>4, <3>4, <4>1
      <4>3. peer < n
        BY <1>0, <4>1, <4>2
      <4> QED BY <3>1, <3>4, <4>1, <4>3
    <3> QED BY <2>0, <3>5, <3>6 DEF Writes
  <2> QED BY <2>1, <2>2, <2>3
<1> QED BY <1>6, <1>7

\* the next flight, sent once, is the last in the capture
LEMMA NextIsLast ==
  ASSUME IInv, Latest, conn[n] = "open", Sent \in Nat, Sent' = Sent + 1,
         Capture(<<n, Sent + 1>>), <<n, Sent + 1>> \in Packets, UNCHANGED <<n, late>>
  PROVE  Latest'
<1>0. /\ TypeOK /\ DumpInv /\ n \in Conns /\ Len(file[n]) \in Nat
      /\ dump[n] \in {"starting", "capturing"} /\ (n \notin late => dump[n] = "capturing")
  <2>1. TypeOK /\ DumpInv /\ ScriptInv /\ n \in Conns
    BY DEF IInv, TypeOK
  <2>2. file[n] \in Seq(Packets)
    BY <2>1 DEF TypeOK
  <2>3. pc \in {"client", "sleep"}
    BY <2>1 DEF TypeOK, ScriptInv, Over
  <2> QED BY <2>1, <2>2, <2>3, Queue, Captures DEF DumpInv
<1>1. CASE dump[n] = "starting"
  <2>1. file'[n] = file[n] /\ Len(file[n]) = 0 /\ n \in late
    BY <1>0, <1>1, Captured DEF DumpInv
  <2>2. Len(file'[n']) = 0 /\ Len(file'[n']) < Sent'
    BY <2>1
  <2> QED BY <2>1, <2>2 DEF Latest
<1>2. CASE dump[n] = "capturing"
  <2>1. /\ Len(file'[n]) = Len(file[n]) + 1
        /\ file'[n][Len(file[n]) + 1] = <<n, Sent + 1>>
        /\ \A k \in 1..Len(file[n]) : file'[n][k] = file[n][k]
    BY <1>0, <1>2, Captured
  <2>2. /\ Len(file[n]) <= Sent
        /\ n \in late <=> Len(file[n]) < Sent
    BY DEF Latest
  <2>3. ASSUME NEW k \in 1..Len(file'[n]) PROVE file'[n][k] = <<n, Sent' - Len(file'[n]) + k>>
    <3>1. k \in 1..Len(file[n]) \/ k = Len(file[n]) + 1
      BY <1>0, <2>1
    <3>2. CASE k = Len(file[n]) + 1
      <4>1. Sent' - Len(file'[n]) + k = Sent + 1
        <5>1. Sent \in Nat /\ Len(file[n]) \in Nat /\ Sent' = Sent + 1
          BY <1>0
        <5>2. Len(file'[n]) = Len(file[n]) + 1 /\ k = Len(file[n]) + 1
          BY <2>1, <3>2
        <5>3. Len(file'[n]) \in Int /\ k \in Int /\ Sent' \in Int /\ Len(file'[n]) = k
          BY <5>1, <5>2
        <5>4. Sent' - Len(file'[n]) + k = Sent'
          BY <5>3
        <5> QED BY <5>1, <5>4
      <4>2. file'[n][k] = <<n, Sent + 1>>
        BY <2>1, <3>2
      <4> QED BY <4>1, <4>2
    <3>3. CASE k \in 1..Len(file[n])
      <4>1. Sent' - Len(file'[n]) + k = Sent - Len(file[n]) + k
        BY <1>0, <2>1, <3>3
      <4>2. file[n][k] = <<n, Sent - Len(file[n]) + k>>
        BY <3>3 DEF Latest
      <4>3. file'[n][k] = file[n][k]
        BY <2>1, <3>3
      <4> QED BY <4>1, <4>2, <4>3
    <3> QED BY <3>1, <3>2, <3>3
  <2>4. /\ Len(file'[n]) <= Sent'
        /\ n \in late' <=> Len(file'[n]) < Sent'
    BY <1>0, <2>1, <2>2
  <2>5. n' = n
    OBVIOUS
  <2> QED BY <2>3, <2>4, <2>5 DEF Latest
<1> QED BY <1>0, <1>1, <1>2

\* a connection that is quiet after a step begins with it or was so before
LEMMA QuietBefore ==
  ASSUME IInv, Next, Quiet', ~ClientStarts
  PROVE  /\ n' = n /\ Quiet /\ Latest /\ OneOnTheWire
         /\ ~ClientTimesOut /\ ~ServerTimesOut /\ ~ServerFails /\ ~ServerCloses /\ ~ClientFails
<1>0. /\ TypeOK /\ n \in Conns /\ Conns \subseteq Nat /\ 0 \notin Conns
      /\ conn'[n'] = "open" /\ timeouts'[n'] = 0 /\ peer' \in {0, n'} /\ server' # "gone"
  BY Numbers DEF IInv, TypeOK, Quiet
<1>1. n' = n
  <2>1. CASE Kill
    <3>1. n' = n \/ n' = n + 1
      BY <2>1 DEF Kill
    <3>2. n' \in Conns /\ conn' = conn /\ pc = "kill"
      BY <2>1, TypeStep DEF TypeOK, Kill, clients
    <3>3. n' = n + 1 => conn[n'] = "none"
      <4>1. n' = n + 1 => n' > n
        BY <1>0
      <4> QED BY <3>2, <4>1 DEF IInv, ScriptInv
    <3>4. conn[n] # "open"
      BY <3>2 DEF IInv, ScriptInv, Over
    <3> QED BY <1>0, <3>1, <3>2, <3>3, <3>4
  <2>2. CASE ~Kill
    BY <2>2 DEF Next, Script, Client, Server, Done, vars, script, StartServer, PidofServer,
       StartCapture, Sleep, Go, ClientStarts, ClientReceives, ClientPassesOver, ClientTimesOut,
       ClientFails, ServerListens, ServerFails, ServerReceives, ServerPassesOver, ServerTimesOut,
       ServerCloses, CaptureStarts, CaptureEnds
  <2> QED BY <2>1, <2>2
<1>2. conn[n] = "open"
  BY <1>0, <1>1, Connections
<1>3. timeouts[n] = 0 /\ ~ClientTimesOut
  BY <1>0, <1>1, OnlyCounted
<1>4. ~ServerFails
  BY <1>0 DEF ServerFails
<1>5. ~ServerCloses /\ ~ClientFails
  BY <1>0, <1>1, Goodbye DEF ServerCloses, ClientFails, TypeOK
<1>6. peer \in {0, n}
  <2>1. CASE ServerReceives
    BY <2>1, Arrived DEF ServerReceives
  <2>2. CASE ~ServerReceives
    <3>1. peer' = peer
      BY <1>4, <1>5, <2>2 DEF Next, Script, Client, Server, Done, vars, servers, StartServer,
         PidofServer, StartCapture, Sleep, Kill, ClientStarts, ClientReceives, ClientPassesOver,
         ClientTimesOut, ServerListens, ServerPassesOver, ServerTimesOut, CaptureStarts,
         CaptureEnds
    <3> QED BY <1>0, <1>1, <3>1
  <2> QED BY <2>1, <2>2
<1>7. ~ServerTimesOut
  <2>1. ServerTimesOut => peer # 0
    BY DEF ServerTimesOut
  <2> QED BY <1>0, <1>1, <1>6, <2>1, OnlyCounted
<1>8. server # "gone"
  <2>1. CASE StartServer
    BY <2>1 DEF StartServer, IInv, ScriptInv
  <2>2. CASE ~StartServer
    BY <1>0, <1>4, <1>5, <2>2 DEF Next, Script, Client, Server, Done, vars, servers,
       PidofServer, StartCapture, Sleep, Kill, ClientStarts, ClientReceives, ClientPassesOver,
       ClientTimesOut, ServerListens, ServerReceives, ServerPassesOver, ServerTimesOut,
       CaptureStarts, CaptureEnds
  <2> QED BY <2>1, <2>2
<1>9. Quiet
  BY <1>2, <1>3, <1>6, <1>8 DEF Quiet
<1> QED BY <1>1, <1>3, <1>4, <1>5, <1>7, <1>9 DEF IInv, QuietOpenInv

LEMMA QuietOpenStep == ASSUME IInv, Next PROVE QuietOpenInv'
<1>0. /\ TypeOK /\ n \in Conns /\ Conns \subseteq Nat /\ 0 \notin Conns
      /\ Alert \in Nat /\ Alert = Flights + 1 /\ Flights >= 2 /\ Flights \in Nat
      /\ atClient \in Nat /\ atServer \in Nat /\ Len(toServer) \in Nat /\ Len(toClient) \in Nat
      /\ Sent \in Nat
  <2>1. TypeOK
    BY DEF IInv
  <2>2. atClient \in Nat /\ atServer \in Nat /\ n \in Conns
    BY <2>1, Numbers DEF TypeOK
  <2>3. Sent \in Nat
    BY <2>2 DEF Sent
  <2> QED BY <2>1, <2>2, <2>3, Numbers, Heads
<1>1. SUFFICES ASSUME Quiet' PROVE Latest' /\ OneOnTheWire'
  BY DEF QuietOpenInv
<1>2. CASE ClientStarts
  <2>1. /\ pc = "client" /\ conn[n] = "none" /\ ClientSends(1) /\ 1 \in 1..Alert
        /\ atClient' = 1 /\ UNCHANGED <<n, server, peer, atServer, toClient, dump>>
        /\ late' = IF dump[n] = "starting" THEN late \cup {n} ELSE late
    BY <1>0, <1>2 DEF ClientStarts, script, servers
  <2>2. peer = 0 /\ atServer = 0 /\ server # "gone"
    <3>1. peer \in {0, n} /\ server # "gone"
      BY <1>1, <2>1 DEF Quiet
    <3>2. peer # n
      BY <1>0, <2>1 DEF IInv, ServerInv
    <3>3. atServer = 0
      BY <1>0, <3>1, <3>2 DEF IInv, ServerInv, TypeOK
    <3> QED BY <3>1, <3>2, <3>3
  <2>3. Len(toServer) = 0 /\ Len(toClient) = 0
    <3>1. ~(Len(toServer) > 0) /\ ~(Len(toClient) > 0)
      BY <2>1 DEF IInv, FlightsInv
    <3> QED BY <1>0, <3>1
  <2>4. Len(file[n]) = 0 /\ n \notin late
    <3>1. file[n] \in Seq(Packets)
      BY <1>0 DEF TypeOK
    <3>2. Len(file[n]) \in Nat
      BY <3>1, Queue
    <3>3. ~(1 \in 1..Len(file[n]))
      <4>1. SUFFICES ASSUME 1 \in 1..Len(file[n]) PROVE FALSE
        OBVIOUS
      <4>2. Lost(file[n][1][1]) /\ file[n][1][1] \in Conns
        BY <1>0, <2>1, <4>1, Before, Connection
      <4> QED BY <1>0, <2>2, <4>2 DEF Lost
    <3> QED BY <2>1, <3>2, <3>3 DEF IInv, ScriptInv
  <2>5. Capture(<<n, 1>>) /\ <<n, 1>> \in Packets
    BY <1>0, <2>1, ClientSendsFacts
  <2>6. Sent' = 1
    BY <2>1, <2>2 DEF Sent
  <2>7. Latest'
    <3>1. CASE dump[n] = "starting"
      <4>1. file'[n] = file[n] /\ n \in late'
        BY <1>0, <2>1, <2>5, <3>1, Captured DEF IInv
      <4>2. /\ Len(file'[n']) <= Sent' /\ Len(file'[n']) < Sent' /\ n' \in late'
            /\ \A k \in 1..Len(file'[n']) : FALSE
        BY <2>1, <2>4, <2>6, <4>1
      <4> QED BY <4>2 DEF Latest
    <3>2. CASE dump[n] # "starting"
      <4>1. dump[n] = "capturing" /\ n \notin late'
        BY <2>1, <2>4, <3>2 DEF IInv, DumpInv
      <4>2. Len(file'[n]) = 1 /\ file'[n][1] = <<n, 1>>
        <5>1. /\ Len(file'[n]) = Len(file[n]) + 1
              /\ file'[n][Len(file[n]) + 1] = <<n, 1>>
          BY <1>0, <2>5, <4>1, Captured DEF IInv
        <5> QED BY <2>4, <5>1
      <4>3. \A k \in 1..Len(file'[n]) : file'[n][k] = <<n, Sent' - Len(file'[n]) + k>>
        <5>1. ASSUME NEW k \in 1..Len(file'[n]) PROVE k = 1 /\ Sent' - Len(file'[n]) + k = 1
          BY <2>6, <4>2
        <5> QED BY <4>2, <5>1
      <4> QED BY <2>1, <2>6, <4>1, <4>2, <4>3 DEF Latest
    <3> QED BY <3>1, <3>2
  <2>8. OneOnTheWire'
    <3>1. CASE Reaches(n)
      <4>1. Len(toServer') = Len(toServer) + 1 /\ toServer'[Len(toServer) + 1] = 1
        BY <1>0, <2>1, <3>1, ClientSendsFacts
      <4>2. Len(toServer') = 1 /\ toServer'[1] = 1
        BY <2>3, <4>1
      <4> QED BY <2>1, <2>2, <2>3, <4>2 DEF OneOnTheWire
    <3>2. CASE ~Reaches(n)
      <4>1. toServer' = toServer
        BY <1>0, <2>1, <3>2, ClientSendsFacts
      <4> QED BY <2>1, <2>2, <2>3, <4>1 DEF OneOnTheWire
    <3> QED BY <3>1, <3>2
  <2> QED BY <2>7, <2>8
<1>3. ASSUME ~ClientStarts
      PROVE  /\ n' = n /\ Quiet /\ Latest /\ OneOnTheWire /\ conn[n] = "open"
             /\ ~ClientTimesOut /\ ~ServerTimesOut /\ ~ServerFails /\ ~ServerCloses /\ ~ClientFails
  BY <1>1, <1>3, QuietBefore DEF Quiet
<1>4. CASE ClientReceives
  <2>0. /\ n' = n /\ Quiet /\ Latest /\ OneOnTheWire /\ conn[n] = "open"
    BY <1>3, <1>4 DEF ClientReceives, ClientWaits, ClientStarts
  <2>1. /\ toClient # <<>> /\ UNCHANGED <<n, peer, atServer, late, server>>
        /\ atClient' = atClient + 2 /\ ClientSends(atClient + 2)
        /\ toClient' = <<>> \/ toClient' = Tail(toClient)
    BY <1>4 DEF ClientReceives, ClientWaits, servers, script, Go
  <2>2. atClient + 2 \in 1..Alert
    BY <1>4, NextFlights DEF ClientReceives, ClientWaits
  <2>3. Len(toServer) = 0 /\ atServer = atClient + 1 /\ Len(toClient) = 1
    BY <1>0, <2>0, <2>1, Heads DEF OneOnTheWire
  <2>4. peer = n /\ server = "listening" /\ Reaches(n)
    <3>1. peer = n
      BY <2>3 DEF IInv, FlightsInv
    <3> QED BY <1>0, <3>1 DEF IInv, ServerInv, Reaches
  <2>5. Sent = atClient + 1 /\ Sent' = Sent + 1
    BY <1>0, <2>1, <2>3 DEF Sent
  <2>6. /\ Capture(<<n, Sent + 1>>) /\ <<n, Sent + 1>> \in Packets
        /\ Len(toServer') = 1 /\ toServer'[1] = atClient'
    <3>1. /\ Capture(<<n, atClient + 2>>) /\ <<n, atClient + 2>> \in Packets
          /\ Len(toServer') = Len(toServer) + 1 /\ toServer'[Len(toServer) + 1] = atClient + 2
      BY <1>0, <2>1, <2>2, <2>4, ClientSendsFacts
    <3>2. atClient + 2 = Sent + 1
      BY <1>0, <2>5
    <3>3. Len(toServer) + 1 = 1
      BY <2>3
    <3> QED BY <2>1, <3>1, <3>2, <3>3
  <2>7. Latest'
    BY <1>0, <2>0, <2>1, <2>5, <2>6, NextIsLast
  <2>8. Len(toClient') = 0
    <3>1. CASE toClient' = Tail(toClient)
      BY <1>0, <2>1, <2>3, <3>1, Heads
    <3> QED BY <2>1, <3>1
  <2>9. atServer' = atClient' - 1
    BY <1>0, <2>1, <2>3
  <2> QED BY <2>6, <2>7, <2>8, <2>9 DEF OneOnTheWire
<1>5. CASE ServerReceives
  <2>0. /\ n' = n /\ Quiet /\ Latest /\ OneOnTheWire /\ conn[n] = "open"
    <3>1. ~ClientStarts
      BY <1>5, Arrived DEF ServerReceives, ClientStarts
    <3> QED BY <1>3, <3>1
  <2>1. /\ toServer # <<>> /\ UNCHANGED <<n, atClient, late>> /\ toServer' = Tail(toServer)
        /\ atServer' = atServer + 2 /\ ServerSends(n, atServer + 2)
        /\ Head(toServer) # Alert /\ Head(toServer) = atServer + 1
    BY <1>5 DEF ServerReceives, script, clients
  <2>2. atServer + 2 \in 1..Flights
    BY <2>1, NextFlights
  <2>3. /\ Len(toServer) = 1 /\ toServer[1] = atClient /\ Len(toClient) = 0
        /\ atServer = atClient - 1
    BY <1>0, <2>0, <2>1, Heads DEF OneOnTheWire
  <2>4. pc = "client"
    <3>1. atClient # Alert /\ atClient <= Alert
      BY <1>0, <2>1, <2>3, Heads DEF TypeOK
    <3>2. atClient < Alert
      BY <1>0, <3>1
    <3> QED BY <2>0, <3>2 DEF IInv, FlightsInv
  <2>5. Sent = atClient /\ Sent' = Sent + 1
    BY <1>0, <2>1, <2>3 DEF Sent
  <2>6. /\ Capture(<<n, Sent + 1>>) /\ <<n, Sent + 1>> \in Packets
        /\ Len(toClient') = 1 /\ toClient'[1] = atServer'
    <3>1. /\ Capture(<<n, atServer + 2>>) /\ <<n, atServer + 2>> \in Packets
          /\ Len(toClient') = Len(toClient) + 1 /\ toClient'[Len(toClient) + 1] = atServer + 2
      BY <1>0, <2>1, <2>2, <2>4, ServerSendsFacts
    <3>2. atServer + 2 = Sent + 1
      BY <1>0, <2>3, <2>5
    <3>3. Len(toClient) + 1 = 1
      BY <2>3
    <3> QED BY <2>1, <3>1, <3>2, <3>3
  <2>7. Latest'
    BY <1>0, <2>0, <2>1, <2>5, <2>6, NextIsLast
  <2>8. Len(toServer') = 0
    BY <1>0, <2>1, <2>3, Heads
  <2>9. atServer' = atClient' + 1
    BY <1>0, <2>1, <2>3
  <2> QED BY <2>6, <2>7, <2>8, <2>9 DEF OneOnTheWire
<1>6. CASE ClientPassesOver
  <2>1. toClient # <<>> /\ Head(toClient) < atClient /\ ~ClientStarts
    BY <1>6 DEF ClientPassesOver, ClientWaits, ClientStarts
  <2>2. OneOnTheWire
    BY <1>3, <2>1
  <2> QED BY <1>0, <2>1, <2>2, Heads DEF OneOnTheWire
<1>7. CASE ServerPassesOver
  <2>1. toServer # <<>> /\ Head(toServer) <= atServer /\ ~ClientStarts
    BY <1>7, Arrived DEF ServerPassesOver, ClientStarts
  <2>2. OneOnTheWire
    BY <1>3, <2>1
  <2> QED BY <1>0, <2>1, <2>2, Heads DEF OneOnTheWire
<1>8. CASE /\ ~ClientStarts /\ UNCHANGED <<file, late, atClient, atServer, toServer, toClient, peer>>
  <2>1. n' = n /\ Latest /\ OneOnTheWire
    BY <1>3, <1>8
  <2>2. Sent' = Sent
    BY <1>8 DEF Sent
  <2> QED BY <1>8, <2>1, <2>2 DEF Latest, OneOnTheWire
<1> QED
  BY <1>2, <1>3, <1>4, <1>5, <1>6, <1>7, <1>8 DEF Next, Script, Client, Server, Done, vars,
     servers, clients, wire, StartServer, PidofServer, StartCapture, Sleep, Kill, ServerListens,
     CaptureStarts, CaptureEnds

----------------------------------------------------------------------------
(* The invariant holds, and the captures are what they should be.           *)

LEMMA Initially == ASSUME Init PROVE IInv
<1>0. /\ pc = "server" /\ n = 1 /\ server = "none" /\ peer = 0 /\ served = 0
      /\ dump = [c \in Conns |-> "none"] /\ file = [c \in Conns |-> <<>>]
      /\ conn = [c \in Conns |-> "none"] /\ timeouts = [c \in Conns |-> 0]
      /\ atClient = 0 /\ atServer = 0 /\ toServer = <<>> /\ toClient = <<>> /\ late = {}
  BY DEF Init
<1>1. /\ N_TIMES \in Nat /\ 1 \in Conns /\ 0 \notin Conns /\ Alert \in Nat /\ Flights \in Nat
      /\ N_TIMES > 0 /\ \A c \in Conns : c \in Nat /\ c >= 1 /\ ~(c < 1)
  BY Numbers DEF Conns
<1>2. /\ \A c \in Conns : dump[c] = "none" /\ file[c] = <<>> /\ conn[c] = "none" /\ Len(file[c]) = 0
      /\ Len(toServer) = 0 /\ Len(toClient) = 0
  BY <1>0
<1>3. TypeOK
  <2>1. <<>> \in Seq(Packets) /\ <<>> \in Seq(1..Alert) /\ <<>> \in Seq(1..Flights)
    OBVIOUS
  <2>2. timeouts \in [Conns -> 0..MaxTimeouts]
    BY <1>0, TimeoutsAssumption
  <2>3. /\ dump \in [Conns -> {"none", "starting", "capturing", "stopping", "gone"}]
        /\ file \in [Conns -> Seq(Packets)]
        /\ conn \in [Conns -> {"none", "open", "failed", "closed"}]
    BY <1>0, <2>1
  <2>4. /\ served \in 0..N_TIMES /\ atClient \in 0..Alert /\ atServer \in 0..Flights
        /\ peer \in {0} \cup Conns /\ late \subseteq Conns
    BY <1>0, <1>1
  <2> QED BY <1>0, <1>1, <2>1, <2>2, <2>3, <2>4 DEF TypeOK
<1>4. ScriptInv
  BY <1>0, <1>1, <1>2 DEF ScriptInv, Over
<1>5. DumpInv
  BY <1>0, <1>1, <1>2 DEF DumpInv
<1>6. ServerInv
  BY <1>0, <1>1, <1>2 DEF ServerInv
<1>7. FlightsInv
  BY <1>0, <1>1, <1>2 DEF FlightsInv
<1>8. ForeignInv
  BY <1>2 DEF ForeignInv
<1>9. StuckInv /\ WholeInv /\ QuietOpenInv /\ QuietClosedInv
  BY <1>0, <1>1, <1>2 DEF StuckInv, WholeInv, QuietOpenInv, Quiet, QuietClosedInv
<1> QED BY <1>3, <1>4, <1>5, <1>6, <1>7, <1>8, <1>9 DEF IInv

(* The invariant of the DTLS evaluation, which the theorems below rest on. *)
THEOREM Invariance == Spec => []IInv
<1>1. IInv /\ Next => IInv'
  BY TypeStep, ScriptStep, DumpStep, ServerStep, FlightsStep, ForeignStep, StuckStep, WholeStep,
     QuietOpenStep, QuietClosedStep DEF IInv
<1>2. ASSUME IInv, UNCHANGED vars PROVE IInv'
  <2>1. UNCHANGED <<pc, n, server, peer, served, atServer, conn, atClient, late, dump, file,
                    toServer, toClient, timeouts>>
    BY <1>2 DEF vars, script, servers, clients, wire
  <2>2. TypeOK' /\ DumpInv' /\ ServerInv' /\ FlightsInv'
    BY <1>2, <2>1 DEF IInv, TypeOK, DumpInv, ServerInv, FlightsInv
  <2>3. ScriptInv'
    BY <1>2, <2>1 DEF IInv, ScriptInv, Over
  <2>4. ForeignInv'
    BY <1>2, <2>1 DEF IInv, ForeignInv, Lost
  <2>5. StuckInv' /\ WholeInv' /\ QuietClosedInv'
    BY <1>2, <2>1 DEF IInv, StuckInv, WholeInv, QuietClosedInv
  <2>6. QuietOpenInv'
    BY <1>2, <2>1 DEF IInv, QuietOpenInv, Quiet, Latest, OneOnTheWire, Sent
  <2> QED BY <2>2, <2>3, <2>4, <2>5, <2>6 DEF IInv
<1> QED BY Initially, <1>1, <1>2, PTL DEF Spec

(* Every variable keeps its type: dtls_eval_handshake.sh and the two ends   *)
(* of its connections stay in the states that are modelled.                 *)
THEOREM TypeCorrect == Spec => []TypeOK
<1>1. IInv => TypeOK
  BY DEF IInv
<1> QED BY Invariance, <1>1, PTL

(* What a capture of the DTLS evaluation holds of another connection is of  *)
(* the next one, behind all of a handshake that took place, or of an        *)
(* earlier one whose client failed and after which no other is served.      *)
THEOREM ForeignCaptured == Spec => []ForeignForAReason
<1>1. IInv => ForeignForAReason
  <2>1. SUFFICES ASSUME IInv, NEW c \in Conns, NEW k \in DOMAIN file[c], NEW d, d = file[c][k][1]
                 PROVE  \/ d = c
                        \/ /\ d = c + 1
                           /\ conn[c] = "closed" =>
                                 \A j \in DOMAIN file[c] : j > k => file[c][j][1] = d
                        \/ d < c /\ conn[d] = "failed" /\ \A e \in c..N_TIMES : conn[e] # "closed"
    BY DEF ForeignForAReason
  <2>2. TypeOK /\ ForeignInv /\ c \in Nat
    BY <2>1, Numbers DEF IInv
  <2>3. DOMAIN file[c] = 1..Len(file[c])
    <3>1. file[c] \in Seq(Packets)
      BY <2>2 DEF TypeOK
    <3> QED BY <3>1, LenProperties
  <2>4. k \in 1..Len(file[c]) /\ d \in Conns /\ d \in Nat
    BY <2>1, <2>2, <2>3, Connection, Numbers
  <2>5. /\ d <= c + 1
        /\ d < c => Lost(d) /\ \A e \in c..N_TIMES : conn[e] # "closed"
        /\ d = c + 1 /\ conn[c] = "closed" =>
              \A m \in 1..Len(file[c]) : m > k => file[c][m][1] = d
    BY <2>1, <2>2, <2>4 DEF ForeignInv
  <2>6. d = c \/ d = c + 1 \/ d < c
    BY <2>2, <2>4, <2>5
  <2> QED BY <2>3, <2>5, <2>6 DEF Lost
<1> QED BY Invariance, <1>1, PTL

\* what process_dtls12_handshake.py keeps of a capture that is long enough
LEMMA KeptFacts ==
  ASSUME TypeOK, NEW c \in Conns, Len(file[c]) >= Flights
  PROVE  /\ Kept(c) \in Seq(Packets) /\ Len(Kept(c)) = Flights
         /\ \A k \in 1..Flights : k \in 1..Len(file[c]) /\ Kept(c)[k] = file[c][k]
         /\ Kept(c) = [k \in 1..Flights |-> file[c][k]]
<1>1. file[c] \in Seq(Packets) /\ Flights \in Nat /\ Flights >= 2
  BY Numbers DEF TypeOK
<1>2. Len(file[c]) \in Nat
  BY <1>1, Queue
<1>3. \A k \in 1..Flights : k \in 1..Len(file[c])
  BY <1>1, <1>2
<1>4. Kept(c) = [k \in 1..Flights |-> file[c][k]]
  BY <1>1 DEF Kept
<1>5. \A k \in 1..Flights : file[c][k] \in Packets
  BY <1>1, <1>3, Queue
<1>6. Kept(c) \in Seq(Packets) /\ Len(Kept(c)) = Flights
  BY <1>1, <1>4, <1>5
<1> QED BY <1>3, <1>4, <1>6

(* A capture that is accepted after a handshake that took place gives the   *)
(* figures of that handshake, unless a datagram was sent again or the       *)
(* tcpdump came late: process_dtls12_handshake.py takes the first packets   *)
(* as they come.                                                            *)
THEOREM Misleads == Spec => []MisleadsForAReason
<1>1. ASSUME IInv, NEW c \in Conns, conn[c] = "closed", Len(file[c]) >= Flights
      PROVE  \/ Kept(c) = From(c, 1)
             \/ timeouts[c] > 0 /\ (c \in late \/ Range(Kept(c)) \subseteq Handshake(c))
             \/ c \in late /\ Kept(c) = From(c, 2)
             \/ c \in late /\ \E p \in Range(Kept(c)) : p[1] = c + 1
  <2>1. /\ TypeOK /\ Flights \in Nat /\ Alert = Flights + 1 /\ c \in Nat /\ timeouts[c] \in Nat
        /\ c \in c..N_TIMES
    <3>1. TypeOK /\ MaxTimeouts \in Nat
      BY <1>1, TimeoutsAssumption DEF IInv
    <3>2. Flights \in Nat /\ N_TIMES \in Nat /\ Alert = Flights + 1
      BY Numbers
    <3>3. timeouts[c] \in 0..MaxTimeouts
      BY <3>1 DEF TypeOK
    <3>4. c \in Nat /\ c \in c..N_TIMES
      BY <3>2 DEF Conns
    <3> QED BY <3>1, <3>2, <3>3, <3>4
  <2>2. /\ Len(Kept(c)) = Flights /\ Kept(c) = [k \in 1..Flights |-> file[c][k]]
        /\ \A k \in 1..Flights : k \in 1..Len(file[c]) /\ Kept(c)[k] = file[c][k]
        /\ DOMAIN Kept(c) = 1..Flights
    BY <1>1, <2>1, KeptFacts
  <2>3. CASE timeouts[c] > 0
    <3>1. CASE c \in late
      BY <2>3, <3>1
    <3>2. CASE c \notin late
      <4>1. ASSUME NEW k \in 1..Flights PROVE file[c][k] \in Handshake(c)
        <5>1. k \in 1..Len(file[c]) /\ k <= Len(file[c])
          BY <2>1, <2>2
        <5>2. file[c][k][1] < c \/ file[c][k] \in Handshake(c)
          BY <1>1, <3>2, <5>1 DEF IInv, WholeInv
        <5>3. ~(file[c][k][1] < c)
          BY <1>1, <2>1, <5>1 DEF IInv, ForeignInv
        <5> QED BY <5>2, <5>3
      <4>2. Range(Kept(c)) \subseteq Handshake(c)
        BY <2>2, <4>1 DEF Range
      <4> QED BY <2>3, <4>2
    <3> QED BY <3>1, <3>2
  <2>4. CASE timeouts[c] = 0
    <3>1. PICK m \in 0..Alert :
            /\ m <= Len(file[c])
            /\ c \in late <=> m < Alert
            /\ \A k \in 1..m : file[c][k] = <<c, Alert - m + k>>
            /\ \A k \in m + 1..Len(file[c]) : file[c][k][1] = c + 1
      BY <1>1, <2>4 DEF IInv, QuietClosedInv
    <3>2. CASE m = Alert
      <4>1. ASSUME NEW k \in 1..Flights PROVE file[c][k] = <<c, 1 + k - 1>>
        <5>1. k \in 1..m /\ Alert - m + k = 1 + k - 1
          BY <2>1, <3>2
        <5> QED BY <3>1, <5>1
      <4> QED BY <2>2, <4>1 DEF From
    <3>3. CASE m = Flights
      <4>1. ASSUME NEW k \in 1..Flights PROVE file[c][k] = <<c, 2 + k - 1>>
        <5>1. k \in 1..m /\ Alert - m + k = 2 + k - 1
          BY <2>1, <3>3
        <5> QED BY <3>1, <5>1
      <4>2. c \in late
        BY <2>1, <3>1, <3>3
      <4> QED BY <2>2, <4>1, <4>2 DEF From
    <3>4. CASE m < Flights
      <4>1. m + 1 \in 1..Flights
        BY <2>1, <3>1, <3>4
      <4>2. m + 1 \in m + 1..Len(file[c])
        BY <2>2, <3>1, <4>1
      <4>3. Kept(c)[m + 1] \in Range(Kept(c))
        BY <2>2, <4>1 DEF Range
      <4>4. Kept(c)[m + 1][1] = c + 1
        BY <2>2, <3>1, <4>1, <4>2
      <4>5. c \in late
        BY <2>1, <3>1, <3>4
      <4> QED BY <4>3, <4>4, <4>5
    <3>5. m = Alert \/ m = Flights \/ m < Flights
      BY <2>1, <3>1
    <3> QED BY <3>2, <3>3, <3>4, <3>5
  <2> QED BY <2>1, <2>3, <2>4
<1>2. IInv => MisleadsForAReason
  BY <1>1 DEF MisleadsForAReason
<1> QED BY Invariance, <1>2, PTL

----------------------------------------------------------------------------
(* The analysers.  A capture is understood through the places of the        *)
(* packets that count.                                                      *)

\* what the programs but MACsec's have in common
LEMMA RuleFacts ==
  ASSUME NEW p \in Protocols, p # "macsec"
  PROVE  /\ Rules[p].skip \in BOOLEAN
         /\ Rules[p].stop \in Nat /\ Rules[p].key \in Nat /\ Rules[p].key >= 1
         /\ Rules[p].key < Rules[p].stop /\ Rules[p].total = Rules[p].stop
<1>1. CASE p = "tls12"
  <2>1. Rules[p] = [skip |-> TRUE, stop |-> 4, key |-> 3, total |-> 4]
    BY <1>1 DEF Rules
  <2> QED BY <2>1
<1>2. CASE p = "tls13"
  <2>1. Rules[p] = [skip |-> TRUE, stop |-> 3, key |-> 2, total |-> 3]
    BY <1>2 DEF Rules
  <2> QED BY <2>1
<1>3. CASE p = "ikev2"
  <2>1. Rules[p] = [skip |-> FALSE, stop |-> 4, key |-> 2, total |-> 4]
    BY <1>3 DEF Rules
  <2> QED BY <2>1
<1>4. CASE p = "dtls12"
  <2>1. Rules[p] = [skip |-> FALSE, stop |-> 6, key |-> 5, total |-> 6]
    BY <1>4 DEF Rules
  <2> QED BY <2>1
<1> QED BY <1>1, <1>2, <1>3, <1>4 DEF Protocols

Caps == Seq([time : Nat \ {0}, size : Nat])

\* the first places of a capture
LEMMA FirstPlaces == ASSUME NEW u \in Nat PROVE IsFiniteSet(1..u) /\ Cardinality(1..u) = u
<1>1. IsFiniteSet(1..u) /\ Cardinality(1..u) = (IF 1 > u THEN 0 ELSE u - 1 + 1)
  <2>1. 1 \in Int /\ u \in Int
    OBVIOUS
  <2> QED BY <2>1, FS_Interval, Zenon
<1> QED BY <1>1

\* the places that count, up to one of them
Seen(p, cap, j) == {x \in Counted(p, cap) : x <= j}

\* a capture and one of its packets
LEMMA CapFacts ==
  ASSUME NEW cap \in Caps
  PROVE  /\ Len(cap) \in Nat /\ DOMAIN cap = 1..Len(cap)
         /\ \A x \in 1..Len(cap) : cap[x].time \in Nat /\ cap[x].time > 0 /\ cap[x].size \in Nat
<1>1. Len(cap) \in Nat /\ DOMAIN cap = 1..Len(cap)
  BY LenProperties DEF Caps
<1>2. ASSUME NEW x \in 1..Len(cap)
      PROVE  cap[x].time \in Nat /\ cap[x].time > 0 /\ cap[x].size \in Nat
  <2>1. cap[x] \in [time : Nat \ {0}, size : Nat]
    BY Queue DEF Caps
  <2> QED BY <2>1
<1> QED BY <1>1, <1>2

LEMMA CountedFacts ==
  ASSUME NEW p, NEW cap \in Caps
  PROVE  /\ Counted(p, cap) \subseteq 1..Len(cap) /\ IsFiniteSet(Counted(p, cap))
         /\ \A x \in Counted(p, cap) : x \in Nat /\ x >= 1 /\ x <= Len(cap)
<1>1. Len(cap) \in Nat /\ DOMAIN cap = 1..Len(cap)
  BY CapFacts
<1>2. Counted(p, cap) \subseteq 1..Len(cap)
  BY <1>1 DEF Counted
<1>3. IsFiniteSet(Counted(p, cap))
  <2>1. IsFiniteSet(1..Len(cap))
    BY <1>1, FirstPlaces, Zenon
  <2> QED BY <1>2, <2>1, FS_Subset
<1> QED BY <1>1, <1>2, <1>3

LEMMA SeenFacts ==
  ASSUME NEW p, NEW cap \in Caps, NEW j \in Nat
  PROVE  /\ IsFiniteSet(Seen(p, cap, j)) /\ Seen(p, cap, j) \subseteq 1..j
         /\ Ordinal(p, cap, j) = Cardinality(Seen(p, cap, j)) /\ Ordinal(p, cap, j) \in Nat
         /\ Seen(p, cap, 0) = {}
         /\ Seen(p, cap, Len(cap)) = Counted(p, cap)
         /\ j + 1 \in Counted(p, cap) => Seen(p, cap, j + 1) = Seen(p, cap, j) \cup {j + 1}
         /\ j + 1 \notin Counted(p, cap) => Seen(p, cap, j + 1) = Seen(p, cap, j)
         /\ j + 1 \notin Seen(p, cap, j)
<1>1. Len(cap) \in Nat /\ DOMAIN cap = 1..Len(cap)
  BY CapFacts
<1>2. Counted(p, cap) \subseteq 1..Len(cap)
  BY CountedFacts
<1>3. IsFiniteSet(Counted(p, cap))
  BY CountedFacts
<1>4. IsFiniteSet(Seen(p, cap, j)) /\ Seen(p, cap, j) \subseteq Counted(p, cap)
  <2>1. Seen(p, cap, j) \in SUBSET Counted(p, cap)
    BY DEF Seen
  <2> QED BY <1>3, <2>1, FS_Subset
<1>5. Ordinal(p, cap, j) = Cardinality(Seen(p, cap, j)) /\ Cardinality(Seen(p, cap, j)) \in Nat
  BY <1>4, FS_CardinalityType DEF Ordinal, Seen
<1>6. Seen(p, cap, j) \subseteq 1..j /\ Seen(p, cap, 0) = {} /\ j + 1 \notin Seen(p, cap, j)
  BY <1>1, <1>2 DEF Seen
<1>7. Seen(p, cap, Len(cap)) = Counted(p, cap)
  BY <1>1, <1>2 DEF Seen
<1>8. \A x \in Counted(p, cap) : x <= j + 1 <=> x <= j \/ x = j + 1
  BY <1>1, <1>2
<1>9. /\ j + 1 \in Counted(p, cap) => Seen(p, cap, j + 1) = Seen(p, cap, j) \cup {j + 1}
      /\ j + 1 \notin Counted(p, cap) => Seen(p, cap, j + 1) = Seen(p, cap, j)
  BY <1>8 DEF Seen
<1> QED BY <1>2, <1>3, <1>4, <1>5, <1>6, <1>7, <1>9

\* no two places have the same ordinal number
LEMMA Ordinals ==
  ASSUME NEW p, NEW cap \in Caps, NEW x \in Counted(p, cap), NEW y \in Counted(p, cap),
         Ordinal(p, cap, x) = Ordinal(p, cap, y)
  PROVE  x = y
<1>1. x \in Nat /\ y \in Nat
  BY CountedFacts
<1>2. ASSUME NEW v \in Counted(p, cap), NEW w \in Counted(p, cap), v \in Nat, w \in Nat, v < w
      PROVE  Ordinal(p, cap, v) # Ordinal(p, cap, w)
  <2>1. Seen(p, cap, v) \in SUBSET Seen(p, cap, w)
    <3>1. \A z \in Counted(p, cap) : z \in Nat
      BY CountedFacts
    <3>2. \A z \in Counted(p, cap) : z <= v => z <= w
      BY <1>2, <3>1
    <3> QED BY <3>2 DEF Seen
  <2>2. w \in Seen(p, cap, w) /\ w \notin Seen(p, cap, v)
    BY <1>2 DEF Seen
  <2>3. /\ IsFiniteSet(Seen(p, cap, w))
        /\ Ordinal(p, cap, v) = Cardinality(Seen(p, cap, v))
        /\ Ordinal(p, cap, w) = Cardinality(Seen(p, cap, w))
    BY <1>2, SeenFacts
  <2> QED BY <2>1, <2>2, <2>3, FS_Subset
<1> QED BY <1>1, <1>2

\* every packet counts to MACsec's
LEMMA MacsecCounts ==
  ASSUME NEW cap \in Caps, NEW j \in 0..Len(cap)
  PROVE  /\ Counted("macsec", cap) = 1..Len(cap) /\ Seen("macsec", cap, j) = 1..j
         /\ Ordinal("macsec", cap, j) = j
<1>1. Len(cap) \in Nat /\ DOMAIN cap = 1..Len(cap)
  BY CapFacts
<1>2. Counted("macsec", cap) = 1..Len(cap)
  BY <1>1 DEF Counted
<1>3. Seen("macsec", cap, j) = 1..j
  BY <1>1, <1>2 DEF Seen
<1>4. Cardinality(1..j) = j
  BY <1>1, FirstPlaces
<1>5. Ordinal("macsec", cap, j) = Cardinality(Seen("macsec", cap, j))
  BY DEF Ordinal, Seen
<1> QED BY <1>2, <1>3, <1>4, <1>5

\* the sum of the sizes, packet by packet
LEMMA BytesFacts ==
  ASSUME NEW q, NEW S, S \subseteq DOMAIN q, IsFiniteSet(S), \A x \in S : q[x].size \in Nat
  PROVE  /\ Bytes(q, S) \in Int /\ Bytes(q, {}) = 0
         /\ \A x \in S : Bytes(q, S) = q[x].size + Bytes(q, S \ {x})
<1> DEFINE g == [x \in DOMAIN q |-> q[x].size]
<1>1. \A x \in S : g[x] = q[x].size /\ g[x] \in Int
  OBVIOUS
<1>2. \A s : Bytes(q, s) = Total(g, s)
  BY DEF Bytes, Total
<1>3. /\ Total(g, S) \in Int /\ Total(g, {}) = 0
      /\ \A x \in S : Total(g, S) = g[x] + Total(g, S \ {x})
  <2> HIDE DEF g
  <2> QED BY <1>1, TotalFacts
<1> HIDE DEF g
<1>4. ASSUME NEW x \in S PROVE Bytes(q, S) = q[x].size + Bytes(q, S \ {x})
  <2>1. Total(g, S) = g[x] + Total(g, S \ {x})
    BY <1>3
  <2>2. Bytes(q, S) = Total(g, S) /\ Bytes(q, S \ {x}) = Total(g, S \ {x})
    BY <1>2
  <2> QED BY <1>1, <2>1, <2>2
<1> QED BY <1>2, <1>3, <1>4

\* one more packet, and its size
LEMMA BytesAdd ==
  ASSUME NEW q, NEW S, NEW x \in DOMAIN q, x \notin S, S \subseteq DOMAIN q, IsFiniteSet(S),
         \A y \in S \cup {x} : q[y].size \in Nat
  PROVE  Bytes(q, S \cup {x}) = q[x].size + Bytes(q, S)
<1>1. IsFiniteSet(S \cup {x}) /\ (S \cup {x}) \ {x} = S /\ S \cup {x} \subseteq DOMAIN q
  BY FS_AddElement
<1>2. \A y \in S \cup {x} : Bytes(q, S \cup {x}) = q[y].size + Bytes(q, (S \cup {x}) \ {y})
  BY <1>1, BytesFacts
<1>3. Bytes(q, S \cup {x}) = q[x].size + Bytes(q, (S \cup {x}) \ {x})
  BY <1>2
<1> QED BY <1>1, <1>3

LEMMA BytesAgree ==
  ASSUME NEW q, NEW r, NEW S, S \subseteq DOMAIN q, S \subseteq DOMAIN r, IsFiniteSet(S),
         \A x \in S : q[x].size = r[x].size
  PROVE  Bytes(q, S) = Bytes(r, S)
<1> DEFINE g == [x \in DOMAIN q |-> q[x].size]
           h == [x \in DOMAIN r |-> r[x].size]
<1>1. \A x \in S : g[x] = h[x]
  OBVIOUS
<1>2. Bytes(q, S) = Total(g, S) /\ Bytes(r, S) = Total(h, S)
  BY DEF Bytes, Total
<1> HIDE DEF g, h
<1> QED BY <1>1, <1>2, TotalAgrees

\* what ret has of a packet
Entry(cap, x) == [time |-> cap[x].time - cap[1].time, size |-> cap[x].size]

(* What a parser has after "at" packets: the clock started with the first;  *)
(* the packets that count are kept in their order, and their sizes with     *)
(* them; it has not gone past the packet that ends the loop.                *)
Reads(p, cap, at, from, kept) ==
    /\ at \in 0..Len(cap)
    /\ from = IF at = 0 THEN 0 ELSE cap[1].time
    /\ kept \in Seq([time : Int, size : Nat])
    /\ Len(kept) = Ordinal(p, cap, at)
    /\ \A x \in Seen(p, cap, at) :
         Ordinal(p, cap, x) \in 1..Len(kept) /\ kept[Ordinal(p, cap, x)] = Entry(cap, x)
    /\ \A k \in 1..Len(kept) : \E x \in Seen(p, cap, at) : Ordinal(p, cap, x) = k
    /\ Bytes(kept, 1..Len(kept)) = Bytes(cap, Seen(p, cap, at))
    /\ p # "macsec" => Len(kept) <= Rules[p].stop
    /\ p = "macsec" => \A x \in MacsecFirst..at - 1 : cap[x].size < MacsecSize

LEMMA ReadNothing ==
  ASSUME NEW p \in Protocols, NEW cap \in Caps
  PROVE  Reads(p, cap, 0, 0, <<>>)
<1>1. Len(cap) \in Nat /\ MacsecFirst \in Nat /\ MacsecFirst > 0
  BY CapFacts, MacsecAssumption
<1>2. Seen(p, cap, 0) = {} /\ Ordinal(p, cap, 0) = 0
  <2>1. Seen(p, cap, 0) = {}
    BY SeenFacts
  <2>2. Ordinal(p, cap, 0) = Cardinality(Seen(p, cap, 0))
    BY DEF Ordinal, Seen
  <2> QED BY <2>1, <2>2, FS_EmptySet
<1>3. Bytes(<<>>, {}) = 0 /\ Bytes(cap, {}) = 0
  BY FS_EmptySet, BytesFacts
<1>4. p # "macsec" => 0 <= Rules[p].stop
  BY RuleFacts
<1> DEFINE e == <<>>
<1>5. e \in Seq([time : Int, size : Nat]) /\ Len(e) = 0
  OBVIOUS
<1>6. \A x \in MacsecFirst..0 - 1 : FALSE
  BY <1>1
<1>7. 0 \in 0..Len(cap) /\ 1..Len(e) = {} /\ Bytes(e, 1..Len(e)) = Bytes(cap, Seen(p, cap, 0))
  <2>1. 1..Len(e) = {}
    BY <1>5
  <2>2. Bytes(e, {}) = 0
    BY <1>3
  <2> HIDE DEF e
  <2>3. Bytes(e, 1..Len(e)) = Bytes(cap, Seen(p, cap, 0))
    BY <1>2, <1>3, <2>1, <2>2, Zenon
  <2>4. 0 \in 0..Len(cap)
    BY <1>1
  <2> QED BY <2>1, <2>3, <2>4
<1> HIDE DEF e
<1>8. Reads(p, cap, 0, 0, e)
  <2>1. Len(e) = Ordinal(p, cap, 0)
    BY <1>2, <1>5
  <2>2. p # "macsec" => Len(e) <= Rules[p].stop
    BY <1>4, <1>5
  <2>3. \A x \in Seen(p, cap, 0) :
          Ordinal(p, cap, x) \in 1..Len(e) /\ e[Ordinal(p, cap, x)] = Entry(cap, x)
    BY <1>2
  <2>4. \A k \in 1..Len(e) : \E x \in Seen(p, cap, 0) : Ordinal(p, cap, x) = k
    BY <1>7
  <2> QED BY <1>5, <1>6, <1>7, <2>1, <2>2, <2>3, <2>4 DEF Reads
<1> QED BY <1>8 DEF e

\* the clock
LEMMA ReadStart ==
  ASSUME NEW p, NEW cap \in Caps, NEW at, NEW from, NEW kept,
         Reads(p, cap, at, from, kept), at < Len(cap)
  PROVE  /\ at \in Nat /\ at + 1 \in 1..Len(cap) /\ at + 1 # 0
         /\ (IF from = 0 THEN cap[at + 1].time ELSE from) = cap[1].time
<1>1. at \in 0..Len(cap) /\ from = IF at = 0 THEN 0 ELSE cap[1].time
  BY DEF Reads
<1>2. Len(cap) \in Nat
  BY CapFacts
<1>3. at \in Nat /\ at + 1 \in 1..Len(cap) /\ 1 \in 1..Len(cap)
  BY <1>1, <1>2
<1>4. cap[1].time > 0 /\ cap[1].time \in Nat
  BY <1>3, CapFacts
<1> QED BY <1>1, <1>3, <1>4

\* a packet is passed over
LEMMA ReadPassed ==
  ASSUME NEW p \in Protocols, NEW cap \in Caps, NEW at, NEW from, NEW kept,
         Reads(p, cap, at, from, kept), at < Len(cap), at + 1 \notin Counted(p, cap)
  PROVE  Reads(p, cap, at + 1, cap[1].time, kept)
<1>1. at \in Nat /\ at + 1 \in 1..Len(cap) /\ at + 1 # 0 /\ at + 1 \in 0..Len(cap)
  BY ReadStart, CapFacts
<1>2. Seen(p, cap, at + 1) = Seen(p, cap, at)
  BY <1>1, SeenFacts
<1>3. Ordinal(p, cap, at + 1) = Ordinal(p, cap, at)
  BY <1>2 DEF Ordinal, Seen
<1>4. p # "macsec"
  <2>1. Counted("macsec", cap) = 1..Len(cap)
    BY CapFacts DEF Counted
  <2> QED BY <1>1, <2>1
<1> QED BY <1>1, <1>2, <1>3, <1>4 DEF Reads

\* one is kept
LEMMA ReadKept ==
  ASSUME NEW p \in Protocols, NEW cap \in Caps, NEW at, NEW from, NEW kept,
         Reads(p, cap, at, from, kept), at < Len(cap), at + 1 \in Counted(p, cap),
         p # "macsec" => Len(kept) < Rules[p].stop,
         p = "macsec" => ~(Len(kept) >= MacsecFirst /\ kept[Len(kept)].size >= MacsecSize)
  PROVE  Reads(p, cap, at + 1, cap[1].time, Append(kept, Entry(cap, at + 1)))
<1> DEFINE next == Append(kept, Entry(cap, at + 1))
<1>1. /\ at \in Nat /\ at + 1 \in 1..Len(cap) /\ at + 1 # 0 /\ at + 1 \in 0..Len(cap)
      /\ Len(cap) \in Nat /\ DOMAIN cap = 1..Len(cap) /\ 1 \in 1..Len(cap) /\ at \in 0..Len(cap)
  BY ReadStart, CapFacts
<1>2. /\ cap[1].time \in Nat /\ cap[at + 1].time \in Nat /\ cap[at + 1].size \in Nat
      /\ \A x \in 1..Len(cap) : cap[x].size \in Nat
  BY <1>1, CapFacts
<1>3. Entry(cap, at + 1) \in [time : Int, size : Nat]
  BY <1>2 DEF Entry
<1>4. /\ next \in Seq([time : Int, size : Nat]) /\ Len(kept) \in Nat
      /\ Len(next) = Len(kept) + 1 /\ next[Len(kept) + 1] = Entry(cap, at + 1)
      /\ \A k \in 1..Len(kept) : next[k] = kept[k]
      /\ \A k \in 1..Len(kept) : kept[k].size \in Nat
      /\ DOMAIN next = 1..Len(kept) + 1 /\ DOMAIN kept = 1..Len(kept)
  <2>1. kept \in Seq([time : Int, size : Nat])
    BY DEF Reads
  <2>2. Len(kept) \in Nat /\ \A k \in 1..Len(kept) : kept[k] \in [time : Int, size : Nat]
    BY <2>1, Queue
  <2>3. DOMAIN kept = 1..Len(kept)
    BY <2>1, LenProperties
  <2>4. /\ next \in Seq([time : Int, size : Nat]) /\ Len(next) = Len(kept) + 1
        /\ next[Len(kept) + 1] = Entry(cap, at + 1)
        /\ \A k \in 1..Len(kept) : next[k] = kept[k]
    BY <1>3, <2>1, Appended
  <2>5. DOMAIN next = 1..Len(next)
    BY <2>4, LenProperties
  <2> QED BY <2>2, <2>3, <2>4, <2>5
<1> HIDE DEF next
<1>5. /\ Seen(p, cap, at + 1) = Seen(p, cap, at) \cup {at + 1} /\ at + 1 \notin Seen(p, cap, at)
      /\ IsFiniteSet(Seen(p, cap, at)) /\ Seen(p, cap, at) \subseteq 1..at
      /\ Ordinal(p, cap, at) = Cardinality(Seen(p, cap, at))
      /\ Ordinal(p, cap, at + 1) = Cardinality(Seen(p, cap, at + 1))
  <2>1. Ordinal(p, cap, at) = Cardinality(Seen(p, cap, at))
    BY DEF Ordinal, Seen
  <2>2. Ordinal(p, cap, at + 1) = Cardinality(Seen(p, cap, at + 1))
    BY DEF Ordinal, Seen
  <2>3. IsFiniteSet(Seen(p, cap, at)) /\ Seen(p, cap, at) \subseteq 1..at
    BY <1>1, SeenFacts
  <2>4. Seen(p, cap, at + 1) = Seen(p, cap, at) \cup {at + 1}
    <3>1. ASSUME NEW x \in Counted(p, cap) PROVE x <= at + 1 <=> x <= at \/ x = at + 1
      <4>1. x \in Nat
        BY CountedFacts
      <4> QED BY <1>1, <4>1
    <3> QED BY <3>1 DEF Seen
  <2>5. at + 1 \notin Seen(p, cap, at)
    BY <1>1 DEF Seen
  <2> QED BY <2>5, <2>1, <2>2, <2>3, <2>4
<1>6. Len(kept) = Ordinal(p, cap, at) /\ Ordinal(p, cap, at + 1) = Len(kept) + 1
  <2>1. Cardinality(Seen(p, cap, at) \cup {at + 1}) = Cardinality(Seen(p, cap, at)) + 1
    BY <1>5, FS_AddElement
  <2> QED BY <1>5, <2>1 DEF Reads
<1>7. ASSUME NEW x \in Seen(p, cap, at + 1)
      PROVE  Ordinal(p, cap, x) \in 1..Len(next) /\ next[Ordinal(p, cap, x)] = Entry(cap, x)
  <2>1. CASE x = at + 1
    <3>1. Ordinal(p, cap, x) = Len(kept) + 1
      BY <1>6, <2>1
    <3> QED BY <1>4, <2>1, <3>1
  <2>2. CASE x \in Seen(p, cap, at)
    <3>1. Ordinal(p, cap, x) \in 1..Len(kept) /\ kept[Ordinal(p, cap, x)] = Entry(cap, x)
      BY <2>2 DEF Reads
    <3> QED BY <1>4, <3>1
  <2> QED BY <1>5, <2>1, <2>2
<1>8. ASSUME NEW k \in 1..Len(next) PROVE \E x \in Seen(p, cap, at + 1) : Ordinal(p, cap, x) = k
  <2>1. k = Len(kept) + 1 \/ k \in 1..Len(kept)
    BY <1>4
  <2>2. CASE k \in 1..Len(kept)
    BY <1>5, <2>2 DEF Reads
  <2>3. CASE k = Len(kept) + 1
    BY <1>5, <1>6, <2>3
  <2> QED BY <2>1, <2>2, <2>3
<1>9. Bytes(next, 1..Len(next)) = Bytes(cap, Seen(p, cap, at + 1))
  <2>1. /\ 1..Len(next) = (1..Len(kept)) \cup {Len(kept) + 1} /\ Len(kept) + 1 \notin 1..Len(kept)
        /\ IsFiniteSet(1..Len(kept)) /\ Len(kept) + 1 \in DOMAIN next /\ 1..Len(kept) \subseteq DOMAIN next
    <3>1. IsFiniteSet(1..Len(kept))
      BY <1>4, FirstPlaces, Zenon
    <3>2. Len(kept) + 1 \in 1..Len(kept) + 1 /\ 1..Len(kept) \subseteq 1..Len(kept) + 1
      BY <1>4
    <3>3. 1..Len(kept) + 1 = (1..Len(kept)) \cup {Len(kept) + 1} /\ Len(kept) + 1 \notin 1..Len(kept)
      BY <1>4
    <3> QED BY <1>4, <3>1, <3>2, <3>3
  <2>2. next[Len(kept) + 1].size = cap[at + 1].size
    BY <1>4 DEF Entry
  <2>3. \A y \in (1..Len(kept)) \cup {Len(kept) + 1} : next[y].size \in Nat
    BY <1>2, <1>4, <2>2
  <2>4. Bytes(next, 1..Len(next)) = next[Len(kept) + 1].size + Bytes(next, 1..Len(kept))
    BY <2>1, <2>3, BytesAdd
  <2>5. Bytes(next, 1..Len(kept)) = Bytes(kept, 1..Len(kept))
    <3>1. \A x \in 1..Len(kept) : next[x].size = kept[x].size
      BY <1>4
    <3>2. 1..Len(kept) \subseteq DOMAIN next /\ 1..Len(kept) \subseteq DOMAIN kept
      BY <1>4, <2>1
    <3> QED BY <2>1, <3>1, <3>2, BytesAgree, Zenon
  <2>6. Bytes(cap, Seen(p, cap, at) \cup {at + 1}) = cap[at + 1].size + Bytes(cap, Seen(p, cap, at))
    <3>1. Seen(p, cap, at) \subseteq DOMAIN cap /\ at + 1 \in DOMAIN cap
      BY <1>1, <1>5
    <3>2. \A y \in Seen(p, cap, at) \cup {at + 1} : cap[y].size \in Nat
      BY <1>1, <1>2, <3>1
    <3> QED BY <1>5, <3>1, <3>2, BytesAdd
  <2>7. Bytes(kept, 1..Len(kept)) = Bytes(cap, Seen(p, cap, at))
    BY DEF Reads
  <2> QED BY <1>5, <2>2, <2>4, <2>5, <2>6, <2>7
<1>10. p # "macsec" => Len(next) <= Rules[p].stop
  BY <1>4, RuleFacts
<1>11. ASSUME p = "macsec", NEW x \in MacsecFirst..(at + 1) - 1 PROVE cap[x].size < MacsecSize
  <2>0. MacsecFirst \in Nat /\ MacsecFirst > 0 /\ MacsecSize \in Nat
    BY MacsecAssumption
  <2>1. x \in MacsecFirst..at - 1 \/ x = at
    BY <1>1, <2>0
  <2>2. CASE x \in MacsecFirst..at - 1
    BY <1>11, <2>2 DEF Reads
  <2>3. CASE x = at
    <3>1. Seen("macsec", cap, at) = 1..at /\ Ordinal("macsec", cap, at) = at
      BY <1>1, MacsecCounts
    <3>2. at \in 1..at /\ at >= MacsecFirst
      BY <1>1, <2>0, <2>3
    <3>3. kept[at] = Entry(cap, at) /\ Len(kept) = at
      BY <1>6, <1>11, <3>1, <3>2 DEF Reads
    <3>4. ~(kept[at].size >= MacsecSize)
      BY <1>11, <3>2, <3>3
    <3>5. kept[at].size = cap[at].size /\ cap[at].size \in Nat
      BY <1>1, <1>2, <3>2, <3>3 DEF Entry
    <3> QED BY <2>0, <2>3, <3>4, <3>5
  <2> QED BY <2>1, <2>2, <2>3
<1>12. Len(next) = Ordinal(p, cap, at + 1)
  BY <1>4, <1>6
<1>13. Reads(p, cap, at + 1, cap[1].time, next)
  BY <1>1, <1>4, <1>7, <1>8, <1>9, <1>10, <1>11, <1>12 DEF Reads
<1> QED BY <1>13 DEF next

\* what the programs but MACsec's make of what was kept
LEMMA ReadDone ==
  ASSUME NEW p \in Protocols, p # "macsec", NEW cap \in Caps, NEW at, NEW from, NEW kept,
         Reads(p, cap, at, from, kept), at = Len(cap) \/ Len(kept) >= Rules[p].stop
  PROVE  /\ Len(kept) >= Rules[p].key /\ Len(kept) >= Rules[p].total <=> Complete(p, cap)
         /\ Complete(p, cap) =>
              Figures(p, cap) = [key   |-> kept[Rules[p].key].time,
                                 total |-> kept[Rules[p].total].time,
                                 size  |-> Bytes(kept, DOMAIN kept)]
<1> DEFINE stop == Rules[p].stop
           key  == Rules[p].key
<1>1. /\ stop \in Nat /\ key \in Nat /\ key >= 1 /\ key < stop /\ Rules[p].total = stop
  BY RuleFacts
<1>2. /\ Len(cap) \in Nat /\ DOMAIN cap = 1..Len(cap) /\ at \in 0..Len(cap) /\ at \in Nat
  BY CapFacts DEF Reads
<1>3. Len(kept) \in Nat /\ DOMAIN kept = 1..Len(kept) /\ Len(kept) <= stop
  <2>1. kept \in Seq([time : Int, size : Nat])
    BY DEF Reads
  <2>2. Len(kept) \in Nat /\ DOMAIN kept = 1..Len(kept)
    BY <2>1, LenProperties
  <2> QED BY <2>2 DEF Reads
<1>4. Len(kept) = Cardinality(Seen(p, cap, at))
  BY DEF Reads, Ordinal, Seen
<1>5. Complete(p, cap) <=> Cardinality(Counted(p, cap)) >= stop
  BY DEF Complete
<1> HIDE DEF stop, key
<1>6. Len(kept) = stop <=> Complete(p, cap)
  <2>1. Seen(p, cap, at) \in SUBSET Counted(p, cap) /\ IsFiniteSet(Counted(p, cap))
    BY CountedFacts DEF Seen
  <2>2. /\ Cardinality(Seen(p, cap, at)) <= Cardinality(Counted(p, cap))
        /\ Cardinality(Counted(p, cap)) \in Nat
    <3>1. Cardinality(Counted(p, cap)) \in Nat
      BY <2>1, FS_CardinalityType
    <3>2. Cardinality(Seen(p, cap, at)) <= Cardinality(Counted(p, cap))
      BY <2>1, FS_Subset
    <3> QED BY <3>1, <3>2
  <2>3. CASE Len(kept) = stop
    BY <1>1, <1>3, <1>4, <1>5, <2>2, <2>3
  <2>4. CASE Len(kept) # stop
    <3>1. at = Len(cap)
      BY <1>1, <1>3, <2>4 DEF stop
    <3>2. Seen(p, cap, at) = Counted(p, cap)
      BY <1>2, <3>1, SeenFacts
    <3> QED BY <1>1, <1>3, <1>4, <1>5, <2>2, <2>4, <3>2
  <2> QED BY <2>3, <2>4
<1>7. Len(kept) >= key /\ Len(kept) >= stop <=> Len(kept) = stop
  <2>1. ASSUME Len(kept) >= stop PROVE Len(kept) = stop
    <3>1. \A u, v \in Nat : u >= v /\ u <= v => u = v
      OBVIOUS
    <3>2. Len(kept) \in Nat /\ stop \in Nat /\ Len(kept) <= stop
      BY <1>1, <1>3
    <3> QED BY <2>1, <3>1, <3>2, Zenon
  <2>2. ASSUME Len(kept) = stop PROVE Len(kept) >= key /\ Len(kept) >= stop
    BY <1>1, <2>2
  <2> QED BY <2>1, <2>2
<1>8. ASSUME Len(kept) = stop
      PROVE  Figures(p, cap) = [key |-> kept[key].time, total |-> kept[stop].time,
                                size |-> Bytes(kept, DOMAIN kept)]
  <2>1. stop \in 1..Len(kept) /\ key \in 1..Len(kept)
    BY <1>1, <1>8
  <2>2. PICK last \in Seen(p, cap, at) : Ordinal(p, cap, last) = stop
    BY <2>1 DEF Reads
  <2>3. PICK second \in Seen(p, cap, at) : Ordinal(p, cap, second) = key
    BY <2>1 DEF Reads
  <2>4. last \in Counted(p, cap) /\ second \in Counted(p, cap) /\ last <= at
    BY <2>2, <2>3 DEF Seen
  <2>5. (CHOOSE x \in Counted(p, cap) : Ordinal(p, cap, x) = stop) = last
    <3> DEFINE x == CHOOSE x \in Counted(p, cap) : Ordinal(p, cap, x) = stop
    <3>1. x \in Counted(p, cap) /\ Ordinal(p, cap, x) = stop
      BY <2>2, <2>4
    <3> HIDE DEF x
    <3>2. x = last
      BY <2>2, <2>4, <3>1, Ordinals
    <3> QED BY <3>2 DEF x
  <2>6. (CHOOSE x \in Counted(p, cap) : Ordinal(p, cap, x) = key) = second
    <3> DEFINE x == CHOOSE x \in Counted(p, cap) : Ordinal(p, cap, x) = key
    <3>1. x \in Counted(p, cap) /\ Ordinal(p, cap, x) = key
      BY <2>3, <2>4
    <3> HIDE DEF x
    <3>2. x = second
      BY <2>3, <2>4, <3>1, Ordinals
    <3> QED BY <3>2 DEF x
  <2>7. LastPlace(p, cap) = last
    BY <2>5 DEF LastPlace, stop
  <2>8. KeyTime(p, cap) = cap[second].time - cap[1].time
    BY <2>6 DEF KeyTime, key
  <2>9. kept[stop] = Entry(cap, last) /\ kept[key] = Entry(cap, second)
    BY <2>2, <2>3 DEF Reads
  <2>10. Seen(p, cap, last) = Seen(p, cap, at)
    <3>1. /\ last \in Nat /\ IsFiniteSet(Seen(p, cap, at))
          /\ Ordinal(p, cap, last) = Cardinality(Seen(p, cap, last))
      <4>1. last \in Nat
        BY <2>4, CountedFacts
      <4>2. IsFiniteSet(Seen(p, cap, at))
        BY <1>2, SeenFacts
      <4>3. Ordinal(p, cap, last) = Cardinality(Seen(p, cap, last))
        BY DEF Ordinal, Seen
      <4> QED BY <4>1, <4>2, <4>3
    <3>2. \A x \in Counted(p, cap) : x \in Nat
      BY CountedFacts
    <3>3. ASSUME NEW x \in Counted(p, cap), x <= last PROVE x <= at
      <4>1. x \in Nat /\ last \in Nat /\ at \in Nat /\ last <= at /\ x <= last
        BY <1>2, <2>4, <3>1, <3>2, <3>3
      <4> QED BY <4>1
    <3>4. Seen(p, cap, last) \in SUBSET Seen(p, cap, at)
      BY <3>3 DEF Seen
    <3> QED BY <1>4, <1>8, <2>2, <3>1, <3>4, FS_Subset
  <2>11. Bytes(cap, {x \in Counted(p, cap) : x <= last}) = Bytes(kept, DOMAIN kept)
    <3>1. Bytes(cap, Seen(p, cap, at)) = Bytes(kept, DOMAIN kept)
      BY <1>3 DEF Reads
    <3> QED BY <2>10, <3>1 DEF Seen
  <2>12. kept[stop].time = cap[last].time - cap[1].time /\ kept[key].time = cap[second].time - cap[1].time
    BY <2>9 DEF Entry
  <2>13. Complete(p, cap)
    BY <1>6, <1>8
  <2> QED BY <2>7, <2>8, <2>11, <2>12, <2>13 DEF Figures
<1> QED BY <1>1, <1>6, <1>7, <1>8 DEF stop, key

\* the end of MACsec's loop
MacsecEnds(cap, at, kept) ==
    at = Len(cap) \/ (Len(kept) >= MacsecFirst /\ kept[Len(kept)].size >= MacsecSize)

\* what MACsec's makes of what was kept
LEMMA MacsecDone ==
  ASSUME NEW cap \in Caps, NEW at, NEW from, NEW kept,
         Reads("macsec", cap, at, from, kept), MacsecEnds(cap, at, kept)
  PROVE  /\ Len(kept) >= MacsecFirst <=> Complete("macsec", cap)
         /\ Complete("macsec", cap) =>
              Figures("macsec", cap) = [key   |-> kept[Len(kept)].time - kept[MacsecFirst].time,
                                 total |-> kept[Len(kept)].time,
                                 size  |-> Bytes(kept, DOMAIN kept)]
<1>1. /\ Len(cap) \in Nat /\ DOMAIN cap = 1..Len(cap) /\ at \in 0..Len(cap) /\ at \in Nat
      /\ MacsecFirst \in Nat /\ MacsecFirst > 0 /\ MacsecSize \in Nat
  BY CapFacts, MacsecAssumption DEF Reads
<1>2. Counted("macsec", cap) = 1..Len(cap) /\ Seen("macsec", cap, at) = 1..at
  BY <1>1, MacsecCounts
<1>3. ASSUME NEW j \in 0..Len(cap) PROVE Ordinal("macsec", cap, j) = j
  BY MacsecCounts
<1>4. Len(kept) = at /\ DOMAIN kept = 1..at
  <2>1. Len(kept) = at
    BY <1>1, <1>3 DEF Reads
  <2>2. kept \in Seq([time : Int, size : Nat])
    BY DEF Reads
  <2> QED BY <2>1, <2>2, LenProperties
<1>5. ASSUME NEW k \in 1..at PROVE kept[k] = Entry(cap, k) /\ k \in 1..Len(cap)
  <2>1. k \in 0..Len(cap) /\ k \in 1..Len(cap)
    BY <1>1
  <2>2. Ordinal("macsec", cap, k) = k
    BY <1>3, <2>1
  <2>3. kept[Ordinal("macsec", cap, k)] = Entry(cap, k)
    BY <1>2 DEF Reads
  <2> QED BY <2>1, <2>2, <2>3
<1>6. Complete("macsec", cap) <=> Len(cap) >= MacsecFirst
  <2>1. Cardinality(Counted("macsec", cap)) = Len(cap)
    <3>1. Cardinality(1..Len(cap)) = Len(cap)
      BY <1>1, FirstPlaces, Zenon
    <3> QED BY <1>2, <3>1, Zenon
  <2> QED BY <2>1 DEF Complete
<1>7. at >= MacsecFirst <=> Complete("macsec", cap)
  <2>1. CASE at = Len(cap)
    BY <1>6, <2>1
  <2>2. CASE at # Len(cap)
    <3>1. at >= MacsecFirst
      BY <1>4, <2>2 DEF MacsecEnds
    <3>2. Len(cap) >= MacsecFirst
      BY <1>1, <3>1
    <3> QED BY <1>6, <3>1, <3>2
  <2> QED BY <2>1, <2>2
<1>8. ASSUME at >= MacsecFirst
      PROVE  Figures("macsec", cap) = [key   |-> kept[at].time - kept[MacsecFirst].time,
                                total |-> kept[at].time, size |-> Bytes(kept, DOMAIN kept)]
  <2> DEFINE large == {x \in MacsecFirst..Len(cap) : cap[x].size >= MacsecSize}
  <2>1. at \in 1..at /\ MacsecFirst \in 1..at /\ at \in 1..Len(cap) /\ MacsecFirst \in 1..Len(cap)
        /\ 1 \in 1..Len(cap)
    BY <1>1, <1>8
  <2>2. \A x \in 1..Len(cap) : cap[x].time \in Nat /\ cap[x].size \in Nat
    BY CapFacts
  <2>3. ASSUME NEW x \in large PROVE x \in Nat /\ x >= at
    <3>1. x \in MacsecFirst..Len(cap) /\ x \in 1..Len(cap) /\ cap[x].size >= MacsecSize
      BY <1>1
    <3>2. ~(x \in MacsecFirst..at - 1)
      <4>1. SUFFICES ASSUME x \in MacsecFirst..at - 1 PROVE FALSE
        OBVIOUS
      <4>2. cap[x].size < MacsecSize
        BY <4>1 DEF Reads
      <4> QED BY <1>1, <2>2, <3>1, <4>2
    <3> QED BY <1>1, <3>1, <3>2
  <2>4. large # {} => at \in large
    <3>1. CASE at = Len(cap)
      <4>1. SUFFICES ASSUME NEW x \in large PROVE at \in large
        OBVIOUS
      <4>2. x \in MacsecFirst..Len(cap) /\ x >= at
        BY <2>3
      <4>3. x = at
        <5>1. \A u, v \in Nat : u >= v /\ u <= v => u = v
          OBVIOUS
        <5>2. x \in Nat /\ x <= Len(cap)
          BY <1>1, <4>2
        <5> QED BY <1>1, <3>1, <4>2, <5>1, <5>2, Zenon
      <4> QED BY <4>3
    <3>2. CASE at # Len(cap)
      <4>1. kept[at].size >= MacsecSize /\ kept[at] = Entry(cap, at)
        BY <1>4, <1>5, <2>1, <3>2 DEF MacsecEnds
      <4>2. cap[at].size >= MacsecSize
        BY <4>1 DEF Entry
      <4> QED BY <1>1, <1>8, <4>2
    <3> QED BY <3>1, <3>2
  <2>5. large = {} => at = Len(cap)
    <3>1. SUFFICES ASSUME at # Len(cap) PROVE at \in large
      OBVIOUS
    <3>2. kept[at].size >= MacsecSize /\ kept[at] = Entry(cap, at)
      BY <1>4, <1>5, <2>1, <3>1 DEF MacsecEnds
    <3>3. cap[at].size >= MacsecSize
      BY <3>2 DEF Entry
    <3> QED BY <1>1, <1>8, <3>3
  <2>6. LastPlace("macsec", cap) = IF large = {} THEN Len(cap) ELSE Min(large)
    BY DEF LastPlace
  <2> HIDE DEF large
  <2>7. large # {} => Min(large) = at
    <3>1. SUFFICES ASSUME large # {} PROVE Min(large) = at
      OBVIOUS
    <3>2. at \in large /\ \A y \in large : at =< y
      BY <1>1, <2>3, <2>4, <3>1
    <3> DEFINE least == CHOOSE x \in large : \A y \in large : x =< y
    <3>3. least \in large /\ \A y \in large : least =< y
      BY <3>2
    <3>4. Min(large) = least
      BY DEF Min
    <3> HIDE DEF least
    <3>5. least \in Nat /\ least =< at /\ least >= at
      BY <2>3, <3>2, <3>3
    <3> QED BY <1>1, <3>4, <3>5
  <2>8. LastPlace("macsec", cap) = at
    BY <2>5, <2>6, <2>7
  <2>9. KeyTime("macsec", cap) = cap[at].time - cap[MacsecFirst].time
    BY <2>8 DEF KeyTime
  <2>10. /\ kept[at].time = cap[at].time - cap[1].time
         /\ kept[MacsecFirst].time = cap[MacsecFirst].time - cap[1].time
    <3>1. kept[at] = Entry(cap, at) /\ kept[MacsecFirst] = Entry(cap, MacsecFirst)
      BY <1>5, <2>1
    <3> QED BY <3>1 DEF Entry
  <2>11. KeyTime("macsec", cap) = kept[at].time - kept[MacsecFirst].time
    <3>1. cap[at].time \in Int /\ cap[1].time \in Int /\ cap[MacsecFirst].time \in Int
      BY <2>1, <2>2
    <3> QED BY <2>9, <2>10, <3>1
  <2>12. Bytes(cap, {x \in Counted("macsec", cap) : x <= at}) = Bytes(kept, DOMAIN kept)
    BY <1>4 DEF Reads, Seen
  <2>13. Complete("macsec", cap)
    BY <1>7, <1>8
  <2> QED BY <2>8, <2>10, <2>11, <2>12, <2>13 DEF Figures
<1> QED BY <1>4, <1>7, <1>8

\* what the programs may print of a directory
Printable == {Figures(protocol, files[k]) : k \in 1..Len(files)}

\* the file in hand: its loop has read it as it should
InHandInv ==
    /\ i \in Int
    /\ ret \in Seq([time : Int, size : Nat])
    /\ i >= 0 => end = "run" /\ Reads(protocol, files[f], i, start, ret)

\* the files done with: each was complete, and each has its figures
DoneWithInv ==
    /\ results \in Seq(Printable) /\ Len(results) <= Len(files)
    /\ \A k \in 1..Len(results) :
         Complete(protocol, files[k]) /\ results[k] = Figures(protocol, files[k])

\* how the results follow the files, and how it ends
LockstepInv ==
    /\ end = "run" => Len(results) = IF i >= 0 THEN f - 1 ELSE f
    /\ end = "reported" => Len(results) = Len(files)
    /\ end = "IndexError" => f > 0 /\ ~Complete(protocol, files[f])

AnalysisIInv == AnalysisTypeOK /\ InHandInv /\ DoneWithInv /\ LockstepInv

\* a directory holds captures
LEMMA DirectoryFacts ==
  ASSUME files \in Directories
  PROVE  /\ Len(files) \in Nat
         /\ \A k \in 1..Len(files) : files[k] \in Caps
<1>1. files \in Seq(Caps)
  BY DirectoriesAssumption DEF Caps
<1> QED BY <1>1, Queue

LEMMA AnalysisInitially == AnalysisInit => AnalysisIInv
<1>1. SUFFICES ASSUME AnalysisInit PROVE AnalysisIInv
  OBVIOUS
<1>2. Len(files) \in Nat
  BY <1>1, DirectoryFacts DEF AnalysisInit
<1>3. AnalysisTypeOK
  BY <1>1, <1>2 DEF AnalysisInit, AnalysisTypeOK
<1>4. InHandInv
  BY <1>1 DEF AnalysisInit, InHandInv
<1>5. DoneWithInv
  BY <1>1, <1>2 DEF AnalysisInit, DoneWithInv
<1>6. LockstepInv
  BY <1>1 DEF AnalysisInit, LockstepInv
<1> QED BY <1>3, <1>4, <1>5, <1>6 DEF AnalysisIInv

\* a new file: nothing is kept, the clock is not set
LEMMA OpenFileKeeps == ASSUME AnalysisIInv, OpenFile PROVE AnalysisIInv'
<1>1. /\ end = "run" /\ i = -1 /\ f < Len(files) /\ f' = f + 1 /\ i' = 0
      /\ start' = 0 /\ ret' = <<>> /\ cnt' = 0
      /\ protocol' = protocol /\ board' = board /\ files' = files
      /\ results' = results /\ end' = end
  BY DEF OpenFile, given
<1>2. /\ files \in Directories /\ protocol \in Protocols /\ f \in 0..Len(files) /\ Len(files) \in Nat
      /\ f \in Nat /\ f + 1 \in 1..Len(files) /\ f + 1 > 0 /\ Len(results) <= f
  BY <1>1, DirectoryFacts DEF AnalysisIInv, AnalysisTypeOK
<1>3. files[f + 1] \in Caps
  BY <1>2, DirectoryFacts
<1>4. Len(files[f + 1]) \in Nat
  BY <1>3, CapFacts
<1>5. Len(results) = f /\ Len(results) \in Nat
  BY <1>1, <1>2 DEF AnalysisIInv, LockstepInv
<1>6. AnalysisTypeOK'
  BY <1>1, <1>2, <1>4, <1>5 DEF AnalysisIInv, AnalysisTypeOK
<1>7. InHandInv'
  <2>1. Reads(protocol, files[f + 1], 0, 0, <<>>)
    BY <1>2, <1>3, ReadNothing
  <2> QED BY <1>1, <2>1 DEF InHandInv
<1>8. DoneWithInv'
  BY <1>1 DEF AnalysisIInv, DoneWithInv, Printable
<1>9. LockstepInv'
  BY <1>1, <1>2, <1>5 DEF LockstepInv
<1> QED BY <1>6, <1>7, <1>8, <1>9 DEF AnalysisIInv

\* one packet more of the file in hand
LEMMA PacketKeeps == ASSUME AnalysisIInv, Packet PROVE AnalysisIInv'
<1> DEFINE cap == files[f]
<1>1. /\ end = "run" /\ i >= 0 /\ ~Broken /\ i < Len(cap) /\ i' = i + 1
      /\ start' = IF start = 0 THEN cap[i + 1].time ELSE start
      /\ Keep(cap[i + 1], start')
      /\ protocol' = protocol /\ board' = board /\ files' = files /\ f' = f
      /\ results' = results /\ end' = end
  BY DEF Packet, Reading, given
<1>2. /\ protocol \in Protocols /\ files \in Directories /\ f \in 0..Len(files) /\ f > 0
      /\ cnt = Len(ret) /\ cnt <= i /\ i \in Int /\ ret \in Seq([time : Int, size : Nat])
      /\ Reads(protocol, cap, i, start, ret)
  BY <1>1 DEF AnalysisIInv, AnalysisTypeOK, InHandInv
<1>3. Len(files) \in Nat /\ f \in 1..Len(files) /\ cap \in Caps
  <2>1. Len(files) \in Nat /\ f \in 1..Len(files)
    BY <1>2, DirectoryFacts
  <2> QED BY <1>2, <2>1, DirectoryFacts
<1> HIDE DEF cap
<1>4. i \in Nat /\ i + 1 \in 1..Len(cap) /\ start' = cap[1].time /\ i + 1 <= Len(cap)
  BY <1>1, <1>2, <1>3, ReadStart
<1>5. /\ Len(cap) \in Nat /\ DOMAIN cap = 1..Len(cap) /\ cap[i + 1].size \in Nat
      /\ cap[1].time \in Nat /\ cap[i + 1].time \in Nat /\ Len(ret) \in Nat
  <2>1. 1 \in 1..Len(cap) /\ Len(cap) \in Nat
    BY <1>3, <1>4, CapFacts
  <2> QED BY <1>2, <1>3, <1>4, <2>1, CapFacts, LenProperties
<1>6. Passed(cap[i + 1]) <=> i + 1 \notin Counted(protocol, cap)
  BY <1>4, <1>5 DEF Passed, Counted
<1>7. /\ Reads(protocol, cap, i + 1, start', ret') /\ ret' \in Seq([time : Int, size : Nat])
      /\ cnt' = Len(ret') /\ cnt' <= i + 1
  <2>1. CASE Passed(cap[i + 1])
    <3>1. ret' = ret /\ cnt' = cnt
      BY <1>1, <2>1 DEF Keep
    <3>2. Reads(protocol, cap, i + 1, start', ret)
      BY <1>1, <1>2, <1>3, <1>4, <1>6, <2>1, ReadPassed
    <3> QED BY <1>2, <1>4, <1>5, <3>1, <3>2
  <2>2. CASE ~Passed(cap[i + 1])
    <3>1. ret' = Append(ret, Entry(cap, i + 1)) /\ cnt' = cnt + 1
      BY <1>1, <1>4, <2>2 DEF Keep, Entry
    <3>2. /\ protocol # "macsec" => Len(ret) < Rules[protocol].stop
          /\ protocol = "macsec" => ~(Len(ret) >= MacsecFirst /\ ret[Len(ret)].size >= MacsecSize)
      BY <1>1, <1>2, <1>5, RuleFacts DEF Broken
    <3>3. Reads(protocol, cap, i + 1, start', ret')
      BY <1>1, <1>2, <1>3, <1>4, <1>6, <2>2, <3>1, <3>2, ReadKept
    <3>4. Entry(cap, i + 1) \in [time : Int, size : Nat]
      BY <1>5 DEF Entry
    <3>5. ret' \in Seq([time : Int, size : Nat]) /\ Len(ret') = Len(ret) + 1
      BY <1>2, <3>1, <3>4, Appended
    <3> QED BY <1>2, <1>4, <1>5, <3>1, <3>3, <3>5
  <2> QED BY <2>1, <2>2
<1>8. cap = files'[f'] /\ protocol' = protocol
  BY <1>1 DEF cap
<1>9. AnalysisTypeOK'
  BY <1>1, <1>3, <1>4, <1>5, <1>7, <1>8 DEF AnalysisIInv, AnalysisTypeOK
<1>10. InHandInv'
  BY <1>1, <1>4, <1>7, <1>8 DEF InHandInv
<1>11. DoneWithInv'
  BY <1>1 DEF AnalysisIInv, DoneWithInv, Printable
<1>12. LockstepInv'
  BY <1>1, <1>4 DEF AnalysisIInv, LockstepInv
<1> QED BY <1>9, <1>10, <1>11, <1>12 DEF AnalysisIInv

\* the end of a file: what is computed from what was kept is right, or it is an IndexError
LEMMA Closing ==
  ASSUME AnalysisIInv, CloseFile
  PROVE  LET cap == files[f] IN
         /\ ~Complete(protocol, cap) => end' = "IndexError" /\ results' = results
         /\ Complete(protocol, cap) =>
              end' = end /\ results' = Append(results, Figures(protocol, cap))
<1> DEFINE cap == files[f]
           figures == [key   |-> IF protocol = "macsec"
                                 THEN ret[TotalPlace].time - ret[KeyPlace].time
                                 ELSE ret[KeyPlace].time,
                       total |-> ret[TotalPlace].time,
                       size  |-> Bytes(ret, DOMAIN ret)]
<1>1. /\ end = "run" /\ i >= 0
      /\ Len(ret) >= KeyPlace /\ Len(ret) >= TotalPlace =>
           end' = end /\ results' = Append(results, figures)
      /\ ~(Len(ret) >= KeyPlace /\ Len(ret) >= TotalPlace) =>
           end' = "IndexError" /\ results' = results
  BY DEF CloseFile, Reading
<1>2. /\ protocol \in Protocols /\ files \in Directories /\ f \in 1..Len(files)
      /\ cnt = Len(ret) /\ Reads(protocol, cap, i, start, ret)
  BY <1>1, DirectoryFacts DEF AnalysisIInv, AnalysisTypeOK, InHandInv, CloseFile, Reading
<1>3. cap \in Caps
  BY <1>2, DirectoryFacts
<1>4. Broken \/ i = Len(cap)
  BY DEF CloseFile
<1> HIDE DEF cap
<1>5. /\ Len(ret) >= KeyPlace /\ Len(ret) >= TotalPlace <=> Complete(protocol, cap)
      /\ Complete(protocol, cap) => Figures(protocol, cap) = figures
  <2>1. CASE protocol # "macsec"
    <3>1. i = Len(cap) \/ Len(ret) >= Rules[protocol].stop
      BY <1>2, <1>4, <2>1 DEF Broken
    <3>2. KeyPlace = Rules[protocol].key /\ TotalPlace = Rules[protocol].total
      BY <2>1 DEF KeyPlace, TotalPlace
    <3>3. /\ Len(ret) >= Rules[protocol].key /\ Len(ret) >= Rules[protocol].total
               <=> Complete(protocol, cap)
          /\ Complete(protocol, cap) =>
               Figures(protocol, cap) = [key   |-> ret[Rules[protocol].key].time,
                                         total |-> ret[Rules[protocol].total].time,
                                         size  |-> Bytes(ret, DOMAIN ret)]
      BY <1>2, <1>3, <2>1, <3>1, ReadDone
    <3> QED BY <2>1, <3>2, <3>3
  <2>2. CASE protocol = "macsec"
    <3>1. MacsecEnds(cap, i, ret)
      BY <1>2, <1>4, <2>2 DEF Broken, MacsecEnds
    <3>2. KeyPlace = MacsecFirst /\ TotalPlace = Len(ret)
      BY <2>2 DEF KeyPlace, TotalPlace
    <3>3. Reads("macsec", cap, i, start, ret)
      BY <1>2, <2>2
    <3>4. /\ Len(ret) >= MacsecFirst <=> Complete("macsec", cap)
          /\ Complete("macsec", cap) =>
               Figures("macsec", cap) = [key   |-> ret[Len(ret)].time - ret[MacsecFirst].time,
                                         total |-> ret[Len(ret)].time,
                                         size  |-> Bytes(ret, DOMAIN ret)]
      BY <1>3, <3>1, <3>3, MacsecDone
    <3>5. Len(ret) >= Len(ret)
      <4>1. ret \in Seq([time : Int, size : Nat])
        BY DEF AnalysisIInv, InHandInv
      <4>2. Len(ret) \in Nat
        BY <4>1, LenProperties
      <4> QED BY <4>2
    <3> QED BY <2>2, <3>2, <3>4, <3>5
  <2> QED BY <2>1, <2>2
<1> HIDE DEF figures
<1>6. /\ ~Complete(protocol, cap) => end' = "IndexError" /\ results' = results
      /\ Complete(protocol, cap) =>
           end' = end /\ results' = Append(results, Figures(protocol, cap))
  BY <1>1, <1>5
<1> QED BY <1>6 DEF cap

LEMMA CloseFileKeeps == ASSUME AnalysisIInv, CloseFile PROVE AnalysisIInv'
<1> DEFINE cap == files[f]
<1>1. /\ end = "run" /\ i >= 0 /\ i' = -1
      /\ protocol' = protocol /\ board' = board /\ files' = files /\ f' = f
      /\ start' = start /\ ret' = ret /\ cnt' = cnt
  BY DEF CloseFile, Reading, given
<1>2. /\ ~Complete(protocol, cap) => end' = "IndexError" /\ results' = results
      /\ Complete(protocol, cap) =>
           end' = end /\ results' = Append(results, Figures(protocol, cap))
  BY Closing
<1>3. /\ files \in Directories /\ f \in 0..Len(files) /\ f > 0 /\ Len(files) \in Nat
      /\ results \in Seq(Printable) /\ Len(results) = f - 1
  BY <1>1, DirectoryFacts DEF AnalysisIInv, AnalysisTypeOK, DoneWithInv, LockstepInv
<1>4. f \in 1..Len(files) /\ Len(results) \in Nat /\ Len(results) + 1 = f /\ f \in Nat
  BY <1>3
<1>5. Figures(protocol, cap) \in Printable /\ Printable' = Printable
  BY <1>1, <1>4 DEF Printable
<1> DEFINE fig == Figures(protocol, cap)
<1>6. /\ Append(results, fig) \in Seq(Printable)
      /\ Len(Append(results, fig)) = f
      /\ \A k \in 1..Len(results) : Append(results, fig)[k] = results[k]
      /\ Append(results, fig)[f] = fig
  <2> HIDE DEF fig
  <2>1. fig \in Printable
    BY <1>5 DEF fig
  <2>2. /\ Append(results, fig) \in Seq(Printable)
        /\ Len(Append(results, fig)) = Len(results) + 1
        /\ \A k \in 1..Len(results) : Append(results, fig)[k] = results[k]
        /\ Append(results, fig)[Len(results) + 1] = fig
    BY <1>3, <2>1, Appended
  <2> QED BY <1>4, <2>2
<1>7. \/ Complete(protocol, cap) /\ end' = end /\ results' = Append(results, fig)
      \/ ~Complete(protocol, cap) /\ end' = "IndexError" /\ results' = results
  BY <1>2
<1> HIDE DEF fig
<1>8. AnalysisTypeOK'
  <2>1. Len(results') <= f
    BY <1>3, <1>4, <1>6, <1>7
  <2>2. end' \in {"run", "reported", "nothing", "IndexError"}
    BY <1>1, <1>7
  <2>3. i' >= -1 /\ ~(i' >= 0)
    BY <1>1
  <2> QED BY <1>1, <2>1, <2>2, <2>3 DEF AnalysisIInv, AnalysisTypeOK
<1>9. InHandInv'
  BY <1>1 DEF AnalysisIInv, InHandInv
<1>10. DoneWithInv'
  <2>1. CASE ~Complete(protocol, cap)
    BY <1>1, <1>5, <1>7, <2>1 DEF AnalysisIInv, DoneWithInv
  <2>2. CASE Complete(protocol, cap)
    <3>1. results' = Append(results, fig) /\ Len(results') = f /\ results' \in Seq(Printable)'
      BY <1>5, <1>6, <1>7, <2>2
    <3>2. ASSUME NEW k \in 1..f
          PROVE  Complete(protocol, files[k]) /\ results'[k] = Figures(protocol, files[k])
      <4>1. CASE k = f
        BY <1>6, <2>2, <3>1, <4>1 DEF fig
      <4>2. CASE k # f
        <5>1. k \in 1..Len(results)
          BY <1>4, <4>2
        <5> QED BY <1>6, <3>1, <5>1 DEF AnalysisIInv, DoneWithInv
      <4> QED BY <4>1, <4>2
    <3> QED BY <1>1, <1>3, <3>1, <3>2 DEF DoneWithInv
  <2> QED BY <2>1, <2>2
<1>11. LockstepInv'
  <2>1. ~(i' >= 0)
    BY <1>1
  <2>2. CASE Complete(protocol, cap)
    BY <1>1, <1>6, <1>7, <2>1, <2>2 DEF LockstepInv
  <2>3. CASE ~Complete(protocol, cap)
    BY <1>1, <1>3, <1>7, <2>1, <2>3 DEF LockstepInv
  <2> QED BY <2>2, <2>3
<1> QED BY <1>8, <1>9, <1>10, <1>11 DEF AnalysisIInv

\* the steps that read nothing
LEMMA RestKeeps ==
  ASSUME AnalysisIInv, NothingToDo \/ Report \/ AnalysisDone \/ UNCHANGED analysisVars
  PROVE  AnalysisIInv'
<1>1. /\ protocol' = protocol /\ board' = board /\ files' = files /\ f' = f
      /\ i' = i /\ start' = start /\ ret' = ret /\ cnt' = cnt /\ results' = results
  BY DEF NothingToDo, Report, AnalysisDone, analysisVars, given, parser
<1>2. \/ end' = end
      \/ end = "run" /\ i = -1 /\ end' = "nothing"
      \/ end = "run" /\ i = -1 /\ f = Len(files) /\ end' = "reported"
  BY DEF NothingToDo, Report, AnalysisDone, analysisVars
<1>3. AnalysisTypeOK'
  BY <1>1, <1>2 DEF AnalysisIInv, AnalysisTypeOK
<1>4. InHandInv'
  BY <1>1, <1>2 DEF AnalysisIInv, InHandInv
<1>5. DoneWithInv'
  BY <1>1 DEF AnalysisIInv, DoneWithInv, Printable
<1>6. LockstepInv'
  BY <1>1, <1>2 DEF AnalysisIInv, LockstepInv
<1> QED BY <1>3, <1>4, <1>5, <1>6 DEF AnalysisIInv

\* The inductive invariant of the analysers: the loop has kept exactly the packets that
\* count, and the files closed have their figures.
THEOREM AnalysisInvariance == AnalysisSpec => []AnalysisIInv
<1>1. AnalysisIInv /\ [AnalysisNext]_analysisVars => AnalysisIInv'
  BY OpenFileKeeps, PacketKeeps, CloseFileKeeps, RestKeeps DEF AnalysisNext
<1> QED BY AnalysisInitially, <1>1, PTL DEF AnalysisSpec

\* Every variable of the analysers keeps its type, and the list kept never outgrows the
\* packets read.
THEOREM AnalysisTypeCorrect == AnalysisSpec => []AnalysisTypeOK
<1>1. AnalysisIInv => AnalysisTypeOK
  BY DEF AnalysisIInv
<1> QED BY AnalysisInvariance, <1>1, PTL

\* In every directory, of whatever captures, the loop of every program gives each file the
\* figures the whole capture stands for: the right packets, the first one's time as zero.
THEOREM Right == AnalysisSpec => []FiguresRight
<1>1. AnalysisIInv => FiguresRight
  BY DEF AnalysisIInv, DoneWithInv, FiguresRight
<1> QED BY AnalysisInvariance, <1>1, PTL

\* Averages are only printed when every capture of the directory was complete, and only a
\* capture that is not complete ends the program with an IndexError.
THEOREM AllOrNone == AnalysisSpec => []AllOrNothing
<1>1. AnalysisIInv => AllOrNothing
  BY DEF AnalysisIInv, DoneWithInv, LockstepInv, AllOrNothing
<1> QED BY AnalysisInvariance, <1>1, PTL

\* What DtlsEval takes for the packets kept is what the analyser counts: of a capture of
\* six datagrams or more, the first six, whose fifth and sixth give the times; a shorter one
\* ends the program.
THEOREM DtlsFigures ==
  ASSUME NEW cap \in Caps
  PROVE  /\ Complete("dtls12", cap) <=> Len(cap) >= 6
         /\ Len(cap) >= 6 =>
              Figures("dtls12", cap) = [key   |-> cap[5].time - cap[1].time,
                                        total |-> cap[6].time - cap[1].time,
                                        size  |-> Bytes(cap, 1..6)]
<1>1. Rules["dtls12"] = [skip |-> FALSE, stop |-> 6, key |-> 5, total |-> 6]
  BY DEF Rules
<1>2. Len(cap) \in Nat /\ DOMAIN cap = 1..Len(cap)
  BY CapFacts
<1>3. Counted("dtls12", cap) = 1..Len(cap)
  BY <1>1, <1>2 DEF Counted
<1>4. \A u \in Nat : Cardinality(1..u) = u
  BY FirstPlaces, Zenon
<1>5. Cardinality(Counted("dtls12", cap)) = Len(cap)
  BY <1>2, <1>3, <1>4, Zenon
<1>6. Complete("dtls12", cap) <=> Len(cap) >= 6
  BY <1>1, <1>5 DEF Complete
<1>7. ASSUME Len(cap) >= 6
      PROVE  Figures("dtls12", cap) = [key   |-> cap[5].time - cap[1].time,
                                       total |-> cap[6].time - cap[1].time,
                                       size  |-> Bytes(cap, 1..6)]
  <2>1. ASSUME NEW j \in 1..Len(cap) PROVE Ordinal("dtls12", cap, j) = j
    <3>1. {x \in Counted("dtls12", cap) : x <= j} = 1..j /\ j \in Nat
      BY <1>2, <1>3
    <3>2. Ordinal("dtls12", cap, j) = Cardinality(1..j)
      BY <3>1 DEF Ordinal
    <3> QED BY <1>4, <3>1, <3>2, Zenon
  <2>2. 5 \in 1..Len(cap) /\ 6 \in 1..Len(cap)
    BY <1>2, <1>7
  <2>3. (CHOOSE x \in Counted("dtls12", cap) : Ordinal("dtls12", cap, x) = 6) = 6
    BY <1>3, <2>1, <2>2
  <2>4. (CHOOSE x \in Counted("dtls12", cap) : Ordinal("dtls12", cap, x) = 5) = 5
    BY <1>3, <2>1, <2>2
  <2>5. LastPlace("dtls12", cap) = 6
    BY <1>1, <2>3 DEF LastPlace
  <2>6. KeyTime("dtls12", cap) = cap[5].time - cap[1].time
    <3>1. (CHOOSE x \in Counted("dtls12", cap) :
             Ordinal("dtls12", cap, x) = Rules["dtls12"].key) = 5
      BY <1>1, <2>4
    <3> QED BY <3>1 DEF KeyTime
  <2>7. {x \in Counted("dtls12", cap) : x <= 6} = 1..6
    BY <1>2, <1>3, <1>7
  <2> QED BY <1>6, <1>7, <2>5, <2>6, <2>7 DEF Figures
<1> QED BY <1>6, <1>7
=============================================================================

------------------------- MODULE ClientParts_proofs -------------------------
(***************************************************************************)
(* Proofs about the parts of client.c that have a specification of their    *)
(* own beside the session: the option loop (ClientOptions), StartTLS_Init   *)
(* (StartTls) and NonBlockingSSL_Connect (NonBlockingConnect).  They hold   *)
(* for command lines of any length in any build, for replies of any length  *)
(* and a buffer of any size, and for any number of flights and any bounds.  *)
(***************************************************************************)
EXTENDS ClientOptions, StartTls, NonBlockingConnect, TLAPS, WellFoundedInduction

----------------------------------------------------------------------------
(* The option loop: what a letter assigns. *)

\* what a case of the switch may do: numbers for variables there are
IsAssignment(e) ==
    /\ e = [v \in DOMAIN e |-> e[v]]
    /\ DOMAIN e \subseteq Variables
    /\ \A v \in DOMAIN e : e[v] \in Int

\* what the #ifdefs around the cases promise of their assignments
Sanctioned(e) ==
    /\ "helloRetry" \in DOMAIN e => "TLS13" \in build
    /\ "onlyKeyShare" \in DOMAIN e =>
          \/ e["onlyKeyShare"] = 1 /\ {"TLS13", "DH"} \subseteq build
          \/ e["onlyKeyShare"] = 2 /\ {"TLS13", "ECC"} \subseteq build
    /\ "useX25519" \in DOMAIN e =>
          "CURVE25519" \in build
             /\ ({"TLS13", "ECC"} \subseteq build => "onlyKeyShare" \in DOMAIN e)
    /\ "earlyData" \in DOMAIN e => "EARLY_DATA" \in build
    /\ "forceScr" \in DOMAIN e => "SECURE_RENEGOTIATION" \in build
    /\ "postHandAuth" \in DOMAIN e => {"TLS13", "POST_HANDSHAKE_AUTH"} \subseteq build
    /\ "doDTLS" \in DOMAIN e => e["doDTLS"] = 1
    /\ "dtlsUDP" \in DOMAIN e => "doDTLS" \in DOMAIN e

\* the variables of client_test, by name
LEMMA VariableNames ==
  Variables = {"host", "domain", "port", "version", "usePsk", "useAnon", "sendGET",
     "benchmark", "throughput", "doDTLS", "dtlsUDP", "dtlsSCTP", "doMcast", "mcastID",
     "matchName", "doPeerCheck", "nonBlocking", "resumeSession", "wc_shutdown",
     "disableCRL", "externalTest", "scr", "forceScr", "useClientCert", "fewerPackets",
     "atomicUser", "pkCallbacks", "overrideDateErrors", "minDhKeyBits", "alpnList",
     "cipherList", "useDefCipherList", "verifyCert", "ourCert", "ourKey", "doSTARTTLS",
     "starttlsProt", "useVerifyCb", "trustCert", "sniHostName", "maxFragment",
     "truncatedHMAC", "statusRequest", "disableExtMasterSecret", "helloRetry",
     "onlyKeyShare", "noPskDheKe", "postHandAuth", "updateKeysIVs", "earlyData",
     "useOcsp", "ocspUrl", "useX25519", "wnrConfigFile"}
  BY DEF Variables, Defaults

\* the cases, group by group, assign numbers, and only what their #ifdefs allow
LEMMA PeerAssigns ==
  ASSUME NEW l, NEW i \in Int
  PROVE  IsAssignment(PeerCases(l, i)) /\ Sanctioned(PeerCases(l, i))
<1>1. CASE l \in {"g", "d", "D", "C", "u", "G", "s", "E"}
  <2>1. IsAssignment(PeerCases(l, i))
    BY <1>1, VariableNames, SMTT(30) DEF PeerCases, IsAssignment, When, Nothing
  <2>2. Sanctioned(PeerCases(l, i))
    BY <1>1, SMTT(30) DEF PeerCases, Sanctioned, When, Nothing
  <2> QED BY <2>1, <2>2
<1>2. CASE l \in {"m", "x", "X", "f", "U", "P", "h"}
  <2>1. IsAssignment(PeerCases(l, i))
    BY <1>2, VariableNames, SMTT(30) DEF PeerCases, IsAssignment, When, Nothing
  <2>2. Sanctioned(PeerCases(l, i))
    BY <1>2, SMTT(30) DEF PeerCases, Sanctioned, When, Nothing
  <2> QED BY <2>1, <2>2
<1>3. CASE l \notin {"g", "d", "D", "C", "u", "G", "s", "E", "m", "x", "X", "f", "U", "P", "h"}
  <2>1. PeerCases(l, i) = Nothing
    BY <1>3, SMTT(30) DEF PeerCases
  <2>2. Nothing = [v \in {} |-> 0] /\ DOMAIN Nothing = {}
    BY DEF Nothing
  <2> QED BY <2>1, <2>2 DEF IsAssignment, Sanctioned
<1> QED BY <1>1, <1>2, <1>3

LEMMA CredentialAssigns ==
  ASSUME NEW l, NEW w, w.num \in Int, NEW i \in Int
  PROVE  IsAssignment(CredentialCases(l, w, i)) /\ Sanctioned(CredentialCases(l, w, i))
<1>1. PortOf(w) \in Int
  BY DEF PortOf
<1> QED BY <1>1, VariableNames DEF CredentialCases, IsAssignment, Sanctioned, When, Nothing

LEMMA ModeAssigns ==
  ASSUME NEW l, NEW w, w.num \in Int
  PROVE  IsAssignment(ModeCases(l, w)) /\ Sanctioned(ModeCases(l, w))
  BY VariableNames DEF ModeCases, IsAssignment, Sanctioned, When, Nothing

LEMMA ExtensionAssigns ==
  ASSUME NEW l, NEW w, w.num \in Int, NEW i \in Int
  PROVE  IsAssignment(ExtensionCases(l, w, i)) /\ Sanctioned(ExtensionCases(l, w, i))
<1>1. ByteOf(w) \in Int
  BY DEF ByteOf
<1> QED BY <1>1, VariableNames DEF ExtensionCases, IsAssignment, Sanctioned, When, Nothing

LEMMA Tls13Assigns ==
  ASSUME NEW l, NEW w, w.num \in Int
  PROVE  IsAssignment(Tls13Cases(l, w)) /\ Sanctioned(Tls13Cases(l, w))
<1>1. ByteOf(w) \in Int
  BY DEF ByteOf
<1>3. CASE l # "t"
  <2>1. IsAssignment(Tls13Cases(l, w))
    BY <1>1, <1>3, VariableNames DEF Tls13Cases, IsAssignment, When, Nothing
  <2>2. Sanctioned(Tls13Cases(l, w))
    BY <1>1, <1>3, VariableNames DEF Tls13Cases, Sanctioned, When, Nothing
  <2> QED BY <2>1, <2>2
<1>4. CASE l = "t" /\ ~({"CURVE25519"} \subseteq build)
  BY <1>4, VariableNames DEF Tls13Cases, IsAssignment, Sanctioned, When, Nothing
<1>5. CASE l = "t" /\ {"CURVE25519"} \subseteq build /\ {"TLS13", "ECC"} \subseteq build
  <2>1. Tls13Cases(l, w) = [useX25519 |-> 1, onlyKeyShare |-> 2]
    BY <1>5 DEF Tls13Cases, When
  <2> QED BY <1>5, <2>1, VariableNames DEF IsAssignment, Sanctioned
<1>6. CASE l = "t" /\ {"CURVE25519"} \subseteq build /\ ~({"TLS13", "ECC"} \subseteq build)
  <2>1. Tls13Cases(l, w) = [useX25519 |-> 1]
    BY <1>6 DEF Tls13Cases, When
  <2> QED BY <1>6, <2>1, VariableNames DEF IsAssignment, Sanctioned
<1> QED BY <1>3, <1>4, <1>5, <1>6

\* one assignment over another is one, and is allowed if both are
LEMMA Merged ==
  ASSUME NEW d, NEW e, IsAssignment(d), Sanctioned(d), IsAssignment(e), Sanctioned(e)
  PROVE  IsAssignment(Over(d, e)) /\ Sanctioned(Over(d, e))
<1> DEFINE both == Over(d, e)
<1>1. /\ DOMAIN both = DOMAIN d \cup DOMAIN e
      /\ both = [v \in DOMAIN both |-> both[v]]
      /\ \A v \in DOMAIN e : both[v] = e[v]
      /\ \A v \in DOMAIN d \ DOMAIN e : both[v] = d[v]
  BY DEF Over
<1> HIDE DEF both
<1>2. IsAssignment(both)
  BY <1>1 DEF IsAssignment
<1>3. Sanctioned(both)
  BY <1>1 DEF Sanctioned
<1> QED BY <1>2, <1>3 DEF both

\* what any case assigns is allowed
LEMMA WhatIsAssigned ==
  ASSUME NEW l, NEW w, w.num \in Int, NEW i \in Int
  PROVE  IsAssignment(Assigned(l, w, i)) /\ Sanctioned(Assigned(l, w, i))
<1> DEFINE peers == Over(PeerCases(l, i), CredentialCases(l, w, i))
           modes == Over(ModeCases(l, w), ExtensionCases(l, w, i))
<1>1. IsAssignment(peers) /\ Sanctioned(peers)
  BY PeerAssigns, CredentialAssigns, Merged
<1>2. IsAssignment(modes) /\ Sanctioned(modes)
  BY ModeAssigns, ExtensionAssigns, Merged
<1>3. IsAssignment(Over(peers, modes)) /\ Sanctioned(Over(peers, modes))
  BY <1>1, <1>2, Merged
<1>4. IsAssignment(Over(Over(peers, modes), Tls13Cases(l, w)))
      /\ Sanctioned(Over(Over(peers, modes), Tls13Cases(l, w)))
  BY <1>3, Tls13Assigns, Merged
<1> QED BY <1>4 DEF Assigned

\* none but -v assigns the version, and it assigns its argument
LEMMA VersionAssigned ==
  ASSUME NEW l, NEW w, w.num \in Int, NEW i \in Int
  PROVE  /\ "version" \in DOMAIN Assigned(l, w, i) <=> l = "v"
         /\ l = "v" => Assigned(l, w, i)["version"] = w.num
<1> DEFINE peers == Over(PeerCases(l, i), CredentialCases(l, w, i))
           modes == Over(ModeCases(l, w), ExtensionCases(l, w, i))
           late  == Over(peers, modes)
<1>1. "version" \notin DOMAIN PeerCases(l, i)
  BY DEF PeerCases, When, Nothing
<1>2. "version" \notin DOMAIN ModeCases(l, w)
  BY DEF ModeCases, When, Nothing
<1>3. "version" \notin DOMAIN ExtensionCases(l, w, i)
  BY DEF ExtensionCases, When, Nothing
<1>4. "version" \notin DOMAIN Tls13Cases(l, w)
  BY DEF Tls13Cases, When, Nothing
<1>5. /\ "version" \in DOMAIN CredentialCases(l, w, i) <=> l = "v"
      /\ l = "v" => CredentialCases(l, w, i)["version"] = w.num
  BY DEF CredentialCases, When, Nothing
<1>6. /\ "version" \in DOMAIN peers <=> l = "v"
      /\ l = "v" => peers["version"] = w.num
  BY <1>1, <1>5 DEF Over
<1>7. "version" \notin DOMAIN modes
  BY <1>2, <1>3 DEF Over
<1> HIDE DEF peers, modes
<1>8. /\ "version" \in DOMAIN late <=> l = "v"
      /\ l = "v" => late["version"] = w.num
  BY <1>6, <1>7 DEF Over
<1> HIDE DEF late
<1>9. /\ "version" \in DOMAIN Over(late, Tls13Cases(l, w)) <=> l = "v"
      /\ l = "v" => Over(late, Tls13Cases(l, w))["version"] = w.num
  BY <1>4, <1>8 DEF Over
<1> QED BY <1>9 DEF Assigned, peers, modes, late

----------------------------------------------------------------------------
(* A nonempty set of natural numbers has a least element.                   *)

Less == {ss \in Nat \X Nat : ss[1] < ss[2]}

\* a set of numbers that is not empty has a least one
LEMMA LeastNumber ==
  ASSUME NEW S, S \subseteq Nat, S # {}
  PROVE  \E x \in S : \A y \in S : x <= y
<1>1. IsWellFoundedOn(Less, Nat)
  BY NatLessThanWellFounded DEF OpToRel, Less
<1>2. PICK x \in S : \A y \in S : <<y, x>> \notin Less
  BY <1>1, WFMin
<1>3. \A y \in S : <<y, x>> \in Nat \X Nat
  OBVIOUS
<1>4. \A y \in S : ~(y < x)
  BY <1>2, <1>3 DEF Less
<1> QED BY <1>4

\* a chain of any length in which each place depends on the two before it can be built
LEMMA Reaching ==
  ASSUME NEW m \in Nat, NEW S
  PROVE  \E r : r = [k \in 1..m |-> \/ k = 1
                                    \/ \E j \in {k - 1, k - 2} \cap 1..k : r[j] /\ <<j, k>> \in S]
<1> DEFINE Chain(r, k) == \/ k = 1
                          \/ \E j \in {k - 1, k - 2} \cap 1..k : r[j] /\ <<j, k>> \in S
           Lacking == {l \in Nat : ~ \E r : r = [k \in 1..l |-> Chain(r, k)]}
<1> SUFFICES Lacking = {}
  OBVIOUS
<1> SUFFICES ASSUME Lacking # {} PROVE FALSE
  OBVIOUS
<1>1. PICK l \in Lacking : \A x \in Lacking : l <= x
  BY LeastNumber
<1>2. l # 0
  <2>1. 1..0 = {}
    OBVIOUS
  <2>2. [k \in 1..0 |-> Chain(<<>>, k)] = <<>>
    BY <2>1
  <2> QED BY <2>1
<1>3. l - 1 \in Nat /\ l - 1 \notin Lacking
  <2>1. l \in Nat
    BY <1>1
  <2>2. l - 1 \in Nat /\ ~(l <= l - 1)
    BY <1>2, <2>1
  <2> HIDE DEF Lacking
  <2> QED BY <1>1, <2>2
<1>4. PICK r : r = [k \in 1..(l - 1) |-> Chain(r, k)]
  BY <1>3
<1> DEFINE q == [k \in 1..l |-> IF k = l THEN Chain(r, l) ELSE r[k]]
<1>5. ASSUME NEW k \in 1..l PROVE q[k] = Chain(q, k)
  <2>0. \A j \in 1..(l - 1) : j \in 1..l /\ j # l
    BY <1>1
  <2>1. \A j \in 1..(l - 1) : q[j] = r[j]
    <3> HIDE DEF Chain
    <3> QED BY <2>0
  <2>2. {k - 1, k - 2} \cap 1..k \subseteq 1..(l - 1)
    BY <1>1
  <2>3. Chain(r, k) = Chain(q, k)
    BY <2>1, <2>2
  <2>4. q[k] = Chain(r, k)
    <3>1. CASE k = l
      BY <3>1
    <3>2. CASE k # l
      <4>1. k \in 1..(l - 1)
        BY <1>1, <3>2
      <4>2. q[k] = r[k]
        BY <3>2
      <4>3. r[k] = Chain(r, k)
        BY <1>4, <4>1
      <4> QED BY <4>2, <4>3
    <3> QED BY <3>1, <3>2
  <2> QED BY <2>3, <2>4
<1>6. q = [k \in 1..l |-> Chain(q, k)]
  BY <1>5
<1> QED BY <1>1, <1>6

\* what argv holds
WordList == Seq([letter : STRING, num : Int, text : Texts])

\* a word is reached from the one before it, or over its argument
LEMMA ReachedWhen ==
  ASSUME argv \in WordList
  PROVE  \A i \in 1..Len(argv) :
           i \in Reached <=>
             \/ i = 1
             \/ \E j \in {i - 1, i - 2} \cap 1..i :
                   j \in Reached /\ IsOption(j) /\ Last(j) = i - 1
<1> DEFINE S == {s \in (1..Len(argv)) \X (1..Len(argv)) :
                    IsOption(s[1]) /\ Last(s[1]) = s[2] - 1}
           IsChain(r) == r = [i \in 1..Len(argv) |->
                    \/ i = 1
                    \/ \E j \in {i - 1, i - 2} \cap 1..i :
                          r[j] /\ IsOption(j) /\ Last(j) = i - 1]
           reached == CHOOSE r : IsChain(r)
<1>1. Len(argv) \in Nat
  BY DEF WordList
<1>2. PICK r : r = [k \in 1..Len(argv) |->
                      \/ k = 1
                      \/ \E j \in {k - 1, k - 2} \cap 1..k : r[j] /\ <<j, k>> \in S]
  BY <1>1, Reaching
<1>3. \A i \in 1..Len(argv) : \A j \in {i - 1, i - 2} \cap 1..i :
         <<j, i>> \in S <=> IsOption(j) /\ Last(j) = i - 1
  BY <1>1
<1>4. IsChain(r)
  <2> HIDE DEF S
  <2> DEFINE A(i) == \/ i = 1
                     \/ \E j \in {i - 1, i - 2} \cap 1..i : r[j] /\ <<j, i>> \in S
             B(i) == \/ i = 1
                     \/ \E j \in {i - 1, i - 2} \cap 1..i :
                           r[j] /\ IsOption(j) /\ Last(j) = i - 1
  <2>1. \A i \in 1..Len(argv) : A(i) = B(i)
    BY <1>3
  <2>2. r = [i \in 1..Len(argv) |-> A(i)]
    BY <1>2
  <2>3. r = [i \in 1..Len(argv) |-> B(i)]
    <3> HIDE DEF A, B
    <3> QED BY <2>1, <2>2
  <2> QED BY <2>3
<1>5. IsChain(reached)
  <2> HIDE DEF IsChain
  <2> QED BY <1>4
<1>6. Reached = {i \in 1..Len(argv) : reached[i]}
  BY DEF Reached
<1> HIDE DEF reached
<1> QED BY <1>5, <1>6

----------------------------------------------------------------------------
(* The invariant.                                                           *)

\* the variables are those some options of this build can have set
AcceptedInv ==
    /\ set["helloRetry"] = 1 => "TLS13" \in build
    /\ set["onlyKeyShare"] \in 0..2
    /\ set["onlyKeyShare"] = 1 => {"TLS13", "DH"} \subseteq build
    /\ set["onlyKeyShare"] = 2 => {"TLS13", "ECC"} \subseteq build
    /\ set["useX25519"] = 1 =>
          "CURVE25519" \in build
             /\ ({"TLS13", "ECC"} \subseteq build => set["onlyKeyShare"] # 0)
    /\ set["earlyData"] = 1 => "EARLY_DATA" \in build
    /\ set["forceScr"] = 1 => "SECURE_RENEGOTIATION" \in build
    /\ set["postHandAuth"] = 1 => {"TLS13", "POST_HANDSHAKE_AUTH"} \subseteq build
    /\ set["doDTLS"] \in {0, 1}
    /\ set["dtlsUDP"] = 1 => set["doDTLS"] = 1

\* the version is resolved behind the loop, and DTLS has versions of its own
VersionInv ==
    /\ stage \in {"method", "session"} /\ set["doDTLS"] = 1 => set["version"] \in {-2, -1}
    /\ stage = "session" => set["version"] \in Methods

\* v has the value of the last option of S that assigns it, or its default
GivenBy(S, v) ==
    LET givers == {i \in S : v \in DOMAIN Effect(i)}
    IN  \/ givers = {} /\ set[v] = Defaults[v]
        \/ \E i \in givers : (\A j \in givers : j <= i) /\ set[v] = Effect(i)[v]

\* an option in the documented range, one a cast has cut into it, or -v 4
\* without TLS 1.3
InRange(i) ==
    \/ Documented(mygetopt(i), Argument(i)) \/ CutIntoRange(mygetopt(i), Argument(i))
    \/ UndocumentedVersion(mygetopt(i), Argument(i))

\* a -v 4 without TLS 1.3 that no later -v overrides
Stray(i) == UndocumentedVersion(mygetopt(i), Argument(i)) /\ ~Overridden(i)

\* it is the version, or else DTLS has made one of its own of it
StrayInv ==
    stage \in {"method", "session"} =>
        \A i \in InEffect :
            Stray(i) => set["version"] = 4 \/ (set["version"] = -1 /\ set["doDTLS"] = 1)

\* the options read so far
Before == {i \in InEffect : i < myoptind}

\* the loop reads word by word what is reached, and its variables mean it
ReadingInv ==
    stage \in {"main", "options"} =>
        /\ myoptind \in 1..Len(argv) + 1
        /\ myoptind <= Len(argv) => myoptind \in Reached
        /\ \A i \in Before : Last(i) < myoptind /\ InRange(i)
        /\ \A v \in Variables : GivenBy(Before, v)

\* and what it has read stays so behind it, but for the version
ReadInv ==
    Parsed =>
        /\ \A i \in InEffect : InRange(i)
        /\ \A v \in Variables :
              (v = "version" /\ stage \in {"method", "session"}) \/ GivenBy(InEffect, v)

\* the inductive invariant of the option loop
OptionsIInv ==
    OptionsTypeOK /\ AcceptedInv /\ VersionInv /\ ReadingInv /\ ReadInv /\ StrayInv

\* the words of a command line
LEMMA ArgvIsWords ==
  ASSUME OptionsTypeOK
  PROVE  /\ argv \in WordList /\ Len(argv) \in Nat
         /\ \A i \in 1..Len(argv) : argv[i].num \in Int
<1>1. argv \in WordList
  BY CommandLinesAssumption DEF OptionsTypeOK, WordList
<1> DEFINE Word == [letter : STRING, num : Int, text : Texts]
<1>2. \A i \in 1..Len(argv) : argv[i] \in Word
  <2>1. argv \in Seq(Word)
    BY <1>1 DEF WordList
  <2> HIDE DEF Word
  <2> QED BY <2>1
<1>3. \A w \in Word : w.num \in Int
  OBVIOUS
<1>4. Len(argv) \in Nat
  BY <1>1 DEF WordList
<1> HIDE DEF Word
<1> QED BY <1>1, <1>2, <1>3, <1>4

\* an option ends with itself or with the word behind it, which is there
LEMMA OptionEnds ==
  ASSUME OptionsTypeOK, NEW i \in 1..Len(argv)
  PROVE  Last(i) \in {i, i + 1} /\ Last(i) \in 1..Len(argv)
<1>1. mygetopt(i) \in WithArgument => i # Len(argv)
  <2>1. "?" \notin WithArgument
    BY DEF WithArgument
  <2> HIDE DEF WithArgument
  <2> QED BY <2>1 DEF mygetopt
<1> QED BY <1>1, ArgvIsWords DEF Last

\* an option in effect assigns what its letter may
LEMMA OptionAssigns ==
  ASSUME OptionsTypeOK, NEW i \in 1..Len(argv)
  PROVE  IsAssignment(Effect(i)) /\ Sanctioned(Effect(i))
<1>1. Last(i) \in Int /\ Argument(i).num \in Int
  BY OptionEnds, ArgvIsWords DEF Argument
<1> QED BY <1>1, WhatIsAssigned DEF Effect

\* an option in effect assigns the version when it is -v
LEMMA VersionOption ==
  ASSUME OptionsTypeOK, NEW i \in 1..Len(argv)
  PROVE  /\ "version" \in DOMAIN Effect(i) <=> mygetopt(i) = "v"
         /\ mygetopt(i) = "v" => Effect(i)["version"] = Argument(i).num
<1>1. Last(i) \in Int /\ Argument(i).num \in Int
  BY OptionEnds, ArgvIsWords DEF Argument
<1> QED BY <1>1, VersionAssigned DEF Effect

\* what the words mean does not change while they are read
LEMMA WordsStay ==
  ASSUME UNCHANGED <<build, argv>>
  PROVE  /\ Reached' = Reached /\ InEffect' = InEffect
         /\ \A i : Effect(i)' = Effect(i) /\ Last(i)' = Last(i)
         /\ \A i : InRange(i)' <=> InRange(i)
         /\ \A i : Stray(i)' <=> Stray(i)
<1>1. ASSUME NEW i PROVE Last(i)' = Last(i)
  BY DEF mygetopt, Last
<1>2. ASSUME NEW i PROVE Effect(i)' = Effect(i)
  <2>1. PeerCases(mygetopt(i), Last(i))' = PeerCases(mygetopt(i), Last(i))
    BY DEF PeerCases, When, mygetopt, Last
  <2>2. CredentialCases(mygetopt(i), Argument(i), Last(i))'
          = CredentialCases(mygetopt(i), Argument(i), Last(i))
    BY DEF CredentialCases, When, mygetopt, Last, Argument
  <2>3. ModeCases(mygetopt(i), Argument(i))' = ModeCases(mygetopt(i), Argument(i))
    BY DEF ModeCases, When, mygetopt, Last, Argument
  <2>4. ExtensionCases(mygetopt(i), Argument(i), Last(i))'
          = ExtensionCases(mygetopt(i), Argument(i), Last(i))
    BY DEF ExtensionCases, When, mygetopt, Last, Argument
  <2>5. Tls13Cases(mygetopt(i), Argument(i))' = Tls13Cases(mygetopt(i), Argument(i))
    BY DEF Tls13Cases, When, mygetopt, Last, Argument
  <2> QED BY <2>1, <2>2, <2>3, <2>4, <2>5 DEF Effect, Assigned, Over
<1>3. Reached' = Reached
  BY DEF Reached, Last, IsOption, mygetopt
<1>4. InEffect' = InEffect
  BY DEF InEffect, Reached, Last, IsOption, mygetopt
<1>5. ASSUME NEW i PROVE InRange(i)' <=> InRange(i)
  <2>1. Documented(mygetopt(i), Argument(i))' <=> Documented(mygetopt(i), Argument(i))
    BY SMT DEF Documented, Has, mygetopt, Last, Argument
  <2>2. CutIntoRange(mygetopt(i), Argument(i))' <=> CutIntoRange(mygetopt(i), Argument(i))
    BY SMT DEF CutIntoRange, PortOf, ByteOf, mygetopt, Last, Argument
  <2>3. UndocumentedVersion(mygetopt(i), Argument(i))' <=> UndocumentedVersion(mygetopt(i), Argument(i))
    BY SMT DEF UndocumentedVersion, Has, mygetopt, Last, Argument
  <2> QED BY <2>1, <2>2, <2>3 DEF InRange
<1>6. ASSUME NEW i PROVE Stray(i)' <=> Stray(i)
  <2>1. UndocumentedVersion(mygetopt(i), Argument(i))' <=> UndocumentedVersion(mygetopt(i), Argument(i))
    BY SMT DEF UndocumentedVersion, Has, mygetopt, Last, Argument
  <2>2. \A j : mygetopt(j)' = mygetopt(j)
    BY DEF mygetopt
  <2>3. Overridden(i)' <=> Overridden(i)
    BY <1>4, <2>2 DEF Overridden
  <2> QED BY <2>1, <2>3 DEF Stray
<1> QED BY <1>1, <1>2, <1>3, <1>4, <1>5, <1>6

\* an option that is let through is in the documented range, was cut into it,
\* or is a -v 4 without TLS 1.3
LEMMA GoodInRange ==
  ASSUME OptionsTypeOK, NEW i \in 1..Len(argv), Good(i)
  PROVE  InRange(i)
<1> DEFINE l == mygetopt(i)  w == Argument(i)
<1>1. ~BadOption(l, w) /\ ~BadPort(l, w)
  BY DEF Good
<1>2. w.num \in Int
  BY OptionEnds, ArgvIsWords DEF Argument
<1> HIDE DEF l, w
<1>3. Documented(l, w) \/ CutIntoRange(l, w) \/ UndocumentedVersion(l, w)
  <2>1. CASE l = "p"
    BY <1>1, <2>1, SMT DEF BadPort, CutIntoRange
  <2>2. CASE l = "F" /\ Has("MAX_FRAGMENT")
    BY <1>1, <2>2, SMT DEF BadOption, BadExtension, CutIntoRange, WOLFSSL_MFL_2_9, WOLFSSL_MFL_2_13
  <2>3. CASE l = "3"
    BY <2>3, SMT DEF CutIntoRange
  <2>4. CASE l \notin {"p", "3"} /\ ~(l = "F" /\ Has("MAX_FRAGMENT"))
    <3>1. l = "v" => w.num \in 0..3 \/ w.num = 4
      BY <1>1, <1>2, SMT DEF BadOption, BadVersion
    <3>2. /\ l = "M" => w.text = "smtp"
          /\ l = "L" /\ Has("ALPN") => w.text \in {"C:", "F:"}
      BY <1>1 DEF BadOption, BadExtension, BadProtocol
    <3>3. CASE ~(l = "v" /\ w.num = 4 /\ ~Has("TLS13"))
      BY <2>4, <3>1, <3>2, <3>3, SMT DEF Documented
    <3> QED BY <3>3 DEF UndocumentedVersion
  <2> QED BY <2>1, <2>2, <2>3, <2>4
<1> QED BY <1>3 DEF l, w, InRange

\* what is given by an unchanged set of options stays given
LEMMA GivenStays ==
  ASSUME UNCHANGED <<build, argv>>, NEW S, NEW v, set'[v] = set[v], GivenBy(S, v)
  PROVE  GivenBy(S, v)'
<1>1. \A i : Effect(i)' = Effect(i)
  BY WordsStay
<1> QED BY <1>1 DEF GivenBy

\* a step that does not resolve the version leaves it where it is
LEMMA StrayStays ==
  ASSUME OptionsIInv, UNCHANGED <<build, argv, set>>,
         stage' \in {"method", "session"} => stage \in {"method", "session"}
  PROVE  StrayInv'
<1>1. StrayInv
  BY DEF OptionsIInv
<1>2. InEffect' = InEffect /\ \A i : Stray(i)' <=> Stray(i)
  BY WordsStay
<1> QED BY <1>1, <1>2 DEF StrayInv

\* a -v 4 that is not overridden is the version the loop leaves, and DTLS
\* makes its oldest version of it
LEMMA StrayResolved ==
  ASSUME OptionsIInv, ResolveVersion
  PROVE  StrayInv'
<1>1. /\ OptionsTypeOK /\ ReadInv /\ Parsed
      /\ stage = "version" /\ UNCHANGED <<build, argv>>
      /\ set["doDTLS"] \in {0, 1}
  BY DEF OptionsIInv, ResolveVersion, At, Go, Parsed, AcceptedInv
<1>2. InEffect' = InEffect /\ \A i : Stray(i)' <=> Stray(i)
  BY <1>1, WordsStay
<1>3. ASSUME NEW i \in InEffect, Stray(i)
      PROVE  set'["version"] = 4 \/ (set'["version"] = -1 /\ set'["doDTLS"] = 1)
  <2>1. InEffect \subseteq 1..Len(argv)
    BY DEF InEffect, Reached
  <2>2. mygetopt(i) = "v" /\ Argument(i).num = 4
    BY <1>3 DEF Stray, UndocumentedVersion
  <2>3. "version" \in DOMAIN Effect(i)
    BY <1>1, <2>1, <2>2, VersionOption
  <2>4. \A j \in InEffect : "version" \in DOMAIN Effect(j) => ~(i < j)
    BY <1>1, <1>3, <2>1, VersionOption DEF Stray, Overridden
  <2>5. GivenBy(InEffect, "version")
    <3>1. "version" \in Variables
      BY VariableNames
    <3> QED BY <1>1, <3>1 DEF ReadInv
  <2>6. PICK k \in InEffect : /\ "version" \in DOMAIN Effect(k) /\ i <= k
                              /\ set["version"] = Effect(k)["version"]
    BY <2>3, <2>5 DEF GivenBy
  <2>7. k = i
    <3>1. i \in Nat /\ k \in Nat
      BY <2>1
    <3> QED BY <2>4, <2>6, <3>1
  <2>8. set["version"] = 4
    BY <1>1, <2>1, <2>2, <2>6, <2>7, VersionOption
  <2>9. {"version", "doDTLS"} \subseteq Variables /\ set \in [Variables -> Int]
    BY <1>1, VariableNames DEF OptionsTypeOK
  <2> QED BY <1>1, <2>8, <2>9 DEF ResolveVersion, CLIENT_INVALID_VERSION
<1> QED BY <1>2, <1>3 DEF StrayInv

\* at the start nothing is read and every variable has its default
LEMMA OptionsInitially == OptionsInit => OptionsIInv
<1> SUFFICES ASSUME OptionsInit PROVE OptionsIInv
  OBVIOUS
<1>1. Len(argv) \in Nat
  BY CommandLinesAssumption DEF OptionsInit
<1>2. OptionsTypeOK
  <2>1. Defaults \in [Variables -> Int]
    BY VariableNames
       DEF Defaults, DEFAULT_MIN_DHKEY_BITS, CLIENT_INVALID_VERSION
  <2> QED BY <1>1, <2>1 DEF OptionsInit, OptionsTypeOK
<1>3. AcceptedInv
  BY DEF OptionsInit, AcceptedInv, Defaults
<1>4. VersionInv /\ ReadInv /\ StrayInv
  BY DEF OptionsInit, VersionInv, ReadInv, StrayInv, Parsed
<1>5. ReadingInv
  <2>1. Before = {}
    BY <1>1 DEF OptionsInit, Before, InEffect, Reached
  <2>2. \A v \in Variables : GivenBy(Before, v)
    BY <2>1 DEF GivenBy, OptionsInit
  <2>3. myoptind <= Len(argv) => myoptind \in Reached
    BY <1>1, <1>2, ArgvIsWords, ReachedWhen DEF OptionsInit
  <2> QED BY <1>1, <2>1, <2>2, <2>3 DEF ReadingInv, OptionsInit
<1> QED BY <1>2, <1>3, <1>4, <1>5 DEF OptionsIInv

\* the options read so far, once one more is read: the words it takes are
\* no options of their own
LEMMA OneMore ==
  ASSUME OptionsTypeOK, ReadingInv, Reads(myoptind)
  PROVE  /\ myoptind \in InEffect
         /\ \A i \in InEffect :
               i < Last(myoptind) + 1 => i = myoptind \/ i < myoptind
         /\ Last(myoptind) + 1 <= Len(argv) => Last(myoptind) + 1 \in Reached
<1> DEFINE p == myoptind
<1>1. /\ p \in 1..Len(argv) /\ p \in Reached /\ IsOption(p)
      /\ \A i \in Before : Last(i) < p
  <2>1. stage = "options" /\ IsOption(p)
    BY DEF Reads, At
  <2>2. p <= Len(argv)
    BY <2>1 DEF IsOption
  <2> QED BY <2>1, <2>2, ArgvIsWords DEF ReadingInv
<1>2. Last(p) \in {p, p + 1} /\ Len(argv) \in Nat
  BY <1>1, OptionEnds, ArgvIsWords
<1>3. p \in InEffect
  BY <1>1 DEF InEffect
<1>4. ASSUME NEW i \in InEffect, i < Last(p) + 1, i # p, ~(i < p) PROVE FALSE
  <2>1. i \in Reached /\ i \in 1..Len(argv)
    BY <1>4 DEF InEffect, Reached
  <2>2. i = p + 1 /\ Last(p) = p + 1
    BY <1>1, <1>2, <1>4, <2>1
  <2>3. PICK j \in {i - 1, i - 2} \cap 1..i : j \in Reached /\ IsOption(j) /\ Last(j) = i - 1
    BY <1>1, <2>1, <2>2, ArgvIsWords, ReachedWhen
  <2>4. j = p - 1 /\ j \in Before
    BY <1>1, <2>2, <2>3 DEF Before, InEffect
  <2> QED BY <1>1, <2>2, <2>3, <2>4
<1>5. ASSUME Last(p) + 1 <= Len(argv) PROVE Last(p) + 1 \in Reached
  <2> DEFINE q == Last(p) + 1
  <2>1. q \in 1..Len(argv) /\ p \in {q - 1, q - 2} \cap 1..q /\ Last(p) = q - 1
    BY <1>1, <1>2, <1>5
  <2> QED BY <1>1, <2>1, ArgvIsWords, ReachedWhen
<1> QED BY <1>3, <1>4, <1>5

\* where the loop ends, nothing behind is an option
LEMMA NoneBehind ==
  ASSUME OptionsTypeOK, ReadingInv, stage = "options", ~IsOption(myoptind)
  PROVE  InEffect = Before
<1> DEFINE p == myoptind
           Behind == {i \in Reached : i > p}
<1>1. /\ p \in Nat /\ Reached \subseteq Nat
      /\ \A i \in Before : Last(i) < p
  BY ArgvIsWords DEF ReadingInv, Reached
<1>2. Behind = {}
  <2> SUFFICES ASSUME Behind # {} PROVE FALSE
    OBVIOUS
  <2>1. PICK i \in Behind : \A k \in Behind : i <= k
    BY <1>1, LeastNumber
  <2>2. i \in 1..Len(argv) /\ i # 1 /\ i > p
    BY <1>1, <2>1 DEF Reached, ReadingInv
  <2>3. PICK j \in {i - 1, i - 2} \cap 1..i : j \in Reached /\ IsOption(j) /\ Last(j) = i - 1
    BY <2>1, <2>2, ArgvIsWords, ReachedWhen
  <2>4. j < p
    BY <1>1, <2>1, <2>2, <2>3
  <2>5. j \in Before
    BY <2>3, <2>4 DEF Before, InEffect
  <2> QED BY <1>1, <2>2, <2>3, <2>5
<1>3. ASSUME NEW i \in InEffect PROVE i < p
  <2>1. i \in Reached /\ IsOption(i) /\ i \in Nat
    BY <1>1, <1>3 DEF InEffect
  <2>2. i # p /\ ~(i > p)
    BY <1>2, <2>1
  <2> QED BY <1>1, <2>1, <2>2
<1> QED BY <1>3 DEF Before

\* one more option is read and sets what it assigns
LEMMA SetVariablesKeeps ==
  ASSUME OptionsIInv, SetVariables
  PROVE  OptionsIInv'
<1> DEFINE p == myoptind  q == Last(p) + 1  e == Effect(p)
<1>1. /\ OptionsTypeOK /\ AcceptedInv /\ ReadingInv
      /\ Reads(p) /\ Good(p) /\ stage = "options" /\ stage' = "options"
      /\ UNCHANGED <<build, argv, status>> /\ myoptind' = q
      /\ set' = Over(set, e)
  BY DEF OptionsIInv, SetVariables, Good, Reads, At
<1>2. /\ p \in 1..Len(argv) /\ p < q /\ q \in 1..Len(argv) + 1
      /\ Len(argv) \in Nat
  <2>1. p <= Len(argv)
    BY <1>1 DEF Reads, IsOption
  <2>2. p \in 1..Len(argv) /\ Len(argv) \in Nat
    BY <1>1, <2>1, ArgvIsWords DEF ReadingInv
  <2>3. Last(p) \in {p, p + 1} /\ Last(p) \in 1..Len(argv)
    BY <1>1, <2>2, OptionEnds
  <2> QED BY <2>2, <2>3
<1>3. IsAssignment(e) /\ Sanctioned(e)
  BY <1>1, <1>2, OptionAssigns
<1> HIDE DEF p, q, e
<1>4. /\ set' \in [Variables -> Int]
      /\ \A v \in DOMAIN e : v \in Variables /\ set'[v] = e[v]
      /\ \A v \in Variables \ DOMAIN e : set'[v] = set[v]
  BY <1>1, <1>3 DEF Over, IsAssignment, OptionsTypeOK
<1>5. OptionsTypeOK'
  BY <1>1, <1>2, <1>4 DEF OptionsTypeOK
<1>6. AcceptedInv'
  <2>1. {"helloRetry", "onlyKeyShare", "useX25519", "earlyData", "forceScr", "postHandAuth",
         "doDTLS", "dtlsUDP"} \subseteq Variables
    BY VariableNames
  <2> QED BY <1>1, <1>3, <1>4, <2>1 DEF AcceptedInv, Sanctioned
<1>7. VersionInv' /\ ReadInv' /\ StrayInv'
  BY <1>1 DEF VersionInv, ReadInv, StrayInv, Parsed
<1>8. ReadingInv'
  <2>1. /\ Reached' = Reached /\ InEffect' = InEffect
        /\ \A i : Effect(i)' = Effect(i) /\ Last(i)' = Last(i)
        /\ \A i : InRange(i)' <=> InRange(i)
    BY <1>1, WordsStay
  <2>2. /\ p \in InEffect /\ \A i \in InEffect : i < q => i = p \/ i < p
        /\ q <= Len(argv) => q \in Reached
    BY <1>1, OneMore DEF p, q
  <2>3. Before' = Before \cup {p}
    <3>1. InEffect \subseteq 1..Len(argv)
      BY DEF InEffect, Reached
    <3>2. Before = {i \in InEffect : i < p} /\ Before' = {i \in InEffect : i < q}
      BY <1>1, <2>1 DEF Before, p
    <3>3. \A i \in InEffect : i < q <=> i < p \/ i = p
      BY <1>2, <2>2, <3>1
    <3> QED BY <2>2, <3>2, <3>3
  <2>4. \A i \in Before' : Last(i)' < myoptind' /\ InRange(i)'
    <3>1. InRange(p)
      BY <1>1, <1>2, GoodInRange
    <3>2. \A i \in Before : Last(i) < p /\ InRange(i) /\ i \in 1..Len(argv)
      BY <1>1 DEF ReadingInv, Before, InEffect, Reached, p
    <3> QED BY <1>1, <1>2, <2>1, <2>3, <3>1, <3>2, OptionEnds DEF q
  <2>5. ASSUME NEW v \in Variables PROVE GivenBy(Before, v)'
    <3>1. Before \subseteq Int /\ \A i \in Before : i <= p
      BY <1>2 DEF Before, InEffect, Reached, p
    <3>2. GivenBy(Before, v)
      BY <1>1 DEF ReadingInv
    <3>3. CASE v \in DOMAIN e
      BY <1>2, <1>4, <2>1, <2>3, <3>1, <3>3 DEF GivenBy, e
    <3>4. CASE v \notin DOMAIN e
      BY <1>4, <2>1, <2>3, <3>2, <3>4 DEF GivenBy, e
    <3> QED BY <3>3, <3>4
  <2> QED BY <1>1, <1>2, <2>1, <2>2, <2>4, <2>5 DEF ReadingInv
<1> QED BY <1>5, <1>6, <1>7, <1>8 DEF OptionsIInv

\* the loop ends at the first word that is no option
LEMMA EndOfOptionsKeeps ==
  ASSUME OptionsIInv, EndOfOptions
  PROVE  OptionsIInv'
<1>1. /\ OptionsTypeOK /\ AcceptedInv /\ ReadingInv
      /\ stage = "options" /\ ~IsOption(myoptind) /\ stage' = "external" /\ myoptind' = 0
      /\ UNCHANGED <<build, argv, status, set>>
  BY DEF OptionsIInv, EndOfOptions, At, Go
<1>2. OptionsTypeOK'
  BY <1>1, ArgvIsWords DEF OptionsTypeOK
<1>3. AcceptedInv' /\ VersionInv' /\ ReadingInv' /\ StrayInv'
  BY <1>1 DEF AcceptedInv, VersionInv, ReadingInv, StrayInv
<1>4. ReadInv'
  <2>1. InEffect' = InEffect /\ InEffect = Before /\ \A i : InRange(i)' <=> InRange(i)
    BY <1>1, WordsStay, NoneBehind
  <2>2. /\ \A i \in InEffect : InRange(i)
        /\ \A v \in Variables : GivenBy(InEffect, v)
    BY <1>1, <2>1 DEF ReadingInv
  <2>3. ASSUME NEW v \in Variables PROVE GivenBy(InEffect, v)'
    <3>1. GivenBy(InEffect, v)
      BY <2>2
    <3>2. \A i : Effect(i)' = Effect(i)
      BY <1>1, WordsStay
    <3> QED BY <1>1, <2>1, <3>1, <3>2 DEF GivenBy
  <2> QED BY <2>1, <2>2, <2>3 DEF ReadInv
<1> QED BY <1>2, <1>3, <1>4 DEF OptionsIInv

\* a step behind the loop, or out of it, that sets nothing but the version
LEMMA BehindKeeps ==
  ASSUME OptionsIInv, UNCHANGED <<build, argv>>,
         \A v \in Variables : set'[v] = set[v] \/ (v = "version" /\ stage' = "method"),
         stage' = "exit" \/ (Parsed /\ Parsed'),
         stage \in {"method", "session"} => stage' \notin {"external", "version"}
  PROVE  ReadInv' /\ ReadingInv'
<1>1. ReadInv
  BY DEF OptionsIInv
<1>2. ReadingInv'
  BY DEF ReadingInv, Parsed
<1>3. ASSUME Parsed, Parsed' PROVE ReadInv'
  <2>1. InEffect' = InEffect /\ \A i : Effect(i)' = Effect(i) /\ (InRange(i)' <=> InRange(i))
    BY WordsStay
  <2>2. ASSUME NEW v \in Variables, ~(v = "version" /\ stage' \in {"method", "session"})
        PROVE  GivenBy(InEffect, v)'
    <3>1. set'[v] = set[v]
      BY <2>2
    <3>2. GivenBy(InEffect, v)
      BY <1>1, <1>3, <2>2 DEF ReadInv, Parsed
    <3> QED BY <2>1, <3>1, <3>2 DEF GivenBy
  <2>3. \A i \in InEffect' : InRange(i)'
    BY <1>1, <1>3, <2>1 DEF ReadInv
  <2> QED BY <2>2, <2>3 DEF ReadInv
<1>4. ASSUME stage' = "exit" PROVE ReadInv'
  BY <1>4 DEF ReadInv, Parsed
<1> QED BY <1>2, <1>3, <1>4

\* a step that ends the program
LEMMA ExitKeeps ==
  ASSUME OptionsIInv, NEW c \in {EXIT_SUCCESS, EXIT_FAILURE, MY_EX_USAGE}, Exit(c)
  PROVE  OptionsIInv'
<1>1. /\ OptionsTypeOK /\ AcceptedInv /\ stage' = "exit" /\ status' = c
      /\ UNCHANGED <<build, argv, myoptind, set>>
  BY DEF OptionsIInv, Exit
<1>2. OptionsTypeOK' /\ AcceptedInv' /\ VersionInv'
  BY <1>1 DEF OptionsTypeOK, AcceptedInv, VersionInv
<1>3. ReadInv' /\ ReadingInv' /\ StrayInv'
  BY <1>1 DEF ReadInv, ReadingInv, StrayInv, Parsed
<1> QED BY <1>2, <1>3 DEF OptionsIInv

\* the version is resolved for DTLS or TLS
LEMMA VersionStepKeeps ==
  ASSUME OptionsIInv, ResolveVersion
  PROVE  OptionsIInv'
<1>1. /\ OptionsTypeOK /\ AcceptedInv
      /\ stage = "version" /\ stage' = "method"
      /\ UNCHANGED <<build, argv, myoptind, status>>
  BY DEF OptionsIInv, ResolveVersion, At, Go
<1>2. /\ set' \in [Variables -> Int]
      /\ \A v \in Variables \ {"version"} : set'[v] = set[v]
      /\ set["doDTLS"] = 1 => set'["version"] \in {-2, -1}
  <2>1. {"version", "doDTLS"} \subseteq Variables
    BY VariableNames
  <2>2. set \in [Variables -> Int]
    BY <1>1 DEF OptionsTypeOK
  <2> QED BY <2>1, <2>2
          DEF ResolveVersion, CLIENT_INVALID_VERSION, CLIENT_DEFAULT_VERSION,
              CLIENT_DTLS_DEFAULT_VERSION
<1>3. OptionsTypeOK' /\ VersionInv'
  <2>1. "doDTLS" \in Variables
    BY VariableNames
  <2> QED BY <1>1, <1>2, <2>1 DEF OptionsTypeOK, VersionInv
<1>4. AcceptedInv'
  <2>1. {"helloRetry", "onlyKeyShare", "useX25519", "earlyData", "forceScr", "postHandAuth",
         "doDTLS", "dtlsUDP"} \subseteq Variables \ {"version"}
    BY VariableNames
  <2> QED BY <1>1, <1>2, <2>1 DEF AcceptedInv
<1>5. ReadInv' /\ ReadingInv'
  BY <1>1, <1>2, BehindKeeps DEF Parsed
<1>6. StrayInv'
  BY StrayResolved
<1> QED BY <1>3, <1>4, <1>5, <1>6 DEF OptionsIInv

\* every step keeps the invariant, action by action
LEMMA OptionsStep ==
  ASSUME OptionsIInv, [OptionsNext]_optionsVars
  PROVE  OptionsIInv'
<1>0. /\ OptionsTypeOK /\ AcceptedInv /\ VersionInv /\ ReadingInv /\ ReadInv
  BY DEF OptionsIInv
<1>1. ASSUME StartUp PROVE OptionsIInv'
  <2>1. CASE Exit(EXIT_FAILURE)
    BY <2>1, ExitKeeps
  <2>2. CASE Go("options") /\ UNCHANGED <<myoptind, set>>
    <3>1. UNCHANGED <<build, argv, myoptind, set, status>> /\ stage = "main" /\ stage' = "options"
      BY <1>1, <2>2 DEF StartUp, At, Go
    <3>2. OptionsTypeOK' /\ AcceptedInv' /\ VersionInv' /\ ReadInv'
      BY <1>0, <3>1 DEF OptionsTypeOK, AcceptedInv, VersionInv, ReadInv, Parsed
    <3>3. Before' = Before /\ Reached' = Reached
      BY <3>1, WordsStay DEF Before
    <3>4. \A v : GivenBy(Before, v) => GivenBy(Before, v)'
      <4>1. \A i : Effect(i)' = Effect(i)
        BY <3>1, WordsStay
      <4> QED BY <3>1, <3>3, <4>1 DEF GivenBy
    <3>5. ReadingInv'
      BY <1>0, <3>1, <3>3, <3>4, WordsStay DEF ReadingInv
    <3>6. StrayInv'
      BY <3>1, StrayStays
    <3> QED BY <3>2, <3>5, <3>6 DEF OptionsIInv
  <2> QED BY <1>1, <2>1, <2>2 DEF StartUp
<1>2. ASSUME ShowAndExit \/ RefuseOption \/ RefusePort PROVE OptionsIInv'
  BY <1>2, ExitKeeps DEF ShowAndExit, RefuseOption, RefusePort
<1>3. ASSUME SetVariables PROVE OptionsIInv'
  BY <1>3, SetVariablesKeeps
<1>4. ASSUME EndOfOptions PROVE OptionsIInv'
  BY <1>4, EndOfOptionsKeeps
<1>5. ASSUME ExternalTest PROVE OptionsIInv'
  <2>1. CASE Exit(EXIT_SUCCESS)
    BY <2>1, ExitKeeps
  <2>2. CASE Go("version") /\ UNCHANGED <<myoptind, set>>
    <3>1. UNCHANGED <<build, argv, myoptind, set, status>> /\ stage = "external" /\ stage' = "version"
      BY <1>5, <2>2 DEF ExternalTest, At, Go
    <3>2. OptionsTypeOK' /\ AcceptedInv' /\ VersionInv'
      BY <1>0, <3>1 DEF OptionsTypeOK, AcceptedInv, VersionInv
    <3>3. ReadInv' /\ ReadingInv'
      BY <3>1, BehindKeeps DEF Parsed
    <3>4. StrayInv'
      BY <3>1, StrayStays
    <3> QED BY <3>2, <3>3, <3>4 DEF OptionsIInv
  <2> QED BY <1>5, <2>1, <2>2 DEF ExternalTest
<1>6. ASSUME ResolveVersion PROVE OptionsIInv'
  BY <1>6, VersionStepKeeps
<1>7. ASSUME ChooseMethod PROVE OptionsIInv'
  <2>1. CASE Exit(EXIT_FAILURE)
    BY <2>1, ExitKeeps
  <2>2. CASE set.version \in Methods /\ Go("session") /\ UNCHANGED <<myoptind, set>>
    <3>1. UNCHANGED <<build, argv, myoptind, set, status>> /\ stage = "method" /\ stage' = "session"
      BY <1>7, <2>2 DEF ChooseMethod, At, Go
    <3>2. OptionsTypeOK' /\ AcceptedInv'
      BY <1>0, <3>1 DEF OptionsTypeOK, AcceptedInv
    <3>3. VersionInv'
      BY <1>0, <2>2, <3>1 DEF VersionInv, Methods, Has
    <3>4. ReadInv' /\ ReadingInv'
      BY <3>1, BehindKeeps DEF Parsed
    <3>5. StrayInv'
      BY <3>1, StrayStays
    <3> QED BY <3>2, <3>3, <3>4, <3>5 DEF OptionsIInv
  <2> QED BY <1>7, <2>1, <2>2 DEF ChooseMethod
<1>8. ASSUME UNCHANGED optionsVars PROVE OptionsIInv'
  <2>1. UNCHANGED <<build, argv, myoptind, set, stage, status>>
    BY <1>8 DEF optionsVars
  <2>2. OptionsTypeOK' /\ AcceptedInv' /\ VersionInv'
    BY <1>0, <2>1 DEF OptionsTypeOK, AcceptedInv, VersionInv, Methods, Has
  <2>3. /\ Reached' = Reached /\ InEffect' = InEffect /\ Before' = Before
        /\ \A i : Effect(i)' = Effect(i) /\ Last(i)' = Last(i) /\ (InRange(i)' <=> InRange(i))
    BY <2>1, WordsStay DEF Before
  <2>4. \A v : GivenBy(InEffect, v) => GivenBy(InEffect, v)'
    BY <2>1, <2>3 DEF GivenBy
  <2>5. \A v : GivenBy(Before, v) => GivenBy(Before, v)'
    BY <2>1, <2>3 DEF GivenBy
  <2>6. ReadInv' /\ ReadingInv'
    BY <1>0, <2>1, <2>3, <2>4, <2>5 DEF ReadInv, ReadingInv, Parsed
  <2>7. StrayInv'
    BY <2>1, StrayStays
  <2> QED BY <2>2, <2>6, <2>7 DEF OptionsIInv
<1> QED
  BY <1>1, <1>2, <1>3, <1>4, <1>5, <1>6, <1>7, <1>8 DEF OptionsNext

\* The inductive invariant of the option loop, of every command line in every build: the
\* variables mean what was read, word by word.
THEOREM OptionsInvariance == OptionsSpec => []OptionsIInv
<1>1. OptionsInit => OptionsIInv
  BY OptionsInitially
<1>2. OptionsIInv /\ [OptionsNext]_optionsVars => OptionsIInv'
  BY OptionsStep
<1> QED BY <1>1, <1>2, PTL DEF OptionsSpec

\* Every variable of the option loop keeps its type, whatever is typed.
THEOREM OptionsTypeCorrect == OptionsSpec => []OptionsTypeOK
<1>1. OptionsIInv => OptionsTypeOK
  BY DEF OptionsIInv
<1> QED BY <1>1, OptionsInvariance, PTL

\* client_test goes on only with variables ClientSession is specified for, for command lines
\* of any length in any build: DTLS never meets the method of TLS 1.3, and no option asks for
\* key shares of a group the build does not have.
THEOREM HandsOver == OptionsSpec => []HandsOverAccepted
<1>1. OptionsIInv => HandsOverAccepted
  <2> SUFFICES ASSUME OptionsIInv, stage = "session"
               PROVE  SessionOptions \in OptionType /\ AcceptedBy(build, SessionOptions)
    BY DEF HandsOverAccepted
  <2>1. /\ OptionsTypeOK /\ AcceptedInv
        /\ set["version"] \in Methods
        /\ set["doDTLS"] = 1 => set["version"] \in {-2, -1}
    BY DEF OptionsIInv, VersionInv
  <2>2. set["version"] = 4 => "TLS13" \in build /\ set["dtlsUDP"] # 1
    BY <2>1 DEF Methods, Has, AcceptedInv
  <2>3. SessionOptions \in OptionType
    BY <2>1 DEF SessionOptions, OptionType, AcceptedInv, Set
  <2>4. AcceptedBy(build, SessionOptions)
    <3> DEFINE o == SessionOptions
    <3>0. /\ o.version = IF set["version"] = 4 THEN 4 ELSE 3
          /\ o.onlyKeyShare = set["onlyKeyShare"]
      BY DEF SessionOptions
    <3>1. /\ o.dtlsUDP <=> set["dtlsUDP"] = 1
          /\ o.helloRetry <=> set["helloRetry"] = 1
          /\ o.useX25519 <=> set["useX25519"] = 1
          /\ o.earlyData <=> set["earlyData"] = 1
          /\ o.forceScr <=> set["forceScr"] = 1
          /\ o.postHandAuth <=> set["postHandAuth"] = 1
      BY Zenon DEF SessionOptions, Set
    <3> HIDE DEF o
    <3>2. AcceptedBy(build, o)
      BY <2>1, <2>2, <3>0, <3>1 DEF AcceptedBy, AcceptedInv
    <3> QED BY <3>2 DEF o
  <2> QED BY <2>3, <2>4
<1> QED BY <1>1, OptionsInvariance, PTL

\* Behind the loop every variable has the value the last option that assigns it gave it, or
\* its default, however many options there were.
THEOREM LastOptionCounts == OptionsSpec => []MeansWhatItSays
<1>1. OptionsIInv => MeansWhatItSays
  BY DEF OptionsIInv, ReadInv, GivenBy, MeansWhatItSays
<1> QED BY <1>1, OptionsInvariance, PTL

\* Nothing behind the loop runs with an argument outside the range the usage text gives it,
\* unless a cast before the test has cut it into that range or it is the 4 of -v in a build
\* without TLS 1.3; and such a 4, when no later -v overrides it, starts a session only as
\* DTLS 1.0, with command lines of any length.
THEOREM RangesKept == OptionsSpec => []OutOfRangeOnlyWhenCut
<1>1. OptionsIInv => OutOfRangeOnlyWhenCut
  <2> SUFFICES ASSUME OptionsIInv PROVE OutOfRangeOnlyWhenCut
    OBVIOUS
  <2>1. Parsed => \A i \in InEffect : InRange(i)
    BY DEF OptionsIInv, ReadInv
  <2>2. ASSUME stage = "session", NEW i \in InEffect, Stray(i)
        PROVE  set["version"] = -1 /\ set["doDTLS"] = 1
    <3>1. set["version"] \in Methods /\ ~Has("TLS13")
      BY <2>2 DEF OptionsIInv, VersionInv, Stray, UndocumentedVersion
    <3>2. set["version"] # 4
      BY <3>1 DEF Methods
    <3> QED BY <2>2, <3>2 DEF OptionsIInv, StrayInv
  <2> QED BY <2>1, <2>2, Zenon DEF InRange, Stray, Set, OutOfRangeOnlyWhenCut
<1> QED BY <1>1, OptionsInvariance, PTL

----------------------------------------------------------------------------
(* The dialogue with the mail server. *)

\* the replies behind the client were given, and it has consumed into the last of them
BehindInv ==
    /\ progress = "recv" => \A k \in Replies : k < step => k \in willing
    /\ progress \in {"send", "success"} => \A k \in Replies : k <= step => k \in willing
    /\ progress = "recv" /\ step = 2 => consumed > 0
    /\ progress = "recv" /\ step = 3 => consumed > End(1)
    /\ progress = "send" => step < 3 /\ consumed > End(step - 1)
    /\ progress = "success" => step = 3 /\ consumed > End(2)

\* as long as nothing was cut, recv and reply stay together
UncutInv ==
    ~cut => /\ progress = "recv" => consumed = End(step - 1)
            /\ progress = "send" => consumed = End(step)

DialogueIInv == DialogueTypeOK /\ BehindInv /\ UncutInv /\ IncorrectForAReason

\* the replies follow one another in the stream, and each begins with a line
LEMMA EndFacts ==
  ASSUME lines \in [Replies -> 1..MaxLines]
  PROVE  /\ End(0) = 0
         /\ End(1) \in Nat /\ End(1) >= 3 /\ End(1) % 3 = 0
         /\ End(2) \in Nat /\ End(2) >= End(1) + 3 /\ End(2) % 3 = 0
         /\ End(3) \in Nat /\ End(3) >= End(2) + 3 /\ End(3) % 3 = 0
<1>1. lines[1] \in Nat \ {0} /\ lines[2] \in Nat \ {0} /\ lines[3] \in Nat \ {0}
  BY LinesAssumption DEF Replies
<1>2. \A n \in Nat : 3 * n \in Nat /\ (3 * n) % 3 = 0
  OBVIOUS
<1>3. /\ End(0) = 0
      /\ End(1) = 3 * lines[1]
      /\ End(2) = 3 * (lines[1] + lines[2])
      /\ End(3) = 3 * (lines[1] + lines[2] + lines[3])
  BY <1>1 DEF End
<1> QED BY <1>1, <1>2, <1>3

LEMMA StepEnds ==
  ASSUME DialogueTypeOK
  PROVE  /\ step = 1 \/ step = 2 \/ step = 3
         /\ End(step - 1) \in Nat /\ End(step) \in Nat /\ End(step - 1) < End(step)
<1>1. step = 1 \/ step = 2 \/ step = 3
  BY DEF DialogueTypeOK, Replies
<1> QED BY <1>1, EndFacts DEF DialogueTypeOK

LEMMA EndStays ==
  ASSUME UNCHANGED lines, NEW k PROVE End(k)' = End(k)
  BY DEF End

LEMMA DialogueInitially == DialogueInit => DialogueIInv
<1> SUFFICES ASSUME DialogueInit PROVE DialogueIInv
  OBVIOUS
<1>1. End(0) = 0 /\ End(1) \in Nat
  BY EndFacts DEF DialogueInit
<1>2. DialogueTypeOK
  <2>1. arrived \in Nat /\ arrived <= End(step) /\ consumed \in Nat /\ consumed <= arrived
    BY <1>1 DEF DialogueInit
  <2>2. step \in Replies
    BY DEF DialogueInit, Replies
  <2> QED BY <2>1, <2>2 DEF DialogueInit, DialogueTypeOK
<1> QED BY <1>1, <1>2 DEF DialogueInit, DialogueIInv, BehindInv, UncutInv, IncorrectForAReason, Replies

\* a code that is the one expected stands at the head of the reply awaited
LEMMA MatchFacts ==
  ASSUME DialogueIInv, progress = "recv", NEW to \in consumed + 1..arrived, Match(to)
  PROVE  step \in willing /\ consumed >= End(step - 1)
<1>1. step = 1 \/ step = 2 \/ step = 3
  BY DEF DialogueIInv, DialogueTypeOK, Replies
<1> USE EndFacts
<1>2. CASE step = 1
  BY <1>2 DEF DialogueIInv, DialogueTypeOK, Match, CodeAt, Code
<1>3. CASE step = 2
  BY <1>3 DEF DialogueIInv, DialogueTypeOK, Match, CodeAt, Code
<1>4. CASE step = 3
  BY <1>4 DEF DialogueIInv, DialogueTypeOK, BehindInv, Match, CodeAt, Code
<1> QED BY <1>1, <1>2, <1>3, <1>4

\* a reply received whole and alone is recognised
LEMMA WholeMatches ==
  ASSUME DialogueIInv, progress = "recv", consumed = End(step - 1), End(step) \in consumed + 1..arrived,
         step \in willing
  PROVE  Match(End(step))
<1>1. step = 1 \/ step = 2 \/ step = 3
  BY DEF DialogueIInv, DialogueTypeOK, Replies
<1> USE EndFacts
<1>2. CASE step = 1
  BY <1>2 DEF DialogueIInv, DialogueTypeOK, Match, CodeAt, Code
<1>3. CASE step = 2
  BY <1>3 DEF DialogueIInv, DialogueTypeOK, Match, CodeAt, Code
<1>4. CASE step = 3
  BY <1>4 DEF DialogueIInv, DialogueTypeOK, Match, CodeAt, Code
<1> QED BY <1>1, <1>2, <1>3, <1>4

LEMMA RecvStep == ASSUME DialogueIInv, Recv PROVE DialogueIInv'
<1>1. PICK to \in consumed + 1..arrived :
        /\ progress' = IF ~Match(to) THEN "incorrect" ELSE IF step = 3 THEN "success" ELSE "send"
        /\ cut' = (cut \/ consumed # End(step - 1) \/ to # End(step))
        /\ consumed' = to
  BY DEF Recv
<1>2. /\ progress = "recv"
      /\ UNCHANGED <<lines, willing, step, arrived, closed>>
  BY DEF Recv
<1>3. End(1)' = End(1) /\ End(2)' = End(2) /\ End(step)' = End(step)
      /\ End(step - 1)' = End(step - 1)
  BY <1>2, EndStays DEF End
<1>4. DialogueTypeOK'
  BY <1>1, <1>2, <1>3 DEF DialogueIInv, DialogueTypeOK
<1>5. BehindInv'
  <2>1. CASE ~Match(to)
    BY <1>1, <1>2, <2>1 DEF BehindInv
  <2>2. CASE Match(to)
    <3>1. step \in willing /\ consumed >= End(step - 1)
      BY <1>2, <2>2, MatchFacts
    <3>2. step \in {1, 2, 3} /\ to > consumed /\ to \in Int /\ consumed \in Int
      BY DEF DialogueIInv, DialogueTypeOK, Replies
    <3>3. \A k \in Replies : k <= step => k \in willing
      BY <1>2, <3>1, <3>2 DEF DialogueIInv, BehindInv, Replies
    <3>4. End(step - 1) \in Int
      BY <3>2, EndFacts DEF DialogueIInv, DialogueTypeOK
    <3> QED BY <1>1, <1>2, <1>3, <2>2, <3>1, <3>2, <3>3, <3>4 DEF BehindInv
  <2> QED BY <2>1, <2>2
<1>6. UncutInv'
  BY <1>1, <1>2, <1>3 DEF UncutInv
<1>7. IncorrectForAReason'
  BY <1>1, <1>2, <1>3, WholeMatches DEF IncorrectForAReason
<1> QED BY <1>4, <1>5, <1>6, <1>7 DEF DialogueIInv

LEMMA RecvNothingStep == ASSUME DialogueIInv, RecvNothing PROVE DialogueIInv'
<1>1. /\ progress = "recv"
      /\ progress' \in {"incorrect", "unread"}
      /\ progress' = "incorrect" => closed /\ consumed = arrived
      /\ UNCHANGED <<lines, willing, step, arrived, consumed, closed, cut>>
  BY DEF RecvNothing
<1>2. \A k : End(k)' = End(k)
  BY <1>1, EndStays
<1>3. DialogueTypeOK'
  BY <1>1, <1>2 DEF DialogueIInv, DialogueTypeOK
<1>4. IncorrectForAReason'
  <2>1. step = 1 \/ step = 2 \/ step = 3
    BY DEF DialogueIInv, DialogueTypeOK, Replies
  <2>2. End(step - 1) < End(step)
    BY <2>1, EndFacts DEF DialogueIInv, DialogueTypeOK
  <2> QED BY <1>1, <1>2, <2>2 DEF DialogueIInv, UncutInv, IncorrectForAReason
<1> QED BY <1>1, <1>3, <1>4 DEF DialogueIInv, BehindInv, UncutInv

LEMMA SendStep == ASSUME DialogueIInv, Send PROVE DialogueIInv'
<1>1. /\ progress = "send"
      /\ \/ progress' = "recv" /\ step' = step + 1
         \/ progress' = "unsent" /\ UNCHANGED step
      /\ UNCHANGED <<lines, willing, arrived, consumed, closed, cut>>
  BY DEF Send
<1>2. /\ End(1)' = End(1) /\ End(2)' = End(2) /\ End(3)' = End(3)
      /\ step = 1 \/ step = 2
  BY <1>1, EndStays DEF DialogueIInv, DialogueTypeOK, BehindInv, Replies
<1>3. DialogueTypeOK'
  BY <1>1, <1>2, EndFacts DEF DialogueIInv, DialogueTypeOK, Replies
<1>4. BehindInv'
  BY <1>1, <1>2, EndFacts DEF DialogueIInv, DialogueTypeOK, BehindInv, Replies
<1>5. UncutInv'
  <2>1. CASE progress' = "recv"
    <3>1. step' - 1 = step /\ End(step' - 1) = End(step)
      BY <1>1, <1>2, <2>1
    <3>2. End(step - 1)' = End(step)
      BY <1>1, <3>1 DEF End
    <3> QED BY <1>1, <2>1, <3>2 DEF DialogueIInv, UncutInv
  <2>2. CASE progress' = "unsent"
    BY <2>2 DEF UncutInv
  <2> QED BY <1>1, <2>1, <2>2
<1> QED BY <1>1, <1>3, <1>4, <1>5 DEF DialogueIInv, IncorrectForAReason

LEMMA ServerStep == ASSUME DialogueIInv, Arrive \/ Close PROVE DialogueIInv'
<1>1. /\ progress \in {"recv", "send"}
      /\ arrived' = arrived \/ arrived' \in arrived + 1..End(step)
      /\ closed' \in BOOLEAN
      /\ UNCHANGED <<lines, willing, step, progress, consumed, cut>>
  BY DEF Arrive, Close, DialogueIInv, DialogueTypeOK
<1>2. \A k : End(k)' = End(k)
  BY <1>1, EndStays
<1>3. \A k : UNCHANGED <<step, k>> => End(step - 1)' = End(step - 1) /\ End(step)' = End(step)
  BY <1>1 DEF End
<1>4. DialogueTypeOK'
  BY <1>1, <1>2, <1>3, EndFacts DEF DialogueIInv, DialogueTypeOK, Replies
<1>5. BehindInv' /\ UncutInv' /\ IncorrectForAReason'
  BY <1>1, <1>2, <1>3 DEF DialogueIInv, BehindInv, UncutInv, IncorrectForAReason
<1> QED BY <1>4, <1>5 DEF DialogueIInv

(* The invariant holds throughout every dialogue.                           *)
THEOREM DialogueInvariance == DialogueSpec => []DialogueIInv
<1>1. DialogueIInv /\ [DialogueNext]_dialogueVars => DialogueIInv'
  <2> SUFFICES ASSUME DialogueIInv, [DialogueNext]_dialogueVars PROVE DialogueIInv'
    OBVIOUS
  <2>1. CASE DialogueNext
    BY <2>1, RecvStep, RecvNothingStep, SendStep, ServerStep DEF DialogueNext
  <2>2. CASE UNCHANGED dialogueVars
    BY <2>2 DEF dialogueVars, DialogueIInv, DialogueTypeOK, BehindInv, UncutInv, IncorrectForAReason, End
  <2> QED BY <2>1, <2>2
<1> QED BY <1>1, DialogueInitially, PTL DEF DialogueSpec

(* Every variable has its type; recv never returns more than has arrived,   *)
(* and the server never answers what it was not asked.                      *)
THEOREM DialogueTypeCorrect == DialogueSpec => []DialogueTypeOK
<1>1. DialogueIInv => DialogueTypeOK
  BY DEF DialogueIInv
<1> QED BY <1>1, DialogueInvariance, PTL

(* Success means three agreements, each to its own command, and nothing but *)
(* the end of the last reply in front of the handshake.                     *)
THEOREM Agreed == DialogueSpec => []SuccessInStep
<1>1. DialogueIInv => SuccessInStep
  <2> SUFFICES ASSUME DialogueIInv, progress = "success" PROVE willing = Replies /\ consumed > End(2)
    BY DEF SuccessInStep
  <2>1. willing \subseteq Replies /\ step = 3 /\ consumed > End(2)
    BY DEF DialogueIInv, DialogueTypeOK, BehindInv
  <2>2. \A k \in Replies : k <= 3 => k \in willing
    BY <2>1 DEF DialogueIInv, BehindInv
  <2>3. \A k \in Replies : k <= 3
    BY DEF Replies
  <2> QED BY <2>1, <2>2, <2>3
<1> QED BY <1>1, DialogueInvariance, PTL

(* A reply is only found incorrect when it was refused, not given or cut.   *)
THEOREM IncorrectReply == DialogueSpec => []IncorrectForAReason
<1>1. DialogueIInv => IncorrectForAReason
  BY DEF DialogueIInv
<1> QED BY <1>1, DialogueInvariance, PTL

----------------------------------------------------------------------------
(* The connect loop. *)

Wants == {"wantRead", "wantWrite", "pending"}

\* nothing is answered before it was received, or received before it was sent
WireInv ==
    /\ \A k \in toClient : k <= peer
    /\ \A k \in toPeer : k <= peer + 1
    /\ read <= peer

\* as long as the library wants something, a flight is still to be answered
WantInv ==
    /\ pc = "judge" => error \in Wants
    /\ error \in Wants => read < Flights
    /\ sent => read < Flights

Answered == peer >= IF endsReading THEN Flights ELSE Flights - 1

\* SSL_SUCCESS is the library's, but for the number of events while an
\* operation is pending
RetInv ==
    /\ pc \in {"loop", "return"} /\ ret = "success" => Answered
    /\ pc = "judge" /\ ret = "success" => error = "pending"

Reason ==
    \/ broken \/ selectRet = "fail" \/ error = "pending"
    \/ dtls /\ (timeouts = MaxTimeouts \/ out # "empty")

GiveInv ==
    /\ pc = "loop" /\ ret # "success" => error \in Wants \/ Reason
    /\ pc = "return" /\ ret # "success" => Reason

ConnectIInv == TypeOK /\ WireInv /\ WantInv /\ RetInv /\ GiveInv

-----------------------------------------------------------------------------

\* The initial states are in the invariant.
LEMMA ConnectInitially == Init => ConnectIInv
<1> USE FlightsAssumption, BoundsAssumption
<1> SUFFICES ASSUME Init PROVE ConnectIInv
  OBVIOUS
<1>1. TypeOK
  <2>1. read \in 0..Flights /\ peer \in 0..Flights /\ resends \in 0..MaxResends
        /\ timeouts \in 0..MaxTimeouts
    BY DEF Init
  <2> QED BY <2>1 DEF Init, TypeOK
<1>2. WireInv /\ WantInv BY DEF Init, WireInv, WantInv, Wants
<1>3. RetInv /\ GiveInv BY DEF Init, RetInv, GiveInv
<1> QED BY <1>1, <1>2, <1>3 DEF ConnectIInv

\* A call of wolfSSL_connect: what it returns agrees with the flights.  The
\* fields the caller sets, pc and select_ret, are left out.
LEMMA CallInv ==
    ASSUME ConnectIInv, wolfSSL_connect, pc' = "loop", UNCHANGED <<setup, selectRet>>
    PROVE  ConnectIInv'
<1> USE FlightsAssumption, BoundsAssumption
<1>1. CASE CallFails
  <2> USE <1>1 DEF CallFails, Returns, ConnectIInv, setup, ssl
  <2>1. TypeOK' BY DEF TypeOK, Numbers
  <2>2. WireInv' BY DEF WireInv
  <2>3. WantInv' BY DEF WantInv, Wants
  <2>4. RetInv' BY DEF RetInv
  <2>5. GiveInv' BY DEF GiveInv, Reason
  <2> QED BY <2>1, <2>2, <2>3, <2>4, <2>5
<1>2. CASE CallAdvances
  <2> DEFINE done    == read + (IF Advances THEN 1 ELSE 0)
             waiting == sent /\ ~Advances
             over    == done = Flights
             writing == ~over /\ ~waiting
  <2>0. /\ read \in Nat /\ peer \in Nat /\ Flights \in Nat /\ done \in Nat
        /\ done <= peer /\ done <= Flights
    BY DEF ConnectIInv, TypeOK, WireInv, WantInv, Advances, Numbers
  <2>1. /\ read' = done
        /\ toClient' = IF sent THEN {} ELSE toClient
        /\ timeouts' = IF Advances THEN 0 ELSE timeouts
        /\ UNCHANGED <<peer, resends, broken, dtls, async, endsReading, selectRet>>
    BY <1>2 DEF CallAdvances, setup
  <2>2. \/ /\ over
           /\ Returns("success", "none") /\ sent' = FALSE
           /\ UNCHANGED <<out, op, toPeer>>
        \/ /\ waiting
           /\ Returns("other", "wantRead")
           /\ UNCHANGED <<sent, out, op, toPeer>>
        \/ /\ writing /\ async /\ op # "done" /\ out = "empty"
           /\ Returns("other", "pending") /\ op' = "running" /\ sent' = FALSE
           /\ UNCHANGED <<out, toPeer>>
        \/ /\ writing /\ op # "running" /\ out # "drained"
           /\ Returns("other", "wantWrite") /\ out' = "stuck" /\ sent' = FALSE
           /\ UNCHANGED <<op, toPeer>>
        \/ /\ writing /\ op # "running" /\ out # "stuck"
           /\ IF HasAnswer(done + 1) THEN Returns("other", "wantRead")
                                     ELSE Returns("success", "none")
           /\ sent' = TRUE /\ out' = "empty" /\ op' = "idle"
           /\ toPeer' = toPeer \cup {done + 1}
    BY <1>2 DEF CallAdvances
  <2>3. /\ sent' \in BOOLEAN /\ out' \in {"empty", "stuck", "drained"}
        /\ op' \in {"idle", "running", "done"}
        /\ ret' \in {"success", "other"}
        /\ error' \in {"none", "wantRead", "wantWrite", "pending"}
    BY <2>2 DEF Returns, ConnectIInv, TypeOK
  <2>4. /\ toPeer' \subseteq Numbers
        /\ \A k \in toPeer' : k <= peer + 1
    <3>1. CASE toPeer' = toPeer BY <3>1 DEF ConnectIInv, TypeOK, WireInv
    <3>2. CASE writing /\ toPeer' = toPeer \cup {done + 1}
      BY <2>0, <3>2 DEF ConnectIInv, TypeOK, WireInv, Numbers
    <3> QED BY <2>2, <3>1, <3>2
  <2>5. TypeOK'
    <3>1. read' \in 0..Flights /\ timeouts' \in 0..MaxTimeouts /\ toClient' \subseteq Numbers
      BY <2>0, <2>1 DEF ConnectIInv, TypeOK
    <3> QED BY <2>1, <2>3, <2>4, <3>1 DEF ConnectIInv, TypeOK
  <2>6. WireInv' BY <2>0, <2>1, <2>4 DEF ConnectIInv, WireInv
  <2>7. waiting => done < Flights
    BY <2>0 DEF ConnectIInv, WantInv
  <2>8. WantInv'
    BY <2>0, <2>1, <2>2, <2>7 DEF WantInv, Wants, Returns
  <2>9. RetInv'
    BY <2>0, <2>1, <2>2 DEF RetInv, Returns, Answered, HasAnswer, ConnectIInv, TypeOK
  <2>10. GiveInv'
    BY <2>2 DEF GiveInv, Returns, Wants
  <2> QED BY <2>5, <2>6, <2>8, <2>9, <2>10 DEF ConnectIInv
<1> QED BY <1>1, <1>2 DEF wolfSSL_connect

\* A time-out that DTLS answers by sending again.
LEMMA ResendInv ==
    ASSUME ConnectIInv, pc = "judge", ret # "success", GotTimeout, error' = "wantRead",
           pc' = "loop", UNCHANGED <<setup, ret, selectRet>>
    PROVE  ConnectIInv'
<1> USE FlightsAssumption, BoundsAssumption DEF GotTimeout, ConnectIInv, setup
<1>0. read + 1 \in Numbers /\ read + 1 <= peer + 1
  BY DEF TypeOK, WantInv, WireInv, Numbers
<1>1. toPeer' = toPeer \/ toPeer' = toPeer \cup {read + 1} OBVIOUS
<1>2. TypeOK' BY <1>0, <1>1 DEF TypeOK
<1>3. WireInv' BY <1>0, <1>1 DEF WireInv
<1>4. WantInv' BY DEF WantInv, Wants
<1>5. RetInv' BY DEF RetInv
<1>6. GiveInv' BY DEF GiveInv, Wants
<1> QED BY <1>2, <1>3, <1>4, <1>5, <1>6

\* Every step of the loop and of its surroundings keeps the invariant.
LEMMA ConnectStep == ConnectIInv /\ [Next]_vars => ConnectIInv'
<1> USE FlightsAssumption, BoundsAssumption
<1> SUFFICES ASSUME ConnectIInv, [Next]_vars PROVE ConnectIInv'
  OBVIOUS
<1>1. CASE Connect BY <1>1, CallInv DEF Connect
<1>2. CASE Return
  <2> USE <1>2 DEF Return, Again, local, ssl, net, setup, ConnectIInv
  <2>1. TypeOK' BY DEF TypeOK
  <2>2. WireInv' /\ WantInv' BY DEF WireInv, WantInv
  <2>3. RetInv' BY DEF RetInv, Answered
  <2>4. GiveInv' BY DEF GiveInv, Reason, Wants
  <2> QED BY <2>1, <2>2, <2>3, <2>4
<1>3. CASE Poll
  <2> USE <1>3 DEF Poll, Again, ssl, net, setup, ConnectIInv
  <2>1. TypeOK' BY DEF TypeOK
  <2>2. WireInv' /\ WantInv' BY DEF WireInv, WantInv, Wants
  <2>3. RetInv' BY DEF RetInv
  <2>4. GiveInv' BY DEF GiveInv, Reason
  <2> QED BY <2>1, <2>2, <2>3, <2>4
<1>4. CASE Select
  <2> USE <1>4 DEF Select, Again, ssl, net, setup, ConnectIInv
  <2>1. TypeOK' BY DEF TypeOK
  <2>2. WireInv' /\ WantInv' BY DEF WireInv, WantInv, Wants
  <2>3. RetInv' BY DEF RetInv
  <2>4. GiveInv' BY DEF GiveInv
  <2> QED BY <2>1, <2>2, <2>3, <2>4
<1>5. CASE Judge
  <2>1. CASE Ready /\ wolfSSL_connect BY <1>5, <2>1, CallInv DEF Judge
  <2>2. ~Ready => ret # "success" /\ error \in Wants
    BY <1>5 DEF Judge, Ready, ConnectIInv, RetInv, WantInv
  <2>3. CASE ~Ready /\ dtls /\ GotTimeout /\ error' = "wantRead" /\ UNCHANGED ret
    BY <1>5, <2>2, <2>3, ResendInv DEF Judge
  <2>4. CASE /\ ~Ready /\ UNCHANGED <<ret, ssl, net>>
             /\ \/ error' = "wantRead"
                \/ error' = "fatal" /\ selectRet = "fail"
                \/ error' = "fatal" /\ dtls /\ GotTimeoutFails
    <3> USE <1>5, <2>2, <2>4 DEF Judge, ssl, net, setup, ConnectIInv
    <3>1. TypeOK' BY DEF TypeOK
    <3>2. WireInv' /\ WantInv' BY DEF WireInv, WantInv, Wants
    <3>3. RetInv' BY DEF RetInv
    <3>4. GiveInv' BY DEF GiveInv, Reason, Wants, GotTimeoutFails
    <3> QED BY <3>1, <3>2, <3>3, <3>4
  <2> QED BY <1>5, <2>1, <2>3, <2>4 DEF Judge, GotTimeoutFails
<1>6. CASE PeerAnswers
  <2> USE <1>6 DEF PeerAnswers, local, ssl, setup, ConnectIInv
  <2>1. TypeOK' BY DEF TypeOK, Numbers
  <2>2. WireInv' BY DEF WireInv, TypeOK, Numbers
  <2>3. WantInv' BY DEF WantInv
  <2>4. RetInv' BY DEF RetInv, Answered, TypeOK, Numbers
  <2>5. GiveInv' BY DEF GiveInv, Reason
  <2> QED BY <2>1, <2>2, <2>3, <2>4, <2>5
<1>7. CASE PeerResends
  <2> USE <1>7 DEF PeerResends, local, ssl, setup, ConnectIInv
  <2>1. TypeOK' BY DEF TypeOK, Numbers
  <2>2. WireInv' BY DEF WireInv, TypeOK
  <2>3. WantInv' BY DEF WantInv
  <2>4. RetInv' BY DEF RetInv, Answered
  <2>5. GiveInv' BY DEF GiveInv, Reason
  <2> QED BY <2>1, <2>2, <2>3, <2>4, <2>5
<1>8. CASE PeerHangsUp \/ Lose
  <2>1. /\ toPeer' \subseteq toPeer /\ toClient' \subseteq toClient
        /\ broken' \in BOOLEAN /\ (broken => broken')
        /\ UNCHANGED <<setup, pc, local, ssl, peer, resends>>
    BY <1>8 DEF PeerHangsUp, Lose, ConnectIInv, TypeOK
  <2> USE <2>1 DEF local, ssl, setup, ConnectIInv
  <2>2. TypeOK' BY DEF TypeOK
  <2>3. WireInv' BY DEF WireInv
  <2>4. WantInv' BY DEF WantInv
  <2>5. RetInv' BY DEF RetInv, Answered
  <2>6. GiveInv' BY DEF GiveInv, Reason
  <2> QED BY <2>2, <2>3, <2>4, <2>5, <2>6
<1>9. CASE Drain \/ DeviceDone
  <2> USE <1>9 DEF Drain, DeviceDone, local, net, setup, ConnectIInv
  <2>1. TypeOK' BY DEF TypeOK
  <2>2. WireInv' BY DEF WireInv
  <2>3. WantInv' BY DEF WantInv
  <2>4. RetInv' BY DEF RetInv, Answered
  <2>5. GiveInv' BY DEF GiveInv, Reason
  <2> QED BY <2>1, <2>2, <2>3, <2>4, <2>5
<1>10. CASE UNCHANGED vars
  BY <1>10 DEF vars, setup, local, ssl, net, ConnectIInv, TypeOK, WireInv, WantInv, RetInv,
               GiveInv, Answered, Reason
<1> QED
  BY <1>1, <1>2, <1>3, <1>4, <1>5, <1>6, <1>7, <1>8, <1>9, <1>10 DEF Next, Client, Returned

\* The invariant holds of every run of NonBlockingSSL_Connect.
THEOREM ConnectInvariance == Spec => []ConnectIInv
<1>1. ConnectIInv /\ [Next]_vars => ConnectIInv' BY ConnectStep
<1> QED BY ConnectInitially, <1>1, PTL DEF Spec

\* Every variable keeps its type; in particular DTLS never counts more
\* time-outs than it allows.
THEOREM ConnectTypeCorrect == Spec => []TypeOK
<1>1. ConnectIInv => TypeOK BY DEF ConnectIInv
<1> QED BY ConnectInvariance, <1>1, PTL

\* SSL_SUCCESS is returned only after the peer has received every flight that
\* is answered, also when wolfSSL_AsyncPoll returned 1 on the way.
THEOREM SuccessIsAnswered == Spec => []SuccessMeansAnswered
<1>1. ConnectIInv => SuccessMeansAnswered BY DEF ConnectIInv, RetInv, Answered, SuccessMeansAnswered
<1> QED BY ConnectInvariance, <1>1, PTL

\* A failure is returned for a known reason; a time-out is none over TCP.
THEOREM FailureHasAReason == Spec => []GivesUpForAReason
<1>1. ConnectIInv => GivesUpForAReason BY DEF ConnectIInv, GiveInv, Reason, GivesUpForAReason
<1> QED BY ConnectInvariance, <1>1, PTL
=============================================================================

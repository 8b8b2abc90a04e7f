--------------------------- MODULE ClientOptions ---------------------------
(***************************************************************************)
(* main() and the option loop of client_test (tls13-dev/host/client.c):     *)
(* from the words of the command line to the variables the rest of          *)
(* client_test runs with, or to an exit before any of it.                   *)
(*                                                                          *)
(* A word is what it is as an option (its letter, "" when it does not begin *)
(* with a dash), what atoi makes of it and how it begins; which of them     *)
(* counts depends on where it stands.  A variable that holds a string holds *)
(* the place of its word, 0 for the default of the program.  Several        *)
(* letters in one word, and a value in the word of its letter, read as the  *)
(* same words apart.                                                        *)
(***************************************************************************)
EXTENDS Sequences, FiniteSets, ClientCommandLine

CONSTANTS
    Builds,        \* sets of the build macros that are defined
    CommandLines   \* the command lines explored, sequences of words

Texts == {"smtp", "C:", "F:", "other"}

ASSUME CommandLinesAssumption ==
    CommandLines \subseteq Seq([letter : STRING, num : Int, text : Texts])

VARIABLES
    build,    \* the macros of this build
    argv,     \* the words after the name of the program
    myoptind, \* the word mygetopt reads next
    set,      \* the variables of client_test the options set
    stage,    \* "main", "options", "external", "version", "method", "session", "exit"
    status    \* exit status of the process

optionsVars == <<build, argv, myoptind, set, stage, status>>

Has(f) == f \in build

EXIT_SUCCESS == 0
EXIT_FAILURE == 1
MY_EX_USAGE  == 2
CLIENT_INVALID_VERSION == -99
CLIENT_DEFAULT_VERSION == 3
CLIENT_DTLS_DEFAULT_VERSION == -2
DEFAULT_MIN_DHKEY_BITS == 1024
WOLFSSL_MFL_2_9  == 1
WOLFSSL_MFL_2_13 == 5

Letters ==
    {"?", "a", "b", "c", "d", "e", "f", "g", "h", "i", "j", "k", "l", "m", "n",
     "o", "p", "q", "r", "s", "t", "u", "v", "w", "x", "y", "z", "A", "B", "C",
     "D", "E", "F", "G", "H", "I", "J", "K", "L", "M", "N", "O", "P", "Q", "R",
     "S", "T", "U", "V", "W", "X", "Y", "Z", "0", "3"}

\* the letters with a colon behind them
WithArgument ==
    {"b", "c", "h", "k", "l", "p", "q", "v", "A", "B", "E", "F", "L", "M", "O", "S",
     "W", "Z", "3"}

\* the variables and their initial values
Defaults ==
    [host |-> 0, domain |-> 0, port |-> 11111, version |-> CLIENT_INVALID_VERSION,
     usePsk |-> 0, useAnon |-> 0, sendGET |-> 0, benchmark |-> 0, throughput |-> 0,
     doDTLS |-> 0, dtlsUDP |-> 0, dtlsSCTP |-> 0, doMcast |-> 0, mcastID |-> 0,
     matchName |-> 0, doPeerCheck |-> 1, nonBlocking |-> 0, resumeSession |-> 0,
     wc_shutdown |-> 0, disableCRL |-> 0, externalTest |-> 0, scr |-> 0,
     forceScr |-> 0, useClientCert |-> 1, fewerPackets |-> 0, atomicUser |-> 0,
     pkCallbacks |-> 0, overrideDateErrors |-> 0,
     minDhKeyBits |-> DEFAULT_MIN_DHKEY_BITS, alpnList |-> 0, cipherList |-> 0,
     useDefCipherList |-> 0, verifyCert |-> 0, ourCert |-> 0, ourKey |-> 0,
     doSTARTTLS |-> 0, starttlsProt |-> 0, useVerifyCb |-> 0, trustCert |-> 0,
     sniHostName |-> 0, maxFragment |-> 0, truncatedHMAC |-> 0, statusRequest |-> 0,
     disableExtMasterSecret |-> 0, helloRetry |-> 0, onlyKeyShare |-> 0,
     noPskDheKe |-> 0, postHandAuth |-> 0, updateKeysIVs |-> 0, earlyData |-> 0,
     useOcsp |-> 0, ocspUrl |-> 0, useX25519 |-> 0, wnrConfigFile |-> 0]

Variables == DOMAIN Defaults

OptionsTypeOK ==
    /\ build \in Builds
    /\ argv \in CommandLines
    /\ myoptind \in 0..Len(argv) + 1
    /\ set \in [Variables -> Int]
    /\ stage \in {"main", "options", "external", "version", "method", "session", "exit"}
    /\ status \in {-1, EXIT_SUCCESS, EXIT_FAILURE, MY_EX_USAGE}

OptionsInit ==
    /\ build \in Builds
    /\ argv \in CommandLines
    /\ myoptind = 1
    /\ set = Defaults
    /\ stage = "main"
    /\ status = -1

At(here) == stage = here
Go(there) == stage' = there /\ UNCHANGED <<build, argv, status>>
Exit(code) == stage' = "exit" /\ status' = code /\ UNCHANGED <<build, argv, myoptind, set>>

----------------------------------------------------------------------------
(* The cases of the loop: what a letter assigns, given its argument w, the  *)
(* word at place i.                                                         *)

Nothing == <<>>
When(f, assigned) == IF f \subseteq build THEN assigned ELSE Nothing

PeerCases(l, i) ==
    CASE l = "g" -> [sendGET |-> 1]
      [] l = "d" -> [doPeerCheck |-> 0]
      [] l = "D" -> [overrideDateErrors |-> 1]
      [] l = "C" -> When({"CRL"}, [disableCRL |-> 1])
      [] l = "u" -> [doDTLS |-> 1, dtlsUDP |-> 1]
      [] l = "G" -> When({"SCTP"}, [doDTLS |-> 1, dtlsSCTP |-> 1])
      [] l = "s" -> [usePsk |-> 1]
      [] l = "E" -> [trustCert |-> i]
      [] l = "m" -> [matchName |-> 1]
      [] l = "x" -> [useClientCert |-> 0]
      [] l = "X" -> [externalTest |-> 1]
      [] l = "f" -> [fewerPackets |-> 1]
      [] l = "U" -> When({"ATOMIC_USER"}, [atomicUser |-> 1])
      [] l = "P" -> When({"PK_CALLBACKS"}, [pkCallbacks |-> 1])
      [] l = "h" -> [host |-> i, domain |-> i]
      [] OTHER -> Nothing

\* (word16)atoi(myoptarg)
PortOf(w) == w.num % 2^16

CredentialCases(l, w, i) ==
    CASE l = "p" -> [port |-> PortOf(w)]
      [] l = "v" -> [version |-> w.num]
      [] l = "l" -> [cipherList |-> i]
      [] l = "H" -> [useDefCipherList |-> 1]
      [] l = "A" -> [verifyCert |-> i]
      [] l = "c" -> [ourCert |-> i]
      [] l = "k" -> [ourKey |-> i]
      [] l = "Z" -> When({"DH"}, [minDhKeyBits |-> w.num])
      [] OTHER -> Nothing

ModeCases(l, w) ==
    CASE l = "b" -> [benchmark |-> w.num]
      [] l = "B" -> [throughput |-> w.num]
      [] l = "N" -> [nonBlocking |-> 1]
      [] l = "r" -> [resumeSession |-> 1]
      [] l = "w" -> [wc_shutdown |-> 1]
      [] l = "R" -> When({"SECURE_RENEGOTIATION"}, [scr |-> 1])
      [] l = "i" -> When({"SECURE_RENEGOTIATION"}, [scr |-> 1, forceScr |-> 1])
      [] OTHER -> Nothing

\* maxFragment and statusRequest are bytes
ByteOf(w) == w.num % 2^8

ExtensionCases(l, w, i) ==
    CASE l = "S" -> When({"SNI"}, [sniHostName |-> i])
      [] l = "F" -> When({"MAX_FRAGMENT"}, [maxFragment |-> ByteOf(w)])
      [] l = "T" -> When({"TRUNCATED_HMAC"}, [truncatedHMAC |-> 1])
      [] l = "n" -> When({"EXTENDED_MASTER"}, [disableExtMasterSecret |-> 1])
      [] l = "W" -> When({"STATUS_REQUEST"}, [statusRequest |-> ByteOf(w)])
      [] l = "o" -> When({"OCSP"}, [useOcsp |-> 1])
      [] l = "O" -> When({"OCSP"}, [useOcsp |-> 1, ocspUrl |-> i])
      [] l = "a" -> When({"ANON"}, [useAnon |-> 1])
      [] l = "L" -> When({"ALPN"}, [alpnList |-> i])
      [] l = "M" -> [doSTARTTLS |-> 1, starttlsProt |-> i]
      [] l = "q" -> When({"WNR"}, [wnrConfigFile |-> i])
      [] OTHER -> Nothing

Tls13Cases(l, w) ==
    CASE l = "J" -> When({"TLS13"}, [helloRetry |-> 1])
      [] l = "K" -> When({"TLS13"}, [noPskDheKe |-> 1])
      [] l = "I" -> When({"TLS13"}, [updateKeysIVs |-> 1])
      [] l = "y" -> When({"TLS13", "DH"}, [onlyKeyShare |-> 1])
      [] l = "Y" -> When({"TLS13", "ECC"}, [onlyKeyShare |-> 2])
      [] l = "j" -> [useVerifyCb |-> 1]
      [] l = "t" -> When({"CURVE25519"},
                         IF {"TLS13", "ECC"} \subseteq build
                         THEN [useX25519 |-> 1, onlyKeyShare |-> 2]
                         ELSE [useX25519 |-> 1])
      [] l = "Q" -> When({"TLS13", "POST_HANDSHAKE_AUTH"}, [postHandAuth |-> 1])
      [] l = "0" -> When({"EARLY_DATA"}, [earlyData |-> 1])
      [] l = "3" -> When({"MULTICAST"}, [doMcast |-> 1, mcastID |-> ByteOf(w)])
      [] OTHER -> Nothing

\* the variables that are assigned take their values, the others keep theirs
Over(old, new) ==
    [v \in DOMAIN old \cup DOMAIN new |-> IF v \in DOMAIN new THEN new[v] ELSE old[v]]

Assigned(l, w, i) ==
    LET peer == Over(PeerCases(l, i), CredentialCases(l, w, i))
        mode == Over(ModeCases(l, w), ExtensionCases(l, w, i))
    IN  Over(Over(peer, mode), Tls13Cases(l, w))

----------------------------------------------------------------------------
(* The cases that end the program.                                          *)

BadVersion(l, w) == l = "v" /\ w.num \notin 0..4

BadSize(l, w) ==
    \/ l = "Z" /\ Has("DH") /\ (w.num <= 0 \/ w.num > 16000)
    \/ l = "b" /\ (w.num < 0 \/ w.num > 1000000)
    \/ l = "B" /\ w.num <= 0

BadExtension(l, w) ==
    \/ l = "F" /\ Has("MAX_FRAGMENT") /\ ByteOf(w) \notin WOLFSSL_MFL_2_9..WOLFSSL_MFL_2_13
    \/ l = "L" /\ Has("ALPN") /\ w.text \notin {"C:", "F:"}

BadProtocol(l, w) == l = "M" /\ w.text # "smtp"

\* a letter of the option string without a case in this build
NoCase(l) == l = "E" /\ ~Has("TRUST_PEER_CERT")

BadOption(l, w) ==
    BadVersion(l, w) \/ BadSize(l, w) \/ BadExtension(l, w) \/ BadProtocol(l, w) \/ NoCase(l)

----------------------------------------------------------------------------
(* main, the loop and what follows it.                                      *)

\* main changes to the directory of the library before anything is parsed
StartUp ==
    /\ At("main")
    /\ \/ Exit(EXIT_FAILURE)
       \/ Go("options") /\ UNCHANGED <<myoptind, set>>

IsOption(i) == i <= Len(argv) /\ argv[i].letter # ""

\* mygetopt: "?" for a letter that is not in the option string and for one
\* whose argument is missing; whatever the next word is, it is the argument
mygetopt(i) ==
    LET l == argv[i].letter
    IN  IF l \notin Letters \/ (l \in WithArgument /\ i = Len(argv)) THEN "?" ELSE l

\* the last word an option takes: its argument, or the option itself
Last(i) == IF mygetopt(i) \in WithArgument THEN i + 1 ELSE i
Argument(i) == argv[Last(i)]

Reads(i) == At("options") /\ IsOption(i)

\* -?, -e, -V print and exit with success; so does a wrong letter
ShowAndExit ==
    /\ Reads(myoptind)
    /\ mygetopt(myoptind) \in {"?", "e", "V"}
    /\ Exit(EXIT_SUCCESS)

\* the usage text and MY_EX_USAGE
RefuseOption ==
    /\ Reads(myoptind)
    /\ BadOption(mygetopt(myoptind), Argument(myoptind))
    /\ Exit(MY_EX_USAGE)

\* Slip: the port is tested before the cast
BadPortUncut(l, w) == l = "p" /\ w.num = 0

BadPort(l, w) == l = "p" /\ PortOf(w) = 0

\* "port number cannot be 0", after the cast
RefusePort ==
    /\ Reads(myoptind)
    /\ BadPort(mygetopt(myoptind), Argument(myoptind))
    /\ Exit(EXIT_FAILURE)

\* an option that goes on with the loop
Good(i) ==
    LET l == mygetopt(i)
    IN  /\ Reads(i)
        /\ l \notin {"?", "e", "V"}
        /\ ~BadOption(l, Argument(i))
        /\ ~BadPort(l, Argument(i))

Effect(i) == Assigned(mygetopt(i), Argument(i), Last(i))

\* Slip: the first option that sets a variable decides, not the last
SetVariablesOnce ==
    /\ Good(myoptind)
    /\ set' = IF \A v \in DOMAIN Effect(myoptind) : set[v] = Defaults[v]
              THEN Over(set, Effect(myoptind)) ELSE set
    /\ myoptind' = Last(myoptind) + 1
    /\ UNCHANGED <<build, argv, stage, status>>

\* Slip: the word behind an option is passed over, argument or not
SetVariablesSkipping ==
    /\ Good(myoptind)
    /\ set' = Over(set, Effect(myoptind))
    /\ myoptind' = myoptind + 2
    /\ UNCHANGED <<build, argv, stage, status>>

\* one option: its variables, and on to the next word
SetVariables ==
    /\ Good(myoptind)
    /\ set' = Over(set, Effect(myoptind))
    /\ myoptind' = Last(myoptind) + 1
    /\ UNCHANGED <<build, argv, stage, status>>

\* the words are read, or one is no option: the rest is not looked at
EndOfOptions ==
    /\ At("options")
    /\ ~IsOption(myoptind)
    /\ myoptind' = 0
    /\ UNCHANGED set
    /\ Go("external")

ExternalTest ==
    /\ At("external")
    /\ \/ set.externalTest = 1 /\ Has("NO_EXTERNAL_TEST") /\ Exit(EXIT_SUCCESS)
       \/ /\ ~(set.externalTest = 1 /\ Has("NO_EXTERNAL_TEST"))
          /\ Go("version")
          /\ UNCHANGED <<myoptind, set>>

\* Slip: the version asked for is kept for DTLS
ResolveVersionOfTls ==
    /\ At("version")
    /\ set' = [set EXCEPT !.version =
                  IF @ # CLIENT_INVALID_VERSION THEN @
                  ELSE IF set.doDTLS = 1 THEN CLIENT_DTLS_DEFAULT_VERSION
                  ELSE CLIENT_DEFAULT_VERSION]
    /\ Go("method")
    /\ UNCHANGED myoptind

\* DTLS versus TLS versions
ResolveVersion ==
    /\ At("version")
    /\ set' = [set EXCEPT !.version =
                  IF @ = CLIENT_INVALID_VERSION
                  THEN IF set.doDTLS = 1 THEN CLIENT_DTLS_DEFAULT_VERSION
                       ELSE CLIENT_DEFAULT_VERSION
                  ELSE IF set.doDTLS = 0 THEN @
                  ELSE IF @ = 3 THEN -2 ELSE -1]
    /\ Go("method")
    /\ UNCHANGED myoptind

\* the versions that have a case in this build
Methods ==
    (IF Has("NO_OLD_TLS") THEN {} ELSE {1, 2}
        \cup (IF Has("ALLOW_SSLV3") THEN {0} ELSE {})
        \cup (IF Has("DTLS") THEN {-1} ELSE {}))
    \cup {3}
    \cup (IF Has("TLS13") THEN {4} ELSE {})
    \cup (IF Has("DTLS") THEN {-2} ELSE {})

ChooseMethod ==
    /\ At("method")
    /\ IF set.version \in Methods
       THEN Go("session") /\ UNCHANGED <<myoptind, set>>
       ELSE Exit(EXIT_FAILURE)

OptionsNext ==
    \/ StartUp \/ ShowAndExit \/ RefuseOption \/ RefusePort \/ SetVariables
    \/ EndOfOptions \/ ExternalTest \/ ResolveVersion \/ ChooseMethod

OptionsSpec == OptionsInit /\ [][OptionsNext]_optionsVars

----------------------------------------------------------------------------
(* What the rest of client_test starts from.                                *)

Set(v) == set[v] = 1

\* the variables as ClientSession looks at them; -b goes before -B
SessionOptions ==
    [mode |-> IF set.benchmark # 0 THEN "benchmark"
              ELSE IF set.throughput # 0 THEN "throughput" ELSE "session",
     version |-> IF set.version = 4 THEN 4 ELSE 3,
     externalTest |-> Set("externalTest"), doSTARTTLS |-> Set("doSTARTTLS"),
     nonBlocking |-> Set("nonBlocking"), resumeSession |-> Set("resumeSession"),
     useX25519 |-> Set("useX25519"), helloRetry |-> Set("helloRetry"),
     onlyKeyShare |-> set.onlyKeyShare, earlyData |-> Set("earlyData"),
     usePsk |-> Set("usePsk"), dtlsUDP |-> Set("dtlsUDP"),
     forceScr |-> Set("forceScr"), sendGET |-> Set("sendGET"),
     postHandAuth |-> Set("postHandAuth")]

(* Whatever was typed, in whatever order, and in every build: client_test   *)
(* goes on only with variables ClientSession is specified for.  In          *)
(* particular DTLS never meets the method of TLS 1.3 (-u -v 4), and no      *)
(* option asks for key shares of a group the build does not have.           *)
HandsOverAccepted ==
    stage = "session" =>
        SessionOptions \in OptionType /\ AcceptedBy(build, SessionOptions)

----------------------------------------------------------------------------
(* The meaning of a command line, word by word.                             *)

\* word i is reached as an option: it begins the line, or the word before is
\* an option without argument, or the argument of the one before that
Reached ==
    LET reached[i \in 1..Len(argv)] ==
            \/ i = 1
            \/ \E j \in {i - 1, i - 2} \cap 1..i :
                   reached[j] /\ IsOption(j) /\ Last(j) = i - 1
    IN  {i \in 1..Len(argv) : reached[i]}

InEffect == {i \in Reached : IsOption(i)}

Parsed == stage \in {"external", "version", "method", "session"}

(* Once the loop has ended, every variable has the value the last option    *)
(* that assigns it gave it, or else its default: neither a word that was    *)
(* taken for an argument (-W -r does not resume) nor one behind the first   *)
(* that is no option has an effect, and nothing of an option is undone by   *)
(* another that assigns something else.  The version is resolved later.     *)
MeansWhatItSays ==
    Parsed =>
        \A v \in Variables :
            LET givers == {i \in InEffect : v \in DOMAIN Effect(i)}
            IN  \/ v = "version" /\ stage \in {"method", "session"}
                \/ givers = {} /\ set[v] = Defaults[v]
                \/ \E i \in givers :
                      (\A j \in givers : j <= i) /\ set[v] = Effect(i)[v]

\* the range of an argument, where the usage text of the build gives one
Documented(l, w) ==
    /\ l = "p" => 0 < w.num /\ w.num < 2^16
    /\ l = "v" => w.num \in 0..3 \/ (w.num = 4 /\ Has("TLS13"))
    /\ l = "F" /\ Has("MAX_FRAGMENT") => w.num \in 1..5
    /\ l = "3" /\ Has("MULTICAST") => 0 <= w.num /\ w.num <= 255
    /\ l = "M" => w.text = "smtp"
    /\ l = "L" /\ Has("ALPN") => w.text \in {"C:", "F:"}

\* a number that the cast or the mask before the test brings into the range
CutIntoRange(l, w) ==
    \/ l = "p" /\ PortOf(w) # 0
    \/ l = "F" /\ ByteOf(w) \in 1..5
    \/ l = "3"

\* the usage text ends at 3 without TLS 1.3, the loop lets 4 through all the same
UndocumentedVersion(l, w) == l = "v" /\ w.num = 4 /\ ~Has("TLS13")

Overridden(i) == \E j \in InEffect : i < j /\ mygetopt(j) = "v"

(* Nothing after the loop runs with an argument outside the range the usage *)
(* text gives it, the options that were overridden by later ones included,  *)
(* but for numbers that a cast before the test has cut into the range       *)
(* (-p 65537, -F 257, -3 256) and for -v 4 in a build without TLS 1.3,      *)
(* where the text says [0-3].  Such a -v 4, unless a later -v overrides it, *)
(* starts a session only with -u or -G, and then as DTLS 1.0.               *)
OutOfRangeOnlyWhenCut ==
    /\ Parsed =>
        \A i \in InEffect :
            LET l == mygetopt(i)
                w == Argument(i)
            IN  Documented(l, w) \/ CutIntoRange(l, w) \/ UndocumentedVersion(l, w)
    /\ stage = "session" =>
        \A i \in InEffect :
            UndocumentedVersion(mygetopt(i), Argument(i)) /\ ~Overridden(i)
                => set.version = -1 /\ Set("doDTLS")
=============================================================================

------------------------- MODULE ClientSession_proofs -------------------------
(***************************************************************************)
(* Proofs about ClientSession, for every build and every set of command     *)
(* lines.                                                                   *)
(*                                                                          *)
(* The sections of client_test carry the argument: which section runs says  *)
(* which objects are live, whether a socket is open, how far each session   *)
(* has come and what has been read.                                         *)
(* The second half follows the run to ClientContract, and the ticket and the *)
(* key shares to the handshakes that need them.                             *)
(***************************************************************************)
EXTENDS ClientSession, TLAPS

\* the sections in which the first session's object is live, and its handshake done
SslSections ==
    {"keyShares", "connectTcp", "startTls", "checks", "handshake", "smtpQuit",
     "smtpQuitPending", "smtpBye", "smtpByePending", "smtpFree", "rehandshake", "write", "read", "postAuth",
     "readGet", "getSession", "close"}

SslConnected ==
    {"smtpQuit", "smtpQuitPending", "smtpBye", "smtpByePending", "smtpFree", "rehandshake", "write", "read",
     "postAuth", "readGet", "getSession", "close"}

\* the same for the resumed session
ResumeSections ==
    {"resumeTcp", "resumeKeyShares", "earlyData", "resumeHandshake",
     "resumeWrite", "resumeRead", "resumeGet", "resumeClose"}

ResumeConnected == {"resumeWrite", "resumeRead", "resumeGet", "resumeClose"}

SmtpSections ==
    {"smtpQuit", "smtpQuitPending", "smtpBye", "smtpByePending", "smtpFree", "smtpReturn"}

\* sections reached only when a request of the first session was answered, or
\* the read of its answer given up
AnsweredSections ==
    {"postAuth", "readGet", "getSession", "close", "finish"} \cup ResumeSections

\* sections that run with a socket open
SocketSections ==
    (SslSections \ {"keyShares", "connectTcp"}) \cup (ResumeSections \ {"resumeTcp"})

ObjectsInv ==
    end = "run" =>
        /\ lib["ctx"] = "live" <=> pc \notin {"external", "context"}
        /\ lib["ssl"] = "live" <=> pc \in SslSections
        /\ lib["sslResume"] = "live" <=> pc \in ResumeSections \/ (pc = "close" /\ Resuming)

ReturnInv ==
    /\ end = "return" => /\ \A o \in Objects : lib[o] # "live"
                         /\ pc \in {"smtpReturn", "finish"}
                         /\ dev = "open" => pc = "smtpReturn"
    /\ end = "exit" => pc \in {"external", "benchmark"}
    /\ retCode = 0 <=> end \in {"return", "exit"}
    /\ dev = "open" => Has("ASYNC_CRYPT")

SocketInv == sockets = IF pc \in SocketSections THEN 1 ELSE 0

PathInv ==
    /\ pc \in ResumeSections => Resuming
    /\ pc \in SmtpSections => opt.doSTARTTLS
    /\ pc \in AnsweredSections \cup {"rehandshake", "write", "read"} => ~opt.doSTARTTLS
    /\ pc \in AnsweredSections => "ssl" \in answered \cup givenUp
    /\ pc = "benchmark" => opt.mode # "session"
    /\ pc \in SslSections \cup ResumeSections \cup {"newSsl", "smtpReturn", "finish"}
        => opt.mode = "session"
    /\ ~(opt.externalTest /\ Has("NO_EXTERNAL_TEST")) \/ pc = "external"
    /\ end = "exit" /\ pc = "external" => opt.externalTest /\ Has("NO_EXTERNAL_TEST")

PhaseInv ==
    /\ phase["ssl"] = IF pc \in SslConnected THEN "connected"
                      ELSE IF pc \in ResumeSections \cup {"smtpReturn", "finish"}
                      THEN "shut" ELSE "new"
    /\ phase["sslResume"] = IF pc \in ResumeConnected THEN "connected"
                            ELSE IF pc = "finish" /\ Resuming THEN "shut" ELSE "new"

IInv ==
    /\ TypeOK
    /\ ObjectsInv
    /\ ReturnInv
    /\ SocketInv
    /\ PathInv
    /\ PhaseInv
    /\ StaleCallsConfined

----------------------------------------------------------------------------
(* Lemmas about the building blocks.                                        *)

\* calls on live objects leave no trace
LEMMA CallsOnLive ==
  ASSUME NEW K, Calls(K), \A k \in K : lib[k[1]] = "live"
  PROVE  stale' = stale
  BY DEF Calls

LEMMA TcpConnectOnLive ==
  ASSUME NEW c, NEW K, TcpConnect(c, K), lib[c] = "live", \A k \in K : lib[k[1]] = "live"
  PROVE  stale' = stale /\ sockets' = sockets + 1
  BY DEF TcpConnect, Calls

LEMMA InitTypeOK == Init => TypeOK
<1> SUFFICES ASSUME Init PROVE TypeOK
  OBVIOUS
<1>1. inbox \in [Conns -> Seq({"ticket", "reply", "close"})]
  BY DEF Init
<1>2. opt \in Options /\ pc \in Sections /\ early \in BOOLEAN
  BY DEF Init, Sections
<1>3. /\ shares \in [Conns -> SUBSET Groups]
      /\ asked \in [Conns -> Nat]
      /\ lib \in [Objects -> {"none", "live", "freed"}]
      /\ phase \in [Conns -> {"new", "connected", "shut"}]
      /\ peer \in [Conns -> {"idle", "ticket", "open", "closed"}]
  BY DEF Init
<1>4. sockets \in Nat /\ dev = "none" /\ ticketed = {} /\ session = "none" /\ answered = {}
      /\ givenUp = {} /\ retCode = -1 /\ end = "run"
  BY DEF Init
<1> QED BY <1>1, <1>2, <1>3, <1>4 DEF TypeOK

LEMMA InitIInv == Init => IInv
  BY InitTypeOK
     DEF Init, IInv, ObjectsInv, ReturnInv, SocketInv, PathInv, PhaseInv, StaleCallsConfined,
         SslSections, SslConnected, ResumeSections, ResumeConnected, SmtpSections,
         AnsweredSections, SocketSections, Objects, Conns

\* both error paths keep the invariant: the run is over and nothing but the
\* objects freed has changed
LEMMA FailStep ==
  ASSUME IInv, end = "run",
         NEW O \in SUBSET Objects, \A o \in O : lib[o] = "live",
         FailFreeing(O) \/ FailKeeping
  PROVE  IInv'
<1>1. stale' = stale
  <2>1. CASE FailFreeing(O)
    BY <2>1, CallsOnLive DEF FailFreeing
  <2>2. CASE FailKeeping
    BY <2>2 DEF FailKeeping, libVars
  <2> QED BY <2>1, <2>2
<1>2. TypeOK'
  BY DEF IInv, TypeOK, FailFreeing, FailKeeping, ErrSys, Freeing, libVars, netVars, sessVars
<1>3. end' = "err_sys" /\ UNCHANGED <<opt, pc, dev, retCode, sockets, phase, answered, givenUp>>
  BY DEF FailFreeing, FailKeeping, ErrSys, libVars, netVars, sessVars
<1> QED
  BY <1>1, <1>2, <1>3
     DEF IInv, ObjectsInv, ReturnInv, SocketInv, PathInv, PhaseInv, StaleCallsConfined, Resuming,
         Has

\* a step that goes on from one section to another, to the same effect on the
\* objects, the socket and the phases as the tables above
LEMMA GoStep ==
  ASSUME IInv, end = "run",
         NEW p \in Sections, Go(p),
         stale' = stale, TypeOK',
         dev' = "open" => dev = "open" \/ Has("ASYNC_CRYPT"),
         ObjectsInv', SocketInv', PathInv', PhaseInv'
  PROVE  IInv'
<1>1. ReturnInv'
  BY DEF IInv, ReturnInv, Go, Has
<1>2. StaleCallsConfined'
  BY DEF IInv, StaleCallsConfined, Go, Resuming
<1> QED BY <1>1, <1>2 DEF IInv

\* the tables say the same of section p as of the one that runs
Alike(p) ==
    /\ {p, pc} \cap {"external", "context", "close", "smtpReturn", "finish"} = {}
    /\ p \in SslSections <=> pc \in SslSections
    /\ p \in SslConnected <=> pc \in SslConnected
    /\ p \in ResumeSections <=> pc \in ResumeSections
    /\ p \in ResumeConnected <=> pc \in ResumeConnected
    /\ p \in SocketSections <=> pc \in SocketSections

\* a step between two such sections
LEMMA QuietStep ==
  ASSUME IInv, end = "run",
         NEW p \in Sections, Go(p),
         stale' = stale, TypeOK', PathInv',
         UNCHANGED <<lib, sockets, phase>>,
         dev' = "open" => dev = "open" \/ Has("ASYNC_CRYPT"),
         Alike(p)
  PROVE  IInv'
<1>1. ObjectsInv'
  BY DEF IInv, ObjectsInv, Go, Resuming, Alike
<1>2. SocketInv' /\ PhaseInv'
  BY DEF IInv, SocketInv, PhaseInv, Go, Resuming, Alike
<1> QED BY <1>1, <1>2, GoStep

LEMMA ExternalTestStep == ASSUME IInv, ExternalTest PROVE IInv'
<1> QED BY DEF IInv, ExternalTest, At, Go, TypeOK, ObjectsInv, ReturnInv, SocketInv, PathInv, PhaseInv,
         StaleCallsConfined, libVars, netVars, sessVars, Sections,
         SslSections, SslConnected, ResumeSections, ResumeConnected, SmtpSections,
         AnsweredSections, SocketSections, Resuming

\* err_sys with nothing freed
COROLLARY FailKeepingStep ==
  ASSUME IInv, end = "run", FailKeeping
  PROVE  IInv'
<1>1. {} \in SUBSET Objects
  OBVIOUS
<1> QED BY <1>1, FailStep

LEMMA NewContextStep == ASSUME IInv, NewContext PROVE IInv'
<1>1. CASE FailKeeping
  BY <1>1, FailKeepingStep DEF NewContext, At
<1>2. CASE /\ lib' = [lib EXCEPT !["ctx"] = "live"]
           /\ Go("configure")
           /\ UNCHANGED <<stale, dev, netVars, sessVars>>
  <2>1. TypeOK'
    BY <1>2 DEF IInv, TypeOK, Go, netVars, sessVars, Sections
  <2>2. ObjectsInv' 
    BY <1>2 DEF NewContext, At, IInv, TypeOK, ObjectsInv, Go, Objects, Conns, SslSections, ResumeSections
  <2>3. SocketInv' /\ PathInv' /\ PhaseInv'
    BY <1>2 DEF NewContext, At, IInv, TypeOK, SocketInv, PathInv, PhaseInv, Go, netVars, sessVars,
         SslSections, SslConnected, ResumeSections, ResumeConnected, SmtpSections,
         AnsweredSections, SocketSections, Resuming
  <2> QED BY <1>2, <2>1, <2>2, <2>3, GoStep DEF NewContext, At, Go, sessVars, Sections
<1> QED BY <1>1, <1>2 DEF NewContext

LEMMA ConfigureStep == ASSUME IInv, ConfigureContext PROVE IInv'
<1>1. CASE FailFreeing({"ctx"})
  BY <1>1, FailStep DEF ConfigureContext, At, IInv, ObjectsInv, Objects
<1>2. CASE /\ Calls({<<"ctx", "configure">>})
           /\ Go("extensions")
           /\ UNCHANGED <<lib, dev, netVars, sessVars>>
  <2>1. stale' = stale
    BY <1>2, CallsOnLive DEF ConfigureContext, At, IInv, ObjectsInv
  <2>2. TypeOK'
    BY <1>2 DEF IInv, TypeOK, Go, netVars, sessVars, Sections
  <2>3. PathInv'
    BY <1>2 DEF ConfigureContext, At, IInv, PathInv, Go, SslSections, ResumeSections,
         SmtpSections, AnsweredSections, sessVars
  <2> QED
    BY <1>2, <2>1, <2>2, <2>3, QuietStep
       DEF ConfigureContext, At, Go, netVars, Sections, SslSections,
           SslConnected, ResumeSections, ResumeConnected, SocketSections, Alike
<1> QED BY <1>1, <1>2 DEF ConfigureContext

LEMMA ExtensionsStep == ASSUME IInv, EnableExtensions PROVE IInv'
<1>1. CASE FailFreeing({"ctx"})
  BY <1>1, FailStep DEF EnableExtensions, At, IInv, ObjectsInv, Objects
<1>2. CASE opt.useX25519 /\ FailKeeping
  BY <1>2, FailKeepingStep DEF EnableExtensions, At
<1>3. CASE /\ dev' \in IF Has("ASYNC_CRYPT") THEN {"open", "none"} ELSE {"none"}
           /\ Calls({<<"ctx", "configure">>})
           /\ lib' = lib
           /\ Go(IF opt.mode = "session" THEN "newSsl" ELSE "benchmark")
           /\ UNCHANGED <<netVars, sessVars>>
  <2>1. stale' = stale
    BY <1>3, CallsOnLive DEF EnableExtensions, At, IInv, ObjectsInv
  <2>2. TypeOK'
    BY <1>3 DEF IInv, TypeOK, Go, netVars, sessVars, Sections
  <2>3. PathInv'
    BY <1>3 DEF EnableExtensions, At, IInv, PathInv, Go, SslSections, ResumeSections,
         SmtpSections, AnsweredSections
  <2> QED
    BY <1>3, <2>1, <2>2, <2>3, QuietStep
       DEF EnableExtensions, At, Go, netVars, sessVars, Sections, SslSections, SslConnected,
           ResumeSections, ResumeConnected, SocketSections, Alike
<1> QED BY <1>1, <1>2, <1>3 DEF EnableExtensions

LEMMA BenchmarkStep == ASSUME IInv, RunBenchmark PROVE IInv'
<1>1. CASE FailKeeping
  BY <1>1, FailKeepingStep DEF RunBenchmark, At
<1>2. CASE /\ retCode' = 0
           /\ Calls({<<"ctx", "free">>})
           /\ lib' = Freeing({"ctx"})
           /\ end' = "exit"
           /\ UNCHANGED <<opt, pc, dev, netVars, sessVars>>
  <2>1. stale' = stale
    BY <1>2, CallsOnLive DEF RunBenchmark, At, IInv, ObjectsInv
  <2>2. TypeOK'
    BY <1>2 DEF IInv, TypeOK, Freeing, netVars, sessVars
  <2> QED
    BY <1>2, <2>1, <2>2
       DEF RunBenchmark, At, IInv, ObjectsInv, ReturnInv, SocketInv, PathInv, PhaseInv,
           StaleCallsConfined, Resuming, netVars, sessVars
<1> QED BY <1>1, <1>2 DEF RunBenchmark

LEMMA NewSslStep == ASSUME IInv, NewSsl PROVE IInv'
<1>1. CASE FailFreeing({"ctx"})
  BY <1>1, FailStep DEF NewSsl, At, IInv, ObjectsInv, Objects
<1>2. CASE /\ Calls({<<"ctx", "new">>})
           /\ lib' = [lib EXCEPT !["ssl"] = "live"]
           /\ Go("keyShares")
           /\ UNCHANGED <<dev, netVars, sessVars>>
  <2>1. stale' = stale
    BY <1>2, CallsOnLive DEF NewSsl, At, IInv, ObjectsInv
  <2>2. TypeOK'
    BY <1>2 DEF IInv, TypeOK, Go, netVars, sessVars, Sections
  <2>3. ObjectsInv'
    BY <1>2 DEF NewSsl, At, IInv, TypeOK, ObjectsInv, Go, Objects, Conns, SslSections, ResumeSections
  <2>4. SocketInv' /\ PathInv' /\ PhaseInv'
    BY <1>2 DEF NewSsl, At, IInv, SocketInv, PathInv, PhaseInv, Go, netVars, sessVars,
         SslSections, SslConnected, ResumeSections, ResumeConnected, SmtpSections,
         AnsweredSections, SocketSections, Resuming
  <2> QED BY <1>2, <2>1, <2>2, <2>3, <2>4, GoStep DEF NewSsl, At, Go, sessVars, Sections
<1> QED BY <1>1, <1>2 DEF NewSsl

LEMMA KeySharesStep == ASSUME IInv, QueueKeyShares PROVE IInv'
<1>1. CASE FirstShares # {} /\ FailKeeping
  BY <1>1, FailKeepingStep DEF QueueKeyShares, At
<1>2. CASE /\ shares' = [shares EXCEPT !["ssl"] = FirstShares]
           /\ Calls({<<"ssl", "UseKeyShare">>})
           /\ Go("connectTcp")
           /\ UNCHANGED <<lib, dev, netVars, ticketed, session, early, answered, givenUp>>
  <2>1. stale' = stale
    BY <1>2, CallsOnLive DEF QueueKeyShares, At, IInv, ObjectsInv, SslSections
  <2>2. FirstShares \subseteq Groups
    BY DEF FirstShares, X25519Share, EccShares, FfdheShares, Groups
  <2>3. TypeOK'
    BY <1>2, <2>2 DEF IInv, TypeOK, Go, netVars, Sections
  <2>4. PathInv'
    BY <1>2 DEF QueueKeyShares, At, IInv, PathInv, Go, SslSections, ResumeSections,
         SmtpSections, AnsweredSections
  <2> QED
    BY <1>2, <2>1, <2>3, <2>4, QuietStep
       DEF QueueKeyShares, At, netVars, Sections, SslSections, SslConnected,
           ResumeSections, ResumeConnected, SocketSections, Alike
<1> QED BY <1>1, <1>2 DEF QueueKeyShares

LEMMA ConnectTcpStep == ASSUME IInv, ConnectTcp PROVE IInv'
<1>1. CASE FailFreeing({"ctx", "ssl"})
  BY <1>1, FailStep DEF ConnectTcp, At, IInv, ObjectsInv, Objects, Conns, SslSections
<1>2. CASE FailKeeping
  BY <1>2, FailKeepingStep DEF ConnectTcp, At
<1>3. CASE /\ TcpConnect("ssl", {})
           /\ Go(IF opt.doSTARTTLS THEN "startTls" ELSE "checks")
           /\ UNCHANGED <<lib, dev, phase, inbox, asked, peer, sessVars>>
  <2>1. stale' = stale /\ sockets' = sockets + 1
    BY <1>3, TcpConnectOnLive DEF ConnectTcp, At, IInv, ObjectsInv, SslSections
  <2>2. TypeOK'
    BY <1>3, <2>1 DEF IInv, TypeOK, Go, sessVars, Sections
  <2>3. ObjectsInv'
    BY <1>3, <2>1 DEF ConnectTcp, At, IInv, ObjectsInv, Go, SslSections, ResumeSections
  <2>4. SocketInv' /\ PathInv' /\ PhaseInv'
    BY <1>3, <2>1 DEF ConnectTcp, At, IInv, SocketInv, PathInv, PhaseInv, Go, sessVars,
         SslSections, SslConnected, ResumeSections, ResumeConnected, SmtpSections,
         AnsweredSections, SocketSections, Resuming
  <2> QED BY <1>3, <2>1, <2>2, <2>3, <2>4, GoStep DEF ConnectTcp, At, Go, sessVars, Sections
<1> QED BY <1>1, <1>2, <1>3 DEF ConnectTcp

LEMMA StartTlsStep == ASSUME IInv, StartTLS_Init PROVE IInv'
<1>1. CASE FailKeeping
  BY <1>1, FailKeepingStep DEF StartTLS_Init, At
<1>2. CASE Go("checks") /\ UNCHANGED <<libVars, netVars, sessVars>>
  <2>1. TypeOK'
    BY <1>2 DEF IInv, TypeOK, Go, libVars, netVars, sessVars, Sections
  <2>2. PathInv'
    BY <1>2 DEF StartTLS_Init, At, IInv, PathInv, Go, SslSections, ResumeSections,
         SmtpSections, AnsweredSections
  <2> QED
    BY <1>2, <2>1, <2>2, QuietStep
       DEF StartTLS_Init, At, libVars, netVars, sessVars, Sections, SslSections, SslConnected,
           ResumeSections, ResumeConnected, SocketSections, Alike
<1> QED BY <1>1, <1>2 DEF StartTLS_Init

LEMMA ChecksStep == ASSUME IInv, EnableChecks PROVE IInv'
<1>1. CASE FailFreeing({"ctx", "ssl"})
  BY <1>1, FailStep DEF EnableChecks, At, IInv, ObjectsInv, Objects, Conns, SslSections
<1>2. CASE /\ Calls({<<"ssl", "configure">>})
           /\ Go("handshake")
           /\ UNCHANGED <<lib, dev, netVars, sessVars>>
  <2>1. stale' = stale
    BY <1>2, CallsOnLive DEF EnableChecks, At, IInv, ObjectsInv, SslSections
  <2>2. TypeOK'
    BY <1>2 DEF IInv, TypeOK, Go, netVars, sessVars, Sections
  <2>3. PathInv'
    BY <1>2 DEF EnableChecks, At, IInv, PathInv, Go, SslSections, ResumeSections,
         SmtpSections, AnsweredSections
  <2> QED
    BY <1>2, <2>1, <2>2, <2>3, QuietStep
       DEF EnableChecks, At, netVars, sessVars, Sections, SslSections, SslConnected,
           ResumeSections, ResumeConnected, SocketSections, Alike
<1> QED BY <1>1, <1>2 DEF EnableChecks

LEMMA ConnectStep == ASSUME IInv, Connect PROVE IInv'
<1>1. CASE FailFreeing({"ctx", "ssl"})
  BY <1>1, FailStep DEF Connect, At, IInv, ObjectsInv, Objects, Conns, SslSections
<1>2. CASE /\ Connected("ssl")
           /\ Go(IF opt.doSTARTTLS THEN "smtpQuit"
                 ELSE IF opt.forceScr /\ ~opt.nonBlocking THEN "rehandshake"
                 ELSE "write")
           /\ UNCHANGED <<shares, session, early, answered, givenUp>>
  <2>1. stale' = stale
    BY <1>2, CallsOnLive DEF Connect, Connected, At, IInv, ObjectsInv, SslSections
  <2>2. TypeOK'
    BY <1>2 DEF IInv, TypeOK, Connected, Go, Conns, Sections
  <2>3. ObjectsInv'
    BY <1>2 DEF Connect, Connected, At, IInv, ObjectsInv, Go, SslSections, ResumeSections
  <2>4. phase' = [phase EXCEPT !["ssl"] = "connected"] /\ sockets' = sockets
    BY <1>2 DEF Connected
  <2>5. SocketInv' /\ PathInv' /\ PhaseInv'
    BY <1>2, <2>4 DEF Connect, At, IInv, TypeOK, SocketInv, PathInv, PhaseInv, Go, Conns,
         SslSections, SslConnected, ResumeSections, ResumeConnected, SmtpSections,
         AnsweredSections, SocketSections, Resuming
  <2> QED BY <1>2, <2>1, <2>2, <2>3, <2>5, GoStep DEF Connect, Connected, At, Go, Sections
<1> QED BY <1>1, <1>2 DEF Connect

----------------------------------------------------------------------------
(* Reading and writing.                                                     *)

LEMMA ClientWriteStep ==
  ASSUME IInv, end = "run",
         NEW c \in Conns, lib[c] = "live",
         NEW p \in Sections, Alike(p), ClientWrite(c, p),
         Go(p) /\ opt' = opt /\ UNCHANGED <<answered, givenUp>> => PathInv'
  PROVE  IInv'
<1>1. CASE FailKeeping
  BY <1>1, FailKeepingStep
<1>2. CASE /\ Sent(c)
           /\ Calls({<<c, "write">>})
           /\ Go(p)
           /\ UNCHANGED <<lib, dev, sockets, phase, inbox, peer, sessVars>>
  <2>1. stale' = stale
    BY <1>2, CallsOnLive
  <2>2. TypeOK'
    BY <1>2 DEF IInv, TypeOK, Sent, Go, sessVars
  <2> QED BY <1>2, <2>1, <2>2, QuietStep DEF Go, sessVars
<1> QED BY <1>1, <1>2 DEF ClientWrite

LEMMA TakeTypeOK ==
  ASSUME TypeOK, NEW c \in Conns, Take(c), NEW p \in Sections, Go(p)
  PROVE  TypeOK'
<1>1. inbox' \in [Conns -> Seq({"ticket", "reply", "close"})]
  <2>1. Tail(inbox[c]) \in Seq({"ticket", "reply", "close"})
    BY DEF TypeOK, Take
  <2> QED BY <2>1 DEF TypeOK, Take
<1>2. ticketed' \subseteq Conns /\ answered' \subseteq Conns
  BY DEF TypeOK, Take
<1> QED BY <1>1, <1>2 DEF TypeOK, Take, Go

\* what every read that goes on does to the state the invariant is about
LEMMA TakeStep ==
  ASSUME IInv, end = "run",
         NEW c \in Conns, lib[c] = "live",
         NEW p \in Sections, Alike(p), Go(p),
         Take(c) \/ GiveUp(c) \/ UNCHANGED <<libVars, netVars, sessVars>>,
         PathInv'
  PROVE  IInv'
<1>1. stale' = stale
  <2>1. CASE Take(c) \/ GiveUp(c)
    BY <2>1, CallsOnLive DEF Take, GiveUp
  <2>2. CASE UNCHANGED <<libVars, netVars, sessVars>>
    BY <2>2 DEF libVars
  <2> QED BY <2>1, <2>2
<1>2. TypeOK'
  <2>1. CASE Take(c)
    BY <2>1, TakeTypeOK DEF IInv
  <2>2. CASE UNCHANGED <<libVars, netVars, sessVars>>
    BY <2>2 DEF IInv, TypeOK, Go, libVars, netVars, sessVars
  <2>3. CASE GiveUp(c)
    BY <2>3 DEF IInv, TypeOK, GiveUp, Go, netVars
  <2> QED BY <2>1, <2>2, <2>3
<1>3. UNCHANGED <<lib, dev, sockets, phase>>
  BY DEF Take, GiveUp, libVars, netVars, sessVars
<1> QED BY <1>1, <1>2, <1>3, QuietStep

\* answers and reads given up are kept, and a new one is recorded
LEMMA TakeAnswer ==
  ASSUME NEW c, Take(c) \/ GiveUp(c)
  PROVE  /\ answered \subseteq answered' /\ givenUp \subseteq givenUp'
         /\ GiveUp(c) \/ NextIs(c, "reply") => c \in answered' \cup givenUp'
  BY DEF Take, GiveUp, NextIs

\* a call of SMTP_Shutdown that finds WC_PENDING_E
LEMMA PendingStep ==
  ASSUME IInv, end = "run", lib["ssl"] = "live",
         NEW call, NEW p \in Sections, Alike(p), Pending(call, p), PathInv'
  PROVE  IInv'
<1>1. stale' = stale
  BY CallsOnLive DEF Pending
<1>2. TypeOK'
  BY DEF Pending, IInv, TypeOK, Go, netVars, sessVars
<1> QED BY <1>1, <1>2, QuietStep DEF Pending, netVars, sessVars

LEMMA SmtpQuitStep == ASSUME IInv, SmtpQuit PROVE IInv'
<1>1. \A p \in {"smtpBye", "smtpQuitPending"} :
          /\ Alike(p) /\ p \in Sections
          /\ Go(p) /\ opt' = opt /\ UNCHANGED <<answered, givenUp>> => PathInv'
  BY DEF SmtpQuit, At, Alike, Sections, SslSections, SslConnected, ResumeSections,
         ResumeConnected, SocketSections, IInv, PathInv, Go, SmtpSections, AnsweredSections
<1>2. end = "run" /\ lib["ssl"] = "live" /\ "ssl" \in Conns
  BY DEF SmtpQuit, At, IInv, ObjectsInv, Conns, SslSections
<1>3. CASE ClientWrite("ssl", "smtpBye")
  BY <1>1, <1>2, <1>3, ClientWriteStep
<1>4. CASE Pending("write", "smtpQuitPending")
  BY <1>1, <1>2, <1>4, PendingStep DEF Pending, Go, sessVars
<1> QED BY <1>3, <1>4 DEF SmtpQuit

LEMMA SmtpQuitAgainStep == ASSUME IInv, SmtpQuitAgain PROVE IInv'
<1>1. CASE FailKeeping
  BY <1>1, FailKeepingStep DEF SmtpQuitAgain, At
<1>2. CASE ClientWrite("ssl", "smtpQuitPending")
  <2>1. Alike("smtpQuitPending") /\ "smtpQuitPending" \in Sections
    BY DEF SmtpQuitAgain, At, Alike, Sections
  <2>2. Go("smtpQuitPending") /\ opt' = opt /\ UNCHANGED <<answered, givenUp>> => PathInv'
    BY DEF SmtpQuitAgain, At, IInv, PathInv, Go, Resuming
  <2> QED
    BY <1>2, <2>1, <2>2, ClientWriteStep
       DEF SmtpQuitAgain, At, IInv, ObjectsInv, Conns, SslSections
<1> QED BY <1>1, <1>2 DEF SmtpQuitAgain

LEMMA SmtpByeStep == ASSUME IInv, SmtpBye PROVE IInv'
<1>1. CASE FailKeeping
  BY <1>1, FailKeepingStep DEF SmtpBye, At
<1>2. CASE ~FailKeeping
  <2>1. PICK p \in {"smtpBye", "smtpByePending", "smtpFree"} :
            Go(p) /\ (Take("ssl") \/ Pending("read", p))
    BY <1>2 DEF SmtpBye, At, ReadPastTicket, Pending
  <2>2. Alike(p) /\ p \in Sections
    BY DEF SmtpBye, At, Alike, Sections, SslSections, SslConnected, ResumeSections,
           ResumeConnected, SocketSections
  <2>3. PathInv'
    BY <2>1 DEF SmtpBye, At, IInv, PathInv, Go, SslSections, ResumeSections, SmtpSections,
           AnsweredSections
  <2>4. end = "run" /\ lib["ssl"] = "live" /\ "ssl" \in Conns
    BY DEF SmtpBye, At, IInv, ObjectsInv, Conns, SslSections
  <2> QED BY <2>1, <2>2, <2>3, <2>4, TakeStep, PendingStep
<1> QED BY <1>1, <1>2

LEMMA SmtpByeAgainStep == ASSUME IInv, SmtpByeAgain PROVE IInv'
<1>1. CASE FailKeeping
  BY <1>1, FailKeepingStep DEF SmtpByeAgain, At
<1>2. CASE Take("ssl") /\ Go("smtpByePending")
  <2>1. Alike("smtpByePending") /\ "smtpByePending" \in Sections
    BY DEF SmtpByeAgain, At, Alike, Sections
  <2>2. answered \subseteq answered' /\ givenUp \subseteq givenUp'
    BY <1>2, TakeAnswer
  <2>3. PathInv'
    BY <1>2, <2>2 DEF SmtpByeAgain, At, IInv, PathInv, Go, SslSections, ResumeSections,
           SmtpSections, AnsweredSections
  <2> QED
    BY <1>2, <2>1, <2>3, TakeStep DEF SmtpByeAgain, At, IInv, ObjectsInv, Conns, SslSections
<1> QED BY <1>1, <1>2 DEF SmtpByeAgain

LEMMA WriteRequestStep == ASSUME IInv, WriteRequest PROVE IInv'
<1>1. Alike("read") /\ "read" \in Sections
  BY DEF WriteRequest, At, Alike, Sections, SslSections, SslConnected, ResumeSections,
         ResumeConnected, SocketSections
<1>2. Go("read") /\ opt' = opt /\ UNCHANGED <<answered, givenUp>> => PathInv'
  BY DEF WriteRequest, At, IInv, PathInv, Go, SslSections, ResumeSections, SmtpSections,
         AnsweredSections
<1> QED
  BY <1>1, <1>2, ClientWriteStep
     DEF WriteRequest, At, IInv, ObjectsInv, Conns, SslSections

LEMMA ReadAnswerStep == ASSUME IInv, ReadAnswer PROVE IInv'
<1>1. CASE FailKeeping
  BY <1>1, FailKeepingStep DEF ReadAnswer, At
<1>2. CASE ~FailKeeping
  <2>1. PICK p \in {"read", "postAuth", "readGet", "getSession"} :
            /\ Go(p)
            /\ Take("ssl") \/ GiveUp("ssl") \/ UNCHANGED <<libVars, netVars, sessVars>>
            /\ p # "read" => GiveUp("ssl") \/ (Take("ssl") /\ NextIs("ssl", "reply"))
    BY <1>2 DEF ReadAnswer, At, ClientRead, ReadPastTicket, WantRead
  <2>2. Alike(p) /\ p \in Sections
    BY DEF ReadAnswer, At, Alike, Sections, SslSections, SslConnected, ResumeSections,
           ResumeConnected, SocketSections
  <2>3. PathInv'
    BY <2>1, TakeAnswer DEF ReadAnswer, At, IInv, PathInv, Go, SslSections, ResumeSections,
           SmtpSections, AnsweredSections
  <2> QED
    BY <2>1, <2>2, <2>3, TakeStep DEF ReadAnswer, At, IInv, ObjectsInv, Conns, SslSections
<1> QED BY <1>1, <1>2

LEMMA WriteAfterAuthStep == ASSUME IInv, WriteAfterAuth PROVE IInv'
<1>1. PICK p \in {"readGet", "getSession"} : ClientWrite("ssl", p)
  BY DEF WriteAfterAuth
<1>2. Alike(p) /\ p \in Sections
  BY DEF WriteAfterAuth, At, Alike, Sections, SslSections, SslConnected, ResumeSections,
         ResumeConnected, SocketSections
<1>3. Go(p) /\ opt' = opt /\ UNCHANGED <<answered, givenUp>> => PathInv'
  BY DEF WriteAfterAuth, At, IInv, PathInv, Go, SslSections, ResumeSections, SmtpSections,
         AnsweredSections
<1> QED
  BY <1>1, <1>2, <1>3, ClientWriteStep
     DEF WriteAfterAuth, At, IInv, ObjectsInv, Conns, SslSections

LEMMA ReadGetStep == ASSUME IInv, ReadGet PROVE IInv'
<1>1. CASE FailKeeping
  BY <1>1, FailKeepingStep DEF ReadGet, At
<1>2. CASE ~FailKeeping
  <2>1. PICK p \in {"readGet", "getSession"} :
            /\ Go(p)
            /\ Take("ssl") \/ GiveUp("ssl") \/ UNCHANGED <<libVars, netVars, sessVars>>
    BY <1>2 DEF ReadGet, At, ClientRead, ReadPastTicket, WantRead
  <2>2. Alike(p) /\ p \in Sections
    BY DEF ReadGet, At, Alike, Sections, SslSections, SslConnected, ResumeSections,
           ResumeConnected, SocketSections
  <2>3. answered \subseteq answered' /\ givenUp \subseteq givenUp'
    BY <2>1, TakeAnswer DEF sessVars
  <2>4. PathInv'
    BY <2>1, <2>3 DEF ReadGet, At, IInv, PathInv, Go, SslSections, ResumeSections,
           SmtpSections, AnsweredSections
  <2> QED
    BY <2>1, <2>2, <2>4, TakeStep DEF ReadGet, At, IInv, ObjectsInv, Conns, SslSections
<1> QED BY <1>1, <1>2

----------------------------------------------------------------------------
(* The rest of the first session.                                           *)

LEMMA CloseSmtpStep == ASSUME IInv, CloseSmtp PROVE IInv'
<1>1. stale' = stale
  BY CallsOnLive DEF CloseSmtp, At, IInv, ObjectsInv, SslSections
<1>2. TypeOK'
  BY DEF CloseSmtp, At, IInv, TypeOK, SocketInv, SocketSections, SslSections, Freeing, Go,
         sessVars, Sections, Conns
<1>3. ObjectsInv'
  BY DEF CloseSmtp, At, IInv, ObjectsInv, Freeing, Go, Objects, Conns, SslSections, ResumeSections
<1>4. SocketInv' /\ PathInv' /\ PhaseInv'
  BY DEF CloseSmtp, At, IInv, TypeOK, SocketInv, PathInv, PhaseInv, Go, sessVars, Conns,
         SslSections, SslConnected, ResumeSections, ResumeConnected, SmtpSections,
         AnsweredSections, SocketSections, Resuming
<1> QED BY <1>1, <1>2, <1>3, <1>4, GoStep DEF CloseSmtp, At, Go, sessVars, Sections

LEMMA SmtpReturnStep == ASSUME IInv, ReturnAfterStartTls PROVE IInv'
<1>1. stale' = stale
  BY CallsOnLive DEF ReturnAfterStartTls, At, IInv, ObjectsInv
<1>2. TypeOK'
  BY DEF ReturnAfterStartTls, IInv, TypeOK, Freeing, netVars, sessVars
<1>3. ObjectsInv' /\ ReturnInv'
  BY DEF ReturnAfterStartTls, At, IInv, TypeOK, ObjectsInv, ReturnInv, Freeing, Objects, Conns,
         SslSections, ResumeSections
<1> QED
  BY <1>1, <1>2, <1>3
     DEF ReturnAfterStartTls, At, IInv, SocketInv, PathInv, PhaseInv, StaleCallsConfined,
         Resuming, netVars, sessVars

LEMMA RehandshakeStep == ASSUME IInv, Rehandshake PROVE IInv'
<1>1. CASE FailFreeing({"ctx", "ssl"})
  BY <1>1, FailStep DEF Rehandshake, At, IInv, ObjectsInv, Objects, Conns, SslSections
<1>2. CASE /\ Calls({<<"ssl", "rehandshake">>})
           /\ Go("write")
           /\ UNCHANGED <<lib, dev, netVars, sessVars>>
  <2>1. stale' = stale
    BY <1>2, CallsOnLive DEF Rehandshake, At, IInv, ObjectsInv, SslSections
  <2>2. TypeOK'
    BY <1>2 DEF IInv, TypeOK, Go, netVars, sessVars, Sections
  <2>3. PathInv'
    BY <1>2 DEF Rehandshake, At, IInv, PathInv, Go, SslSections, ResumeSections,
         SmtpSections, AnsweredSections
  <2> QED
    BY <1>2, <2>1, <2>2, <2>3, QuietStep
       DEF Rehandshake, At, netVars, sessVars, Sections, SslSections, SslConnected,
           ResumeSections, ResumeConnected, SocketSections, Alike
<1> QED BY <1>1, <1>2 DEF Rehandshake

LEMMA GetSessionStep == ASSUME IInv, GetSession PROVE IInv'
<1>1. CASE Resuming /\ FailFreeing({"ctx", "ssl"})
  BY <1>1, FailStep DEF GetSession, At, IInv, ObjectsInv, Objects, Conns, SslSections
<1>2. CASE /\ Resuming
           /\ session' = IF "ssl" \in ticketed THEN "usable" ELSE "bare"
           /\ Calls({<<"ssl", "get_session">>, <<"ctx", "new">>})
           /\ lib' = [lib EXCEPT !["sslResume"] = "live"]
           /\ Go("close")
           /\ UNCHANGED <<dev, netVars, shares, ticketed, early, answered, givenUp>>
  <2>1. stale' = stale
    BY <1>2, CallsOnLive DEF GetSession, At, IInv, ObjectsInv, SslSections
  <2>2. TypeOK'
    BY <1>2 DEF IInv, TypeOK, Go, netVars, Sections
  <2>3. ObjectsInv'
    BY <1>2 DEF GetSession, At, IInv, TypeOK, ObjectsInv, Go, Objects, Conns, SslSections,
         ResumeSections, Resuming
  <2>4. SocketInv' /\ PathInv' /\ PhaseInv'
    BY <1>2 DEF GetSession, At, IInv, SocketInv, PathInv, PhaseInv, Go, netVars,
         SslSections, SslConnected, ResumeSections, ResumeConnected, SmtpSections,
         AnsweredSections, SocketSections, Resuming
  <2> QED BY <1>2, <2>1, <2>2, <2>3, <2>4, GoStep DEF GetSession, At, Sections
<1>3. CASE ~Resuming /\ Go("close") /\ UNCHANGED <<libVars, netVars, sessVars>>
  <2>1. TypeOK'
    BY <1>3 DEF IInv, TypeOK, Go, libVars, netVars, sessVars, Sections
  <2>2. ObjectsInv'
    BY <1>3 DEF GetSession, At, IInv, ObjectsInv, Go, SslSections, ResumeSections, Resuming, libVars
  <2>3. SocketInv' /\ PathInv' /\ PhaseInv'
    BY <1>3 DEF GetSession, At, IInv, SocketInv, PathInv, PhaseInv, Go, netVars, sessVars,
         SslSections, SslConnected, ResumeSections, ResumeConnected, SmtpSections,
         AnsweredSections, SocketSections, Resuming
  <2> QED
    BY <1>3, <2>1, <2>2, <2>3, GoStep DEF GetSession, At, Sections, libVars, sessVars
<1> QED BY <1>1, <1>2, <1>3 DEF GetSession

LEMMA CloseFirstStep == ASSUME IInv, CloseFirst PROVE IInv'
<1>1. stale' = stale
  BY CallsOnLive DEF CloseFirst, At, IInv, ObjectsInv, SslSections
<1>2. TypeOK'
  BY DEF CloseFirst, At, IInv, TypeOK, SocketInv, SocketSections, SslSections, Freeing, Go,
         sessVars, Sections, Conns
<1>3. ObjectsInv'
  BY DEF CloseFirst, At, IInv, TypeOK, ObjectsInv, Freeing, Go, Objects, Conns, SslSections,
         ResumeSections, Resuming
<1>4. SocketInv' /\ PathInv' /\ PhaseInv'
  BY DEF CloseFirst, At, IInv, TypeOK, SocketInv, PathInv, PhaseInv, Go, sessVars, Conns,
         SslSections, SslConnected, ResumeSections, ResumeConnected, SmtpSections,
         AnsweredSections, SocketSections, Resuming
<1> QED BY <1>1, <1>2, <1>3, <1>4, GoStep DEF CloseFirst, At, Go, sessVars, Sections

----------------------------------------------------------------------------
(* The resumed session.                                                     *)

LEMMA ResumeTcpStep == ASSUME IInv, ResumeTcp PROVE IInv'
<1>1. CASE FailFreeing({"ctx", "sslResume"})
  BY <1>1, FailStep DEF ResumeTcp, At, IInv, ObjectsInv, Objects, Conns, ResumeSections
<1>2. CASE FailKeeping
  BY <1>2, FailKeepingStep DEF ResumeTcp, At
<1>3. CASE /\ TcpConnect("sslResume", {<<"sslResume", "set_session">>})
           /\ Go("resumeKeyShares")
           /\ UNCHANGED <<lib, dev, phase, inbox, asked, peer, sessVars>>
  <2>1. stale' = stale /\ sockets' = sockets + 1
    BY <1>3, TcpConnectOnLive DEF ResumeTcp, At, IInv, ObjectsInv, ResumeSections
  <2>2. TypeOK'
    BY <1>3, <2>1 DEF IInv, TypeOK, Go, sessVars, Sections
  <2>3. ObjectsInv'
    BY <1>3, <2>1 DEF ResumeTcp, At, IInv, ObjectsInv, Go, SslSections, ResumeSections
  <2>4. SocketInv' /\ PathInv' /\ PhaseInv'
    BY <1>3, <2>1 DEF ResumeTcp, At, IInv, SocketInv, PathInv, PhaseInv, Go, sessVars,
         SslSections, SslConnected, ResumeSections, ResumeConnected, SmtpSections,
         AnsweredSections, SocketSections, Resuming
  <2> QED BY <1>3, <2>1, <2>2, <2>3, <2>4, GoStep DEF ResumeTcp, At, Sections, sessVars
<1> QED BY <1>1, <1>2, <1>3 DEF ResumeTcp

LEMMA EarlyDataStep == ASSUME IInv, WriteEarlyData PROVE IInv'
<1>1. CASE WritesEarly /\ FailFreeing({"ctx", "sslResume"})
  BY <1>1, FailStep DEF WriteEarlyData, At, IInv, ObjectsInv, Objects, Conns, ResumeSections
<1>2. CASE /\ early' = WritesEarly
           /\ Calls(IF WritesEarly THEN {<<"sslResume", "write_early_data">>} ELSE {})
           /\ Go("resumeHandshake")
           /\ UNCHANGED <<lib, dev, netVars, shares, ticketed, session, answered, givenUp>>
  <2>1. stale' = stale
    BY <1>2, CallsOnLive DEF WriteEarlyData, At, IInv, ObjectsInv, ResumeSections
  <2>2. WritesEarly \in BOOLEAN
    BY DEF WritesEarly
  <2>3. TypeOK'
    BY <1>2, <2>2 DEF IInv, TypeOK, Go, netVars, Sections
  <2>4. PathInv'
    BY <1>2 DEF WriteEarlyData, At, IInv, PathInv, Go, SslSections, ResumeSections,
         SmtpSections, AnsweredSections, Resuming
  <2> QED
    BY <1>2, <2>1, <2>3, <2>4, QuietStep
       DEF WriteEarlyData, At, netVars, Sections, SslSections, SslConnected,
           ResumeSections, ResumeConnected, SocketSections, Alike
<1> QED BY <1>1, <1>2 DEF WriteEarlyData

LEMMA ResumeConnectStep == ASSUME IInv, ResumeConnect PROVE IInv'
<1>1. CASE FailFreeing({"ctx", "sslResume"})
  BY <1>1, FailStep DEF ResumeConnect, At, IInv, ObjectsInv, Objects, Conns, ResumeSections
<1>2. CASE /\ Connected("sslResume")
           /\ Go("resumeWrite")
           /\ UNCHANGED <<shares, session, early, answered, givenUp>>
  <2>1. stale' = stale
    BY <1>2, CallsOnLive DEF ResumeConnect, Connected, At, IInv, ObjectsInv, ResumeSections
  <2>2. TypeOK'
    BY <1>2 DEF IInv, TypeOK, Connected, Go, Conns, Sections
  <2>3. ObjectsInv'
    BY <1>2 DEF ResumeConnect, Connected, At, IInv, ObjectsInv, Go, SslSections, ResumeSections
  <2>4. phase' = [phase EXCEPT !["sslResume"] = "connected"] /\ sockets' = sockets
    BY <1>2 DEF Connected
  <2>5. SocketInv' /\ PathInv' /\ PhaseInv'
    BY <1>2, <2>4 DEF ResumeConnect, At, IInv, TypeOK, SocketInv, PathInv, PhaseInv, Go, Conns,
         SslSections, SslConnected, ResumeSections, ResumeConnected, SmtpSections,
         AnsweredSections, SocketSections, Resuming
  <2> QED BY <1>2, <2>1, <2>2, <2>3, <2>5, GoStep DEF ResumeConnect, Connected, At, Sections
<1> QED BY <1>1, <1>2 DEF ResumeConnect

LEMMA ResumeWriteStep == ASSUME IInv, ResumeWrite PROVE IInv'
<1>1. CASE FailFreeing({"ctx", "sslResume"})
  BY <1>1, FailStep DEF ResumeWrite, At, IInv, ObjectsInv, Objects, Conns, ResumeSections
<1>2. CASE /\ Sent("sslResume")
           /\ Calls({<<"sslResume", "write">>})
           /\ Go("resumeRead")
           /\ UNCHANGED <<lib, dev, sockets, phase, inbox, peer, sessVars>>
  <2>1. stale' = stale
    BY <1>2, CallsOnLive DEF ResumeWrite, At, IInv, ObjectsInv, ResumeSections
  <2>2. TypeOK'
    BY <1>2 DEF IInv, TypeOK, Sent, Go, Conns, sessVars, Sections
  <2>3. PathInv'
    BY <1>2 DEF ResumeWrite, At, IInv, PathInv, Go, SslSections, ResumeSections,
         SmtpSections, AnsweredSections, Resuming, sessVars
  <2> QED
    BY <1>2, <2>1, <2>2, <2>3, QuietStep
       DEF ResumeWrite, At, sessVars, Sections, SslSections, SslConnected,
           ResumeSections, ResumeConnected, SocketSections, Alike
<1> QED BY <1>1, <1>2 DEF ResumeWrite

\* the one section that may leave a trace in stale
LEMMA ResumeKeySharesStep == ASSUME IInv, ResumeKeyShares PROVE IInv'
<1>1. CASE ~Has("TLS13")
  <2>1. Go("earlyData") /\ UNCHANGED <<libVars, netVars, sessVars>>
    BY <1>1 DEF ResumeKeyShares
  <2>2. TypeOK'
    BY <2>1 DEF IInv, TypeOK, Go, libVars, netVars, sessVars, Sections
  <2>3. PathInv'
    BY <2>1 DEF ResumeKeyShares, At, IInv, PathInv, Go, SslSections, ResumeSections,
         SmtpSections, AnsweredSections, Resuming, sessVars
  <2> QED
    BY <2>1, <2>2, <2>3, QuietStep
       DEF ResumeKeyShares, At, libVars, netVars, sessVars, Sections, SslSections, SslConnected,
           ResumeSections, ResumeConnected, SocketSections, Alike
<1>2. CASE Has("TLS13") /\ FailKeeping
  BY <1>2, FailKeepingStep DEF ResumeKeyShares, At
<1>3. CASE /\ Has("TLS13")
           /\ X25519Share # {}
           /\ Calls({<<"ssl", "UseKeyShare">>})
           /\ end' = "crash"
           /\ UNCHANGED <<opt, pc, retCode, lib, dev, netVars, sessVars>>
  <2>1. StaleCallsConfined'
    BY <1>3 DEF ResumeKeyShares, At, IInv, PathInv, StaleCallsConfined, Calls, X25519Share,
         ResumeSections, Resuming
  <2>2. TypeOK'
    BY <1>3 DEF IInv, TypeOK, netVars, sessVars
  <2> QED
    BY <1>3, <2>1, <2>2 DEF ResumeKeyShares, At, IInv, ObjectsInv, ReturnInv, SocketInv, PathInv,
         PhaseInv, Resuming, netVars, sessVars
<1>4. CASE /\ Has("TLS13")
           /\ shares' = [shares EXCEPT !["ssl"] = @ \cup X25519Share,
                                       !["sslResume"] = EccShares \cup FfdheShares]
           /\ Calls({<<"ssl", "UseKeyShare">> : g \in X25519Share}
                    \cup {<<"sslResume", "UseKeyShare">>})
           /\ Go("earlyData")
           /\ UNCHANGED <<lib, dev, netVars, ticketed, session, early, answered, givenUp>>
  <2>1. StaleCallsConfined'
    <3>1. lib["sslResume"] = "live" /\ Resuming
      BY DEF ResumeKeyShares, At, IInv, ObjectsInv, PathInv, ResumeSections
    <3>2. stale' \subseteq stale \cup {<<"ssl", "UseKeyShare">>}
      BY <1>4, <3>1 DEF Calls
    <3>3. stale' # stale => opt.useX25519
      BY <1>4, <3>1, CallsOnLive DEF X25519Share
    <3> QED BY <1>4, <3>1, <3>2, <3>3 DEF IInv, StaleCallsConfined, Go, Resuming
  <2>2. X25519Share \subseteq Groups /\ EccShares \cup FfdheShares \subseteq Groups
    BY DEF X25519Share, EccShares, FfdheShares, Groups
  <2>3. TypeOK'
    BY <1>4, <2>2 DEF IInv, TypeOK, Go, netVars, Sections
  <2>4. PathInv'
    BY <1>4 DEF ResumeKeyShares, At, IInv, PathInv, Go, SslSections, ResumeSections,
         SmtpSections, AnsweredSections, Resuming
  <2>5. ObjectsInv'
    BY <1>4 DEF ResumeKeyShares, At, IInv, ObjectsInv, Go, SslSections, ResumeSections
  <2>6. SocketInv' /\ PhaseInv'
    BY <1>4 DEF ResumeKeyShares, At, IInv, SocketInv, PhaseInv, Go, netVars, SocketSections,
         SslSections, SslConnected, ResumeSections, ResumeConnected
  <2> QED
    BY <1>4, <2>1, <2>3, <2>4, <2>5, <2>6 DEF ResumeKeyShares, At, IInv, ReturnInv, Go
<1> QED BY <1>1, <1>2, <1>3, <1>4 DEF ResumeKeyShares

LEMMA ResumeReadStep == ASSUME IInv, ResumeRead PROVE IInv'
<1>1. CASE FailFreeing({"ctx", "sslResume"})
  BY <1>1, FailStep DEF ResumeRead, At, IInv, ObjectsInv, Objects, Conns, ResumeSections
<1>2. CASE ~FailFreeing({"ctx", "sslResume"})
  <2>1. PICK p \in {"resumeRead", "resumeGet", "resumeClose"} :
            /\ Go(p)
            /\ Take("sslResume") \/ GiveUp("sslResume") \/ UNCHANGED <<libVars, netVars, sessVars>>
    BY <1>2 DEF ResumeRead, At, ReadPastTicket, WantRead
  <2>2. Alike(p) /\ p \in Sections
    BY DEF ResumeRead, At, Alike, Sections, SslSections, SslConnected, ResumeSections,
           ResumeConnected, SocketSections
  <2>3. answered \subseteq answered' /\ givenUp \subseteq givenUp'
    BY <2>1, TakeAnswer DEF sessVars
  <2>4. PathInv'
    BY <2>1, <2>3 DEF ResumeRead, At, IInv, PathInv, Go, SslSections, ResumeSections,
           SmtpSections, AnsweredSections, Resuming
  <2> QED
    BY <2>1, <2>2, <2>4, TakeStep DEF ResumeRead, At, IInv, ObjectsInv, Conns, ResumeSections
<1> QED BY <1>1, <1>2

LEMMA CloseResumedStep == ASSUME IInv, CloseResumed PROVE IInv'
<1>1. stale' = stale
  BY CallsOnLive DEF CloseResumed, At, IInv, ObjectsInv, ResumeSections
<1>2. TypeOK'
  BY DEF CloseResumed, At, IInv, TypeOK, SocketInv, SocketSections, ResumeSections, Freeing, Go,
         sessVars, Sections, Conns
<1>3. ObjectsInv'
  BY DEF CloseResumed, At, IInv, TypeOK, ObjectsInv, Freeing, Go, Objects, Conns, SslSections,
         ResumeSections
<1>4. SocketInv' /\ PathInv' /\ PhaseInv'
  BY DEF CloseResumed, At, IInv, TypeOK, SocketInv, PathInv, PhaseInv, Go, sessVars, Conns,
         SslSections, SslConnected, ResumeSections, ResumeConnected, SmtpSections,
         AnsweredSections, SocketSections, Resuming
<1> QED BY <1>1, <1>2, <1>3, <1>4, GoStep DEF CloseResumed, At, sessVars, Sections

LEMMA FinishStep == ASSUME IInv, Finish PROVE IInv'
<1>1. stale' = stale
  BY CallsOnLive DEF Finish, At, IInv, ObjectsInv
<1>2. TypeOK'
  BY DEF Finish, IInv, TypeOK, Freeing, netVars, sessVars
<1>3. ObjectsInv' /\ ReturnInv'
  BY DEF Finish, At, IInv, TypeOK, ObjectsInv, ReturnInv, Freeing, Objects, Conns,
         SslSections, ResumeSections
<1> QED
  BY <1>1, <1>2, <1>3
     DEF Finish, At, IInv, SocketInv, PathInv, PhaseInv, StaleCallsConfined,
         Resuming, netVars, sessVars

----------------------------------------------------------------------------
(* The peer, and the invariant.                                             *)

LEMMA PeerStep == ASSUME IInv, NEW c \in Conns, Peer(c) PROVE IInv'
<1>1. PICK record \in {"ticket", "reply", "close"} : PeerSends(c, record)
  BY DEF Peer, PeerTicket, PeerReply, PeerClose
<1>2. inbox' \in [Conns -> Seq({"ticket", "reply", "close"})]
  BY <1>1 DEF PeerSends, IInv, TypeOK
<1>3. asked' \in [Conns -> Nat] /\ peer' \in [Conns -> {"idle", "ticket", "open", "closed"}]
  <2>1. CASE PeerTicket(c)
    BY <2>1 DEF PeerTicket, IInv, TypeOK
  <2>2. CASE PeerReply(c)
    <3>1. asked[c] \in Nat /\ asked[c] > 0
      BY <2>2 DEF PeerReply, IInv, TypeOK
    <3>2. asked[c] - 1 \in Nat
      BY <3>1
    <3> QED BY <2>2, <3>2 DEF PeerReply, IInv, TypeOK
  <2>3. CASE PeerClose(c)
    BY <2>3 DEF PeerClose, IInv, TypeOK
  <2> QED BY <2>1, <2>2, <2>3 DEF Peer
<1>4. TypeOK'
  BY <1>1, <1>2, <1>3 DEF PeerSends, IInv, TypeOK, libVars, sessVars
<1>5. UNCHANGED <<opt, pc, lib, stale, dev, sockets, phase, answered, givenUp, retCode, end>>
  BY <1>1 DEF PeerSends, libVars, sessVars
<1> QED
  BY <1>4, <1>5
     DEF IInv, ObjectsInv, ReturnInv, SocketInv, PathInv, PhaseInv, StaleCallsConfined, Resuming,
         Has

LEMMA StutterStep == ASSUME IInv, UNCHANGED vars PROVE IInv'
  BY DEF vars, libVars, netVars, sessVars, IInv, TypeOK, ObjectsInv, ReturnInv, SocketInv,
         PathInv, PhaseInv, StaleCallsConfined, Resuming

LEMMA NextIInv == IInv /\ [Next]_vars => IInv'
<1> SUFFICES ASSUME IInv, [Next]_vars PROVE IInv'
  OBVIOUS
<1>1. CASE Client
  BY <1>1, ExternalTestStep, NewContextStep, ConfigureStep, ExtensionsStep, BenchmarkStep, NewSslStep,
     KeySharesStep, ConnectTcpStep, StartTlsStep, ChecksStep, ConnectStep, SmtpQuitStep,
     SmtpQuitAgainStep, SmtpByeStep, SmtpByeAgainStep, CloseSmtpStep, SmtpReturnStep, RehandshakeStep, WriteRequestStep,
     ReadAnswerStep, WriteAfterAuthStep, ReadGetStep, GetSessionStep, CloseFirstStep,
     ResumeTcpStep, ResumeKeySharesStep, EarlyDataStep, ResumeConnectStep, ResumeWriteStep,
     ResumeReadStep, CloseResumedStep, FinishStep
     DEF Client
<1>2. CASE \E c \in Conns : Peer(c)
  BY <1>2, PeerStep
<1>3. CASE Done \/ UNCHANGED vars
  BY <1>3, StutterStep DEF Done
<1> QED BY <1>1, <1>2, <1>3 DEF Next

\* The inductive invariant of the client session, for all options and every peer.
THEOREM Invariance == Spec => []IInv
  BY InitIInv, NextIInv, PTL DEF Spec

----------------------------------------------------------------------------
(* What follows from it.                                                    *)

\* Type correctness of client_test's model.
THEOREM TypeCorrect == Spec => []TypeOK
<1>1. IInv => TypeOK
  BY DEF IInv
<1> QED BY <1>1, Invariance, PTL

\* The only call on an object already freed is the resume block's
\* UseKeyShare(ssl): every other call of client_test finds its object live.
THEOREM NoOtherStaleCall == Spec => []StaleCallsConfined
<1>1. IInv => StaleCallsConfined
  BY DEF IInv
<1> QED BY <1>1, Invariance, PTL

\* The first socket is closed before the second session makes its own.
THEOREM OneSocketAtATime == Spec => []OneSocket
<1>1. IInv => OneSocket
  BY DEF IInv, SocketInv, OneSocket
<1> QED BY <1>1, Invariance, PTL

\* client_test returns with every object freed and no socket open, and with
\* the async device closed unless it left by the STARTTLS return.
THEOREM ReturnIsClean == Spec => []ReturnLeavesNothing
<1>1. IInv => ReturnLeavesNothing
  BY DEF IInv, ReturnInv, SocketInv, PathInv, ReturnLeavesNothing, SocketSections,
         SslSections, ResumeSections, SmtpSections
<1> QED BY <1>1, Invariance, PTL

\* A return means the peer's answer was read and a session asked for with -r
\* was opened and closed; the one excuse is a read given up in an async build.
THEOREM SuccessIsEarned == Spec => []ZeroMeansAnswered
<1>1. IInv => ZeroMeansAnswered
  BY DEF IInv, TypeOK, ReturnInv, PathInv, PhaseInv, ZeroMeansAnswered, SmtpSections, AnsweredSections,
         ResumeConnected
<1> QED BY <1>1, Invariance, PTL

----------------------------------------------------------------------------
(* Every step of ClientSession is one of ClientContract or leaves its       *)
(* variables alone.  A step of a section leaves it in one of four ways.     *)

contractVars == <<Wanted, Opened, Closed, Verdict>>

\* the sessions before each, spelt out
LEMMA BeforeEach ==
  /\ Contract!Before(1) = {}
  /\ Contract!Before(2) = {"ssl"}
  /\ Contract!Before(3) = {"ssl", "sslResume"}
  /\ Contract!Order[1] = "ssl" /\ Contract!Order[2] = "sslResume"
<1>1. /\ 1..(1 - 1) = {} /\ 1..(2 - 1) = {1} /\ 1..(3 - 1) = {1, 2}
      /\ Contract!Order[1] = "ssl" /\ Contract!Order[2] = "sslResume"
  BY DEF Contract!Order
<1> QED BY <1>1 DEF Contract!Before

LEMMA InitContract == Init => Contract!Init
<1> SUFFICES ASSUME Init PROVE Contract!Init
  OBVIOUS
<1>1. Opened = {} /\ Closed = {} /\ Verdict = "none"
  BY DEF Init, Opened, Closed, Verdict
<1>2. Wanted \in 0..2
  BY DEF Wanted
<1> QED BY <1>1, <1>2 DEF Contract!Init

\* the section goes on, the sessions stay as they are
LEMMA QuietContract ==
  ASSUME UNCHANGED <<opt, phase, retCode, end>>
  PROVE  UNCHANGED contractVars
  BY DEF contractVars, Wanted, Resuming, Opened, Closed, Verdict

\* the run is given up
LEMMA FailContract ==
  ASSUME IInv, end = "run", end' \in {"err_sys", "crash"}, UNCHANGED <<opt, phase, retCode>>
  PROVE  Contract!Fail
<1>1. retCode = -1
  BY DEF IInv, TypeOK, ReturnInv
<1>2. Verdict = "none" /\ Verdict' = "failed"
  BY <1>1 DEF Verdict
<1> QED BY <1>2 DEF Contract!Fail, Wanted, Resuming, Opened, Closed

\* both error paths
COROLLARY FailingContract ==
  ASSUME IInv, end = "run",
         FailKeeping \/ \E O \in SUBSET Objects : FailFreeing(O)
  PROVE  Contract!Fail
  BY FailContract DEF FailKeeping, FailFreeing, ErrSys, netVars

\* a handshake ends, or a session is closed
LEMMA PhaseContract ==
  ASSUME IInv, end = "run", UNCHANGED <<opt, retCode, end>>,
         NEW c \in Conns, NEW s \in {"connected", "shut"},
         phase' = [phase EXCEPT ![c] = s]
  PROVE  /\ Verdict = "none" /\ UNCHANGED <<Wanted, Verdict>>
         /\ Opened' = Opened \cup {c}
         /\ Closed' = IF s = "shut" THEN Closed \cup {c} ELSE Closed \ {c}
<1>1. Verdict = "none" /\ Verdict' = Verdict
  BY DEF IInv, ReturnInv, Verdict
<1>2. Wanted' = Wanted
  BY DEF Wanted, Resuming
<1>3. Opened' = Opened \cup {c} /\ Closed' = IF s = "shut" THEN Closed \cup {c} ELSE Closed \ {c}
  BY DEF IInv, TypeOK, Opened, Closed
<1> QED BY <1>1, <1>2, <1>3

\* the run comes to its good end
LEMMA EndContract ==
  ASSUME IInv, end = "run", retCode' = 0, UNCHANGED <<opt, phase>>,
         Opened = Contract!Before(Wanted + 1), Closed = Opened
  PROVE  Contract!Succeed
<1>1. Verdict = "none" /\ Verdict' = "ok"
  BY DEF IInv, ReturnInv, Verdict
<1>2. UNCHANGED <<Wanted, Opened, Closed>>
  BY DEF Wanted, Resuming, Opened, Closed
<1> QED BY <1>1, <1>2 DEF Contract!Succeed

\* an early end: no session was wanted and none opened
LEMMA EarlyContract ==
  ASSUME IInv, ExternalTest \/ RunBenchmark
  PROVE  [Contract!Next]_contractVars
<1>1. Opened = {} /\ Closed = {}
  BY DEF ExternalTest, RunBenchmark, At, IInv, PhaseInv, Opened, Closed, Conns, SslConnected,
         ResumeSections, ResumeConnected
<1>2. CASE Go("context") /\ UNCHANGED netVars
  BY <1>2, QuietContract DEF Go, netVars
<1>3. CASE ExternalTest /\ ~Go("context")
  <2>1. Wanted = 0
    BY <1>3 DEF ExternalTest, Wanted
  <2> QED BY <1>1, <1>3, <2>1, EndContract, BeforeEach DEF ExternalTest, At, netVars, Contract!Next
<1>4. CASE RunBenchmark /\ FailKeeping
  BY <1>4, FailingContract DEF RunBenchmark, At, Contract!Next
<1>5. CASE RunBenchmark /\ ~FailKeeping
  <2>1. Wanted = 0
    BY <1>5 DEF RunBenchmark, At, IInv, PathInv, Wanted
  <2> QED BY <1>1, <1>5, <2>1, EndContract, BeforeEach DEF RunBenchmark, At, netVars, Contract!Next
<1> QED BY <1>2, <1>3, <1>4, <1>5 DEF ExternalTest

\* the two handshakes
LEMMA OpenContract ==
  ASSUME IInv, Connect \/ ResumeConnect
  PROVE  [Contract!Next]_contractVars
<1>1. CASE \E O \in SUBSET Objects : FailFreeing(O)
  BY <1>1, FailingContract DEF Connect, ResumeConnect, At, Contract!Next
<1>2. CASE Connect /\ ~FailFreeing({"ctx", "ssl"})
  <2>1. Opened = {} /\ Closed = {} /\ Wanted \in 1..2
    BY <1>2 DEF Connect, At, IInv, PhaseInv, PathInv, Opened, Closed, Wanted, Conns, SslSections,
           SslConnected, ResumeSections, ResumeConnected
  <2>2. phase' = [phase EXCEPT !["ssl"] = "connected"] /\ UNCHANGED <<opt, retCode, end>>
    BY <1>2 DEF Connect, Connected, Go
  <2>3. Contract!Open(1)
    BY <1>2, <2>1, <2>2, PhaseContract, BeforeEach DEF Connect, At, Conns, Contract!Open
  <2> QED BY <2>3 DEF Contract!Next
<1>3. CASE ResumeConnect /\ ~FailFreeing({"ctx", "sslResume"})
  <2>1. Opened = {"ssl"} /\ Closed = {"ssl"} /\ Wanted = 2
    BY <1>3 DEF ResumeConnect, At, IInv, PhaseInv, PathInv, Opened, Closed, Wanted, Conns,
           SslSections, SslConnected, ResumeSections, ResumeConnected, AnsweredSections
  <2>2. phase' = [phase EXCEPT !["sslResume"] = "connected"] /\ UNCHANGED <<opt, retCode, end>>
    BY <1>3 DEF ResumeConnect, Connected, Go
  <2>3. Contract!Open(2)
    BY <1>3, <2>1, <2>2, PhaseContract, BeforeEach DEF ResumeConnect, At, Conns, Contract!Open
  <2> QED BY <2>3 DEF Contract!Next
<1> QED BY <1>1, <1>2, <1>3 DEF Objects, Conns

\* the three ways a session is closed
LEMMA CloseContract ==
  ASSUME IInv, CloseSmtp \/ CloseFirst \/ CloseResumed
  PROVE  [Contract!Next]_contractVars
<1>1. CASE CloseSmtp \/ CloseFirst
  <2>1. Opened = {"ssl"} /\ Closed = {}
    BY <1>1 DEF CloseSmtp, CloseFirst, At, IInv, PhaseInv, Opened, Closed, Conns,
           SslConnected, ResumeSections, ResumeConnected
  <2>2. phase' = [phase EXCEPT !["ssl"] = "shut"] /\ UNCHANGED <<opt, retCode, end>>
    BY <1>1 DEF CloseSmtp, CloseFirst, Go
  <2>3. Contract!Close(1)
    BY <1>1, <2>1, <2>2, PhaseContract, BeforeEach
       DEF CloseSmtp, CloseFirst, At, Conns, Contract!Close
  <2> QED BY <2>3 DEF Contract!Next
<1>2. CASE CloseResumed
  <2>1. Opened = {"ssl", "sslResume"} /\ Closed = {"ssl"}
    BY <1>2 DEF CloseResumed, At, IInv, PhaseInv, Opened, Closed, Conns,
           SslConnected, ResumeSections, ResumeConnected
  <2>2. phase' = [phase EXCEPT !["sslResume"] = "shut"] /\ UNCHANGED <<opt, retCode, end>>
    BY <1>2 DEF CloseResumed, Go
  <2>3. Contract!Close(2)
    BY <1>2, <2>1, <2>2, PhaseContract, BeforeEach DEF CloseResumed, At, Conns, Contract!Close
  <2> QED BY <2>3 DEF Contract!Next
<1> QED BY <1>1, <1>2

\* the two returns
LEMMA ReturnContract ==
  ASSUME IInv, ReturnAfterStartTls \/ Finish
  PROVE  [Contract!Next]_contractVars
<1>1. CASE ReturnAfterStartTls
  <2>1. Opened = {"ssl"} /\ Closed = {"ssl"}
    BY <1>1 DEF ReturnAfterStartTls, At, IInv, PhaseInv, Opened, Closed, Conns, SslConnected,
           ResumeSections, ResumeConnected
  <2>2. Wanted = 1
    BY <1>1 DEF ReturnAfterStartTls, At, IInv, PathInv, Wanted, SmtpSections
  <2> QED BY <1>1, <2>1, <2>2, EndContract, BeforeEach
             DEF ReturnAfterStartTls, At, netVars, Contract!Next
<1>2. CASE Finish
  <2>1. Wanted = IF Resuming THEN 2 ELSE 1
    BY <1>2 DEF Finish, At, IInv, PathInv, Wanted, AnsweredSections
  <2>2. /\ Opened = IF Resuming THEN {"ssl", "sslResume"} ELSE {"ssl"}
        /\ Closed = Opened
    BY <1>2 DEF Finish, At, IInv, PhaseInv, Opened, Closed, Conns, SslConnected,
           ResumeSections, ResumeConnected
  <2>3. Opened = Contract!Before(Wanted + 1)
    BY <2>1, <2>2, BeforeEach
  <2> QED BY <1>2, <2>2, <2>3, EndContract DEF Finish, At, netVars, Contract!Next
<1> QED BY <1>1, <1>2

\* every other section goes on with its session or gives the run up
LEMMA OtherContract ==
  ASSUME IInv, Client,
         ~(ExternalTest \/ RunBenchmark \/ Connect \/ ResumeConnect \/ CloseSmtp \/ CloseFirst
           \/ CloseResumed \/ ReturnAfterStartTls \/ Finish)
  PROVE  [Contract!Next]_contractVars
<1>1. end = "run"
  BY DEF Client, At, NewContext, ConfigureContext, EnableExtensions, NewSsl, QueueKeyShares,
         ConnectTcp, StartTLS_Init, EnableChecks, SmtpQuit, SmtpQuitAgain, SmtpBye,
         SmtpByeAgain, Rehandshake, WriteRequest, ReadAnswer, WriteAfterAuth, ReadGet, GetSession,
         ResumeTcp, ResumeKeyShares, WriteEarlyData, ResumeWrite, ResumeRead
<1>2. \/ UNCHANGED <<opt, phase, retCode, end>>
      \/ FailKeeping \/ \E O \in SUBSET Objects : FailFreeing(O)
      \/ end' = "crash" /\ UNCHANGED <<opt, phase, retCode>>
  <2>1. /\ {"ctx"} \in SUBSET Objects /\ {"ctx", "ssl"} \in SUBSET Objects
        /\ {"ctx", "sslResume"} \in SUBSET Objects
    BY DEF Objects, Conns
  <2>2. CASE \/ NewContext \/ ConfigureContext \/ EnableExtensions \/ NewSsl \/ QueueKeyShares
             \/ ConnectTcp \/ StartTLS_Init \/ EnableChecks
    BY <2>1, <2>2 DEF NewContext, ConfigureContext, EnableExtensions, NewSsl, QueueKeyShares,
       ConnectTcp, StartTLS_Init, EnableChecks, Go, netVars
  <2>3. CASE \/ SmtpQuit \/ SmtpQuitAgain \/ SmtpBye \/ SmtpByeAgain \/ Rehandshake
             \/ WriteRequest \/ ReadAnswer \/ WriteAfterAuth \/ ReadGet
    BY <2>1, <2>3 DEF SmtpQuit, SmtpQuitAgain, SmtpBye, SmtpByeAgain, Rehandshake, WriteRequest,
       ReadAnswer, WriteAfterAuth, ReadGet, ClientWrite, ClientRead, ReadPastTicket, WantRead,
       Take, GiveUp, Pending, Go, netVars
  <2>4. CASE \/ GetSession \/ ResumeTcp \/ ResumeKeyShares \/ WriteEarlyData \/ ResumeWrite
             \/ ResumeRead
    BY <2>1, <2>4 DEF GetSession, ResumeTcp, ResumeKeyShares, WriteEarlyData, ResumeWrite,
       ResumeRead, ReadPastTicket, WantRead, Take, GiveUp, Go, netVars
  <2> QED BY <2>2, <2>3, <2>4 DEF Client
<1> QED BY <1>1, <1>2, QuietContract, FailingContract, FailContract DEF Contract!Next

LEMMA NextContract == IInv /\ [Next]_vars => [Contract!Next]_contractVars
<1> SUFFICES ASSUME IInv, [Next]_vars PROVE [Contract!Next]_contractVars
  OBVIOUS
<1>1. CASE Client
  BY <1>1, EarlyContract, OpenContract, CloseContract, ReturnContract, OtherContract
<1>2. CASE \E c \in Conns : Peer(c)
  <2>1. PICK c \in Conns : Peer(c)
    BY <1>2
  <2>2. UNCHANGED <<opt, phase, retCode, end>>
    BY <2>1 DEF Peer, PeerTicket, PeerReply, PeerClose, PeerSends
  <2> QED BY <2>2, QuietContract
<1>3. CASE Done \/ UNCHANGED vars
  <2>1. UNCHANGED <<opt, phase, retCode, end>>
    BY <1>3 DEF Done, vars, netVars
  <2> QED BY <2>1, QuietContract
<1> QED BY <1>1, <1>2, <1>3 DEF Next

\* client_test implements the contract: its sessions are opened and closed in
\* order, and it succeeds only when all that were asked for were.
THEOREM ImplementsContract == Spec => ContractSpec
<1>1. Spec => Contract!Init /\ [][Contract!Next]_contractVars
  BY InitContract, NextContract, Invariance, PTL DEF Spec
<1>2. contractVars = Contract!vars
  BY DEF contractVars, Contract!vars
<1> QED BY <1>1, <1>2, PTL DEF ContractSpec, Contract!Spec, contractVars, Contract!vars

----------------------------------------------------------------------------
(* The ticket on its way: owed by the peer, first in the inbox, or taken in *)
(* by the library.  An answer is behind it, so that it has been taken in    *)
(* when the answer is read, and the session is asked for after that, or     *)
(* after the read of the answer was given up.                               *)

Tickets == opt.version = 4 => Has("SESSION_TICKET")

TicketInv ==
    /\ phase["ssl"] = "new" => inbox["ssl"] = <<>> /\ "ssl" \notin answered
    /\ Tickets /\ phase["ssl"] = "connected" =>
          \/ peer["ssl"] = "ticket" /\ inbox["ssl"] = <<>>
          \/ NextIs("ssl", "ticket")
          \/ "ssl" \in ticketed
    /\ Tickets /\ "ssl" \in answered => "ssl" \in ticketed

\* the sections that run with the session in hand
HasSession == Resuming /\ pc \in ResumeSections \cup {"close", "finish"}

SessionInv ==
    /\ early => HasSession
    /\ Tickets /\ HasSession => session = "usable" \/ ("ssl" \in givenUp /\ "ssl" \notin answered)

\* the shares of the first session are queued once, before its handshake, and
\* the one queued later on the freed object comes after it is shut
SharesInv == pc \in SslSections \ {"keyShares"} => shares["ssl"] = FirstShares

OfferInv == TicketInv /\ SessionInv /\ SharesInv

\* all that TicketInv speaks of
TicketVars == <<opt, phase, inbox, peer, ticketed, answered>>

LEMMA QuietTicket == ASSUME TicketInv, UNCHANGED TicketVars PROVE TicketInv'
  BY DEF TicketInv, TicketVars, Tickets, NextIs

\* a step that leaves the first session alone
LEMMA FirstAlone ==
  ASSUME TicketInv, opt' = opt, phase'["ssl"] = phase["ssl"], inbox'["ssl"] = inbox["ssl"],
         peer'["ssl"] = peer["ssl"], "ssl" \in ticketed => "ssl" \in ticketed',
         "ssl" \in answered' <=> "ssl" \in answered
  PROVE  TicketInv'
  BY DEF TicketInv, Tickets, NextIs

LEMMA TakeTicket ==
  ASSUME IInv, TicketInv, phase["ssl"] = "connected", opt' = opt, Take("ssl")
  PROVE  TicketInv'
<1>1. UNCHANGED <<phase, peer>> /\ inbox["ssl"] # <<>>
  BY DEF Take
<1>2. ticketed \subseteq ticketed' /\ (NextIs("ssl", "ticket") => "ssl" \in ticketed')
  BY DEF Take, NextIs
<1>3. "ssl" \in answered' => "ssl" \in answered \/ NextIs("ssl", "reply")
  BY DEF Take, NextIs
<1>4. ~(NextIs("ssl", "reply") /\ NextIs("ssl", "ticket"))
  BY DEF NextIs
<1> QED BY <1>1, <1>2, <1>3, <1>4 DEF TicketInv, Tickets

LEMMA PeerOffer == ASSUME IInv, OfferInv, NEW c \in Conns, Peer(c) PROVE OfferInv'
<1>1. PICK record \in {"ticket", "reply", "close"} :
          PeerSends(c, record) /\ (record = "ticket" <=> peer[c] = "ticket")
  BY DEF Peer, PeerTicket, PeerReply, PeerClose
<1>2. UNCHANGED <<opt, pc, phase, sessVars>>
  BY <1>1 DEF PeerSends
<1>3. TicketInv'
  <2>1. CASE c # "ssl"
    <3>1. inbox'["ssl"] = inbox["ssl"] /\ peer'["ssl"] = peer["ssl"]
      BY <1>1, <2>1 DEF PeerSends, Peer, PeerTicket, PeerReply, PeerClose, IInv, TypeOK, Conns
    <3> QED BY <1>2, <3>1, FirstAlone DEF OfferInv, sessVars
  <2>2. CASE c = "ssl"
    <3>1. /\ phase["ssl"] = "connected"
          /\ inbox'["ssl"] = Append(inbox["ssl"], record)
          /\ inbox["ssl"] \in Seq({"ticket", "reply", "close"})
      BY <1>1, <2>2 DEF PeerSends, IInv, TypeOK, Conns
    <3>2. CASE inbox["ssl"] = <<>> /\ peer["ssl"] = "ticket"
      <4>1. inbox'["ssl"] = <<"ticket">>
        BY <1>1, <2>2, <3>1, <3>2
      <4> QED BY <1>2, <3>1, <4>1 DEF OfferInv, TicketInv, Tickets, NextIs, sessVars
    <3>3. CASE inbox["ssl"] # <<>>
      <4>1. inbox'["ssl"] # <<>> /\ Head(inbox'["ssl"]) = Head(inbox["ssl"])
        BY <3>1, <3>3
      <4> QED BY <1>2, <3>1, <3>3, <4>1 DEF OfferInv, TicketInv, Tickets, NextIs, sessVars
    <3>4. CASE inbox["ssl"] = <<>> /\ peer["ssl"] # "ticket"
      BY <1>2, <3>1, <3>4 DEF OfferInv, TicketInv, Tickets, NextIs, sessVars
    <3> QED BY <3>2, <3>3, <3>4
  <2> QED BY <2>1, <2>2
<1>4. SessionInv' /\ SharesInv'
  BY <1>2 DEF OfferInv, SessionInv, SharesInv, HasSession, Resuming, Tickets, FirstShares,
         X25519Share, sessVars
<1> QED BY <1>3, <1>4 DEF OfferInv

\* the ends of a run, and the sections that leave records and shares alone
LEMMA EndOffer ==
  ASSUME OfferInv, UNCHANGED <<opt, pc, phase, inbox, peer, sessVars>>
  PROVE  OfferInv'
  BY QuietTicket DEF OfferInv, TicketVars, SessionInv, SharesInv, HasSession, Resuming, Tickets,
     FirstShares, X25519Share, sessVars

COROLLARY FailOffer ==
  ASSUME OfferInv, FailKeeping \/ \E O \in SUBSET Objects : FailFreeing(O)
  PROVE  OfferInv'
  BY EndOffer DEF FailKeeping, FailFreeing, ErrSys, netVars

\* on to another section
LEMMA GoOffer ==
  ASSUME OfferInv, NEW p, Go(p), TicketInv', UNCHANGED <<session, shares, early>>,
         HasSession => UNCHANGED <<answered, givenUp>>,
         p \in SslSections \ {"keyShares"} => pc \in SslSections \ {"keyShares"},
         HasSession' <=> HasSession
  PROVE  OfferInv'
<1>1. SharesInv'
  BY DEF OfferInv, SharesInv, Go, FirstShares, X25519Share
<1>2. SessionInv'
  BY DEF OfferInv, SessionInv, Tickets, Go
<1> QED BY <1>1, <1>2 DEF OfferInv

\* up to the first handshake
LEMMA SetUpOffer ==
  ASSUME IInv, OfferInv,
         \/ ExternalTest \/ NewContext \/ ConfigureContext \/ EnableExtensions \/ RunBenchmark
         \/ NewSsl \/ ConnectTcp \/ StartTLS_Init \/ EnableChecks
  PROVE  OfferInv'
<1>1. CASE FailKeeping \/ \E O \in SUBSET Objects : FailFreeing(O)
  BY <1>1, FailOffer
<1>2. CASE /\ UNCHANGED <<opt, phase, inbox, peer, sessVars>>
           /\ \E p \in Sections : Go(p)
  <2>1. PICK p \in Sections : Go(p)
    BY <1>2
  <2>2. pc \notin ResumeSections \cup {"close", "finish", "keyShares"}
    BY DEF ExternalTest, NewContext, ConfigureContext, EnableExtensions, RunBenchmark,
       NewSsl, ConnectTcp, StartTLS_Init, EnableChecks, At, ResumeSections
  <2>3. pc' = pc \/ <<pc, pc'>> \in
          {<<"external", "context">>, <<"context", "configure">>, <<"configure", "extensions">>,
           <<"extensions", "newSsl">>, <<"extensions", "benchmark">>, <<"newSsl", "keyShares">>,
           <<"connectTcp", "startTls">>, <<"connectTcp", "checks">>, <<"startTls", "checks">>,
           <<"checks", "handshake">>}
    BY DEF ExternalTest, NewContext, ConfigureContext, EnableExtensions, RunBenchmark,
       NewSsl, ConnectTcp, StartTLS_Init, EnableChecks, At, Go, FailKeeping, FailFreeing, ErrSys
  <2>4. /\ p \notin ResumeSections \cup {"close", "finish"}
        /\ p \in SslSections \ {"keyShares"} => pc \in SslSections \ {"keyShares"}
    BY <2>1, <2>2, <2>3 DEF Go, ResumeSections, SslSections
  <2> QED
    BY <1>2, <2>1, <2>2, <2>4, GoOffer, QuietTicket DEF OfferInv, TicketVars, HasSession,
       Go, sessVars
<1>3. CASE UNCHANGED <<opt, pc, phase, inbox, peer, sessVars>>
  BY <1>3, EndOffer
<1>4. {"ctx"} \in SUBSET Objects /\ {"ctx", "ssl"} \in SUBSET Objects
  BY DEF Objects, Conns
<1>5. \/ FailKeeping \/ \E O \in SUBSET Objects : FailFreeing(O)
      \/ /\ UNCHANGED <<opt, phase, inbox, peer, sessVars>>
         /\ \E p \in Sections : Go(p)
      \/ UNCHANGED <<opt, pc, phase, inbox, peer, sessVars>>
  BY <1>4 DEF ExternalTest, NewContext, ConfigureContext, EnableExtensions, RunBenchmark,
       NewSsl, ConnectTcp, StartTLS_Init, EnableChecks, Go, netVars, Sections
<1> QED BY <1>1, <1>2, <1>3, <1>5

LEMMA KeySharesOffer == ASSUME IInv, OfferInv, QueueKeyShares PROVE OfferInv'
<1>1. CASE FailKeeping
  BY <1>1, FailOffer
<1>2. CASE ~FailKeeping
  <2>1. /\ shares'["ssl"] = FirstShares /\ Go("connectTcp")
        /\ UNCHANGED <<netVars, session, early, ticketed, answered>>
    BY <1>2 DEF QueueKeyShares, IInv, TypeOK, Conns
  <2>2. TicketInv'
    BY <2>1, QuietTicket DEF OfferInv, TicketVars, Go, netVars
  <2>3. SharesInv'
    BY <2>1 DEF SharesInv, Go, FirstShares, X25519Share
  <2>4. SessionInv'
    BY <2>1 DEF QueueKeyShares, At, Go, OfferInv, SessionInv, HasSession, ResumeSections, Tickets
  <2> QED BY <2>2, <2>3, <2>4 DEF OfferInv
<1> QED BY <1>1, <1>2

\* the first handshake: the peer owes its ticket from now on, and with an older
\* version the session needs none
LEMMA ConnectOffer == ASSUME IInv, OfferInv, Connect PROVE OfferInv'
<1>1. CASE FailFreeing({"ctx", "ssl"})
  BY <1>1, FailOffer DEF Objects, Conns
<1>2. CASE ~FailFreeing({"ctx", "ssl"})
  <2>1. /\ pc = "handshake" /\ phase["ssl"] = "new"
        /\ Connected("ssl")
        /\ pc' \in {"smtpQuit", "rehandshake", "write"} /\ Go(pc')
        /\ UNCHANGED <<shares, session, early, answered, givenUp>>
    BY <1>2 DEF Connect, At, IInv, PhaseInv, SslConnected, ResumeSections, Go
  <2>2. /\ phase'["ssl"] = "connected"
        /\ peer'["ssl"] = IF opt.version = 4 /\ Has("SESSION_TICKET") THEN "ticket" ELSE "open"
        /\ inbox' = inbox
        /\ opt.version = 4 \/ "ssl" \in ticketed'
    BY <2>1 DEF Connected, IInv, TypeOK, Conns
  <2>3. inbox["ssl"] = <<>> /\ "ssl" \notin answered
    BY <2>1 DEF OfferInv, TicketInv
  <2>4. TicketInv'
    BY <2>1, <2>2, <2>3 DEF TicketInv, Tickets, Go
  <2> QED
    BY <2>1, <2>4, GoOffer DEF HasSession, Resuming, Go, SslSections, ResumeSections
<1> QED BY <1>1, <1>2

\* sections of the first session that write, read or leave it alone
LEMMA FirstOffer ==
  ASSUME IInv, OfferInv,
         \/ SmtpQuit \/ SmtpQuitAgain \/ SmtpBye \/ SmtpByeAgain \/ Rehandshake
         \/ WriteRequest \/ ReadAnswer \/ WriteAfterAuth \/ ReadGet
  PROVE  OfferInv'
<1>1. CASE FailKeeping \/ \E O \in SUBSET Objects : FailFreeing(O)
  BY <1>1, FailOffer
<1>2. CASE /\ Go(pc')
           /\ UNCHANGED <<session, shares, early>>
           /\ Take("ssl") \/ UNCHANGED TicketVars
  <2>1. pc \in SslConnected \ {"smtpFree", "getSession", "close"}
    BY DEF SmtpQuit, SmtpQuitAgain, SmtpBye, SmtpByeAgain, Rehandshake, WriteRequest, ReadAnswer,
       WriteAfterAuth, ReadGet, At, SslConnected
  <2>2. pc' \in SslConnected \ {"close"}
    BY DEF SmtpQuit, SmtpQuitAgain, SmtpBye, SmtpByeAgain, Rehandshake, WriteRequest, ReadAnswer,
       WriteAfterAuth, ReadGet, ClientWrite, ClientRead, ReadPastTicket, WantRead, Pending,
       At, Go, FailKeeping, FailFreeing, ErrSys, SslConnected
  <2>3. phase["ssl"] = "connected"
    BY <2>1 DEF IInv, PhaseInv
  <2>4. TicketInv'
    BY <1>2, <2>3, TakeTicket, QuietTicket DEF OfferInv, Go
  <2> QED
    BY <1>2, <2>1, <2>2, <2>4, GoOffer DEF HasSession, Resuming, Go, SslConnected, SslSections,
       ResumeSections
<1>3. {"ctx", "ssl"} \in SUBSET Objects
  BY DEF Objects, Conns
<1>4. \/ FailKeeping \/ \E O \in SUBSET Objects : FailFreeing(O)
      \/ /\ Go(pc')
         /\ UNCHANGED <<session, shares, early>>
         /\ Take("ssl") \/ UNCHANGED TicketVars
  <2>1. CASE SmtpQuit \/ SmtpQuitAgain \/ Rehandshake \/ WriteRequest \/ WriteAfterAuth
    BY <1>3, <2>1 DEF SmtpQuit, SmtpQuitAgain, Rehandshake, WriteRequest, WriteAfterAuth,
       ClientWrite, Pending, Go, TicketVars, netVars, sessVars
  <2>2. CASE SmtpBye \/ SmtpByeAgain \/ ReadAnswer \/ ReadGet
    BY <1>3, <2>2 DEF SmtpBye, SmtpByeAgain, ReadAnswer, ReadGet, ClientRead, ReadPastTicket,
       WantRead, GiveUp, Pending, Take, Go, TicketVars, netVars, sessVars
  <2> QED BY <2>1, <2>2
<1> QED BY <1>1, <1>2, <1>4

\* the session is asked for when the answer has been read, and so the ticket, or
\* when the read of the answer was given up
LEMMA GetSessionOffer == ASSUME IInv, OfferInv, GetSession PROVE OfferInv'
<1>1. CASE FailFreeing({"ctx", "ssl"})
  BY <1>1, FailOffer DEF Objects, Conns
<1>2. CASE ~FailFreeing({"ctx", "ssl"})
  <2>1. Go("close") /\ UNCHANGED <<TicketVars, shares, early>>
    BY <1>2 DEF GetSession, Go, TicketVars, libVars, netVars, sessVars
  <2>2. TicketInv'
    BY <2>1, QuietTicket DEF OfferInv
  <2>3. pc = "getSession"
    BY DEF GetSession, At
  <2>4. SharesInv'
    BY <2>1, <2>3 DEF OfferInv, SharesInv, Go, SslSections, FirstShares, X25519Share
  <2>5. ~early
    BY <2>3 DEF OfferInv, SessionInv, HasSession, ResumeSections
  <2>6. Tickets => "ssl" \in ticketed \/ ("ssl" \in givenUp /\ "ssl" \notin answered)
    BY <2>3 DEF OfferInv, TicketInv, IInv, PathInv, AnsweredSections
  <2>7. Tickets /\ Resuming => session' = "usable" \/ ("ssl" \in givenUp' /\ "ssl" \notin answered')
    BY <1>2, <2>6 DEF GetSession
  <2>8. SessionInv'
    BY <2>1, <2>5, <2>7 DEF SessionInv, HasSession, Tickets, Resuming, Go
  <2> QED BY <2>2, <2>4, <2>8 DEF OfferInv
<1> QED BY <1>1, <1>2

\* the first session is over: TicketInv has only its last word to say
LEMMA ShutTicket ==
  ASSUME TicketInv, phase'["ssl"] = "shut", UNCHANGED <<opt, ticketed, answered>>
  PROVE  TicketInv'
  BY DEF TicketInv, Tickets

LEMMA ShutOffer == ASSUME IInv, OfferInv, CloseSmtp \/ CloseFirst PROVE OfferInv'
<1>1. /\ phase'["ssl"] = "shut" /\ UNCHANGED sessVars
      /\ Go(pc') /\ pc' \in {"smtpReturn", "resumeTcp", "finish"}
  BY DEF CloseSmtp, CloseFirst, Go, IInv, TypeOK, Conns
<1>2. TicketInv'
  BY <1>1, ShutTicket DEF OfferInv, Go, sessVars
<1>3. HasSession' <=> HasSession
  BY DEF CloseSmtp, CloseFirst, At, Go, HasSession, Resuming, ResumeSections
<1> QED BY <1>1, <1>2, <1>3, GoOffer DEF SslSections, sessVars

LEMMA EndOfRunOffer == ASSUME IInv, OfferInv, ReturnAfterStartTls \/ Finish PROVE OfferInv'
  BY EndOffer DEF ReturnAfterStartTls, Finish, netVars

\* the resumed session: the first is shut, and what it held is not touched
LEMMA ResumeOffer ==
  ASSUME IInv, OfferInv,
         \/ ResumeTcp \/ ResumeKeyShares \/ WriteEarlyData \/ ResumeConnect \/ ResumeWrite
         \/ ResumeRead \/ CloseResumed
  PROVE  OfferInv'
<1>1. CASE FailKeeping \/ FailFreeing({"ctx", "sslResume"})
  BY <1>1, FailOffer DEF Objects, Conns
<1>2. CASE end' = "crash" /\ UNCHANGED <<opt, pc, netVars, sessVars>>
  BY <1>2, EndOffer DEF netVars
<1>3. CASE /\ Go(pc') /\ pc' \in ResumeSections \cup {"finish"}
           /\ phase'["ssl"] = phase["ssl"] /\ session' = session
           /\ ticketed \subseteq ticketed' /\ ("ssl" \in answered' <=> "ssl" \in answered)
           /\ ("ssl" \in givenUp => "ssl" \in givenUp')
  <2>1. pc \in ResumeSections /\ phase["ssl"] = "shut"
    BY DEF ResumeTcp, ResumeKeyShares, WriteEarlyData, ResumeConnect, ResumeWrite, ResumeRead,
       CloseResumed, At, ResumeSections, IInv, PhaseInv, SslConnected
  <2>2. TicketInv'
    BY <1>3, <2>1 DEF OfferInv, TicketInv, Tickets, Go
  <2>3. SharesInv'
    BY <1>3 DEF SharesInv, SslSections, ResumeSections
  <2>4. HasSession /\ HasSession'
    BY <1>3, <2>1 DEF HasSession, IInv, PathInv, Resuming, Go
  <2>5. SessionInv'
    BY <1>3, <2>4 DEF OfferInv, SessionInv, Tickets, Go
  <2> QED BY <2>2, <2>3, <2>5 DEF OfferInv
<1>4. \/ FailKeeping \/ FailFreeing({"ctx", "sslResume"})
      \/ end' = "crash" /\ UNCHANGED <<opt, pc, netVars, sessVars>>
      \/ /\ Go(pc') /\ pc' \in ResumeSections \cup {"finish"}
         /\ phase'["ssl"] = phase["ssl"] /\ session' = session
         /\ ticketed \subseteq ticketed' /\ ("ssl" \in answered' <=> "ssl" \in answered)
         /\ ("ssl" \in givenUp => "ssl" \in givenUp')
  <2>1. CASE ResumeTcp \/ ResumeKeyShares \/ WriteEarlyData \/ ResumeWrite
    BY <2>1 DEF ResumeTcp, ResumeKeyShares, WriteEarlyData, ResumeWrite, Go, ResumeSections,
       netVars, sessVars
  <2>2. CASE ResumeRead
    BY <2>2 DEF ResumeRead, ReadPastTicket, WantRead, Take, GiveUp, NextIs, Go, At, ResumeSections,
       netVars, sessVars
  <2>3. CASE ResumeConnect \/ CloseResumed
    BY <2>3 DEF ResumeConnect, Connected, CloseResumed, Go, ResumeSections, sessVars, IInv,
       TypeOK, Conns
  <2> QED BY <2>1, <2>2, <2>3
<1> QED BY <1>1, <1>2, <1>3, <1>4

LEMMA InitOffer == Init => OfferInv
  BY DEF Init, OfferInv, TicketInv, SessionInv, SharesInv, HasSession, NextIs, Conns, SslSections,
     ResumeSections

LEMMA NextOffer == IInv /\ OfferInv /\ [Next]_vars => OfferInv'
<1> SUFFICES ASSUME IInv, OfferInv, [Next]_vars PROVE OfferInv'
  OBVIOUS
<1>1. CASE Client
  BY <1>1, SetUpOffer, KeySharesOffer, ConnectOffer, FirstOffer, GetSessionOffer, ShutOffer,
     EndOfRunOffer, ResumeOffer DEF Client
<1>2. CASE \E c \in Conns : Peer(c)
  BY <1>2, PeerOffer
<1>3. CASE Done \/ UNCHANGED vars
  BY <1>3, EndOffer DEF Done, vars, netVars
<1> QED BY <1>1, <1>2, <1>3 DEF Next

\* What the client offers is kept in step as well: which tickets and sessions there can be,
\* and the key shares that were queued.
THEOREM OfferInvariance == Spec => [](IInv /\ OfferInv)
  BY InitOffer, NextOffer, Invariance, PTL DEF Spec

\* What is resumed is a session the peer will accept: the read of the answer
\* has taken the ticket in before client_test asks for the session, unless that
\* read was given up and no answer was read at all.
THEOREM TicketInHand == Spec => []ResumesWithTicket
<1>1. IInv /\ OfferInv => ResumesWithTicket
  BY DEF IInv, PhaseInv, OfferInv, SessionInv, Tickets, HasSession, ResumesWithTicket,
     ResumeConnected, ResumeSections, PathInv
<1> QED BY <1>1, OfferInvariance, PTL

\* The first handshake offers what -y, -Y and -J ask for.
THEOREM OffersAsAsked == Spec => []FirstSharesAsAsked
<1>1. IInv /\ OfferInv => FirstSharesAsAsked
  BY DEF IInv, PhaseInv, OfferInv, SharesInv, FirstSharesAsAsked, FirstShares, X25519Share,
     EccShares, FfdheShares, SslConnected, SslSections
<1> QED BY <1>1, OfferInvariance, PTL
=============================================================================

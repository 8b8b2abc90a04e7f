--------------------------- MODULE ClientSession ---------------------------
(***************************************************************************)
(* client_test() of tls13-dev/host/client.c: one run of the TLS client,     *)
(* from the context it creates to the code it leaves behind, against a peer *)
(* that answers at its own pace.                                            *)
(*                                                                          *)
(* The objects the program owns (the context, the first session, the        *)
(* session it resumes with, the socket variable both sessions share, the    *)
(* async device) have a life cycle; every library call names the object it  *)
(* is made on.  What the library and the operating system answer is chosen  *)
(* by \E or by a disjunct of its own.                                       *)
(***************************************************************************)
EXTENDS Integers, Sequences, ClientCommandLine

CONSTANTS
    Features,   \* the build macros that are defined, e.g. "TLS13", "CURVE25519"
    Options     \* the command lines explored, as the variables getopt leaves

\* the sections of client_test, in the order of the source
Sections ==
    {"external", "context", "configure", "extensions", "benchmark", "newSsl",
     "keyShares", "connectTcp", "startTls", "checks", "handshake", "smtpQuit", "smtpQuitPending",
     "smtpBye", "smtpByePending", "smtpFree", "smtpReturn", "rehandshake", "write",
     "read", "postAuth", "readGet", "getSession", "close", "resumeTcp",
     "resumeKeyShares", "earlyData", "resumeHandshake", "resumeWrite", "resumeRead",
     "resumeGet", "resumeClose", "finish"}

Groups  == {"X25519", "SECP256R1", "SECP384R1", "FFDHE_2048"}
Conns   == {"ssl", "sslResume"}
Objects == Conns \cup {"ctx"}

ASSUME OptionsAssumption == Options \subseteq OptionType

VARIABLES
    opt,      \* the command line of this run
    pc,       \* the section of client_test about to run
    lib,      \* life of each library object: "none", "live" or "freed"
    stale,    \* <<object, call>> for every call made on an object not live
    sockets,  \* sockets created and not yet closed
    dev,      \* the async crypto device: "none", "open" or "closed"
    shares,   \* key shares queued on each session (TLS 1.3)
    phase,    \* each session: "new", "connected" or "shut"
    inbox,    \* what the peer has sent on each session and is not read yet
    asked,    \* requests written on each session and not answered yet
    peer,     \* the peer's end of each session: "idle", "ticket", "open", "closed"
    ticketed, \* sessions that hold what resumption needs
    session,  \* what wolfSSL_get_session returned: "none", "bare" or "usable"
    early,    \* early data was written on the resumed session
    answered, \* sessions on which an answer was read
    givenUp,  \* sessions on which a pending read was given up with nothing read
    retCode,  \* args->return_code
    end       \* "run", "return", "exit" (EXIT_SUCCESS), "err_sys" or "crash"

libVars  == <<lib, stale, dev>>
netVars  == <<sockets, phase, inbox, asked, peer>>
sessVars == <<shares, ticketed, session, early, answered, givenUp>>
vars     == <<opt, pc, libVars, netVars, sessVars, retCode, end>>

Has(f) == f \in Features

\* stale is left to StaleCallsConfined, which says what it may hold
TypeOK ==
    /\ opt \in Options
    /\ pc \in Sections
    /\ lib \in [Objects -> {"none", "live", "freed"}]
    /\ sockets \in Nat
    /\ dev \in {"none", "open", "closed"}
    /\ shares \in [Conns -> SUBSET Groups]
    /\ phase \in [Conns -> {"new", "connected", "shut"}]
    /\ inbox \in [Conns -> Seq({"ticket", "reply", "close"})]
    /\ asked \in [Conns -> Nat]
    /\ peer \in [Conns -> {"idle", "ticket", "open", "closed"}]
    /\ ticketed \subseteq Conns
    /\ session \in {"none", "bare", "usable"}
    /\ early \in BOOLEAN
    /\ answered \subseteq Conns
    /\ givenUp \subseteq IF Has("ASYNC_CRYPT") THEN Conns ELSE {}
    /\ retCode \in {-1, 0}
    /\ end \in {"run", "return", "exit", "err_sys", "crash"}

----------------------------------------------------------------------------
(* Building blocks of the sections.                                         *)

\* what the option loop of this build can leave (see ClientOptions)
Accepted(o) == AcceptedBy(Features, o)

Init ==
    /\ opt \in {o \in Options : Accepted(o)}
    /\ pc = "external"
    /\ lib = [o \in Objects |-> "none"]
    /\ stale = {}
    /\ sockets = 0
    /\ dev = "none"
    /\ shares = [c \in Conns |-> {}]
    /\ phase = [c \in Conns |-> "new"]
    /\ inbox = [c \in Conns |-> <<>>]
    /\ asked = [c \in Conns |-> 0]
    /\ peer = [c \in Conns |-> "idle"]
    /\ ticketed = {}
    /\ session = "none"
    /\ early = FALSE
    /\ answered = {}
    /\ givenUp = {}
    /\ retCode = -1
    /\ end = "run"

At(here) == end = "run" /\ pc = here
Go(there) == pc' = there /\ UNCHANGED <<opt, retCode, end>>

\* err_sys prints and exits: the objects not freed before it die with the process
ErrSys == end' = "err_sys" /\ UNCHANGED <<opt, pc, retCode>>

\* the calls of a section, recorded when their object is not live
Calls(K) == stale' = stale \cup {k \in K : lib[k[1]] # "live"}

Freeing(O) == [o \in Objects |-> IF o \in O THEN "freed" ELSE lib[o]]

NoCalls == UNCHANGED libVars

\* the error path of most checks: free the session, free the context, err_sys
FailFreeing(O) ==
    /\ Calls({<<o, "free">> : o \in O})
    /\ lib' = Freeing(O)
    /\ ErrSys
    /\ UNCHANGED <<dev, netVars, sessVars>>

\* the error path of the others: err_sys with everything still allocated
FailKeeping == ErrSys /\ UNCHANGED <<libVars, netVars, sessVars>>

----------------------------------------------------------------------------
(* Up to the first handshake.                                               *)

\* -X in a build that cannot reach the public test servers: exit at once
ExternalTest ==
    /\ At("external")
    /\ \/ /\ opt.externalTest /\ Has("NO_EXTERNAL_TEST")
          /\ retCode' = 0
          /\ end' = "exit"
          /\ UNCHANGED <<opt, pc>>
       \/ /\ ~(opt.externalTest /\ Has("NO_EXTERNAL_TEST"))
          /\ Go("context")
    /\ UNCHANGED <<libVars, netVars, sessVars>>

\* the method of the version, then the context
NewContext ==
    /\ At("context")
    /\ \/ FailKeeping
       \/ /\ lib' = [lib EXCEPT !["ctx"] = "live"]
          /\ Go("configure")
          /\ UNCHANGED <<stale, dev, netVars, sessVars>>

\* ciphers, PSK, anonymous ciphers, OCSP, the client's certificate
ConfigureContext ==
    /\ At("configure")
    /\ \/ FailFreeing({"ctx"})
       \/ /\ Calls({<<"ctx", "configure">>})
          /\ Go("extensions")
          /\ UNCHANGED <<lib, dev, netVars, sessVars>>

\* the CAs and the verify callbacks, the async device, the extensions; without
\* the device the run goes on, and X25519 is refused with the context alive
EnableExtensions ==
    /\ At("extensions")
    /\ \/ FailFreeing({"ctx"})
       \/ opt.useX25519 /\ FailKeeping
       \/ /\ dev' \in IF Has("ASYNC_CRYPT") THEN {"open", "none"} ELSE {"none"}
          /\ Calls({<<"ctx", "configure">>})
          /\ lib' = lib
          /\ Go(IF opt.mode = "session" THEN "newSsl" ELSE "benchmark")
          /\ UNCHANGED <<netVars, sessVars>>

\* -b and -B: the benchmark's result is the return code, the process exits
RunBenchmark ==
    /\ At("benchmark")
    /\ \/ FailKeeping
       \/ /\ retCode' = 0
          /\ Calls({<<"ctx", "free">>})
          /\ lib' = Freeing({"ctx"})
          /\ end' = "exit"
          /\ UNCHANGED <<opt, pc, dev, netVars, sessVars>>

NewSsl ==
    /\ At("newSsl")
    /\ \/ FailFreeing({"ctx"})
       \/ /\ Calls({<<"ctx", "new">>})
          /\ lib' = [lib EXCEPT !["ssl"] = "live"]
          /\ Go("keyShares")
          /\ UNCHANGED <<dev, netVars, sessVars>>

EccShares   == IF Has("ECC") THEN {"SECP256R1", "SECP384R1"} ELSE {}
FfdheShares == IF Has("FFDHE_2048") THEN {"FFDHE_2048"} ELSE {}
X25519Share == IF Has("CURVE25519") /\ opt.useX25519 THEN {"X25519"} ELSE {}

\* Slip: -y and -Y taken for one another
FirstSharesSwapped ==
    IF ~Has("TLS13") \/ opt.helloRetry THEN {}
    ELSE (IF opt.onlyKeyShare \in {0, 1} THEN X25519Share \cup EccShares ELSE {})
         \cup (IF opt.onlyKeyShare \in {0, 2} THEN FfdheShares ELSE {})

\* the key shares the options ask for
FirstShares ==
    IF ~Has("TLS13") \/ opt.helloRetry THEN {}
    ELSE (IF opt.onlyKeyShare \in {0, 2} THEN X25519Share \cup EccShares ELSE {})
         \cup (IF opt.onlyKeyShare \in {0, 1} THEN FfdheShares ELSE {})

QueueKeyShares ==
    /\ At("keyShares")
    /\ \/ FirstShares # {} /\ FailKeeping
       \/ /\ shares' = [shares EXCEPT !["ssl"] = FirstShares]
          /\ Calls({<<"ssl", "UseKeyShare">>})
          /\ Go("connectTcp")
          /\ UNCHANGED <<lib, dev, netVars, ticketed, session, early, answered, givenUp>>

\* A socket for session c, connected over TCP; over UDP the library is told the
\* peer instead.  tcp_connect_v2 also binds it to the evaluation's address, the
\* library's tcp_connect of the resumed session does not.
TcpConnect(c, calls) ==
    /\ sockets' = sockets + 1
    /\ Calls({<<c, "set_fd">>} \cup calls
             \cup (IF opt.dtlsUDP THEN {<<c, "dtls_set_peer">>} ELSE {}))

\* the extensions of the session, then its socket
ConnectTcp ==
    /\ At("connectTcp")
    /\ \/ FailFreeing({"ctx", "ssl"})
       \/ FailKeeping
       \/ /\ TcpConnect("ssl", {})
          /\ Go(IF opt.doSTARTTLS THEN "startTls" ELSE "checks")
          /\ UNCHANGED <<lib, dev, phase, inbox, asked, peer, sessVars>>

\* the dialogue in clear that precedes the handshake
StartTLS_Init ==
    /\ At("startTls")
    /\ \/ FailKeeping
       \/ Go("checks") /\ UNCHANGED <<libVars, netVars, sessVars>>

\* CRL, secure renegotiation, callbacks
EnableChecks ==
    /\ At("checks")
    /\ \/ FailFreeing({"ctx", "ssl"})
       \/ /\ Calls({<<"ssl", "configure">>})
          /\ Go("handshake")
          /\ UNCHANGED <<lib, dev, netVars, sessVars>>

\* The handshake of a session ends; WC_PENDING_E and the waits of a
\* non-blocking socket are steps of the library that leave this state alone.
\* Below TLS 1.3 the session can be resumed from then on; with TLS 1.3 the
\* peer sends a ticket once it has the client's Finished.
Connected(c) ==
    /\ Calls({<<c, "connect">>})
    /\ phase' = [phase EXCEPT ![c] = "connected"]
    /\ peer' = [peer EXCEPT ![c] =
                   IF opt.version = 4 /\ Has("SESSION_TICKET") THEN "ticket" ELSE "open"]
    /\ ticketed' = IF opt.version = 4 THEN ticketed ELSE ticketed \cup {c}
    /\ UNCHANGED <<lib, dev, sockets, inbox, asked>>

Connect ==
    /\ At("handshake")
    /\ \/ FailFreeing({"ctx", "ssl"})
       \/ /\ Connected("ssl")
          /\ Go(IF opt.doSTARTTLS THEN "smtpQuit"
                ELSE IF opt.forceScr /\ ~opt.nonBlocking THEN "rehandshake"
                ELSE "write")
          /\ UNCHANGED <<shares, session, early, answered, givenUp>>

----------------------------------------------------------------------------
(* Reading and writing.                                                     *)

Sent(c) == asked' = [asked EXCEPT ![c] = @ + 1]

\* ClientWrite: all of the message goes out, or err_sys
ClientWrite(c, there) ==
    \/ FailKeeping
    \/ /\ Sent(c)
       /\ Calls({<<c, "write">>})
       /\ Go(there)
       /\ UNCHANGED <<lib, dev, sockets, phase, inbox, peer, sessVars>>

\* Reading takes the next record: a ticket is kept inside the library, an
\* answer is handed to the program.
Take(c) ==
    /\ inbox[c] # <<>>
    /\ inbox' = [inbox EXCEPT ![c] = Tail(@)]
    /\ ticketed' = IF Head(inbox[c]) = "ticket" THEN ticketed \cup {c} ELSE ticketed
    /\ answered' = IF Head(inbox[c]) = "reply" THEN answered \cup {c} ELSE answered
    /\ Calls({<<c, "read">>})
    /\ UNCHANGED <<lib, dev, sockets, phase, asked, peer, shares, session, early, givenUp>>

NextIs(c, record) == inbox[c] # <<>> /\ Head(inbox[c]) = record

\* a non-blocking read that finds nothing for the program: SSL_ERROR_WANT_READ
WantRead(c, there) ==
    /\ opt.nonBlocking
    /\ \/ inbox[c] = <<>> /\ UNCHANGED <<libVars, netVars, sessVars>>
       \/ NextIs(c, "ticket") /\ Take(c)
    /\ Go(there)

\* A blocking read goes on past a ticket by itself
ReadPastTicket(c) == ~opt.nonBlocking /\ NextIs(c, "ticket") /\ Take(c) /\ Go(pc)

\* With an async device the decryption of a record may be pending; when polling
\* the device fails, the read loops are left with nothing read
GiveUp(c) ==
    /\ Has("ASYNC_CRYPT")
    /\ inbox[c] # <<>>
    /\ givenUp' = givenUp \cup {c}
    /\ Calls({<<c, "read">>})
    /\ UNCHANGED <<lib, dev, netVars, shares, ticketed, session, early, answered>>

\* Slip: the peer's close passes for the end of the answer
ClientReadCloseOk(c, mustRead, there) ==
    \/ FailKeeping
    \/ ReadPastTicket(c)
    \/ WantRead(c, IF mustRead THEN pc ELSE there)
    \/ NextIs(c, "reply") /\ Take(c) /\ Go(there)
    \/ GiveUp(c) /\ Go(there)
    \/ NextIs(c, "close") /\ Take(c) /\ Go(there)

\* ClientRead: with mustRead, WANT_READ is retried; the peer's close is an error.
\* A read given up is none, with mustRead neither: ClientRead returns.
ClientRead(c, mustRead, there) ==
    \/ FailKeeping
    \/ ReadPastTicket(c)
    \/ WantRead(c, IF mustRead THEN pc ELSE there)
    \/ NextIs(c, "reply") /\ Take(c) /\ Go(there)
    \/ GiveUp(c) /\ Go(there)

----------------------------------------------------------------------------
(* The first session, after its handshake.                                  *)

\* SMTP_Shutdown: QUIT, the peer's answer, the alert; client_test then returns.
\* Its loops run while err is WC_PENDING_E and, unlike the others of the file,
\* do not reset err: a call that was once pending is made again and again, also
\* after it has succeeded.  Sections "smtpQuitPending" and "smtpByePending" are
\* the loops in that state.
Pending(call, there) ==
    /\ Has("ASYNC_CRYPT")
    /\ Calls({<<"ssl", call>>})
    /\ Go(there)
    /\ UNCHANGED <<lib, dev, netVars, sessVars>>

SmtpQuit ==
    /\ At("smtpQuit")
    /\ ClientWrite("ssl", "smtpBye") \/ Pending("write", "smtpQuitPending")

QuitCap == 2   \* the QUITs whose answer was not read that the model counts up to

SmtpQuitAgain ==
    /\ At("smtpQuitPending")
    /\ \/ FailKeeping
       \/ /\ asked["ssl"] + Len(inbox["ssl"]) < QuitCap
          /\ ClientWrite("ssl", "smtpQuitPending")

SmtpBye ==
    /\ At("smtpBye")
    /\ \/ FailKeeping
       \/ Pending("read", "smtpByePending")
       \/ ReadPastTicket("ssl")
       \/ NextIs("ssl", "reply") /\ Take("ssl") /\ Go("smtpFree")
       \/ NextIs("ssl", "close") /\ Take("ssl") /\ Go("smtpFree")

SmtpByeAgain ==
    /\ At("smtpByePending")
    /\ FailKeeping \/ (Take("ssl") /\ Go("smtpByePending"))

CloseSmtp ==
    /\ At("smtpFree")
    /\ Calls({<<"ssl", "shutdown">>, <<"ssl", "free">>})
    /\ lib' = Freeing({"ssl"})
    /\ phase' = [phase EXCEPT !["ssl"] = "shut"]
    /\ sockets' = sockets - 1
    /\ Go("smtpReturn")
    /\ UNCHANGED <<dev, inbox, asked, peer, sessVars>>

\* the early return of STARTTLS does not reach wolfAsync_DevClose
ReturnAfterStartTls ==
    /\ At("smtpReturn")
    /\ Calls({<<"ctx", "free">>})
    /\ lib' = Freeing({"ctx"})
    /\ retCode' = 0
    /\ end' = "return"
    /\ UNCHANGED <<opt, pc, dev, netVars, sessVars>>

Rehandshake ==
    /\ At("rehandshake")
    /\ \/ FailFreeing({"ctx", "ssl"})
       \/ /\ Calls({<<"ssl", "rehandshake">>})
          /\ Go("write")
          /\ UNCHANGED <<lib, dev, netVars, sessVars>>

WriteRequest == At("write") /\ ClientWrite("ssl", "read")

\* Slip: the first read does not insist on an answer
ReadAnswerOnce ==
    /\ At("read")
    /\ ClientRead("ssl", FALSE, IF opt.postHandAuth THEN "postAuth"
                                ELSE IF opt.sendGET THEN "readGet" ELSE "getSession")

ReadAnswer ==
    /\ At("read")
    /\ ClientRead("ssl", TRUE, IF opt.postHandAuth THEN "postAuth"
                               ELSE IF opt.sendGET THEN "readGet" ELSE "getSession")

WriteAfterAuth ==
    /\ At("postAuth")
    /\ ClientWrite("ssl", IF opt.sendGET THEN "readGet" ELSE "getSession")

ReadGet == At("readGet") /\ ClientRead("ssl", FALSE, "getSession")

Resuming == opt.resumeSession /\ Has("SESSION_CACHE")

\* the session is asked of the library while its object is still live, and
\* the object that will resume it is created
GetSession ==
    /\ At("getSession")
    /\ \/ Resuming /\ FailFreeing({"ctx", "ssl"})
       \/ /\ Resuming
          /\ session' = IF "ssl" \in ticketed THEN "usable" ELSE "bare"
          /\ Calls({<<"ssl", "get_session">>, <<"ctx", "new">>})
          /\ lib' = [lib EXCEPT !["sslResume"] = "live"]
          /\ Go("close")
          /\ UNCHANGED <<dev, netVars, shares, ticketed, early, answered, givenUp>>
       \/ ~Resuming /\ Go("close") /\ UNCHANGED <<libVars, netVars, sessVars>>

\* Slip: no second session after UDP
CloseFirstNoUdpResume ==
    /\ At("close")
    /\ Calls({<<"ssl", "free">>} \cup (IF opt.dtlsUDP THEN {} ELSE {<<"ssl", "shutdown">>}))
    /\ lib' = Freeing({"ssl"})
    /\ phase' = [phase EXCEPT !["ssl"] = "shut"]
    /\ sockets' = sockets - 1
    /\ Go(IF Resuming /\ ~opt.dtlsUDP THEN "resumeTcp" ELSE "finish")
    /\ UNCHANGED <<dev, inbox, asked, peer, sessVars>>

\* the alert (not on UDP; with -w twice), the object, the socket
CloseFirst ==
    /\ At("close")
    /\ Calls({<<"ssl", "free">>} \cup (IF opt.dtlsUDP THEN {} ELSE {<<"ssl", "shutdown">>}))
    /\ lib' = Freeing({"ssl"})
    /\ phase' = [phase EXCEPT !["ssl"] = "shut"]
    /\ sockets' = sockets - 1
    /\ Go(IF Resuming THEN "resumeTcp" ELSE "finish")
    /\ UNCHANGED <<dev, inbox, asked, peer, sessVars>>

----------------------------------------------------------------------------
(* The resumed session.                                                     *)

ResumeTcp ==
    /\ At("resumeTcp")
    /\ \/ FailFreeing({"ctx", "sslResume"})
       \/ FailKeeping
       \/ /\ TcpConnect("sslResume", {<<"sslResume", "set_session">>})
          /\ Go("resumeKeyShares")
          /\ UNCHANGED <<lib, dev, phase, inbox, asked, peer, sessVars>>

\* Slip: every share of the resume block is queued on ssl
ResumeKeySharesOnSsl ==
    /\ At("resumeKeyShares")
    /\ shares' = [shares EXCEPT !["ssl"] = @ \cup X25519Share \cup EccShares \cup FfdheShares]
    /\ Calls({<<"ssl", "UseKeyShare">>})
    /\ Go("earlyData")
    /\ UNCHANGED <<lib, dev, netVars, ticketed, session, early, answered, givenUp>>

\* With -t the X25519 share is queued on ssl, which CloseFirst has freed: the
\* build may crash, fail or go on.  The other shares go to sslResume, whatever
\* -y, -Y and -J said.
ResumeKeyShares ==
    /\ At("resumeKeyShares")
    /\ IF Has("TLS13")
       THEN \/ FailKeeping
            \/ /\ X25519Share # {}
               /\ Calls({<<"ssl", "UseKeyShare">>})
               /\ end' = "crash"
               /\ UNCHANGED <<opt, pc, retCode, lib, dev, netVars, sessVars>>
            \/ /\ shares' = [shares EXCEPT !["ssl"] = @ \cup X25519Share,
                                           !["sslResume"] = EccShares \cup FfdheShares]
               /\ Calls({<<"ssl", "UseKeyShare">> : g \in X25519Share}
                        \cup {<<"sslResume", "UseKeyShare">>})
               /\ Go("earlyData")
               /\ UNCHANGED <<lib, dev, netVars, ticketed, session, early, answered, givenUp>>
       ELSE Go("earlyData") /\ UNCHANGED <<libVars, netVars, sessVars>>

\* -0 is looked at on the blocking path only
WritesEarly ==
    ~opt.nonBlocking /\ opt.earlyData /\ (Has("SESSION_TICKET") \/ opt.usePsk)

WriteEarlyData ==
    /\ At("earlyData")
    /\ \/ WritesEarly /\ FailFreeing({"ctx", "sslResume"})
       \/ /\ early' = WritesEarly
          /\ Calls(IF WritesEarly THEN {<<"sslResume", "write_early_data">>} ELSE {})
          /\ Go("resumeHandshake")
          /\ UNCHANGED <<lib, dev, netVars, shares, ticketed, session, answered, givenUp>>

ResumeConnect ==
    /\ At("resumeHandshake")
    /\ \/ FailFreeing({"ctx", "sslResume"})
       \/ /\ Connected("sslResume")
          /\ Go("resumeWrite")
          /\ UNCHANGED <<shares, session, early, answered, givenUp>>

ResumeWrite ==
    /\ At("resumeWrite")
    /\ \/ FailFreeing({"ctx", "sslResume"})
       \/ /\ Sent("sslResume")
          /\ Calls({<<"sslResume", "write">>})
          /\ Go("resumeRead")
          /\ UNCHANGED <<lib, dev, sockets, phase, inbox, peer, sessVars>>

\* Slip: the -g loop does not stop at the peer's close
ResumeReadForever ==
    /\ pc \in {"resumeRead", "resumeGet"} /\ At(pc)
    /\ \/ FailFreeing({"ctx", "sslResume"})
       \/ ReadPastTicket("sslResume")
       \/ WantRead("sslResume", "resumeClose")
       \/ GiveUp("sslResume") /\ Go("resumeClose")
       \/ /\ NextIs("sslResume", "reply")
          /\ Take("sslResume")
          /\ Go(IF opt.sendGET THEN "resumeGet" ELSE "resumeClose")
       \/ NextIs("sslResume", "close") /\ Take("sslResume") /\ Go("resumeGet")

\* One read, and with -g reads until one returns nothing.  Neither WANT_READ nor
\* a read given up nor the peer's close is an error here.
ResumeRead ==
    /\ pc \in {"resumeRead", "resumeGet"} /\ At(pc)
    /\ \/ FailFreeing({"ctx", "sslResume"})
       \/ ReadPastTicket("sslResume")
       \/ WantRead("sslResume", "resumeClose")
       \/ GiveUp("sslResume") /\ Go("resumeClose")
       \/ /\ NextIs("sslResume", "reply")
          /\ Take("sslResume")
          /\ Go(IF opt.sendGET THEN "resumeGet" ELSE "resumeClose")
       \/ NextIs("sslResume", "close") /\ Take("sslResume") /\ Go("resumeClose")

\* Slip: the first session's socket is closed again with the second's
CloseResumedTwice ==
    /\ At("resumeClose")
    /\ Calls({<<"sslResume", "write">>, <<"sslResume", "shutdown">>, <<"sslResume", "free">>})
    /\ lib' = Freeing({"sslResume"})
    /\ phase' = [phase EXCEPT !["sslResume"] = "shut"]
    /\ sockets' = sockets - 2
    /\ Go("finish")
    /\ UNCHANGED <<dev, inbox, asked, peer, sessVars>>

\* the parting message (its result is not looked at), the alert, the object
CloseResumed ==
    /\ At("resumeClose")
    /\ Calls({<<"sslResume", "write">>, <<"sslResume", "shutdown">>, <<"sslResume", "free">>})
    /\ lib' = Freeing({"sslResume"})
    /\ phase' = [phase EXCEPT !["sslResume"] = "shut"]
    /\ sockets' = sockets - 1
    /\ Go("finish")
    /\ UNCHANGED <<dev, inbox, asked, peer, sessVars>>

\* Slip: client_test returns before wolfAsync_DevClose
FinishDeviceOpen ==
    /\ At("finish")
    /\ Calls({<<"ctx", "free">>})
    /\ lib' = Freeing({"ctx"})
    /\ retCode' = 0
    /\ end' = "return"
    /\ UNCHANGED <<opt, pc, dev, netVars, sessVars>>

Finish ==
    /\ At("finish")
    /\ Calls({<<"ctx", "free">>})
    /\ lib' = Freeing({"ctx"})
    /\ dev' = IF Has("ASYNC_CRYPT") THEN "closed" ELSE dev
    /\ retCode' = 0
    /\ end' = "return"
    /\ UNCHANGED <<opt, pc, netVars, sessVars>>

----------------------------------------------------------------------------
(* The peer, on one session: its ticket, its answers, its end.              *)

PeerSends(c, record) ==
    /\ end = "run" /\ phase[c] = "connected"
    /\ inbox' = [inbox EXCEPT ![c] = Append(@, record)]
    /\ UNCHANGED <<opt, pc, libVars, sockets, phase, sessVars, retCode, end>>

PeerTicket(c) ==
    /\ peer[c] = "ticket" /\ peer' = [peer EXCEPT ![c] = "open"]
    /\ PeerSends(c, "ticket") /\ asked' = asked

PeerReply(c) ==
    /\ peer[c] = "open" /\ asked[c] > 0
    /\ asked' = [asked EXCEPT ![c] = @ - 1]
    /\ PeerSends(c, "reply") /\ peer' = peer

PeerClose(c) ==
    /\ peer[c] = "open" /\ peer' = [peer EXCEPT ![c] = "closed"]
    /\ PeerSends(c, "close") /\ asked' = asked

Done == end # "run" /\ UNCHANGED vars

Client ==
    \/ ExternalTest \/ NewContext \/ ConfigureContext \/ EnableExtensions
    \/ RunBenchmark \/ NewSsl
    \/ QueueKeyShares \/ ConnectTcp \/ StartTLS_Init \/ EnableChecks \/ Connect
    \/ SmtpQuit \/ SmtpQuitAgain \/ SmtpBye \/ SmtpByeAgain \/ CloseSmtp
    \/ ReturnAfterStartTls \/ Rehandshake
    \/ WriteRequest \/ ReadAnswer \/ WriteAfterAuth \/ ReadGet
    \/ GetSession \/ CloseFirst \/ ResumeTcp \/ ResumeKeyShares
    \/ WriteEarlyData \/ ResumeConnect \/ ResumeWrite \/ ResumeRead
    \/ CloseResumed \/ Finish

Peer(c) == PeerTicket(c) \/ PeerReply(c) \/ PeerClose(c)

Next == Client \/ Done \/ \E c \in Conns : Peer(c)

Spec == Init /\ [][Next]_vars

\* The client is a running process, and a closed peer ends its reads; the other
\* failures may happen and need not.  The peer answers what it is asked and
\* closes when it has nothing left to answer.
Failing == end' \in {"err_sys", "crash"} /\ ~NextIs("ssl", "close")

FairSpec ==
    /\ Spec
    /\ WF_vars(Client /\ ~Failing)
    /\ \A c \in Conns : WF_vars(PeerTicket(c)) /\ WF_vars(PeerReply(c))
                        /\ WF_vars(asked[c] = 0 /\ PeerClose(c))

----------------------------------------------------------------------------
(* What the client promises.                                                *)

\* The only library call client_test ever makes on a freed (or not yet made)
\* object is the UseKeyShare of the resume block, in a TLS 1.3 build with -t -r.
StaleCallsConfined ==
    stale # {} => /\ stale = {<<"ssl", "UseKeyShare">>}
                  /\ Resuming /\ opt.useX25519 /\ Has("TLS13")

\* When client_test returns, the objects are freed, no socket is open and the
\* async device is closed; only the STARTTLS return leaves the device open.
ReturnLeavesNothing ==
    end = "return" => /\ \A o \in Objects : lib[o] # "live"
                      /\ sockets = 0
                      /\ dev = "open" => opt.doSTARTTLS

\* The two sessions share one socket variable: the first socket is closed
\* before the second is made, so that none is lost.
OneSocket == sockets <= 1

\* Return code 0 from a session run means that the peer answered the first
\* request, and with -r that a second session was opened and closed; a peer
\* that hangs up early cannot look like success.  One thing can: a read that the
\* async device of such a build left pending and whose poll failed, whatever
\* mustRead says.
ZeroMeansAnswered ==
    end = "return" =>
        /\ \/ opt.doSTARTTLS
           \/ "ssl" \in answered
           \/ "ssl" \in givenUp /\ Has("ASYNC_CRYPT")
        /\ Resuming /\ ~opt.doSTARTTLS => phase["sslResume"] = "shut"

\* The session taken for resumption is one the peer will accept: with TLS 1.3
\* it holds the ticket, which travels behind the handshake and is only taken
\* in by a later read.  It is so before early data or the second handshake,
\* unless the first session's reads were given up and no answer was read.
ResumesWithTicket ==
    /\ early \/ phase["sslResume"] # "new"
    /\ opt.version = 4 => Has("SESSION_TICKET")
    => session = "usable" \/ ("ssl" \in givenUp /\ "ssl" \notin answered)

\* The first handshake offers the key shares -y, -Y and -J ask for; the resumed
\* one offers every group, whatever they said.
FirstSharesAsAsked ==
    phase["ssl"] = "connected" =>
        /\ opt.helloRetry => shares["ssl"] = {}
        /\ opt.onlyKeyShare = 1 => shares["ssl"] \subseteq {"FFDHE_2048"}
        /\ opt.onlyKeyShare = 2 => "FFDHE_2048" \notin shares["ssl"]

\* With -t both handshakes of a TLS 1.3 run offer X25519 ("Use X25519 for key
\* exchange"), -J and -y aside.
X25519Offered ==
    \A c \in Conns :
        phase[c] = "connected" /\ opt.useX25519 /\ opt.version = 4
            /\ ~opt.helloRetry /\ opt.onlyKeyShare # 1 => "X25519" \in shares[c]

\* A run ends, whatever the peer does, as long as it answers and closes; only
\* the loops of SMTP_Shutdown, once an operation was pending, may go on for ever.
Terminates == <>(end # "run" \/ pc \in {"smtpQuitPending", "smtpByePending"})

----------------------------------------------------------------------------
(* The contract of a run, abstractly: see ClientContract.                   *)

Wanted ==
    IF opt.mode # "session" \/ (opt.externalTest /\ Has("NO_EXTERNAL_TEST")) THEN 0
    ELSE IF Resuming /\ ~opt.doSTARTTLS THEN 2 ELSE 1

Opened == {c \in Conns : phase[c] # "new"}
Closed == {c \in Conns : phase[c] = "shut"}

Verdict == IF retCode = 0 THEN "ok"
           ELSE IF end \in {"err_sys", "crash"} THEN "failed" ELSE "none"

Contract == INSTANCE ClientContract
                WITH wanted <- Wanted, opened <- Opened, closed <- Closed, verdict <- Verdict
ContractSpec == Contract!Spec
=============================================================================

# A model of the secure-Ethernet evaluation

This directory is a TLA+ development of the repository around it: the wolfSSL
example client as the evaluation modified it (`tls13-dev/host/client.c`), the
scripts that run it and capture its handshakes (`scripts/`), and the programs
that turn the captures into the figures of the evaluation (`process_*.py`).
TLC checks the models on small instances; TLAPS proves the safety properties
that matter most for every value of the constants.

All paths below are relative to `src/`; `client.c` is `tls13-dev/host/client.c`.

## 1. The system

A handshake evaluation is a chain. A script starts a server for *N* connections
in one container, and then *N* times starts `tcpdump` in the background, runs a
client in the other container, sleeps and kills the `tcpdump`. The client is
wolfSSL's example client, most often in its benchmark mode (`-b 1`). The captures
are read by a Python program per protocol, which averages the duration and the
size of the handshakes. What is published is only right when every link holds: the
client does what its options say, each capture holds its own handshake, and the
analyser takes the right packets from it.

### Inventory

| Component | State it keeps | Operations | Meets others through | What is hard about it | What makes it right |
|---|---|---|---|---|---|
| **option parsing**, `main` and the getopt loop (client.c:918-1402) | some fifty variables, the place in `argv`, exit status | one case per letter, refusals, resolution of the version | hands its variables to the session | several letters write one variable; a word taken for an argument; casts before tests | the last option given wins; numbers outside the usage text for known reasons only; only combinations the build has |
| **client session**, the rest of `client_test` (client.c:1263-2381) | context, two session objects, one socket variable for both, crypto device, key shares, return code | set-up, connect, write, read, close, resume; `err_sys` at each call | wolfSSL calls, the peer's records | an object's life over many exits; a ticket that follows the handshake; options that meet | no call on a dead object; one socket; `0` only when answered; resumes with a ticket; key shares as asked; ends |
| **connection benchmark**, `ClientBenchmarkConnections` (`-b`) | two loop counters, `benchSession`, one object and socket per connection, the average | two loops of connect / exchange / close | called by the session with its context | the session of the last connection is asked for after the right reads | second loop resumes; averages over all; nothing left between |
| **throughput benchmark**, `ClientBenchmarkThroughput` (`-B`) | tx and rx buffers, position in each, bytes counted | write a chunk, select, read its echo, compare | echo server | echoes late, in pieces, lost; last chunk shorter | no false mismatch; total to the byte; ends |
| **non-blocking connect**, `NonBlockingSSL_Connect` (`-N`) | `ret`, `error`, `select_ret`; in the library: flight, time-outs, unsent part | connect, poll, select, judge | called by the session and StartTLS | time-out against late answer; blocked write; count 1 = `SSL_SUCCESS` | success only when answered; gives up for a reason; ends |
| **STARTTLS / SMTP shutdown** | `err`, the line read, the place in the stream | a dialogue of replies; QUIT and goodbye | the session, before and after | one `recv` taken for one reply; `err` not reset | the handshake begins in step; a reply is refused for a reason; ends |
| **TLS handshake evaluation**, `tls_eval_handshake.sh` and the start scripts | loop counter; server, `tcpdump`, client processes; captures | start, wait, capture, connect, sleep, kill | processes by name, one port, the wire | nothing waits for anything but `pidof` and `sleep` | a capture measures its handshake; none runs on; a server serves its own run |
| **MACsec evaluation**, `macsec_eval_handshake.sh` | daemons, `tcpdump` and capture of each iteration, macsec devices | start, wait, capture, sleep, signal, delete devices | control sockets, processes by name, the bridge | waits that do not wait; daemons that are dying | a capture lacks packets for a known reason only; a loss is not followed by a loss; ends |
| **DTLS evaluation**, `dtls_eval_handshake.sh` | as the TLS evaluation, plus datagrams under way | as there, plus time-outs at both ends | as there | a lost hello is sent again; a time-out races a slow answer; the analyser keeps the first packets as they come | an accepted capture is that of its handshake, but for known reasons |
| **IPsec evaluation** | as the TLS evaluation, plus daemons | start, activate, stop | as above | the race with `tcpdump` | not modelled, see section 6 |
| **throughput evaluation, link shaping**, `none_eval.sh`, `tls_eval.sh` | qdisc of each link, iperf3 server and client, log files | set rate, run, reset | `tc`, containers | an interrupted run leaves the rate set and its server running | a log is measured at the rate it is filed under and has its result, but for known reasons |
| **handshake analysers**, `process_*_handshake.py` | packets kept, clock start, counter, list of results | per packet: skip, keep, stop; per file: figures; averages | files of the evaluation | counters over filtered packets; a short capture | the figures of the capture; all files or none |
| **latency / scalability analysers** | two lists of records, paired | pair, subtract, average | logs and captures | one lost record shifts all pairs | not modelled, see section 6 |
| **testbeds, plots, configuration, images, data** | - | set-up in a straight line, drawing of constants | - | - | not modelled, see section 6 |

`PROJECT.json` lists every component with its sources and the hazards with the
line each bites at.

## 2. The modules

```
ClientCommandLine <--guaranteed by--  ClientOptions        main, the getopt loop
                  <--started from by- ClientSession        client_test
ClientContract    <--refined by-----  ClientSession
                                      StartTls             -M
                                      BenchConnections     -b
                                      ThroughputBench      -B
                                      NonBlockingConnect   -N
                                      HandshakeEval        tls_eval_handshake.sh
                                      DtlsEval             dtls_eval_handshake.sh
                                      MacsecEval           macsec_eval_handshake.sh
                                      ThroughputEval       none_eval.sh, tls_eval.sh
HandshakeParsers  <--extended by----  HandshakeAnalysis    process_*_handshake.py
```

`MC<Module>` holds the constants of the runs of a module, `<Module>_proofs` its
theorems; `ClientParts_proofs` holds those of ClientOptions, StartTls and
NonBlockingConnect, `Captures_proofs` those of DtlsEval and HandshakeAnalysis. (Modules
whose theorems are in one file name their specifications apart: `OptionsSpec`, `DialogueSpec`,
`AnalysisSpec`.) Definitions whose comment begins with *Slip:* belong to no
specification. Each is a plausible slip of the definition it stands before: put in
its place, it makes the property that `PROJECT.json` names under "mutants" fail.
They show that the property looks at the code.

### ClientCommandLine, ClientOptions

`ClientOptions` goes from the words of the command line to the variables the
rest of `client_test` runs with, or to the exit of a wrong one. A word is what it is as
an option, what `atoi` makes of it and how it begins. `mygetopt` says which letter is
read and `Last` which word it ends with; `Assigned` is what each case assigns in a
build, in five groups of letters; `BadOption` and `BadPort` are the refusals.

| Action | Code |
|---|---|
| `StartUp` | `main`: change of directory |
| `SetVariables`, `ShowAndExit`, `RefuseOption`, `RefusePort`, `EndOfOptions` | one turn of the loop, by its outcome |
| `ExternalTest`, `ResolveVersion`, `ChooseMethod` | what follows it, up to the method |

`ClientCommandLine` is where it meets ClientSession: the record of variables and
`AcceptedBy`, the combinations a build lets through. ClientSession starts from every one
of them; that ClientOptions produces no other is its property `HandsOverAccepted`.

### ClientSession

One run of `client_test`, from the parsed options to the return. `pc` names the
section of the function that is about to run; every section is one action, with its error exits as
disjuncts (`FailFreeing`: the objects are freed and then `err_sys`;
`FailKeeping`: `err_sys` at once). `lib` is the life of the context and of the two
`WOLFSSL` objects, and each library call is recorded in `stale` when the object it
names is not live. `sockets` counts created less closed. The peer sends its
ticket after the handshake (TLS 1.3), replies to what it is asked and closes, each at
its own pace; records wait in `inbox` in order. In a build for asynchronous devices a read
that is pending may be given up when its poll fails (`GiveUp`, client.c:626): `ClientRead` and
the read loops of the resume block then go on with nothing read, and `givenUp` remembers the session.

| Action | Code |
|---|---|
| `Accepted`, `Init` | the variables the option loop leaves, see ClientCommandLine |
| `ExternalTest`, `NewContext`, `ConfigureContext`, `EnableExtensions`, `RunBenchmark` | context, its configuration, its extensions and the early return of the benchmarks |
| `NewSsl`, `QueueKeyShares`, `ConnectTcp`, `EnableChecks` | object, key shares, socket, checks; `TcpConnect` is the helper the two connects share |
| `StartTLS_Init`, `SmtpQuit`, `SmtpQuitAgain`, `SmtpBye`, `SmtpByeAgain`, `CloseSmtp`, `ReturnAfterStartTls` | STARTTLS (one step) and `SMTP_Shutdown` call by call |
| `Connect`, `Rehandshake`, `WriteRequest`, `ReadAnswer`, `WriteAfterAuth`, `ReadGet` | the first session; `ClientWrite` and `ClientRead` are the helpers of those names |
| `GetSession`, `CloseFirst` | `wolfSSL_get_session`, new object; shutdown, free, close |
| `ResumeTcp`, `ResumeKeyShares`, `WriteEarlyData`, `ResumeConnect`, `ResumeWrite`, `ResumeRead`, `CloseResumed` | the resume block |
| `Finish` | the common end |
| `PeerTicket`, `PeerReply`, `PeerClose` | the peer (external) |

`ClientContract` says what a run promises whoever starts it: sessions one after
another and in order, and verdict "ok" only when all that were asked for were
opened and closed. `ContractSpec` is its specification under the mapping at the
end of `ClientSession`, and the run checks it as a property.

### StartTls

`StartTLS_Init` in detail; in ClientSession it is one step with its outcomes. The stream
of the server is counted in pieces, three to a line (the code up to a cut, the rest
of it, the rest of the line), and `Recv` returns any number of pieces that have arrived and
fit into `tmpBuf`. `Arrive` and `Close` are the server, which answers a command
once it was sent and agrees to some of them (`willing`). `cut` remembers that some `recv`
returned other than one whole reply.

### BenchConnections

The two loops of `-b`. `StartLoop`, `New`, `Attach`, `Handshake`, `Write`, `Read`,
`Close`, `Average` and `Return` are the statements of the loop in order; `ErrSys`
may happen at each call that can fail. The clock is left out: `done` counts the
connections closed since it was started, and `averages` records over how many each
average was really taken.

### ThroughputBench

A byte is known by its place in `tx_buffer`, 0 is what `XMALLOC` left in
`rx_buffer`. `Read` takes any number of bytes up to what the record and the chunk
leave. `Select` may end without data at any time, as it does after
`DEFAULT_TIMEOUT_SEC`. `ReadEnds` leaves the loop when the chunk is whole; `GiveUp` leaves it
in its middle in an asynchronous build, where a failing `wolfSSL_AsyncPoll` breaks out of
it, and `gaveUp` remembers that: only then does `NoFalseAlarm` excuse a mismatch of bytes
that were read. A place never filled may compare either way.

### NonBlockingConnect

`Connect`, `Return`, `Poll`, `Select` and `Judge` are the function;
`wolfSSL_connect`, `GotTimeout` and `GotTimeoutFails` are the library as the
function uses it; `PeerAnswers`, `PeerResends`, `PeerHangsUp`, `Lose`, `Drain` and
`DeviceDone` are the peer, the network, the socket buffer and the device. Flights
and answers are numbers. With `endsReading` false the last flight has no answer
(TLS 1.3), otherwise the client reads last.

### HandshakeEval

Several runs of `tls_eval_handshake.sh` on one testbed, as
`tls13-confs/README.md` has it run for one TLS version after another. `Script` is
the script, statement by statement; `ServerListens`, `ServerFails`,
`CaptureStarts`, `CaptureEnds`, `Transmit` and `HangUp` are the processes it has
set going and does not wait for. On the wire a connection is its SYN, its flights,
the client's alert and, once the client has gone, the server's alert: the order
found in the captures recorded under `results/`. A packet on the wire goes to every
`tcpdump` that runs. `Counted` and `Keeps` say what `process_tls13_handshake.py` takes
from a capture: the packets with payload, counted from the first.

### DtlsEval

The same loop over UDP, once. A client's datagram is lost when the server does not
listen yet or its socket is connected to another client (`Reaches`); the client then times out
(`ClientTimesOut`) until it is answered or gives up (`ClientFails`). `ServerReceives` answers the
flight it waits for, `ServerPassesOver` and `ClientPassesOver` take a duplicate, which may be
answered again; `ServerTimesOut` repeats a flight also to a client that has
gone. A handshake has six flights and the client's alert, each one datagram, which is what
the captures recorded under `results/` show. `Kept` is what `process_dtls12_handshake.py` keeps.
The library's side of it (when it times out, what it does with duplicates) is external.

### MacsecEval

The script with its twelve commands, each an action; `proc` and `dump` hold the
daemons and the `tcpdump` of each iteration, since `pidof` and `pkill` know them by
name only. `Start` lets a daemon fail while its predecessor lives, `Pidof` is content
with either, `Show` never waits: `ip macsec show` succeeds with no device, too. `Sleep`
waits for processes that start or end and for nothing of the exchange; an exchange it
does not outlast is remembered in `cut`. `Transmit` is the exchange between the daemons of
one iteration, whose last packet makes the devices.

### ThroughputEval

Several evaluations on the same two containers, each of which may be interrupted
(`Interrupt`) before any of its commands. `SetAlice` and `SetBob` are
`link_set_rate.sh`, where `tc qdisc add` fails on a device that is shaped already;
`ResetAlice` and `ResetBob` are `link_reset.sh`; `StartServer` and
`PidofServer` start `iperf3 -s` and wait for it by name; `RunClient` is one `iperf3` client and
its log, with the rate it was measured at; `Down` removes the containers. `Listen`,
`ServerFails` and `OrphanEnds` are what goes on in the containers by itself. Both ends of
`iperf3` may fail on their own account, at any moment: a server before `pidof` has seen it (the script
then waits there until it is interrupted), before it listens or later; a client with a log
that has no result, or none at all, since `iperf3_start_client.sh` does not look at its status.
`log` is the log of the last client only, with what had happened to the client (`failed`) and to
the server (`early`, `fallen`) by then: both properties are about each log by itself.

### HandshakeParsers, HandshakeAnalysis

`HandshakeParsers` is the table of what each program looks for (how many packets,
which places, whether bare segments are passed over, and MACsec's rule of its own)
and, apart from any loop, what the figures of a capture are. `HandshakeAnalysis` is
the loop: `OpenFile`, `Packet`, `CloseFile`, `Report`, and `NothingToDo` for the two
programs that look for an empty directory. A capture holds time stamps above zero, since zero
is what the loop takes for "not set" (`DirectoriesAssumption`).

## 3. The runs

| Run | Instance | Shows |
|---|---|---|
| `client_options` | five builds; every command line of one and two words out of 76, those of three words and of `-v 4` with two more out of the options that meet | the loop means what the command line says, hands over what ClientSession starts from, lets through the numbers of the usage text only, but for casts and the 4 of `-v` without TLS 1.3 |
| `client_session` | a full build; TLS 1.3 with every choice of `-N -r -J -y/-Y -g -Q`, TLS 1.2 with every choice of `-M -N -r -u -i -g`, `-t` and `-0` with `-N -r`, the benchmark modes, `-X` | life cycle, verdict, resumption with the ticket, first key shares, termination, refinement of `ClientContract` |
| `start_tls` | replies of 1 to 3 lines, a buffer of 7 pieces | the handshake begins in step with the server; a reply is found incorrect only for a reason |
| `bench_connections` | 1 to 3 connections, `-r -t -J`, TLS 1.2 and 1.3 | every resumed connection has a session that can be resumed, averages |
| `throughput_bench` | a buffer of 3 places, totals 1, 3, 7, 8; TCP and UDP, with and without async | no false mismatch, termination over TCP |
| `nonblocking_connect` | 2 flights, 2 time-outs, 1 repeat by the peer; TCP and DTLS, with and without async, both endings | success is answered, reasons for failure, termination |
| `handshake_analysis` | every capture up to 6 packets of sizes 0, 7, 200 for each of the five parsers, directories of several; MACsec's 14 as 3 | figures are those of the capture, averages over all files or none |
| `handshake_eval` | two runs of the script, 2 connections and then 1; 3 flights | captures measure their handshake, none runs on, left-over servers and refused clients have a known reason, the script ends or waits for a dead server |
| `dtls_eval` | 2 iterations, 6 flights, one time-out in all, at either end | which accepted captures do not give the figures of their handshake, and what of another connection gets into a capture |
| `macsec_eval` | 3 iterations, exchanges of 2 packets | what a capture may lack and why, a lost handshake is not followed by another of the same daemon, the script ends or waits for a failed daemon |
| `throughput_eval` | 3 rates, 2 repetitions; a plain, a TLS and a plain evaluation in a row | logs filed under the wrong rate and logs without a result have a known reason |

One run looks for a disagreement between the code and what it says, and finds it:

| Run | What the code says | What it does |
|---|---|---|
| `session_x25519` | `-t` "Use X25519 for key exchange" (client.c:752) | the resume block queues the share on `ssl`, freed before (client.c:2106): the second handshake does not offer it, and the call is made on a freed object |

Other things seen while modelling, which the models contain and no run is about:

* The resumed session is given the key shares of all groups whatever `-y`, `-Y` and `-J`
  say (client.c:2111, usage text at :745), and connects with `tcp_connect`, not the
  `tcp_connect_v2` of the first.
* After a pending write `err` keeps `WC_PENDING_E`, and QUIT is sent again (client.c:548).
* In the throughput benchmark, when the wait for an echo ends without data, `rx_buffer` is
  compared as the echo before left it, and the chunk is counted (client.c:398, :426).
* Over TCP a write that was blocked is never tried again by the non-blocking connect: only
  readability is waited for (client.c:129, beside the message at :117).
* With `-N` the early data of `-0` is silently not sent (client.c:2129); `-b -J -t` queues
  a key share and so no longer asks for a HelloRetryRequest (client.c:234).
* In a build for asynchronous devices a read of `client_test` that is given up while it is
  pending is not noticed (client.c:626): the program can return 0 without an answer, and with TLS
  1.3 ask for the session before the ticket was read.
* The loop takes `-v 4` in every build (client.c:1014), while the usage text says [0-3]
  without TLS 1.3 (client.c:653). Without `-u` or `-G` the program ends at the choice of the method;
  with one of them it goes on as DTLS 1.0, when the build has it (client.c:1344).
* `-Z`, `-b` and `-B` have ranges the usage text does not give.
* `-p`, `-F` and `-3` are cut to 16 and 8 bits before they are tested; an unknown option and a
  missing argument exit with success; `-W` takes the next word whatever it is.
* A last STARTTLS reply of several lines may leave lines in front of the handshake.
* The waits on `pidof` show that a process exists, not that it listens
  (`scripts/wolfssl_start_server.sh`:18, `iperf3_start_server.sh`:11), and a server left over
  from a run takes the clients of the next (`scripts/tls_eval_handshake.sh`:18).
* `process_docker_throughput.py`:88 gives two arguments to a pattern with one place, which
  ends the program when the results without a limit are asked for.
* A DTLS client that gives up after enough hellos leaves a capture that
  `process_dtls12_handshake.py` takes for a handshake: it keeps the first six packets,
  whatever they are.

### The bounds, and why they are enough

* `Options` (ClientSession) are explored in three groups. Options of different
  groups meet only where the code reads them together, and each group holds all
  combinations of the options it is about.
* `QuitCap` = 2 bounds the unanswered QUITs: the first that is too many is the
  second. `Terminates` leaves the sections of that loop out, so that the bound
  cannot make it true.
* Command lines of two words hold every pair of options and every option with every
  argument; the longer ones are made of the letters that write a variable another letter
  writes, or decide the version. Numbers are at and on both sides of each bound and of each cast.
* Replies of up to 3 lines (StartTls) can be cut within a code, between lines and between
  replies; a reply of 3 lines is longer than the buffer of 7 pieces.
* Two iterations of DtlsEval are what it takes for one to get into the capture of another. One
  time-out gives up to one copy of each later flight (each duplicate may be answered
  again), before and behind the hello, and to a client that has gone.
* Three iterations of MacsecEval are what a loss behind a loss takes, since the first
  cannot be lost to a predecessor; two packets give a first that is missed and a
  last that is cut off.
* Three rates of ThroughputEval have a first, a middle and a last; two repetitions tell
  the first log at a rate from the next; three evaluations show an interrupted one, the
  one after it, and one more that must be clean again.
* `BufferSize` = 3 with totals below, at and above a multiple of it covers an
  only chunk, a full last chunk and short ones, and reads in up to three pieces. The number of records in flight
  is bounded by the totals.
* `Flights` = 2 in NonBlockingConnect gives a flight with an answer and one without;
  two time-outs are one that is repeated and one too many after it.
* `N_TIMES` = <<2, 1>> is the smallest case in which a first server has a connection
  left after its run, and a capture a neighbour within its run and across runs.
* Six packets are what the longest parser with a fixed number keeps; longer
  captures are in the directories of several. Packets come at square times, so that
  no two differences are equal.

### Modelling assumptions

* `err_sys` ends the process (it does so in the client's build; `test.h` is not in the repository).
* `sleep 5` outlasts the start and the end of a `tcpdump` and the last packets of a
  client that has returned. Without it (`SleepSkipped`) captures overlap.
* `MeasuresItsHandshake` is about captures that begin with the SYN. A `tcpdump` that
  starts late may miss it, and the capture of a TLS 1.2 handshake can then still be
  long enough for the parser and give wrong figures; nothing in the scripts prevents it.
* Bare segments travel with the packet they follow: the parsers of HandshakeEval's
  protocols pass over them, which HandshakeAnalysis checks on its own.
* A process that was started with `docker exec` goes on when the script that started it is
  interrupted, and the log of such a client is not filed. `docker-compose down` ends all of
  them (ThroughputEval).
* A daemon cannot start while another one holds its control socket, and `-B` returns when
  the daemon is in the background or has failed. That is the only way a daemon fails: its
  configuration and its device are those of a testbed that was set up and do not change from one
  iteration to the next. `ip macsec show` itself never fails, so the wait on it never waits. The sleeps of the
  MACsec script outlast the start and the end of a process, and promise nothing of the exchange (MacsecEval).
* A client gives up long after a server that listens has read what it was sent. A UDP
  socket is connected to one client at a time, a server that is left in the middle of a handshake
  ends, and every flight is one datagram (`-f`) (DtlsEval).
* The text of an SMTP reply does not look like a code (StartTls).
* A read takes in one whole answer; that `reply` has room for 79 bytes of it, and that the rest
  is then printed by a later read, is left out (ClientSession).
* What the library does inside (cryptography, certificate checks) is one outcome of
  the call: it succeeds, fails or is pending.

### Fairness

| Module | Assumed | Because |
|---|---|---|
| ClientSession | the client takes steps that do not fail; a closed peer ends a read; the peer sends its ticket, replies, and closes when it owes nothing | a single-threaded process; failures may happen and need not, so liveness must not rest on them; a peer that never answers blocks the client for good |
| ThroughputBench | the client; a read of a closed connection fails; over TCP the peer echoes | TCP delivers; over UDP nothing is assumed, and with a lost echo the read really waits for ever |
| NonBlockingConnect | the client, the peer's answer to what has arrived, a socket buffer that drains, a device that finishes | the peer is a running process; loss, hang-up and repeats are not assumed |
| HandshakeEval | the script and each process it started | they are processes; none is assumed to succeed |
| MacsecEval | the script, the start and the end of each `tcpdump`, the end of each daemon that was signalled | they are processes; nothing is assumed of the exchange |

The other modules state no liveness.

## 4. The proofs

The type invariants of StartTls (`DialogueTypeOK`), MacsecEval and ThroughputEval are proved,
and no run repeats them.

For each specification an inductive invariant (`IInv`, or `OptionsIInv`, `DialogueIInv`,
`ConnectIInv`, `AnalysisIInv`) is proved of the initial states and of every action, and the
properties of the runs are derived from it. The constants
are arbitrary: the only assumptions are those the modules name in their `ASSUME`s, which say
what kind of number or set a constant is, and which TLC evaluates in the runs.

* **ClientSession_proofs** - `TypeCorrect`, `NoOtherStaleCall`, `OneSocketAtATime`,
  `ReturnIsClean`, `SuccessIsEarned`, for every build and every set of command
  lines. The section determines everything else: `ObjectsInv` says which objects are
  live in which section, `SocketInv` where a socket is open, `PathInv` which options and
  answers lead to a section, `PhaseInv` how far each session has come, `ReturnInv` what an
  exit leaves. None of the properties is inductive without them: that a
  call names a live object depends on the section, and on the option that led there.
  The second half proves `ImplementsContract`: the initial states of ClientSession are
  initial states of ClientContract, and each action opens a session, closes one, returns, or
  leaves the contract's variables alone (lemmas `OpenContract`, `CloseContract`,
  `ReturnContract` and `OtherContract`, over `BeforeEach`, which spells out the order of the
  sessions). And it proves `TicketInHand` and
  `OffersAsAsked`: `TicketInv` follows the ticket from the peer into the inbox and past the
  reads that take it in, always ahead of the answer, so that a session without it
  is one whose reads were given up before the answer; `SessionInv` keeps the session usable
  through the resume sections; `SharesInv` keeps the shares of the first handshake.
* **ClientParts_proofs**, of the option loop: `OptionsTypeCorrect`, `HandsOver`,
  `LastOptionCounts`, `RangesKept`, for command lines of any length and every build. Which
  words are reached is a chain along the command line; `Reaching` shows that there is one of any
  length, by the least place where it would fail. `ReadingInv` says that the
  words before `myoptind` were reached and that each variable means what the options among them say;
  `AcceptedInv` that a variable holds its default or what some option of this build assigns it
  (`Sanctioned`, group by group of the switch), from which `HandsOver` follows; `VersionInv`
  what the steps after the loop make of `-v` and `-u`. `StrayInv` follows a `-v 4` of a build without TLS
  1.3 to the version: only `-v` assigns it (`VersionAssigned`), so the last one decides, and what is
  left of it at the choice of the method is a DTLS version (`StrayResolved`).
  Of StartTLS_Init: `DialogueTypeCorrect`, `Agreed`, `IncorrectReply`, for replies of any length and
  any buffer. `BehindInv` says that the replies behind the client were given, and that it
  has read into the last of them; `UncutInv` that `recv` and reply stay together as
  long as nothing was cut.
  Of NonBlockingSSL_Connect: `ConnectTypeCorrect`, `SuccessIsAnswered`,
  `FailureHasAReason`. `WireInv` orders what is read, received and sent; `RetInv`
  separates the library's success from the count of events that equals it, and
  `WantInv` carries the reason of a call across the wait.
* **BenchConnections_proofs** - `TypeCorrect`, `SecondLoopResumes`,
  `AveragesOverAll`, `NothingLeftBetween`
  (one connection at a time), for any number of connections. The second
  needs the ticket followed on its way (`TicketInv`: still owed, first in the inbox, or taken
  in) to the close of the connection (`ClosingInv`) and from one loop to the next
  (`SessionInv`).
* **ThroughputBench_proofs** - `TypeCorrect`, `EchoNeverMistaken`, `TotalReported`,
  for any buffer and any total. `AlignInv` is the point: every chunk but the last
  fills the buffer, so a record once begun is always finished before the next chunk,
  and the bytes read fall at their own places, time-outs or not, until a read is given up.
* **HandshakeEval_proofs** - `TypeCorrect`, `NoCaptureLeft`, `LeftOver`, `Refused`,
  for any runs, iterations and flights. `LeftOver` and `Refused` count: `CountInv`
  says that what a server has served is the number of its closed connections. A
  server that had all connections of its run would have ended with `-C`, so one that is
  left over missed one; and one that serves only its own run cannot have reached its
  count while a client is still to come. `MeasuresItsOwn` rests on two more: only the
  connection of the iteration is on the wire, and its `tcpdump` is not signalled before the
  connection has ended (`CaptureInv`), so a capture that begins with the SYN has every packet
  after it (`FileInv`), and the parser's count finds each flight at its place (`FirstKept` and
  the lemmas before it).
* **MacsecEval_proofs** - `TypeCorrect`, `Lost`, for any iterations and any length of the
  exchange. `DaemonInv` places the daemons of each iteration by where the script is: after the
  sleeps none but the current ones live. With it `FailedInv`, that a daemon fails only at a
  predecessor that had not failed, is inductive; `CaptureInv` and `SettledInv` carry
  what a capture holds across the kill.
* **ThroughputEval_proofs** - `TypeCorrect`, `Misfiled`, `Incomplete`, for any rates,
  repetitions and evaluations. `QdiscInv` gives the shape of the links at each command once
  nothing is left over (`Healed`: no interrupted run before, or the first reset behind);
  `ServerInv` gives a run that follows no interrupted one its own server, until that ends.
* **Captures_proofs**, of the DTLS evaluation: `TypeCorrect`, `ForeignCaptured`, `Misleads`,
  for any iterations, flights and time-outs. `DumpInv` lets the `tcpdump`s of this
  iteration and of the one before it run, and no other; `ServerInv`
  makes the server's peer a client that is open or failed; with both, whose packets a capture may
  hold (`ForeignInv`) is kept by every step. `FlightsInv` orders what client and server await, have
  sent and have in their queues. The time-outs are bounded by a sum over the connections, whose
  laws (`TotalFacts`, `TotalAgrees`) are proved of the fold the library defines. Without a time-out
  one flight at most is on its way (`OneOnTheWire`), so that a capture holds the
  last packets of its connection in order, all of them unless its `tcpdump` came late, and then
  only the next connection's (`QuietOpenInv`, `QuietClosedInv`); `Misleads` is that read at the
  places the analyser keeps.
  Of the analysers: `AnalysisTypeCorrect`, `Right`, `AllOrNone`, for any directory, any
  captures, and any threshold of MACsec's. `Reads` is the invariant of the loop: what `ret` holds
  after any number of packets is, place by place, the packets that count (`Seen`), with their
  number, their times since the first and the sum of their sizes; `ReadStart`, `ReadPassed` and
  `ReadKept` are one turn of the loop. That no two packets have the same ordinal number (`Ordinals`)
  turns the `CHOOSE`s of the definition into the places of `ret` the program reads
  (`ReadDone`, `MacsecDone`), and a file that is too short into its IndexError. `DtlsFigures` ties the
  two: the packets DtlsEval has kept of a capture are those whose figures the analyser gives.

`Refused` is an action property (`[][...]_vars`), the others are invariants. Every invariant and
every action property that a passing run checks is proved, and so is the refinement of `ClientContract`.

Only model-checked: the liveness properties `Terminates` of ClientSession, ThroughputBench,
NonBlockingConnect, HandshakeEval and MacsecEval, since fairness is beyond the prover. The library's
induction theorems, which take a predicate as their parameter, cannot be used here either;
where a proof is about a sequence or a sum, it goes by a least counterexample (a set of numbers
that is not empty has a least one: `LeastNumber`), by subsets of a finite set, or by an invariant of
the steps that build it.

## 5. Checking it

In this directory, for each run of `PROJECT.json`:
`tlc -workers 2 -config <cfg> <module>`, and for each proof module `tlapm <module>.tla`.
The longest runs (`dtls_eval`, 3,280,791 states; `handshake_eval`, 627,115;
`client_options`, 262,701; `client_session`, 118,487) take about a minute, and so does each proof module but
`Captures_proofs`, which takes four.

## 6. Not modelled, and why

* The `WOLFSSL_CALLBACKS` branch of `client_test`: it uses a variable that is not
  declared there and does not compile.
* Usage text, names, paths, cipher names, certificates, printing: data no property tells
  apart. Options that store such a string are modelled by which word they store.
* `internal.h`: a vendored header of the library, declarations only.
* The IPsec evaluation: `ipsec stop` returns when the daemon has ended and `ipsec up` when
  the exchange has, so of its hazards only the race with `tcpdump` is left, which
  HandshakeEval has.
* The `ipsec`, `macsec` and `_no_tc` variants of the throughput scripts, and `link_delay.sh`:
  the loops of ThroughputEval after a tunnel was set up by hand, or without the links.
* The latency, scalability and authentication analysers: straight-line arithmetic over two
  lists, but for the pairing by position (`process_scalability.py`:100).
* The testbeds: set-up and tear-down in a straight line, without a loop or a second process.
* Plots, configuration, images, measured data: no operation of their own. The
  recorded captures served to learn the order of packets on the wire.

## 7. Plan

In this order:

1. `LatencyAnalysis`: pairing of two captures; with a record lost, no pair mixes two
   packets, or the program notices.
2. `Testbed`: what is left after a step of the set-up or tear-down failed.
3. `LatencyAnalysis` and `Testbed` proved as their runs are written.

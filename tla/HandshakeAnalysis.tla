-------------------------- MODULE HandshakeAnalysis --------------------------
(***************************************************************************)
(* The programs process_<protocol>_handshake.py: main() goes through the     *)
(* captures glob found, the parser reads each packet by packet, and the      *)
(* averages are printed when every file has been read.                       *)
(***************************************************************************)
EXTENDS HandshakeParsers

CONSTANT Directories   \* what glob may find: sequences of captures

\* the clock of the time stamps has been running for long; 0 is "not set" to the loop
ASSUME DirectoriesAssumption ==
    Directories \subseteq Seq(Seq([time : Nat \ {0}, size : Nat]))

VARIABLES
    protocol, \* which of the programs runs
    board,    \* it is the board_o variant, which gives up on an empty directory
    files,    \* pcap_list
    f,        \* files taken from it so far
    i,        \* packets read of the file in hand, -1 between files
    start,    \* start
    ret,      \* ret
    cnt,      \* cnt
    results,  \* the figures of the files read
    end       \* "run", "reported", "nothing" or "IndexError"

given  == <<protocol, board, files>>
parser == <<i, start, ret, cnt>>
analysisVars   == <<given, f, parser, results, end>>

\* every variable has its type; the list kept never outgrows the packets read
AnalysisTypeOK ==
    /\ protocol \in Protocols /\ board \in BOOLEAN
    /\ files \in Directories
    /\ f \in 0..Len(files)
    /\ i >= -1 /\ (i >= 0 => f > 0 /\ i <= Len(files[f]))
    /\ start \in Nat
    /\ cnt = Len(ret) /\ (i >= 0 => cnt <= i)
    /\ Len(results) <= f
    /\ end \in {"run", "reported", "nothing", "IndexError"}

AnalysisInit ==
    /\ protocol \in Protocols
    /\ board \in BOOLEAN /\ (board => protocol \in {"tls12", "tls13"})
    /\ files \in Directories
    /\ f = 0 /\ i = -1
    /\ start = 0 /\ ret = <<>> /\ cnt = 0
    /\ results = <<>>
    /\ end = "run"

\* if len(pcap_list) == 0: return, in the board_o programs only
NothingToDo ==
    /\ end = "run" /\ f = 0 /\ i = -1
    /\ board /\ files = <<>>
    /\ end' = "nothing"
    /\ UNCHANGED <<given, f, parser, results>>

\* Slip: the files before the one in hand go on counting
OpenFileKeeping ==
    /\ end = "run" /\ i = -1 /\ f < Len(files)
    /\ f' = f + 1 /\ i' = 0
    /\ UNCHANGED <<given, start, ret, cnt, results, end>>

\* the next file; start, ret and cnt are set afresh
OpenFile ==
    /\ end = "run" /\ i = -1 /\ f < Len(files)
    /\ f' = f + 1 /\ i' = 0
    /\ start' = 0 /\ ret' = <<>> /\ cnt' = 0
    /\ UNCHANGED <<given, results, end>>

\* the break of the loop: enough packets were kept
Broken ==
    IF protocol = "macsec"
    THEN cnt >= MacsecFirst /\ ret[Len(ret)].size >= MacsecSize
    ELSE cnt >= Rules[protocol].stop

Reading == end = "run" /\ i >= 0

\* if len(tcp.data) == 0: continue
Passed(p) == protocol # "macsec" /\ Rules[protocol].skip /\ p.size = 0

\* ret.append((ts - start, len(data))); cnt += 1
Keep(p, from) ==
    IF Passed(p) THEN UNCHANGED <<ret, cnt>>
    ELSE /\ ret' = Append(ret, [time |-> p.time - from, size |-> p.size])
         /\ cnt' = cnt + 1

\* Slip: the clock starts with the first packet that is kept
PacketLateStart ==
    /\ Reading /\ ~Broken /\ i < Len(files[f])
    /\ LET p == files[f][i + 1] IN
          /\ start' = IF start = 0 /\ ~Passed(p) THEN p.time ELSE start
          /\ Keep(p, start')
    /\ i' = i + 1
    /\ UNCHANGED <<given, f, results, end>>

\* one packet: start is the first one's time; one without payload may be passed
Packet ==
    /\ Reading /\ ~Broken /\ i < Len(files[f])
    /\ LET p == files[f][i + 1] IN
          /\ start' = IF start = 0 THEN p.time ELSE start
          /\ Keep(p, start')
    /\ i' = i + 1
    /\ UNCHANGED <<given, f, results, end>>

\* the places of ret the figures are read from
KeyPlace   == IF protocol = "macsec" THEN MacsecFirst ELSE Rules[protocol].key
TotalPlace == IF protocol = "macsec" THEN Len(ret) ELSE Rules[protocol].total

\* Slip: a file that is too short is left out
CloseFileLeavingOut ==
    /\ Reading /\ (Broken \/ i = Len(files[f]))
    /\ i' = -1
    /\ results' = IF Len(ret) >= KeyPlace /\ Len(ret) >= TotalPlace
                  THEN Append(results, Figures(protocol, files[f])) ELSE results
    /\ UNCHANGED <<given, f, start, ret, cnt, end>>

\* the figures of what was kept; a place that ret does not have is an IndexError
CloseFile ==
    /\ Reading /\ (Broken \/ i = Len(files[f]))
    /\ i' = -1
    /\ IF Len(ret) >= KeyPlace /\ Len(ret) >= TotalPlace
       THEN LET total == ret[TotalPlace].time
                key   == IF protocol = "macsec" THEN total - ret[KeyPlace].time
                         ELSE ret[KeyPlace].time
            IN  /\ results' = Append(results,
                       [key |-> key, total |-> total, size |-> Bytes(ret, DOMAIN ret)])
                /\ end' = end
       ELSE end' = "IndexError" /\ results' = results
    /\ UNCHANGED <<given, f, start, ret, cnt>>

\* the averages
Report ==
    /\ end = "run" /\ i = -1 /\ f = Len(files)
    /\ ~(board /\ files = <<>>)
    /\ end' = "reported"
    /\ UNCHANGED <<given, f, parser, results>>

AnalysisDone == end # "run" /\ UNCHANGED analysisVars

AnalysisNext == NothingToDo \/ OpenFile \/ Packet \/ CloseFile \/ Report \/ AnalysisDone

AnalysisSpec == AnalysisInit /\ [][AnalysisNext]_analysisVars

----------------------------------------------------------------------------
\* The loop of each program gives the figures the whole capture stands for:
\* the right packets, counted from the first one captured, bare TCP segments
\* left aside, nothing carried over from the file before.
FiguresRight ==
    \A k \in 1..Len(results) : results[k] = Figures(protocol, files[k])

\* Averages are printed over every file there is, in a directory where every
\* capture is complete; one short capture is the end of the program.
AllOrNothing ==
    /\ end = "reported" =>
          Len(results) = Len(files) /\ \A k \in 1..Len(files) : Complete(protocol, files[k])
    /\ end = "IndexError" => ~Complete(protocol, files[f])
=============================================================================

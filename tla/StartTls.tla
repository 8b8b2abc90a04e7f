------------------------------ MODULE StartTls ------------------------------
(***************************************************************************)
(* StartTLS_Init of tls13-dev/host/client.c: the dialogue in clear with a   *)
(* mail server that precedes the handshake.  The function takes what one    *)
(* recv returns for one reply; TCP delivers a stream, which the server may  *)
(* cut anywhere, and a reply may have several lines.                        *)
(*                                                                          *)
(* The stream is counted in pieces, three to a line: the code up to a cut,  *)
(* the rest of the code, the rest of the line.  A text is taken not to look *)
(* like a code.                                                             *)
(***************************************************************************)
EXTENDS Integers

CONSTANTS
    MaxLines,   \* lines of a reply, at most
    Buffer      \* pieces that fit into tmpBuf

ASSUME LinesAssumption == MaxLines \in Nat \ {0}
ASSUME BufferAssumption == Buffer \in Nat \ {0}

VARIABLES
    lines,    \* lines of each of the three replies
    willing,  \* the replies in which the server agrees
    step,     \* the reply awaited: greeting, answer to EHLO, answer to STARTTLS
    progress, \* "recv", "send", or how it ended
    arrived,  \* pieces of the stream that have arrived
    consumed, \* pieces recv has returned
    closed,   \* the server has closed
    cut       \* some recv returned other than one whole reply

dialogueVars == <<lines, willing, step, progress, arrived, consumed, closed, cut>>

Replies == 1..3

\* the first piece after reply k
End(k) == 3 * ((IF k >= 1 THEN lines[1] ELSE 0)
               + (IF k >= 2 THEN lines[2] ELSE 0)
               + (IF k >= 3 THEN lines[3] ELSE 0))

\* the code of the line that begins after the first p pieces
CodeAt(p) ==
    IF (IF p < End(1) THEN 1 ELSE IF p < End(2) THEN 2 ELSE 3) \notin willing THEN "refusal"
    ELSE IF p >= End(1) /\ p < End(2) THEN "250" ELSE "220"

\* Slip: the entry for the answer to EHLO compared again
CodeRepeated(k) == IF k >= 2 THEN "250" ELSE "220"

\* starttlsCmd: what a reply must begin with
Code(k) == IF k = 2 THEN "250" ELSE "220"

DialogueTypeOK ==
    /\ lines \in [Replies -> 1..MaxLines]
    /\ willing \in SUBSET Replies
    /\ step \in Replies
    /\ progress \in {"recv", "send", "success", "unread", "unsent", "incorrect"}
    /\ arrived \in Nat /\ arrived <= End(step)
    /\ consumed \in Nat /\ consumed <= arrived
    /\ closed \in BOOLEAN
    /\ cut \in BOOLEAN

DialogueInit ==
    /\ lines \in [Replies -> 1..MaxLines]
    /\ willing \in SUBSET Replies
    /\ step = 1
    /\ progress = "recv"
    /\ arrived = 0
    /\ consumed = 0
    /\ closed = FALSE
    /\ cut = FALSE

\* Slip: any of the codes will do
MatchAnyCode(to) == consumed % 3 = 0 /\ to >= consumed + 2 /\ CodeAt(consumed) # "refusal"

\* what recv has returned begins with the code expected
Match(to) == consumed % 3 = 0 /\ to >= consumed + 2 /\ CodeAt(consumed) = Code(step)

\* recv returns what there is, as far as it fits, and the code is compared
Recv ==
    /\ progress = "recv"
    /\ \E to \in consumed + 1..arrived :
         /\ to <= consumed + Buffer
         /\ progress' = IF ~Match(to) THEN "incorrect"
                        ELSE IF step = 3 THEN "success" ELSE "send"
         /\ cut' = (cut \/ consumed # End(step - 1) \/ to # End(step))
         /\ consumed' = to
    /\ UNCHANGED <<lines, willing, step, arrived, closed>>

\* a closed connection returns 0 and leaves the buffer empty; an error returns -1
RecvNothing ==
    /\ progress = "recv"
    /\ \/ closed /\ consumed = arrived /\ progress' = "incorrect"
       \/ progress' = "unread"
    /\ UNCHANGED <<lines, willing, step, arrived, consumed, closed, cut>>

\* EHLO, STARTTLS: sent whole or given up
Send ==
    /\ progress = "send"
    /\ \/ progress' = "recv" /\ step' = step + 1
       \/ progress' = "unsent" /\ UNCHANGED step
    /\ UNCHANGED <<lines, willing, arrived, consumed, closed, cut>>

\* the server has answered the commands it got; the next pieces arrive
Arrive ==
    /\ ~closed
    /\ progress \in {"recv", "send"}
    /\ arrived' \in arrived + 1..End(step)
    /\ UNCHANGED <<lines, willing, step, progress, consumed, closed, cut>>

Close ==
    /\ progress \in {"recv", "send"}
    /\ closed' = TRUE
    /\ UNCHANGED <<lines, willing, step, progress, arrived, consumed, cut>>

DialogueNext == Recv \/ RecvNothing \/ Send \/ Arrive \/ Close

DialogueSpec == DialogueInit /\ [][DialogueNext]_dialogueVars

----------------------------------------------------------------------------
(* The handshake begins only after the server has agreed three times, each  *)
(* time to the command sent to it, and nothing of the greeting or of the    *)
(* answer to EHLO is left in front of it.  Of the last reply there may be.  *)
SuccessInStep ==
    progress = "success" => willing = Replies /\ consumed > End(2)

(* A reply is found incorrect only when the server refused, has closed      *)
(* before all of it arrived, or the stream was cut: by the server, or       *)
(* because a reply does not fit into tmpBuf.                                *)
IncorrectForAReason ==
    progress = "incorrect" =>
        step \notin willing \/ cut \/ (closed /\ arrived < End(step))
=============================================================================

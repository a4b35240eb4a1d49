------------------------------- MODULE NodeTasks -------------------------------
(***************************************************************************)
(* The task mailbox of one node.                                           *)
(*                                                                         *)
(* A web request that wants something done on a node appends a line to the *)
(* text column `tasks' of the node's row in the nodes register (MyISAM, so *)
(* every statement stands on its own).  The append is a read followed by a *)
(* write.  piston.cgi, when movepiston POSTs the state of the node, reads  *)
(* the column, clears it and sends the lines as the answer; movepiston     *)
(* executes them one by one and keeps the rest of the batch in             *)
(* /tmp/badstrokes, which it executes again when it is started after a     *)
(* crash.                                                                  *)
(*                                                                         *)
(* A line is the request that made it.  What a line makes a node do is the *)
(* subject of other modules; this one is about whether a line gets there,  *)
(* how often and in which order.                                           *)
(***************************************************************************)
EXTENDS Integers, Sequences, Functions

CONSTANTS
    Requests,      \* web requests, each queues one line for the node
    NodeRequests,  \* those whose line is a bare node command (reboot, halt, reload ...)
    MoveRequests,  \* those piston.cgi makes for a node waiting to receive a server
    Poll,          \* the piston.cgi process that serves the POST of this node
    Rejected,      \* a line movepiston answers with "Info not accepted"
    MaxFaults      \* bound on crashes of movepiston and on answers lost on the way

ASSUME RequestsAssumption ==
    /\ NodeRequests \subseteq Requests
    /\ MoveRequests \subseteq Requests
    /\ NodeRequests \cap MoveRequests = {}
    /\ Poll \notin Requests
    /\ Rejected \notin Requests
    /\ MaxFaults \in Nat

VARIABLES
    column,     \* nodes.tasks of this node: its lines, and whether the last one is open
    pc,         \* where each web request is
    first,      \* what a move request read to be copied behind its own line
    saw,        \* what a request read to append to
    post,       \* progress of the piston.cgi process serving the POST
    taken,      \* what that process read
    phase,      \* what movepiston is doing
    todo,       \* lines of the batch movepiston has not come to
    doing,      \* the line movepiston is executing, if any
    bad,        \* /tmp/badstrokes on the node
    faults,     \* crashes and lost answers so far
    current,    \* history: the readers whose copy of the column is not outdated
    written,    \* history: the requests in the order their lines were written
    performed,  \* history: the lines in the order movepiston carried them out
    disturbed   \* history: the requests something irregular happened to

webVars    == <<pc, first, saw, written>>
pistonVars == <<phase, todo, doing, bad>>
vars == <<column, webVars, post, taken, pistonVars, faults, current, performed, disturbed>>

Text  == [lines : Seq(Requests), open : BOOLEAN]
Blank == [lines |-> <<>>, open |-> FALSE]

-----------------------------------------------------------------------------
(* Appending to the column *)

\* Mutants of Queue: the line replaces what is there; the line goes first.
QueueOver(text, r)  == [lines |-> <<r>>, open |-> FALSE]
QueueFront(text, r) == [lines |-> <<r>> \o text.lines, open |-> FALSE]

\* tasks . "LINE\n": an open last line takes the new one in.
Queue(text, r) ==
    [lines |-> IF text.open THEN text.lines ELSE Append(text.lines, r),
     open  |-> FALSE]

\* tasks .= "MOVE ...\n" . copy, less its last character: the copy follows the
\* new line, and the text no longer ends in a newline.
QueueMove(text, r, copy) ==
    [lines |-> (IF text.open THEN text.lines ELSE Append(text.lines, r)) \o copy.lines,
     open  |-> TRUE]

\* Lines that a write may drop or bring back, its writer having read an older column.
Trampled(reader, copy) ==
    IF reader \in current THEN {} ELSE Range(column.lines) \cup Range(copy.lines)

\* A line added to an open one is never seen by movepiston.
Swallowed(text, r) == IF text.open THEN {r} ELSE {}

Init ==
    /\ column = Blank
    /\ pc = [r \in Requests |-> "idle"]
    /\ first = [r \in Requests |-> Blank]
    /\ saw = [r \in Requests |-> Blank]
    /\ post = "none"
    /\ taken = Blank
    /\ phase = "idle"
    /\ todo = <<>>
    /\ doing = <<>>
    /\ bad = <<>>
    /\ faults = 0
    /\ current = {}
    /\ written = <<>>
    /\ performed = <<>>
    /\ disturbed = {}

\* A move request reads the column twice: once for the text it copies ...
CopyColumn(r) ==
    /\ r \in MoveRequests
    /\ pc[r] = "idle"
    /\ pc' = [pc EXCEPT ![r] = "copied"]
    /\ first' = [first EXCEPT ![r] = column]
    /\ UNCHANGED <<column, saw, written, post, taken, pistonVars, faults, current,
                   performed, disturbed>>

\* ... and once, as every request, for the text it appends to.
ReadColumn(r) ==
    /\ pc[r] = IF r \in MoveRequests THEN "copied" ELSE "idle"
    /\ pc' = [pc EXCEPT ![r] = "read"]
    /\ saw' = [saw EXCEPT ![r] = column]
    /\ current' = current \cup {r}
    /\ UNCHANGED <<column, first, written, post, taken, pistonVars, faults, performed,
                   disturbed>>

WriteTask(r) ==
    /\ r \notin MoveRequests
    /\ pc[r] = "read"
    /\ pc' = [pc EXCEPT ![r] = "done"]
    /\ column' = Queue(saw[r], r)
    /\ written' = Append(written, r)
    /\ current' = {}
    /\ disturbed' = disturbed \cup Trampled(r, saw[r]) \cup Swallowed(saw[r], r)
    /\ UNCHANGED <<first, saw, post, taken, pistonVars, faults, performed>>

WriteMove(r) ==
    /\ r \in MoveRequests
    /\ pc[r] = "read"
    /\ pc' = [pc EXCEPT ![r] = "done"]
    /\ column' = QueueMove(saw[r], r, first[r])
    /\ written' = Append(written, r)
    /\ current' = {}
    /\ disturbed' = disturbed \cup Trampled(r, saw[r]) \cup Swallowed(saw[r], r)
                              \cup Range(first[r].lines)
    /\ UNCHANGED <<first, saw, post, taken, pistonVars, faults, performed>>

-----------------------------------------------------------------------------
(* piston.cgi answering the POST of the node *)

PostRead ==
    /\ phase = "idle"
    /\ post = "none"
    /\ phase' = "waiting"
    /\ post' = "taken"
    /\ taken' = column
    /\ current' = current \cup {Poll}
    /\ UNCHANGED <<column, webVars, todo, doing, bad, faults, performed, disturbed>>

\* Mutant of PostClear: the column keeps what is sent.
PostKeep ==
    /\ post = "taken"
    /\ post' = "cleared"
    /\ UNCHANGED <<column, webVars, taken, pistonVars, faults, current, performed, disturbed>>

PostClear ==
    /\ post = "taken"
    /\ post' = "cleared"
    /\ column' = Blank
    /\ current' = {}
    /\ disturbed' = disturbed \cup Trampled(Poll, taken)
    /\ UNCHANGED <<webVars, taken, pistonVars, faults, performed>>

\* The lines as they are sent.  The word that selects the command is split off the
\* whole text, not off the line at hand, so the first line decides for all: a node
\* command is repeated once per line, and behind any other first line a node
\* command is sent in a form movepiston does not know.
Commands(text) ==
    [i \in DOMAIN text.lines |->
        CASE text.lines[1] \in NodeRequests -> text.lines[1]
          [] text.lines[1] \notin NodeRequests /\ text.lines[i] \in NodeRequests -> Rejected
          [] OTHER -> text.lines[i]]

\* Lines that are sent as something else, and a command sent for other lines too.
Mistaken(text) ==
    {text.lines[i] : i \in {j \in DOMAIN text.lines : Commands(text)[j] # text.lines[j]}}
    \cup {text.lines[1] : i \in {j \in DOMAIN text.lines : j > 1 /\ text.lines[1] \in NodeRequests}}

Reply ==
    /\ post = "cleared"
    /\ phase = "waiting"
    /\ post' = "none"
    /\ phase' = "running"
    /\ todo' = Commands(taken)
    /\ taken' = Blank
    /\ disturbed' = disturbed \cup Mistaken(taken)
    /\ UNCHANGED <<column, webVars, doing, bad, faults, current, performed>>

\* Nobody waits for the answer any more: what was taken off the column is gone.
ReplyUnread ==
    /\ post = "cleared"
    /\ phase # "waiting"
    /\ post' = "none"
    /\ taken' = Blank
    /\ disturbed' = disturbed \cup Range(taken.lines)
    /\ UNCHANGED <<column, webVars, pistonVars, faults, current, performed>>

-----------------------------------------------------------------------------
(* movepiston *)

\* The POST fails or times out on the node; there are no lines in its content.
GiveUpWaiting ==
    /\ faults < MaxFaults
    /\ phase = "waiting"
    /\ phase' = "idle"
    /\ faults' = faults + 1
    /\ UNCHANGED <<column, webVars, post, taken, todo, doing, bad, current, performed,
                   disturbed>>

\* shift @lines, after which the remaining lines, if there are any, are saved.
TakeLine ==
    /\ phase \in {"running", "replaying"}
    /\ doing = <<>>
    /\ todo # <<>>
    /\ doing' = <<Head(todo)>>
    /\ todo' = Tail(todo)
    /\ bad' = IF Tail(todo) # <<>> THEN Tail(todo) ELSE bad
    /\ UNCHANGED <<column, webVars, post, taken, phase, faults, current, performed, disturbed>>

\* Mutant of Perform: a command nobody knows is carried out too.
PerformAny ==
    /\ doing # <<>>
    /\ doing' = <<>>
    /\ performed' = Append(performed, doing[1])
    /\ UNCHANGED <<column, webVars, post, taken, phase, todo, bad, faults, current, disturbed>>

Perform ==
    /\ doing # <<>>
    /\ doing' = <<>>
    /\ performed' = IF doing[1] = Rejected THEN performed ELSE Append(performed, doing[1])
    /\ UNCHANGED <<column, webVars, post, taken, phase, todo, bad, faults, current, disturbed>>

\* Mutant of Nap: one line of an answer is carried out, not all of them.
NapEarly ==
    /\ phase \in {"running", "replaying"}
    /\ doing = <<>>
    /\ todo' = <<>>
    /\ phase' = "idle"
    /\ UNCHANGED <<column, webVars, post, taken, doing, bad, faults, current, performed,
                   disturbed>>

\* The end of a batch; the batch read from badstrokes ends with its removal.
Nap ==
    /\ phase \in {"running", "replaying"}
    /\ doing = <<>>
    /\ todo = <<>>
    /\ phase' = "idle"
    /\ bad' = IF phase = "replaying" THEN <<>> ELSE bad
    /\ UNCHANGED <<column, webVars, post, taken, todo, doing, faults, current, performed,
                   disturbed>>

\* The daemon dies, or the host with it, which empties /tmp.
Crash ==
    /\ faults < MaxFaults
    /\ phase # "down"
    /\ phase' = "down"
    /\ doing' = <<>>
    /\ todo' = <<>>
    /\ bad' \in {bad, <<>>}
    /\ faults' = faults + 1
    /\ disturbed' = disturbed \cup
           (Requests \cap (Range(doing) \cup IF bad' = todo THEN {} ELSE Range(todo)))
    /\ UNCHANGED <<column, webVars, post, taken, current, performed>>

Restart ==
    /\ phase = "down"
    /\ phase' = IF bad # <<>> THEN "replaying" ELSE "idle"
    /\ todo' = bad
    /\ disturbed' = disturbed \cup (Range(bad) \cap Range(performed))
    /\ UNCHANGED <<column, webVars, post, taken, doing, bad, faults, current, performed>>

-----------------------------------------------------------------------------
Web(r) == CopyColumn(r) \/ ReadColumn(r) \/ WriteTask(r) \/ WriteMove(r)

Valve == PostClear \/ Reply \/ ReplyUnread

Piston == PostRead \/ TakeLine \/ Perform \/ Nap

Fault == GiveUpWaiting \/ Crash \/ Restart

Next == (\E r \in Requests : Web(r)) \/ Valve \/ Piston \/ Fault

Spec == Init /\ [][Next]_vars

\* The web server runs a request it accepted to its end and movepiston loops over
\* its steps; nothing makes a web user issue a request or a dead movepiston start
\* again.
FairSpec == Spec /\ WF_vars(Valve) /\ WF_vars(Piston)

-----------------------------------------------------------------------------
(* Properties *)

TypeOK ==
    /\ column \in Text
    /\ pc \in [Requests -> {"idle", "copied", "read", "done"}]
    /\ first \in [Requests -> Text]
    /\ saw \in [Requests -> Text]
    /\ post \in {"none", "taken", "cleared"}
    /\ taken \in Text
    /\ phase \in {"idle", "waiting", "running", "replaying", "down"}
    /\ todo \in Seq(Requests \cup {Rejected})
    /\ doing \in Seq(Requests \cup {Rejected})
    /\ bad \in Seq(Requests \cup {Rejected})
    /\ faults \in 0..MaxFaults
    /\ current \subseteq Requests \cup {Poll}
    /\ written \in Seq(Requests)
    /\ performed \in Seq(Requests)
    /\ disturbed \subseteq Requests

Regular(r) == r \notin disturbed

\* Where the lines are that movepiston still has to carry out.
Outstanding ==
    Range(column.lines)
    \cup (IF post = "cleared" THEN Range(taken.lines) ELSE {})
    \cup Range(doing) \cup Range(todo)
    \cup (IF phase = "down" THEN Range(bad) ELSE {})

\* Nothing is lost but by what the ghost names: a request whose append went through
\* is on the column, with piston.cgi, with movepiston or carried out, unless another
\* access came between its read and write, a line swallowed it, piston.cgi sent it
\* as something else, its answer went unread or movepiston died on it.
NothingLost ==
    \A r \in Requests :
        pc[r] = "done" /\ Regular(r) => r \in Outstanding \cup Range(performed)

\* Under the same conditions no line is carried out a second time.
NothingRepeated ==
    \A i, j \in DOMAIN performed :
        performed[i] = performed[j] /\ Regular(performed[i]) => i = j

\* Under the same conditions lines are carried out in the order they were written, with
\* none left out in between: destroy after start is never start after destroy.
InOrder ==
    \A b \in DOMAIN performed : Regular(performed[b]) =>
        \E j \in DOMAIN written :
            /\ written[j] = performed[b]
            /\ \A i \in 1..(j - 1) : Regular(written[i]) =>
                   \E a \in 1..(b - 1) : performed[a] = written[i]

\* A request that went through is carried out in the end, unless something irregular
\* happens to it or movepiston dies and nobody starts it.
Delivery ==
    \A r \in Requests :
        pc[r] = "done" ~> (r \in Range(performed) \/ ~Regular(r) \/ phase = "down")

\* "Check if this node has tasks, and send them to the node": the answer of piston.cgi
\* has the lines it took off the column, each as it was queued.
SentAsWritten == [][Reply => todo' = taken.lines]_vars

=============================================================================

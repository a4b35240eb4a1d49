---------------------------- MODULE NodeTasks_proofs ----------------------------
(***************************************************************************)
(* Theorems about the task mailbox, for every set of requests and every    *)
(* number of faults.  The inductive invariant says where the line of a     *)
(* regular request can be: in exactly one of the places it goes through;   *)
(* a second one, that these places follow the order of writing.            *)
(***************************************************************************)
EXTENDS NodeTasks, TaskSequences, TLAPS

-----------------------------------------------------------------------------
(* The operators of the mailbox *)

\* The shape of a column text, and what appending to it adds.
LEMMA QueueFacts ==
    ASSUME NEW text \in Text, NEW r \in Requests
    PROVE  /\ Queue(text, r) \in Text
           /\ ~text.open => Queue(text, r).lines = Append(text.lines, r)
           /\ text.open => Queue(text, r).lines = text.lines
<1>1. text.lines \in Seq(Requests)
  BY DEF Text
<1>2. Append(text.lines, r) \in Seq(Requests)
  BY <1>1, RangeAppend
<1> QED
  BY <1>1, <1>2 DEF Text, Queue

\* The same for a move, whose line may or may not be added, followed by the copy.
LEMMA QueueMoveFacts ==
    ASSUME NEW text \in Text, NEW r \in Requests, NEW copy \in Text
    PROVE  /\ QueueMove(text, r, copy) \in Text
           /\ QueueMove(text, r, copy).lines = Queue(text, r).lines \o copy.lines
<1>1. copy.lines \in Seq(Requests) /\ Queue(text, r).lines \in Seq(Requests)
  BY QueueFacts DEF Text
<1>2. Queue(text, r).lines \o copy.lines \in Seq(Requests)
  BY <1>1, RangeConcat
<1>3. QueueMove(text, r, copy).lines = Queue(text, r).lines \o copy.lines
  BY DEF Queue, QueueMove
<1>4. QueueMove(text, r, copy) = [lines |-> Queue(text, r).lines \o copy.lines, open |-> TRUE]
  BY DEF Queue, QueueMove
<1> QED
  BY <1>2, <1>3, <1>4 DEF Text

\* The commands sent for a text are lines of it, or rejected ones.
LEMMA CommandsType ==
    ASSUME NEW text \in Text
    PROVE  /\ Commands(text) \in Seq(Requests \cup {Rejected})
           /\ DOMAIN Commands(text) = DOMAIN text.lines
           /\ Range(Commands(text)) \subseteq Range(text.lines) \cup {Rejected}
<1>1. /\ text.lines \in Seq(Requests)
      /\ Len(text.lines) \in Nat
      /\ DOMAIN text.lines = 1..Len(text.lines)
  BY DEF Text
<1>2. DOMAIN Commands(text) = 1..Len(text.lines)
  BY <1>1 DEF Commands
<1>3. ASSUME NEW i \in 1..Len(text.lines)
      PROVE  Commands(text)[i] \in {text.lines[1], text.lines[i], Rejected}
  <2>1. Commands(text)[i] = CASE text.lines[1] \in NodeRequests -> text.lines[1]
          [] text.lines[1] \notin NodeRequests /\ text.lines[i] \in NodeRequests -> Rejected
          [] OTHER -> text.lines[i]
    BY <1>1, <1>3 DEF Commands
  <2> QED
    BY <2>1
<1>4. ASSUME NEW i \in 1..Len(text.lines)
      PROVE  text.lines[1] \in Range(text.lines) /\ text.lines[i] \in Range(text.lines)
  <2>1. 1 \in DOMAIN text.lines
    BY <1>1
  <2> QED
    BY <1>1, <2>1 DEF Range
<1>5. Range(text.lines) \subseteq Requests
  BY <1>1 DEF Range
<1>6. Range(Commands(text)) \subseteq Range(text.lines) \cup {Rejected}
  BY <1>2, <1>3, <1>4 DEF Range
<1>7. \A i \in 1..Len(text.lines) : Commands(text)[i] \in Requests \cup {Rejected}
  BY <1>3, <1>4, <1>5
<1>8. Commands(text) \in [1..Len(text.lines) -> Requests \cup {Rejected}]
  BY <1>2, <1>7 DEF Commands
<1>9. Commands(text) \in Seq(Requests \cup {Rejected})
  BY <1>1, <1>8
<1> QED
  BY <1>1, <1>2, <1>6, <1>9

-----------------------------------------------------------------------------
(* Types *)

LEMMA TypeInit == Init => TypeOK
  BY RequestsAssumption DEF Init, TypeOK, Text, Blank

LEMMA TypeStep == TypeOK /\ [Next]_vars => TypeOK'
<1> SUFFICES ASSUME TypeOK, [Next]_vars PROVE TypeOK'
  OBVIOUS
<1> USE RequestsAssumption DEF TypeOK
<1>0. Blank \in Text /\ \A text \in Text : Range(text.lines) \subseteq Requests
  BY DEF Text, Blank, Range
<1>1. ASSUME NEW r \in Requests, CopyColumn(r) PROVE TypeOK'
  BY <1>1 DEF CopyColumn, pistonVars
<1>2. ASSUME NEW r \in Requests, ReadColumn(r) PROVE TypeOK'
  BY <1>2 DEF ReadColumn, pistonVars
<1>3. ASSUME NEW r \in Requests, WriteTask(r) PROVE TypeOK'
  <2>1. Queue(saw[r], r) \in Text
    BY QueueFacts
  <2>2. disturbed' \subseteq Requests
    BY <1>0, <1>3 DEF WriteTask, Trampled, Swallowed
  <2>3. written' \in Seq(Requests)
    BY <1>3, RangeAppend DEF WriteTask
  <2> QED
    BY <1>3, <2>1, <2>2, <2>3 DEF WriteTask, pistonVars
<1>4. ASSUME NEW r \in Requests, WriteMove(r) PROVE TypeOK'
  <2>1. QueueMove(saw[r], r, first[r]) \in Text
    BY QueueMoveFacts
  <2>2. disturbed' \subseteq Requests
    <3>1. first[r] \in Text /\ saw[r] \in Text
      OBVIOUS
    <3> QED
      BY <1>0, <1>4, <3>1 DEF WriteMove, Trampled, Swallowed
  <2>3. written' \in Seq(Requests)
    BY <1>4, RangeAppend DEF WriteMove
  <2> QED
    BY <1>4, <2>1, <2>2, <2>3 DEF WriteMove, pistonVars
<1>5. CASE PostRead
  BY <1>5 DEF PostRead, webVars
<1>6. CASE PostClear
  <2>1. disturbed' \subseteq Requests
    BY <1>0, <1>6 DEF PostClear, Trampled
  <2> QED
    BY <1>0, <1>6, <2>1 DEF PostClear, webVars, pistonVars
<1>7. CASE Reply
  <2>1. Commands(taken) \in Seq(Requests \cup {Rejected})
    BY CommandsType
  <2>2. taken.lines \in Seq(Requests)
    BY DEF Text
  <2>3. Mistaken(taken) \subseteq Requests
    BY <2>2 DEF Mistaken
  <2> QED
    BY <1>0, <1>7, <2>1, <2>3 DEF Reply, webVars
<1>8. CASE ReplyUnread
  BY <1>0, <1>8 DEF ReplyUnread, webVars, pistonVars
<1>9. CASE GiveUpWaiting
  BY <1>9 DEF GiveUpWaiting, webVars
<1>10. CASE TakeLine
  <2>1. Tail(todo) \in Seq(Requests \cup {Rejected}) /\ Head(todo) \in Requests \cup {Rejected}
    BY <1>10, RangeTail DEF TakeLine
  <2>2. <<Head(todo)>> \in Seq(Requests \cup {Rejected})
    BY <2>1
  <2> QED
    BY <1>10, <2>1, <2>2 DEF TakeLine, webVars
<1>11. CASE Perform
  <2>1. doing[1] \in Requests \cup {Rejected}
    BY <1>11 DEF Perform
  <2>2. performed' \in Seq(Requests)
    BY <1>11, <2>1, RangeAppend DEF Perform
  <2> QED
    BY <1>11, <2>2 DEF Perform, webVars
<1>12. CASE Nap
  BY <1>12 DEF Nap, webVars
<1>13. CASE Crash
  <2>1. bad' \in Seq(Requests \cup {Rejected})
    <3>1. <<>> \in Seq(Requests \cup {Rejected}) /\ bad \in Seq(Requests \cup {Rejected})
      OBVIOUS
    <3>2. bad' = bad \/ bad' = <<>>
      BY <1>13 DEF Crash
    <3> QED
      BY ONLY <3>1, <3>2
  <2>2. faults' \in 0..MaxFaults
    BY <1>13 DEF Crash
  <2>3. disturbed' \subseteq Requests
    BY <1>13 DEF Crash
  <2>4. todo' = <<>> /\ doing' = <<>> /\ phase' = "down"
    BY <1>13 DEF Crash
  <2>5. UNCHANGED <<column, webVars, post, taken, current, performed>>
    BY <1>13 DEF Crash
  <2> QED
    BY <2>1, <2>2, <2>3, <2>4, <2>5 DEF webVars
<1>14. CASE Restart
  <2>1. Range(performed) \subseteq Requests
    BY DEF Range
  <2> QED
    BY <1>14, <2>1 DEF Restart, webVars
<1>15. CASE UNCHANGED vars
  BY <1>15 DEF vars, webVars, pistonVars
<1> QED
  BY <1>1, <1>2, <1>3, <1>4, <1>5, <1>6, <1>7, <1>8, <1>9, <1>10, <1>11, <1>12,
     <1>13, <1>14, <1>15 DEF Next, Web, Valve, Piston, Fault

\* Every variable keeps its type: in particular movepiston never executes anything
\* but a request or a line it rejects.
THEOREM TypeCorrect == Spec => []TypeOK
<1>1. Init => TypeOK
  BY TypeInit
<1>2. TypeOK /\ [Next]_vars => TypeOK'
  BY TypeStep
<1> QED
  BY <1>1, <1>2, PTL DEF Spec

-----------------------------------------------------------------------------
(* The inductive invariant *)

Clean == Requests \ disturbed

\* What piston.cgi took off the column and has not answered with.
Owed == IF post = "cleared" THEN taken.lines ELSE <<>>

\* A reader whose copy is not outdated holds what is in the column.
Copies ==
    /\ \A r \in Requests : r \in current => pc[r] = "read" /\ saw[r] = column
    /\ Poll \in current => post = "taken" /\ taken = column
    /\ post = "none" => taken = Blank

\* movepiston has lines in hand only while it works a batch, and one at a time.
Hands ==
    /\ phase \in {"idle", "waiting", "down"} => todo = <<>> /\ doing = <<>>
    /\ Len(doing) <= 1

\* A line is nowhere before its request has written it.
Unwritten(x) ==
    /\ x \notin Range(column.lines) \cup Range(taken.lines) \cup Range(doing)
                \cup Range(todo) \cup Range(bad) \cup Range(performed)
    /\ \A r \in Requests : x \notin Range(first[r].lines) /\ x \notin Range(saw[r].lines)

Written == \A x \in Requests : pc[x] # "done" => Unwritten(x)

\* A clean line is once in the place where it is ...
Single ==
    /\ Once(column.lines, Clean)
    /\ Once(taken.lines, Clean)
    /\ Once(todo, Clean)
    /\ Once(bad, Clean)
    /\ Once(performed, Clean)

\* ... and in one place only; badstrokes may still name lines that were carried out.
Separate ==
    /\ Apart(Range(column.lines), Range(Owed) \cup Range(doing) \cup Range(todo)
                                  \cup Range(bad) \cup Range(performed), Clean)
    /\ Apart(Range(Owed), Range(doing) \cup Range(todo) \cup Range(bad)
                          \cup Range(performed), Clean)
    /\ Apart(Range(doing), Range(todo) \cup Range(performed), Clean)
    /\ Apart(Range(todo), Range(performed), Clean)

IInv == TypeOK /\ Copies /\ Hands /\ Written /\ Single /\ Separate /\ NothingLost

\* The ranges the places have.
LEMMA Ranges ==
    ASSUME TypeOK
    PROVE  /\ Range(column.lines) \subseteq Requests
           /\ Range(taken.lines) \subseteq Requests
           /\ Range(Owed) \subseteq Range(taken.lines)
           /\ Range(performed) \subseteq Requests
           /\ Range(<<>>) = {}
           /\ \A r \in Requests : /\ Range(first[r].lines) \subseteq Requests
                                  /\ Range(saw[r].lines) \subseteq Requests
  BY DEF TypeOK, Text, Range, Owed

LEMMA IInvInit == Init => IInv
<1> SUFFICES ASSUME Init PROVE IInv
  OBVIOUS
<1>1. TypeOK
  BY TypeInit
<1>2. Range(<<>>) = {} /\ \A C : Once(<<>>, C)
  BY DEF Range, Once
<1>3. Copies /\ Hands
  BY RequestsAssumption DEF Init, Copies, Hands
<1>4. Written
  BY <1>2 DEF Init, Written, Unwritten, Blank
<1>5. Single
  BY <1>2 DEF Init, Single, Blank
<1>6. Separate
  BY <1>2 DEF Init, Separate, Apart, Blank, Owed
<1>7. NothingLost
  BY DEF Init, NothingLost
<1> QED
  BY <1>1, <1>3, <1>4, <1>5, <1>6, <1>7 DEF IInv

\* A request that copies the column moves no line.
LEMMA CopyColumnStep ==
    ASSUME IInv, NEW r \in Requests, CopyColumn(r)
    PROVE  IInv'
<1> USE DEF IInv, pistonVars
<1>1. TypeOK'
  BY TypeStep DEF Next, Web
<1>2. /\ pc[r] = "idle" /\ pc' = [pc EXCEPT ![r] = "copied"]
      /\ first' = [first EXCEPT ![r] = column]
      /\ UNCHANGED <<column, saw, post, taken, pistonVars, current, performed, disturbed>>
  BY DEF CopyColumn
<1>3. /\ \A x \in Requests : pc'[x] = "done" <=> pc[x] = "done"
      /\ \A x \in Requests : x # r => first'[x] = first[x]
      /\ first'[r] = column
  BY <1>2 DEF TypeOK
<1>4. Copies'
  BY <1>2 DEF Copies, TypeOK
<1>5. Hands' /\ Single' /\ Separate'
  BY <1>2 DEF Hands, Single, Separate, Owed, Clean
<1>6. Written'
  BY <1>2, <1>3 DEF Written, Unwritten
<1>7. NothingLost'
  BY <1>2, <1>3 DEF NothingLost, Outstanding, Regular
<1> QED
  BY <1>1, <1>4, <1>5, <1>6, <1>7

\* Nor does one that reads it to append to.
LEMMA ReadColumnStep ==
    ASSUME IInv, NEW r \in Requests, ReadColumn(r)
    PROVE  IInv'
<1> USE DEF IInv, pistonVars
<1>1. TypeOK'
  BY TypeStep DEF Next, Web
<1>2. /\ pc[r] # "done" /\ pc[r] # "read" /\ pc' = [pc EXCEPT ![r] = "read"]
      /\ saw' = [saw EXCEPT ![r] = column]
      /\ current' = current \cup {r}
      /\ UNCHANGED <<column, first, post, taken, pistonVars, performed, disturbed>>
  BY DEF ReadColumn
<1>3. /\ \A x \in Requests : pc'[x] = "done" <=> pc[x] = "done"
      /\ \A x \in Requests : x # r => saw'[x] = saw[x] /\ pc'[x] = pc[x]
      /\ saw'[r] = column /\ pc'[r] = "read"
  BY <1>2 DEF TypeOK
<1>4. Copies'
  BY <1>2, <1>3, RequestsAssumption DEF Copies
<1>5. Hands' /\ Single' /\ Separate'
  BY <1>2 DEF Hands, Single, Separate, Owed, Clean
<1>6. Written'
  BY <1>2, <1>3 DEF Written, Unwritten
<1>7. NothingLost'
  BY <1>2, <1>3 DEF NothingLost, Outstanding, Regular
<1> QED
  BY <1>1, <1>4, <1>5, <1>6, <1>7

\* What appending a line of its own gives, by a reader whose copy is outdated or not:
\* the line, the lines of the column if the copy is not outdated, and disturbed ones.
LEMMA AppendFacts ==
    ASSUME IInv, NEW r \in Requests, pc[r] = "read", NEW D,
           Trampled(r, saw[r]) \cup Swallowed(saw[r], r) \subseteq D
    PROVE  /\ r \notin D => r \in Range(Queue(saw[r], r).lines)
           /\ Range(Queue(saw[r], r).lines) \subseteq Range(saw[r].lines) \cup {r}
           /\ Range(Queue(saw[r], r).lines) \subseteq Range(column.lines) \cup {r} \cup D
           /\ Range(column.lines) \subseteq Range(Queue(saw[r], r).lines) \cup D
           /\ Once(Queue(saw[r], r).lines, Clean \ D)
<1> DEFINE q == Queue(saw[r], r).lines
<1>1. saw[r] \in Text /\ saw[r].lines \in Seq(Requests)
  BY DEF IInv, TypeOK, Text
<1>2. r \notin Range(saw[r].lines)
  BY DEF IInv, Written, Unwritten
<1>3. /\ ~saw[r].open => q = Append(saw[r].lines, r)
      /\ saw[r].open => q = saw[r].lines
      /\ saw[r].open => r \in D
  BY <1>1, QueueFacts DEF Swallowed
<1>4. ~saw[r].open => Range(q) = Range(saw[r].lines) \cup {r}
  <2>1. Range(Append(saw[r].lines, r)) = Range(saw[r].lines) \cup {r}
    BY <1>1, RangeAppend
  <2> QED
    BY <1>3, <2>1
<1>5. Once(saw[r].lines, Clean \ D)
  <2>1. CASE r \in current
    <3>1. saw[r] = column
      BY <2>1 DEF IInv, Copies
    <3> QED
      BY <3>1, OnceFewer DEF IInv, Single, Once
  <2>2. CASE r \notin current
    <3>1. Range(saw[r].lines) \subseteq D
      BY <2>2 DEF Trampled
    <3> QED
      BY <3>1 DEF Once, Range
  <2> QED
    BY <2>1, <2>2
<1>6. Once(q, Clean \ D)
  <2>1. Once(Append(saw[r].lines, r), Clean \ D)
    BY <1>1, <1>2, <1>5, OnceAppend
  <2> QED
    BY <1>3, <1>5, <2>1
<1>7. \/ r \in current /\ saw[r] = column
      \/ Range(saw[r].lines) \subseteq D /\ Range(column.lines) \subseteq D
  BY DEF IInv, Copies, Trampled
<1>8. \/ Range(q) = Range(saw[r].lines) \cup {r}
      \/ Range(q) = Range(saw[r].lines) /\ r \in D
  BY <1>3, <1>4
<1> QED
  BY <1>6, <1>7, <1>8

\* What a written line moves: the column has the new line, disturbed ones, and, if the
\* reader's copy was not outdated, what it had.
LEMMA Writes ==
    ASSUME IInv, NEW r \in Requests, pc[r] = "read", TypeOK',
           pc' = [pc EXCEPT ![r] = "done"],
           current' = {},
           disturbed \subseteq disturbed',
           Range(column'.lines) \subseteq Range(column.lines) \cup {r} \cup disturbed',
           Range(column'.lines) \subseteq Range(saw[r].lines) \cup Range(first[r].lines) \cup {r},
           Range(column.lines) \subseteq Range(column'.lines) \cup disturbed',
           r \notin disturbed' => r \in Range(column'.lines),
           Once(column'.lines, Clean'),
           UNCHANGED <<first, saw, post, taken, pistonVars, performed>>
    PROVE  IInv'
<1> USE DEF IInv, pistonVars
<1>1. /\ \A x \in Requests : x # r => pc'[x] = pc[x]
      /\ pc'[r] = "done"
  BY DEF TypeOK
<1>2. Unwritten(r) /\ Owed' = Owed /\ Clean' \subseteq Clean
  BY DEF Written, Owed, Clean
<1>3. Copies' /\ Hands'
  BY DEF Copies, Hands
<1>4. Written'
  <2>1. SUFFICES ASSUME NEW x \in Requests, pc'[x] # "done" PROVE Unwritten(x)'
    BY DEF Written
  <2>2. x # r /\ Unwritten(x)
    BY <1>1, <2>1 DEF Written
  <2>3. x \notin Range(column'.lines)
    BY <2>2 DEF Unwritten
  <2> QED
    BY <2>2, <2>3 DEF Unwritten
<1>5. Single'
  BY <1>2, OnceFewer DEF Single
<1>6. Separate'
  <2>1. /\ Range(column'.lines) \cap Clean' \subseteq (Range(column.lines) \cup {r}) \cap Clean
        /\ r \notin Range(Owed) \cup Range(doing) \cup Range(todo) \cup Range(bad)
                    \cup Range(performed)
    BY <1>2, Ranges DEF Clean, Unwritten
  <2> QED
    BY <1>2, <2>1 DEF Separate, Apart
<1>7. NothingLost'
  <2>1. SUFFICES ASSUME NEW x \in Requests, pc'[x] = "done", x \notin disturbed'
                 PROVE  x \in (Outstanding \cup Range(performed))'
    BY DEF NothingLost, Regular
  <2>2. CASE x = r
    BY <2>1, <2>2 DEF Outstanding
  <2>3. CASE x # r
    <3>1. x \in Outstanding \cup Range(performed)
      BY <1>1, <2>1, <2>3 DEF NothingLost, Regular
    <3> QED
      BY <2>1, <3>1 DEF Outstanding
  <2> QED
    BY <2>2, <2>3
<1> QED
  BY <1>3, <1>4, <1>5, <1>6, <1>7

LEMMA WriteTaskStep ==
    ASSUME IInv, NEW r \in Requests, WriteTask(r)
    PROVE  IInv'
<1>1. TypeOK'
  BY TypeStep DEF IInv, Next, Web
<1>2. /\ pc[r] = "read" /\ pc' = [pc EXCEPT ![r] = "done"]
      /\ column'.lines = Queue(saw[r], r).lines
      /\ current' = {}
      /\ disturbed' = disturbed \cup Trampled(r, saw[r]) \cup Swallowed(saw[r], r)
      /\ UNCHANGED <<first, saw, post, taken, pistonVars, performed>>
  BY DEF WriteTask
<1>3. Clean' = Clean \ disturbed'
  BY <1>2 DEF Clean
<1>4. /\ r \notin disturbed' => r \in Range(Queue(saw[r], r).lines)
      /\ Range(Queue(saw[r], r).lines) \subseteq Range(saw[r].lines) \cup {r}
      /\ Range(Queue(saw[r], r).lines) \subseteq Range(column.lines) \cup {r} \cup disturbed'
      /\ Range(column.lines) \subseteq Range(Queue(saw[r], r).lines) \cup disturbed'
      /\ Once(Queue(saw[r], r).lines, Clean \ disturbed')
  BY <1>2, AppendFacts
<1> QED
  BY <1>1, <1>2, <1>3, <1>4, Writes

\* A move puts behind its own line the lines it copied, which are disturbed by it.
LEMMA WriteMoveStep ==
    ASSUME IInv, NEW r \in Requests, WriteMove(r)
    PROVE  IInv'
<1>1. TypeOK'
  BY TypeStep DEF IInv, Next, Web
<1>2. /\ pc[r] = "read" /\ pc' = [pc EXCEPT ![r] = "done"]
      /\ column' = QueueMove(saw[r], r, first[r])
      /\ current' = {}
      /\ disturbed' = disturbed \cup Trampled(r, saw[r]) \cup Swallowed(saw[r], r)
                                \cup Range(first[r].lines)
      /\ UNCHANGED <<first, saw, post, taken, pistonVars, performed>>
  BY DEF WriteMove
<1>3. Clean' = Clean \ disturbed' /\ Range(first[r].lines) \subseteq disturbed'
  BY <1>2 DEF Clean
<1>4. saw[r] \in Text /\ first[r] \in Text
  BY DEF IInv, TypeOK
<1>5. Queue(saw[r], r).lines \in Seq(Requests) /\ first[r].lines \in Seq(Requests)
  BY <1>4, QueueFacts DEF Text
<1>6. column'.lines = Queue(saw[r], r).lines \o first[r].lines
  BY <1>2, <1>4, QueueMoveFacts
<1>7. Range(column'.lines) = Range(Queue(saw[r], r).lines) \cup Range(first[r].lines)
  BY <1>5, <1>6, RangeConcat
<1>8. /\ r \notin disturbed' => r \in Range(Queue(saw[r], r).lines)
      /\ Range(Queue(saw[r], r).lines) \subseteq Range(saw[r].lines) \cup {r}
      /\ Range(Queue(saw[r], r).lines) \subseteq Range(column.lines) \cup {r} \cup disturbed'
      /\ Range(column.lines) \subseteq Range(Queue(saw[r], r).lines) \cup disturbed'
      /\ Once(Queue(saw[r], r).lines, Clean \ disturbed')
  BY <1>2, AppendFacts
<1>9. Once(column'.lines, Clean')
  BY <1>3, <1>5, <1>6, <1>8, OnceConcat
<1> QED
  BY <1>1, <1>2, <1>3, <1>7, <1>8, <1>9, Writes

\* What was read off the column is not yet taken from it.
LEMMA PostReadStep ==
    ASSUME IInv, PostRead
    PROVE  IInv'
<1> USE DEF IInv
<1>1. TypeOK'
  BY TypeStep DEF Next, Piston
<1>2. /\ phase = "idle" /\ phase' = "waiting" /\ post = "none" /\ post' = "taken"
      /\ taken' = column /\ current' = current \cup {Poll}
      /\ UNCHANGED <<column, pc, first, saw, todo, doing, bad, performed, disturbed>>
  BY DEF PostRead, webVars
<1>3. Copies'
  BY <1>2, RequestsAssumption DEF Copies
<1>4. Hands'
  BY <1>2 DEF Hands
<1>5. Written'
  BY <1>2 DEF Written, Unwritten
<1>6. Single'
  BY <1>2 DEF Single, Clean
<1>7. Separate' /\ NothingLost'
  <2>1. Owed' = Owed /\ Clean' = Clean
    BY <1>2 DEF Owed, Clean
  <2>2. Separate'
    BY <1>2, <2>1 DEF Separate
  <2>3. Outstanding' = Outstanding
    BY <1>2 DEF Outstanding
  <2> QED
    BY <1>2, <2>2, <2>3 DEF NothingLost, Regular
<1> QED
  BY <1>1, <1>3, <1>4, <1>5, <1>6, <1>7

\* Clearing the column takes away what was read, or what it takes is disturbed.
LEMMA PostClearStep ==
    ASSUME IInv, PostClear
    PROVE  IInv'
<1> USE DEF IInv
<1>1. TypeOK'
  BY TypeStep DEF Next, Valve
<1>2. /\ post = "taken" /\ post' = "cleared" /\ column' = Blank /\ current' = {}
      /\ disturbed' = disturbed \cup Trampled(Poll, taken)
      /\ UNCHANGED <<pc, first, saw, taken, phase, todo, doing, bad, performed>>
  BY DEF PostClear, webVars, pistonVars
<1>3. \/ taken = column
      \/ Range(column.lines) \cup Range(taken.lines) \subseteq disturbed'
  BY <1>2 DEF Copies, Trampled
<1>4. /\ Clean' \subseteq Clean /\ Clean' = Requests \ disturbed'
      /\ Owed = <<>> /\ Owed' = taken.lines
      /\ Range(column'.lines) = {} /\ Once(column'.lines, Clean')
  BY <1>2 DEF Clean, Owed, Blank, Range, Once
<1>5. Copies' /\ Hands'
  BY <1>2 DEF Copies, Hands
<1>6. Written'
  BY <1>2, <1>4 DEF Written, Unwritten
<1>7. Single'
  BY <1>2, <1>4, OnceFewer DEF Single
<1>8. Separate'
  <2>1. Range(Owed') \cap Clean' \subseteq Range(column.lines) \cap Clean
    BY <1>3, <1>4
  <2> QED
    BY <1>2, <1>4, <2>1 DEF Separate, Apart
<1>9. NothingLost'
  <2>1. SUFFICES ASSUME NEW x \in Requests, pc'[x] = "done", x \notin disturbed'
                 PROVE  x \in (Outstanding \cup Range(performed))'
    BY DEF NothingLost, Regular
  <2>2. x \in Outstanding \cup Range(performed)
    BY <1>2, <2>1 DEF NothingLost, Regular
  <2>3. x \in Range(column.lines) => x \in Range(taken'.lines)
    BY <1>2, <1>3, <2>1
  <2> QED
    BY <1>2, <2>2, <2>3 DEF Outstanding
<1> QED
  BY <1>1, <1>5, <1>6, <1>7, <1>8, <1>9

\* Commands that are not mistaken are the lines they are sent for.
LEMMA CommandsFacts ==
    ASSUME NEW text \in Text, NEW C, C \subseteq Requests, C \cap Mistaken(text) = {}
    PROVE  /\ Range(Commands(text)) \cap C = Range(text.lines) \cap C
           /\ Once(text.lines, C) => Once(Commands(text), C)
<1> DEFINE q == Commands(text)
<1>1. /\ text.lines \in Seq(Requests)
      /\ DOMAIN text.lines = 1..Len(text.lines)
      /\ Len(text.lines) \in Nat
      /\ DOMAIN q = DOMAIN text.lines
  BY CommandsType DEF Text
<1>2. \A i \in DOMAIN text.lines : q[i] # text.lines[i] => text.lines[i] \notin C
  BY DEF Mistaken
<1>3. ASSUME NEW i \in DOMAIN text.lines, q[i] \in C
      PROVE  /\ q[i] = text.lines[i]
             /\ text.lines[1] \in NodeRequests =>
                    \A j \in DOMAIN text.lines : j = 1
  <2>1. \/ text.lines[1] \in NodeRequests /\ q[i] = text.lines[1]
        \/ text.lines[1] \notin NodeRequests /\ q[i] = Rejected
        \/ text.lines[1] \notin NodeRequests /\ q[i] = text.lines[i]
    BY <1>1, <1>3 DEF Commands
  <2>2. q[i] # Rejected
    BY <1>3, RequestsAssumption
  <2>3. ASSUME text.lines[1] \in NodeRequests, NEW j \in DOMAIN text.lines
        PROVE  j = 1
    <3>1. SUFFICES ASSUME j # 1 PROVE FALSE
      OBVIOUS
    <3>2. j > 1
      BY <1>1, <3>1
    <3>3. text.lines[1] \in Mistaken(text)
      BY <2>3, <3>2 DEF Mistaken
    <3> QED
      BY <1>3, <2>1, <2>3, <3>3
  <2> QED
    BY <2>1, <2>2, <2>3
<1>4. Range(q) \cap C \subseteq Range(text.lines)
  BY <1>1, <1>3 DEF Range
<1>5. Range(text.lines) \cap C \subseteq Range(q)
  BY <1>1, <1>2 DEF Range
<1>6. Once(text.lines, C) => Once(q, C)
  BY <1>1, <1>3 DEF Once
<1> QED
  BY <1>4, <1>5, <1>6

\* The answer hands what was taken to movepiston.
LEMMA ReplyStep ==
    ASSUME IInv, Reply
    PROVE  IInv'
<1> USE DEF IInv
<1>1. TypeOK'
  BY TypeStep DEF Next, Valve
<1>2. /\ post = "cleared" /\ phase = "waiting" /\ post' = "none" /\ phase' = "running"
      /\ todo' = Commands(taken) /\ taken' = Blank
      /\ disturbed' = disturbed \cup Mistaken(taken)
      /\ UNCHANGED <<column, pc, first, saw, doing, bad, current, performed>>
  BY DEF Reply, webVars
<1>3. /\ Clean' \subseteq Clean /\ Clean' = Requests \ disturbed'
      /\ Owed = taken.lines /\ Owed' = <<>>
      /\ Range(taken'.lines) = {} /\ Once(taken'.lines, Clean')
      /\ Range(<<>>) = {} /\ todo = <<>> /\ doing = <<>>
  BY <1>2 DEF Clean, Owed, Blank, Range, Once, Hands
<1>4. /\ Range(todo') \cap Clean' = Range(taken.lines) \cap Clean'
      /\ Once(taken.lines, Clean') => Once(todo', Clean')
  BY <1>2, <1>3, CommandsFacts DEF TypeOK
<1>5. Copies'
  BY <1>2 DEF Copies
<1>6. Hands'
  BY <1>2 DEF Hands
<1>7. Written'
  <2>1. Range(todo') \subseteq Range(taken.lines) \cup {Rejected}
    BY <1>2, CommandsType DEF TypeOK
  <2>2. \A x \in Requests : x \notin Range(taken.lines) => x \notin Range(todo')
    BY <2>1, RequestsAssumption
  <2> QED
    BY <1>2, <1>3, <2>2 DEF Written, Unwritten
<1>8. Single'
  BY <1>2, <1>3, <1>4, OnceFewer DEF Single
<1>9. Separate'
  BY <1>2, <1>3, <1>4 DEF Separate, Apart
<1>10. NothingLost'
  <2>1. SUFFICES ASSUME NEW x \in Requests, pc'[x] = "done", x \notin disturbed'
                 PROVE  x \in (Outstanding \cup Range(performed))'
    BY DEF NothingLost, Regular
  <2>2. x \in Outstanding \cup Range(performed)
    BY <1>2, <2>1 DEF NothingLost, Regular
  <2>3. x \in Range(taken.lines) => x \in Range(todo')
    BY <1>3, <1>4, <2>1
  <2> QED
    BY <1>2, <1>3, <2>2, <2>3 DEF Outstanding
<1> QED
  BY <1>1, <1>5, <1>6, <1>7, <1>8, <1>9, <1>10

LEMMA ReplyUnreadStep ==
    ASSUME IInv, ReplyUnread
    PROVE  IInv'
<1> USE DEF IInv
<1>1. TypeOK'
  BY TypeStep DEF Next, Valve
<1>2. /\ post = "cleared" /\ post' = "none" /\ taken' = Blank
      /\ disturbed' = disturbed \cup Range(taken.lines)
      /\ UNCHANGED <<column, pc, first, saw, phase, todo, doing, bad, current, performed>>
  BY DEF ReplyUnread, webVars, pistonVars
<1>3. /\ Clean' \subseteq Clean
      /\ Owed' = <<>> /\ Range(<<>>) = {}
      /\ Range(taken'.lines) = {} /\ Once(taken'.lines, Clean')
  BY <1>2 DEF Clean, Owed, Blank, Range, Once
<1>4. Copies'
  BY <1>2 DEF Copies
<1>5. Hands'
  BY <1>2 DEF Hands
<1>6. Written'
  BY <1>2, <1>3 DEF Written, Unwritten
<1>7. Single'
  BY <1>2, <1>3, OnceFewer DEF Single
<1>8. Separate'
  BY <1>2, <1>3 DEF Separate, Apart
<1>9. NothingLost'
  BY <1>2 DEF NothingLost, Outstanding, Regular
<1> QED
  BY <1>1, <1>4, <1>5, <1>6, <1>7, <1>8, <1>9

LEMMA GiveUpWaitingStep ==
    ASSUME IInv, GiveUpWaiting
    PROVE  IInv'
<1> USE DEF IInv
<1>1. TypeOK'
  BY TypeStep DEF Next, Fault
<1>2. /\ phase = "waiting" /\ phase' = "idle"
      /\ UNCHANGED <<column, pc, first, saw, post, taken, todo, doing, bad, current,
                     performed, disturbed>>
  BY DEF GiveUpWaiting, webVars
<1>3. Copies' /\ Hands' /\ Written' /\ Single' /\ Separate'
  BY <1>2 DEF Copies, Hands, Written, Unwritten, Single, Separate, Owed, Clean
<1>4. NothingLost'
  BY <1>2 DEF NothingLost, Outstanding, Regular
<1> QED
  BY <1>1, <1>3, <1>4

\* The line in hand is one of those that were left of the batch.
LEMMA TakeLineStep ==
    ASSUME IInv, TakeLine
    PROVE  IInv'
<1> USE DEF IInv
<1>1. TypeOK'
  BY TypeStep DEF Next, Piston
<1>2. /\ phase \in {"running", "replaying"} /\ doing = <<>> /\ todo # <<>>
      /\ doing' = <<Head(todo)>> /\ todo' = Tail(todo)
      /\ bad' = Tail(todo) \/ bad' = bad
      /\ UNCHANGED <<column, pc, first, saw, post, taken, phase, current, performed, disturbed>>
  BY DEF TakeLine, webVars
<1>3. /\ Range(todo) = {Head(todo)} \cup Range(Tail(todo))
      /\ Once(todo, Clean) => /\ Once(Tail(todo), Clean)
                              /\ Head(todo) \in Clean => Head(todo) \notin Range(Tail(todo))
  BY <1>2, RangeTail, OnceTail DEF TypeOK
<1>4. /\ Range(doing) = {} /\ Range(doing') = {Head(todo)} /\ Len(doing') <= 1
      /\ Clean' = Clean /\ Owed' = Owed
  BY <1>2 DEF Range, Clean, Owed
<1>5. Range(bad') = Range(Tail(todo)) \/ Range(bad') = Range(bad)
  BY <1>2
<1>6. Copies'
  BY <1>2 DEF Copies
<1>7. Hands'
  BY <1>2, <1>4 DEF Hands
<1>8. Written'
  BY <1>2, <1>3, <1>4, <1>5 DEF Written, Unwritten
<1>9. Single'
  BY <1>2, <1>3, <1>4 DEF Single
<1>10. Separate'
  BY <1>2, <1>3, <1>4, <1>5 DEF Separate, Apart, Single
<1>11. NothingLost'
  <2>1. Outstanding \subseteq Outstanding'
    BY <1>2, <1>3, <1>4 DEF Outstanding
  <2> QED
    BY <1>2, <2>1 DEF NothingLost, Regular
<1> QED
  BY <1>1, <1>6, <1>7, <1>8, <1>9, <1>10, <1>11

LEMMA PerformStep ==
    ASSUME IInv, Perform
    PROVE  IInv'
<1> USE DEF IInv
<1>1. TypeOK'
  BY TypeStep DEF Next, Piston
<1>2. /\ doing # <<>> /\ doing' = <<>>
      /\ performed' = IF doing[1] = Rejected THEN performed ELSE Append(performed, doing[1])
      /\ UNCHANGED <<column, pc, first, saw, post, taken, phase, todo, bad, current, disturbed>>
  BY DEF Perform, webVars
<1>3. /\ Range(doing) = {doing[1]} /\ doing[1] \in Requests \cup {Rejected}
      /\ Range(doing') = {} /\ Clean' = Clean /\ Owed' = Owed
  BY <1>2 DEF Range, Clean, Owed, Hands, TypeOK
<1>4. \/ doing[1] = Rejected /\ performed' = performed
      \/ /\ doing[1] \in Requests
         /\ performed' = Append(performed, doing[1])
         /\ Range(performed') = Range(performed) \cup {doing[1]}
  BY <1>2, <1>3, RangeAppend DEF TypeOK
<1>5. Range(doing) \cap Clean \subseteq Range(performed')
  BY <1>3, <1>4, RequestsAssumption DEF Clean
<1>6. Copies' /\ Hands'
  BY <1>2 DEF Copies, Hands
<1>7. Written'
  BY <1>2, <1>3, <1>4 DEF Written, Unwritten
<1>8. Single'
  <2>1. Once(performed', Clean)
    <3>1. doing[1] \in Clean => doing[1] \notin Range(performed)
      BY <1>3 DEF Separate, Apart
    <3>2. performed \in Seq(Requests)
      BY DEF TypeOK
    <3> QED
      BY <1>4, <3>1, <3>2, OnceAppend DEF Single
  <2> QED
    BY <1>2, <1>3, <2>1 DEF Single
<1>9. Separate'
  <2>1. Range(performed') \subseteq Range(performed) \cup Range(doing)
    BY <1>3, <1>4
  <2> QED
    BY <1>2, <1>3, <2>1 DEF Separate, Apart
<1>10. NothingLost'
  <2>1. (Outstanding \cup Range(performed)) \cap Clean
            \subseteq Outstanding' \cup Range(performed')
    BY <1>2, <1>4, <1>5 DEF Outstanding
  <2> QED
    BY <1>2, <2>1 DEF NothingLost, Regular, Clean
<1> QED
  BY <1>1, <1>6, <1>7, <1>8, <1>9, <1>10

LEMMA NapStep ==
    ASSUME IInv, Nap
    PROVE  IInv'
<1> USE DEF IInv
<1>1. TypeOK'
  BY TypeStep DEF Next, Piston
<1>2. /\ phase \in {"running", "replaying"} /\ doing = <<>> /\ todo = <<>> /\ phase' = "idle"
      /\ bad' = bad \/ bad' = <<>>
      /\ UNCHANGED <<column, pc, first, saw, post, taken, todo, doing, current, performed,
                     disturbed>>
  BY DEF Nap, webVars
<1>3. /\ Range(bad') \subseteq Range(bad) /\ Once(bad', Clean)
      /\ Clean' = Clean /\ Owed' = Owed
  BY <1>2 DEF Range, Once, Clean, Owed, Single
<1>4. Copies' /\ Hands'
  BY <1>2 DEF Copies, Hands
<1>5. Written'
  BY <1>2, <1>3 DEF Written, Unwritten
<1>6. Single' /\ Separate'
  BY <1>2, <1>3 DEF Single, Separate, Apart
<1>7. NothingLost'
  BY <1>2 DEF NothingLost, Outstanding, Regular
<1> QED
  BY <1>1, <1>4, <1>5, <1>6, <1>7

\* A crash disturbs the line in hand and the lines that are not in badstrokes.
LEMMA CrashStep ==
    ASSUME IInv, Crash
    PROVE  IInv'
<1> USE DEF IInv
<1>1. TypeOK'
  BY TypeStep DEF Next, Fault
<1>2. /\ phase # "down" /\ phase' = "down" /\ doing' = <<>> /\ todo' = <<>>
      /\ bad' = bad \/ bad' = <<>>
      /\ disturbed' = disturbed \cup
            (Requests \cap (Range(doing) \cup IF bad' = todo THEN {} ELSE Range(todo)))
      /\ UNCHANGED <<column, pc, first, saw, post, taken, current, performed>>
  BY DEF Crash, webVars
<1>3. /\ Range(<<>>) = {} /\ \A C : Once(<<>>, C)
      /\ Range(bad') \subseteq Range(bad)
      /\ Owed' = Owed /\ Clean' \subseteq Clean
  BY <1>2 DEF Range, Once, Owed, Clean
<1>4. Copies' /\ Hands'
  BY <1>2 DEF Copies, Hands
<1>5. Written'
  BY <1>2, <1>3 DEF Written, Unwritten
<1>6. Single'
  BY <1>2, <1>3, OnceFewer DEF Single
<1>7. Separate'
  BY <1>2, <1>3 DEF Separate, Apart
<1>8. NothingLost'
  <2>1. SUFFICES ASSUME NEW x \in Requests, pc'[x] = "done", x \notin disturbed'
                 PROVE  x \in (Outstanding \cup Range(performed))'
    BY DEF NothingLost, Regular
  <2>2. x \in Outstanding \cup Range(performed)
    BY <1>2, <2>1 DEF NothingLost, Regular
  <2>3. x \notin Range(doing) /\ (x \in Range(todo) => bad' = todo)
    BY <1>2, <2>1
  <2>4. x \in Range(todo) => x \in Range(bad')
    BY <2>3
  <2> QED
    BY <1>2, <2>2, <2>3, <2>4 DEF Outstanding
<1> QED
  BY <1>1, <1>4, <1>5, <1>6, <1>7, <1>8

\* What is executed again is apart from what was carried out, but for disturbed lines.
LEMMA RestartStep ==
    ASSUME IInv, Restart
    PROVE  IInv'
<1> USE DEF IInv
<1>1. TypeOK'
  BY TypeStep DEF Next, Fault
<1>2. /\ phase = "down" /\ phase' \in {"replaying", "idle"}
      /\ phase' = "idle" => bad = <<>>
      /\ todo' = bad
      /\ disturbed' = disturbed \cup (Range(bad) \cap Range(performed))
      /\ UNCHANGED <<column, pc, first, saw, post, taken, doing, bad, current, performed>>
  BY DEF Restart, webVars
<1>3. /\ todo = <<>> /\ doing = <<>> /\ Range(<<>>) = {}
      /\ Owed' = Owed /\ Clean' \subseteq Clean /\ Clean' = Requests \ disturbed'
  BY <1>2 DEF Hands, Range, Owed, Clean
<1>4. Copies' /\ Hands'
  BY <1>2, <1>3 DEF Copies, Hands
<1>5. Written'
  BY <1>2 DEF Written, Unwritten
<1>6. Single'
  BY <1>2, <1>3, OnceFewer DEF Single
<1>7. Separate'
  <2>1. Apart(Range(bad), Range(performed), Clean')
    BY <1>2, <1>3 DEF Apart
  <2> QED
    BY <1>2, <1>3, <2>1 DEF Separate, Apart
<1>8. NothingLost'
  <2>1. Outstanding' = Outstanding
    BY <1>2, <1>3 DEF Outstanding
  <2> QED
    BY <1>2, <2>1 DEF NothingLost, Regular
<1> QED
  BY <1>1, <1>4, <1>5, <1>6, <1>7, <1>8

LEMMA IInvStep == IInv /\ [Next]_vars => IInv'
<1> SUFFICES ASSUME IInv, [Next]_vars PROVE IInv'
  OBVIOUS
<1>1. CASE \E r \in Requests : Web(r)
  BY <1>1, CopyColumnStep, ReadColumnStep, WriteTaskStep, WriteMoveStep DEF Web
<1>2. CASE Valve
  BY <1>2, PostClearStep, ReplyStep, ReplyUnreadStep DEF Valve
<1>3. CASE Piston
  BY <1>3, PostReadStep, TakeLineStep, PerformStep, NapStep DEF Piston
<1>4. CASE Fault
  BY <1>4, GiveUpWaitingStep, CrashStep, RestartStep DEF Fault
<1>5. CASE UNCHANGED vars
  <2>1. TypeOK'
    BY <1>5, TypeStep DEF IInv
  <2>2. Copies' /\ Hands' /\ Written' /\ Single' /\ Separate'
    BY <1>5 DEF IInv, vars, webVars, pistonVars, Copies, Hands, Written, Unwritten, Single,
                Separate, Owed, Clean
  <2>3. NothingLost'
    BY <1>5 DEF IInv, vars, webVars, pistonVars, NothingLost, Outstanding, Regular
  <2> QED
    BY <2>1, <2>2, <2>3 DEF IInv
<1> QED
  BY <1>1, <1>2, <1>3, <1>4, <1>5 DEF Next

LEMMA IInvCorrect == Spec => []IInv
<1>1. Init => IInv
  BY IInvInit
<1>2. IInv /\ [Next]_vars => IInv'
  BY IInvStep
<1> QED
  BY <1>1, <1>2, PTL DEF Spec

\* A request whose append went through is not lost, unless the ghost variable names it.
THEOREM NothingIsLost == Spec => []NothingLost
<1>1. IInv => NothingLost
  BY DEF IInv
<1> QED
  BY <1>1, IInvCorrect, PTL

\* And its line is not carried out a second time, whatever is replayed after a crash.
THEOREM NothingIsRepeated == Spec => []NothingRepeated
<1>1. IInv => NothingRepeated
  <2>1. SUFFICES ASSUME IInv, NEW i \in DOMAIN performed, NEW j \in DOMAIN performed,
                        performed[i] = performed[j], Regular(performed[i])
                 PROVE  i = j
    BY DEF NothingRepeated
  <2>2. performed[i] \in Requests
    BY <2>1 DEF IInv, TypeOK
  <2> QED
    BY <2>1, <2>2 DEF IInv, Single, Once, Clean, Regular
<1> QED
  BY <1>1, IInvCorrect, PTL

-----------------------------------------------------------------------------
(* Order *)

\* The pairs of requests of which the first was written before the second.
Before ==
    {p \in Requests \X Requests :
        \E i, j \in DOMAIN written : i < j /\ p = <<written[i], written[j]>>}

\* Written once, and just by the requests that went through.
History ==
    /\ Once(written, Requests)
    /\ Range(written) = {r \in Requests : pc[r] = "done"}

\* What movepiston has kept of a batch: after a crash, what it did not carry out.
Left == IF phase = "down" THEN Range(bad) \ Range(performed) ELSE Range(todo)

\* Every place holds its clean lines in the order they were written ...
InLine ==
    /\ Sorted(column.lines, Clean, Before)
    /\ Sorted(taken.lines, Clean, Before)
    /\ Sorted(todo, Clean, Before)
    /\ Sorted(bad, Clean, Before)
    /\ Sorted(performed, Clean, Before)

\* ... and none has a line written before one in a place further on.
Behind ==
    /\ Ahead(Range(performed), Range(doing) \cup Left \cup Range(Owed) \cup Range(column.lines),
             Clean, Before)
    /\ Ahead(Range(doing), Left \cup Range(Owed) \cup Range(column.lines), Clean, Before)
    /\ Ahead(Left, Range(Owed) \cup Range(column.lines), Clean, Before)
    /\ Ahead(Range(Owed), Range(column.lines), Clean, Before)

\* badstrokes has lines of the batch at hand, or lines that were carried out.
Saved ==
    phase # "down" =>
        Range(bad) \cap Clean \subseteq Range(todo) \cup Range(doing) \cup Range(performed)

Order == History /\ InLine /\ Behind /\ Saved

LEMMA OrderInit == Init => Order
<1> SUFFICES ASSUME Init PROVE Order
  OBVIOUS
<1>1. Range(<<>>) = {} /\ \A C, R : Sorted(<<>>, C, R) /\ Once(<<>>, C)
  BY DEF Range, Sorted, Once
<1>2. History
  BY <1>1 DEF Init, History
<1>3. InLine /\ Saved
  BY <1>1 DEF Init, InLine, Saved, Blank
<1>4. Behind
  BY <1>1 DEF Init, Behind, Ahead, Blank, Owed, Left
<1> QED
  BY <1>2, <1>3, <1>4 DEF Order

\* A step that writes no line leaves the order as it is.
LEMMA NothingWritten ==
    ASSUME Order, written' = written,
           \A x \in Requests : pc'[x] = "done" <=> pc[x] = "done"
    PROVE  Before' = Before /\ History'
  BY DEF Order, Before, History

LEMMA ReadingOrder ==
    ASSUME IInv, Order, NEW r \in Requests, CopyColumn(r) \/ ReadColumn(r)
    PROVE  Order'
<1>1. /\ \A x \in Requests : pc'[x] = "done" <=> pc[x] = "done"
      /\ UNCHANGED <<column, taken, post, phase, todo, doing, bad, written, performed, disturbed>>
  <2>1. CASE CopyColumn(r)
    BY <2>1 DEF CopyColumn, pistonVars, IInv, TypeOK
  <2>2. CASE ReadColumn(r)
    BY <2>2 DEF ReadColumn, pistonVars, IInv, TypeOK
  <2> QED
    BY <2>1, <2>2
<1>2. Before' = Before /\ History'
  BY <1>1, NothingWritten
<1>3. Owed' = Owed /\ Left' = Left /\ Clean' = Clean
  BY <1>1 DEF Owed, Left, Clean
<1>4. InLine' /\ Behind' /\ Saved'
  BY <1>1, <1>2, <1>3 DEF Order, InLine, Behind, Saved
<1> QED
  BY <1>2, <1>4 DEF Order

\* What a line written last adds to the order.
LEMMA BeforeLast ==
    ASSUME IInv, Order, NEW r \in Requests, pc[r] # "done",
           pc' = [pc EXCEPT ![r] = "done"], written' = Append(written, r)
    PROVE  /\ History'
           /\ \A x : <<r, x>> \notin Before'
           /\ \A x, y : y # r /\ <<x, y>> \in Before' => <<x, y>> \in Before
<1>1. /\ written \in Seq(Requests)
      /\ r \notin Range(written)
      /\ \A x \in Requests : pc'[x] = "done" <=> pc[x] = "done" \/ x = r
  BY DEF IInv, TypeOK, Order, History
<1>2. Once(written', Requests) /\ Range(written') = Range(written) \cup {r}
  BY <1>1, OnceAppend, RangeAppend DEF Order, History
<1>3. History'
  BY <1>1, <1>2 DEF Order, History
<1>4. /\ DOMAIN written' = 1..(Len(written) + 1)
      /\ \A i \in 1..Len(written) : written'[i] = written[i] /\ written[i] # r
      /\ written'[Len(written) + 1] = r
      /\ DOMAIN written = 1..Len(written)
      /\ Len(written) \in Nat
  BY <1>1 DEF Range
<1>5. ASSUME NEW x, NEW y, <<x, y>> \in Before'
      PROVE  x # r /\ (y # r => <<x, y>> \in Before)
  <2>1. PICK i \in DOMAIN written', j \in DOMAIN written' :
            i < j /\ <<x, y>> = <<written'[i], written'[j]>>
    BY <1>5 DEF Before
  <2>2. i \in 1..Len(written) /\ x = written'[i] /\ y = written'[j]
    BY <1>4, <2>1
  <2>3. y # r => j \in 1..Len(written)
    BY <1>4, <2>1, <2>2
  <2>4. <<x, y>> \in Requests \X Requests
    BY <1>5 DEF Before
  <2> QED
    BY <1>4, <2>1, <2>2, <2>3, <2>4 DEF Before
<1> QED
  BY <1>3, <1>5

\* A line is written behind all that were written before.
LEMMA WritesInOrder ==
    ASSUME IInv, IInv', Order, NEW r \in Requests, pc[r] = "read",
           pc' = [pc EXCEPT ![r] = "done"], written' = Append(written, r),
           disturbed \subseteq disturbed',
           Range(column'.lines) \subseteq Range(column.lines) \cup {r} \cup disturbed',
           Sorted(column'.lines, Clean', Before'),
           UNCHANGED <<post, taken, pistonVars, performed>>
    PROVE  Order'
<1> USE DEF pistonVars
<1>1. /\ History'
      /\ \A x : <<r, x>> \notin Before'
      /\ \A x, y : y # r /\ <<x, y>> \in Before' => <<x, y>> \in Before
  BY BeforeLast
<1>2. /\ Unwritten(r) /\ Clean' \subseteq Clean /\ Clean' = Requests \ disturbed'
      /\ Owed' = Owed /\ Left' = Left
      /\ Range(Owed) \subseteq Range(taken.lines)
  BY DEF IInv, Written, Clean, Owed, Left, Range
<1>3. r \notin Range(taken.lines) \cup Range(doing) \cup Range(todo) \cup Range(bad)
             \cup Range(performed)
  BY <1>2 DEF Unwritten
<1>4. InLine'
  <2>1. /\ Sorted(taken.lines, Clean', Before') /\ Sorted(todo, Clean', Before')
        /\ Sorted(bad, Clean', Before') /\ Sorted(performed, Clean', Before')
    BY <1>1, <1>2, <1>3, SortedFewer DEF Order, InLine
  <2> QED
    BY <2>1 DEF InLine
<1>5. ASSUME NEW A, NEW B, r \notin A, Ahead(A, B \cup Range(column.lines), Clean, Before)
      PROVE  Ahead(A, B \cup Range(column'.lines), Clean', Before')
  <2>1. SUFFICES ASSUME NEW y \in A \cap Clean',
                        NEW x \in (B \cup Range(column'.lines)) \cap Clean',
                        <<x, y>> \in Before'
                 PROVE  FALSE
    BY DEF Ahead
  <2>2. <<x, y>> \in Before /\ x # r
    BY <1>1, <1>5, <2>1
  <2>3. x \in B \cup Range(column.lines)
    BY <1>2, <2>1, <2>2
  <2> QED
    BY <1>2, <1>5, <2>1, <2>2, <2>3 DEF Ahead
<1>6. Behind'
  <2>1. r \notin Left
    BY <1>3 DEF Left
  <2>2. Ahead({} \cup Range(Owed), {} \cup Range(column.lines), Clean, Before)
    BY DEF Order, Behind, Ahead
  <2>3. Ahead(Range(Owed), {} \cup Range(column'.lines), Clean', Before')
    BY <1>2, <1>3, <1>5, <2>2
  <2>4. /\ Ahead(Range(performed), (Range(doing) \cup Left \cup Range(Owed))
                                   \cup Range(column'.lines), Clean', Before')
        /\ Ahead(Range(doing), (Left \cup Range(Owed)) \cup Range(column'.lines), Clean', Before')
        /\ Ahead(Left, Range(Owed) \cup Range(column'.lines), Clean', Before')
    BY <1>3, <1>5, <2>1 DEF Order, Behind
  <2> QED
    BY <1>2, <2>3, <2>4 DEF Behind, Ahead
<1>7. Saved'
  BY <1>2 DEF Order, Saved
<1> QED
  BY <1>1, <1>4, <1>6, <1>7 DEF Order

\* A line behind those the reader saw, or in the open one.
LEMMA QueueInOrder ==
    ASSUME IInv, Order, NEW r \in Requests, pc[r] = "read",
           pc' = [pc EXCEPT ![r] = "done"], written' = Append(written, r),
           disturbed' \subseteq Requests, disturbed \subseteq disturbed',
           Trampled(r, saw[r]) \subseteq disturbed'
    PROVE  Sorted(Queue(saw[r], r).lines, Clean', Before')
<1>1. saw[r] \in Text /\ saw[r].lines \in Seq(Requests)
  BY DEF IInv, TypeOK, Text
<1>2. /\ \A x : <<r, x>> \notin Before'
      /\ \A x, y : y # r /\ <<x, y>> \in Before' => <<x, y>> \in Before
  BY BeforeLast
<1>3. /\ r \notin Range(saw[r].lines)
      /\ Clean' \subseteq Clean /\ Clean' = Requests \ disturbed'
  BY DEF IInv, Written, Unwritten, Clean
<1>4. Sorted(saw[r].lines, Clean', Before')
  <2>1. CASE r \in current
    <3>1. saw[r] = column
      BY <2>1 DEF IInv, Copies
    <3>2. Sorted(saw[r].lines, Clean, Before)
      BY <3>1 DEF Order, InLine
    <3> QED
      BY <1>2, <1>3, <3>2, SortedFewer
  <2>2. CASE r \notin current
    <3>1. Range(saw[r].lines) \subseteq disturbed'
      BY <2>2 DEF Trampled
    <3> QED
      BY <1>3, <3>1 DEF Sorted, Range
  <2> QED
    BY <2>1, <2>2
<1>5. Ahead(Range(saw[r].lines), {r}, Clean', Before')
  BY <1>2 DEF Ahead
<1>6. Sorted(Append(saw[r].lines, r), Clean', Before')
  BY <1>1, <1>4, <1>5, SortedAppend
<1> QED
  BY <1>1, <1>4, <1>6, QueueFacts

LEMMA WriteTaskOrder ==
    ASSUME IInv, IInv', Order, NEW r \in Requests, WriteTask(r)
    PROVE  Order'
<1>1. /\ pc[r] = "read" /\ pc' = [pc EXCEPT ![r] = "done"]
      /\ written' = Append(written, r)
      /\ column'.lines = Queue(saw[r], r).lines
      /\ disturbed' = disturbed \cup Trampled(r, saw[r]) \cup Swallowed(saw[r], r)
      /\ UNCHANGED <<post, taken, pistonVars, performed>>
  BY DEF WriteTask
<1>2. Range(column'.lines) \subseteq Range(column.lines) \cup {r} \cup disturbed'
  <2>1. Range(Queue(saw[r], r).lines) \subseteq Range(column.lines) \cup {r} \cup disturbed'
    <3>1. Trampled(r, saw[r]) \cup Swallowed(saw[r], r) \subseteq disturbed'
      BY <1>1
    <3>2. pc[r] = "read"
      BY <1>1
    <3> QED
      BY <3>1, <3>2, AppendFacts, Zenon
  <2> QED
    BY <1>1, <2>1
<1>3. disturbed' \subseteq Requests
  BY DEF IInv, TypeOK
<1>4. Sorted(column'.lines, Clean', Before')
  BY <1>1, <1>3, QueueInOrder
<1> QED
  BY <1>1, <1>2, <1>4, WritesInOrder

LEMMA WriteMoveOrder ==
    ASSUME IInv, IInv', Order, NEW r \in Requests, WriteMove(r)
    PROVE  Order'
<1>1. /\ pc[r] = "read" /\ pc' = [pc EXCEPT ![r] = "done"]
      /\ written' = Append(written, r)
      /\ column' = QueueMove(saw[r], r, first[r])
      /\ disturbed' = disturbed \cup Trampled(r, saw[r]) \cup Swallowed(saw[r], r)
                                \cup Range(first[r].lines)
      /\ UNCHANGED <<post, taken, pistonVars, performed>>
  BY DEF WriteMove
<1>2. saw[r] \in Text /\ first[r] \in Text /\ disturbed' \subseteq Requests
  BY DEF IInv, TypeOK
<1>3. Queue(saw[r], r).lines \in Seq(Requests) /\ first[r].lines \in Seq(Requests)
  BY <1>2, QueueFacts DEF Text
<1>4. column'.lines = Queue(saw[r], r).lines \o first[r].lines
  BY <1>1, <1>2, QueueMoveFacts
<1>5. Range(column'.lines) = Range(Queue(saw[r], r).lines) \cup Range(first[r].lines)
  BY <1>3, <1>4, RangeConcat
<1>6. Range(Queue(saw[r], r).lines) \subseteq Range(column.lines) \cup {r} \cup disturbed'
  <2>1. Range(Queue(saw[r], r).lines) \subseteq Range(column.lines) \cup {r} \cup disturbed'
    <3>1. Trampled(r, saw[r]) \cup Swallowed(saw[r], r) \subseteq disturbed'
      BY <1>1
    <3>2. pc[r] = "read"
      BY <1>1
    <3> QED
      BY <3>1, <3>2, AppendFacts, Zenon
  <2> QED
    BY <2>1
<1>7. Range(first[r].lines) \cap Clean' = {}
  BY <1>1 DEF Clean
<1>8. Sorted(Queue(saw[r], r).lines, Clean', Before')
  BY <1>1, <1>2, QueueInOrder
<1>9. Sorted(column'.lines, Clean', Before')
  BY <1>3, <1>4, <1>7, <1>8, SortedConcat
<1> QED
  BY <1>1, <1>5, <1>6, <1>9, WritesInOrder

LEMMA PostReadOrder ==
    ASSUME IInv, Order, PostRead
    PROVE  Order'
<1>1. /\ phase = "idle" /\ phase' = "waiting" /\ post = "none" /\ post' = "taken"
      /\ taken' = column
      /\ UNCHANGED <<column, pc, written, todo, doing, bad, performed, disturbed>>
  BY DEF PostRead, webVars
<1>2. /\ Before' = Before /\ History'
      /\ Owed' = Owed /\ Left' = Left /\ Clean' = Clean
  BY <1>1, NothingWritten DEF Owed, Left, Clean
<1>3. InLine' /\ Behind' /\ Saved'
  BY <1>1, <1>2 DEF Order, InLine, Behind, Saved
<1> QED
  BY <1>2, <1>3 DEF Order

\* What is taken off the column is as far on as the column was, or disturbed.
LEMMA PostClearOrder ==
    ASSUME IInv, Order, PostClear
    PROVE  Order'
<1>1. /\ post = "taken" /\ post' = "cleared" /\ column' = Blank
      /\ disturbed' = disturbed \cup Trampled(Poll, taken)
      /\ UNCHANGED <<pc, written, taken, phase, todo, doing, bad, performed>>
  BY DEF PostClear, webVars, pistonVars
<1>2. /\ Before' = Before /\ History'
      /\ Left' = Left /\ Owed' = taken.lines /\ Owed = <<>>
      /\ Clean' \subseteq Clean /\ Clean' = Requests \ disturbed'
  BY <1>1, NothingWritten DEF Owed, Left, Clean
<1>3. Range(taken.lines) \cap Clean' \subseteq Range(column.lines)
  BY <1>1, <1>2 DEF IInv, Copies, Trampled
<1>4. Range(column'.lines) = {} /\ Sorted(column'.lines, Clean', Before')
  BY <1>1 DEF Blank, Range, Sorted
<1>5. InLine'
  BY <1>1, <1>2, <1>4, SortedFewer DEF Order, InLine
<1>6. Behind'
  BY <1>1, <1>2, <1>3, <1>4 DEF Order, Behind, Ahead
<1>7. Saved'
  BY <1>1, <1>2 DEF Order, Saved
<1> QED
  BY <1>2, <1>5, <1>6, <1>7 DEF Order

\* Commands that are not mistaken are in the order of the lines.
LEMMA CommandsInOrder ==
    ASSUME NEW text \in Text, NEW C, NEW R, C \subseteq Requests, C \cap Mistaken(text) = {},
           Sorted(text.lines, C, R)
    PROVE  Sorted(Commands(text), C, R)
<1> DEFINE q == Commands(text)
<1>1. /\ DOMAIN text.lines = 1..Len(text.lines)
      /\ Len(text.lines) \in Nat
      /\ DOMAIN q = DOMAIN text.lines
  BY CommandsType DEF Text
<1>2. SUFFICES ASSUME NEW i \in DOMAIN text.lines, NEW j \in DOMAIN text.lines, i < j,
                      q[i] \in C, q[j] \in C
               PROVE  <<q[j], q[i]>> \notin R
  BY <1>1 DEF Sorted
<1>3. text.lines[1] \notin NodeRequests
  <2>1. SUFFICES ASSUME text.lines[1] \in NodeRequests PROVE FALSE
    OBVIOUS
  <2>2. j > 1 /\ q[j] = text.lines[1]
    BY <1>1, <1>2, <2>1 DEF Commands
  <2>3. text.lines[1] \in Mistaken(text)
    BY <2>1, <2>2 DEF Mistaken
  <2> QED
    BY <1>2, <2>2, <2>3
<1>4. ASSUME NEW k \in DOMAIN text.lines, q[k] \in C
      PROVE  q[k] = text.lines[k]
  <2>1. q[k] = Rejected \/ q[k] = text.lines[k]
    BY <1>1, <1>3, <1>4 DEF Commands
  <2> QED
    BY <1>4, <2>1, RequestsAssumption
<1> QED
  BY <1>2, <1>4 DEF Sorted

LEMMA ReplyOrder ==
    ASSUME IInv, Order, Reply
    PROVE  Order'
<1>1. /\ post = "cleared" /\ phase = "waiting" /\ post' = "none" /\ phase' = "running"
      /\ todo' = Commands(taken) /\ taken' = Blank
      /\ disturbed' = disturbed \cup Mistaken(taken)
      /\ UNCHANGED <<column, pc, written, doing, bad, performed>>
  BY DEF Reply, webVars
<1>2. /\ Before' = Before /\ History'
      /\ Clean' \subseteq Clean /\ Clean' = Requests \ disturbed'
      /\ Owed = taken.lines /\ Owed' = <<>>
      /\ Left = Range(todo) /\ Left' = Range(todo')
      /\ Range(<<>>) = {} /\ todo = <<>> /\ doing = <<>>
  BY <1>1, NothingWritten DEF Clean, Owed, Left, Range, IInv, Hands
<1>3. /\ Range(todo') \cap Clean' = Range(taken.lines) \cap Clean'
      /\ Sorted(todo', Clean', Before')
  <2>1. taken \in Text /\ Clean' \subseteq Requests /\ Clean' \cap Mistaken(taken) = {}
    BY <1>1, <1>2 DEF IInv, TypeOK
  <2>2. Sorted(taken.lines, Clean', Before')
    BY <1>2, SortedFewer DEF Order, InLine
  <2> QED
    BY <1>1, <2>1, <2>2, CommandsFacts, CommandsInOrder
<1>4. Sorted(taken'.lines, Clean', Before')
  BY <1>1 DEF Blank, Sorted
<1>5. InLine'
  BY <1>1, <1>2, <1>3, <1>4, SortedFewer DEF Order, InLine
<1>6. Behind'
  BY <1>1, <1>2, <1>3 DEF Order, Behind, Ahead
<1>7. Saved'
  BY <1>1, <1>2 DEF Order, Saved
<1> QED
  BY <1>2, <1>5, <1>6, <1>7 DEF Order

LEMMA ReplyUnreadOrder ==
    ASSUME IInv, Order, ReplyUnread
    PROVE  Order'
<1>1. /\ post' = "none" /\ taken' = Blank
      /\ disturbed' = disturbed \cup Range(taken.lines)
      /\ UNCHANGED <<column, pc, written, phase, todo, doing, bad, performed>>
  BY DEF ReplyUnread, webVars, pistonVars
<1>2. /\ Before' = Before /\ History'
      /\ Clean' \subseteq Clean /\ Left' = Left /\ Owed' = <<>> /\ Range(<<>>) = {}
      /\ Sorted(taken'.lines, Clean', Before')
  BY <1>1, NothingWritten DEF Clean, Owed, Left, Range, Blank, Sorted
<1>3. InLine'
  BY <1>1, <1>2, SortedFewer DEF Order, InLine
<1>4. Behind' /\ Saved'
  BY <1>1, <1>2 DEF Order, Behind, Ahead, Saved
<1> QED
  BY <1>2, <1>3, <1>4 DEF Order

LEMMA GiveUpWaitingOrder ==
    ASSUME IInv, Order, GiveUpWaiting
    PROVE  Order'
<1>1. /\ phase = "waiting" /\ phase' = "idle"
      /\ UNCHANGED <<column, pc, written, post, taken, todo, doing, bad, performed, disturbed>>
  BY DEF GiveUpWaiting, webVars
<1>2. /\ Before' = Before /\ History'
      /\ Clean' = Clean /\ Left' = Left /\ Owed' = Owed
  BY <1>1, NothingWritten DEF Clean, Owed, Left
<1>3. InLine' /\ Behind' /\ Saved'
  BY <1>1, <1>2 DEF Order, InLine, Behind, Saved
<1> QED
  BY <1>2, <1>3 DEF Order

\* The first line of a batch is ahead of the others.
LEMMA TakeLineOrder ==
    ASSUME IInv, Order, TakeLine
    PROVE  Order'
<1>1. /\ phase \in {"running", "replaying"} /\ doing = <<>> /\ todo # <<>>
      /\ doing' = <<Head(todo)>> /\ todo' = Tail(todo)
      /\ bad' = Tail(todo) \/ bad' = bad
      /\ UNCHANGED <<column, pc, written, post, taken, phase, performed, disturbed>>
  BY DEF TakeLine, webVars
<1>2. /\ Range(todo) = {Head(todo)} \cup Range(Tail(todo))
      /\ Sorted(Tail(todo), Clean, Before)
      /\ Ahead({Head(todo)}, Range(Tail(todo)), Clean, Before)
  BY <1>1, RangeTail, SortedTail DEF IInv, TypeOK, Order, InLine
<1>3. /\ Before' = Before /\ History'
      /\ Range(doing) = {} /\ Range(doing') = {Head(todo)}
      /\ Clean' = Clean /\ Owed' = Owed
      /\ Left = Range(todo) /\ Left' = Range(Tail(todo))
  BY <1>1, NothingWritten DEF Range, Clean, Owed, Left
<1>4. InLine'
  BY <1>1, <1>2, <1>3 DEF Order, InLine
<1>5. Behind'
  <2>1. Left = {Head(todo)} \cup Left' /\ Ahead({Head(todo)}, Left', Clean, Before)
    BY <1>2, <1>3
  <2> QED
    BY <1>1, <1>3, <2>1 DEF Order, Behind, Ahead
<1>6. Saved'
  BY <1>1, <1>2, <1>3 DEF Order, Saved
<1> QED
  BY <1>3, <1>4, <1>5, <1>6 DEF Order

LEMMA PerformOrder ==
    ASSUME IInv, Order, Perform
    PROVE  Order'
<1>1. /\ doing # <<>> /\ doing' = <<>>
      /\ performed' = IF doing[1] = Rejected THEN performed ELSE Append(performed, doing[1])
      /\ UNCHANGED <<column, pc, written, post, taken, phase, todo, bad, disturbed>>
  BY DEF Perform, webVars
<1>2. /\ Range(doing) = {doing[1]} /\ doing[1] \in Requests \cup {Rejected}
      /\ Range(doing') = {} /\ phase # "down"
  BY <1>1 DEF Range, IInv, Hands, TypeOK
<1>3. /\ Before' = Before /\ History'
      /\ Clean' = Clean /\ Owed' = Owed /\ Left' = Left
  BY <1>1, <1>2, NothingWritten DEF Clean, Owed, Left
<1>4. \/ doing[1] = Rejected /\ performed' = performed
      \/ /\ doing[1] \in Requests
         /\ performed' = Append(performed, doing[1])
         /\ Range(performed') = Range(performed) \cup {doing[1]}
  BY <1>1, <1>2, RangeAppend DEF IInv, TypeOK
<1>5. Sorted(performed', Clean, Before)
  <2>1. Ahead(Range(performed), {doing[1]}, Clean, Before) /\ performed \in Seq(Requests)
    BY <1>2 DEF Order, Behind, Ahead, IInv, TypeOK
  <2> QED
    BY <1>4, <2>1, SortedAppend DEF Order, InLine
<1>6. InLine'
  BY <1>1, <1>3, <1>5 DEF Order, InLine
<1>7. Behind'
  <2>1. /\ Range(performed') \subseteq Range(performed) \cup Range(doing)
        /\ Range(doing') = {}
    BY <1>2, <1>4
  <2> QED
    BY <1>1, <1>3, <2>1 DEF Order, Behind, Ahead
<1>8. Saved'
  <2>1. Range(doing) \cap Clean \subseteq Range(performed')
    BY <1>2, <1>4, RequestsAssumption DEF Clean
  <2>2. Range(performed) \subseteq Range(performed')
    BY <1>4
  <2> QED
    BY <1>1, <1>2, <1>3, <2>1, <2>2 DEF Order, Saved
<1> QED
  BY <1>3, <1>6, <1>7, <1>8 DEF Order

LEMMA NapOrder ==
    ASSUME IInv, Order, Nap
    PROVE  Order'
<1>1. /\ phase \in {"running", "replaying"} /\ phase' = "idle"
      /\ bad' = bad \/ bad' = <<>>
      /\ UNCHANGED <<column, pc, written, post, taken, todo, doing, performed, disturbed>>
  BY DEF Nap, webVars
<1>2. /\ Before' = Before /\ History'
      /\ Clean' = Clean /\ Owed' = Owed /\ Left' = Left
      /\ Range(bad') \subseteq Range(bad)
      /\ Sorted(bad', Clean, Before)
  BY <1>1, NothingWritten DEF Clean, Owed, Left, Range, Sorted, Order, InLine
<1>3. InLine' /\ Behind' /\ Saved'
  BY <1>1, <1>2 DEF Order, InLine, Behind, Saved
<1> QED
  BY <1>2, <1>3 DEF Order

\* After a crash badstrokes has what was left of the batch and what was carried out.
LEMMA CrashOrder ==
    ASSUME IInv, Order, Crash
    PROVE  Order'
<1>1. /\ phase # "down" /\ phase' = "down" /\ doing' = <<>> /\ todo' = <<>>
      /\ bad' = bad \/ bad' = <<>>
      /\ disturbed' = disturbed \cup
            (Requests \cap (Range(doing) \cup IF bad' = todo THEN {} ELSE Range(todo)))
      /\ UNCHANGED <<column, pc, written, post, taken, performed>>
  BY DEF Crash, webVars
<1>2. /\ Before' = Before /\ History'
      /\ Clean' \subseteq Clean /\ Clean' = Requests \ disturbed' /\ Owed' = Owed
      /\ Range(<<>>) = {} /\ \A C, R : Sorted(<<>>, C, R)
      /\ Left = Range(todo) /\ Left' = Range(bad') \ Range(performed)
  BY <1>1, NothingWritten DEF Clean, Owed, Left, Range, Sorted
<1>3. Left' \cap Clean' \subseteq Left
  BY <1>1, <1>2 DEF Order, Saved
<1>4. InLine'
  BY <1>1, <1>2, SortedFewer DEF Order, InLine
<1>5. Behind'
  BY <1>1, <1>2, <1>3 DEF Order, Behind, Ahead
<1>6. Saved'
  BY <1>1 DEF Saved
<1> QED
  BY <1>2, <1>4, <1>5, <1>6 DEF Order

LEMMA RestartOrder ==
    ASSUME IInv, Order, Restart
    PROVE  Order'
<1>1. /\ phase = "down" /\ phase' # "down"
      /\ todo' = bad
      /\ disturbed' = disturbed \cup (Range(bad) \cap Range(performed))
      /\ UNCHANGED <<column, pc, written, post, taken, doing, bad, performed>>
  BY DEF Restart, webVars
<1>2. /\ Before' = Before /\ History'
      /\ Clean' \subseteq Clean /\ Clean' = Requests \ disturbed' /\ Owed' = Owed
      /\ Left = Range(bad) \ Range(performed) /\ Left' = Range(bad)
  BY <1>1, NothingWritten DEF Clean, Owed, Left
<1>3. Left' \cap Clean' \subseteq Left
  BY <1>1, <1>2
<1>4. InLine'
  BY <1>1, <1>2, SortedFewer DEF Order, InLine
<1>5. Behind'
  BY <1>1, <1>2, <1>3 DEF Order, Behind, Ahead
<1>6. Saved'
  BY <1>1 DEF Saved
<1> QED
  BY <1>2, <1>4, <1>5, <1>6 DEF Order

LEMMA OrderStep == IInv /\ IInv' /\ Order /\ [Next]_vars => Order'
<1> SUFFICES ASSUME IInv, IInv', Order, [Next]_vars PROVE Order'
  OBVIOUS
<1>1. CASE \E r \in Requests : Web(r)
  BY <1>1, ReadingOrder, WriteTaskOrder, WriteMoveOrder DEF Web
<1>2. CASE Valve
  BY <1>2, PostClearOrder, ReplyOrder, ReplyUnreadOrder DEF Valve
<1>3. CASE Piston
  BY <1>3, PostReadOrder, TakeLineOrder, PerformOrder, NapOrder DEF Piston
<1>4. CASE Fault
  BY <1>4, GiveUpWaitingOrder, CrashOrder, RestartOrder DEF Fault
<1>5. CASE UNCHANGED vars
  <2>1. Before' = Before /\ History'
    BY <1>5, NothingWritten DEF vars, webVars
  <2>2. InLine' /\ Behind' /\ Saved'
    BY <1>5, <2>1 DEF Order, vars, webVars, pistonVars, InLine, Behind, Saved, Owed, Left, Clean
  <2> QED
    BY <2>1, <2>2 DEF Order
<1> QED
  BY <1>1, <1>2, <1>3, <1>4, <1>5 DEF Next

LEMMA OrderIsKept ==
    ASSUME IInv, Order
    PROVE  InOrder
<1>1. SUFFICES ASSUME NEW b \in DOMAIN performed, Regular(performed[b])
               PROVE  \E j \in DOMAIN written :
                         /\ written[j] = performed[b]
                         /\ \A i \in 1..(j - 1) : Regular(written[i]) =>
                                \E a \in 1..(b - 1) : performed[a] = written[i]
  BY DEF InOrder
<1> DEFINE x == performed[b]
<1>2. /\ written \in Seq(Requests) /\ performed \in Seq(Requests)
      /\ DOMAIN written = 1..Len(written) /\ Len(written) \in Nat
      /\ DOMAIN performed = 1..Len(performed) /\ Len(performed) \in Nat
      /\ x \in Range(performed) /\ x \in Clean
  BY <1>1 DEF IInv, TypeOK, Range, Clean, Regular
<1>3. PICK j \in DOMAIN written : written[j] = x
  <2>1. pc[x] = "done"
    BY <1>2 DEF IInv, Written, Unwritten, Clean
  <2>2. x \in Range(written)
    BY <1>2, <2>1 DEF Order, History, Clean
  <2> QED
    BY <2>2 DEF Range
<1>4. SUFFICES ASSUME NEW i \in 1..(j - 1), Regular(written[i])
               PROVE  \E a \in 1..(b - 1) : performed[a] = written[i]
  BY <1>3
<1> DEFINE y == written[i]
<1>5. i \in DOMAIN written /\ i < j /\ y \in Requests /\ y \in Clean /\ y # x
  <2>1. i \in DOMAIN written /\ i < j /\ i # j
    BY <1>2, <1>3, <1>4
  <2>2. y \in Requests
    BY <1>2, <2>1
  <2> QED
    BY <1>3, <1>4, <2>1, <2>2 DEF Clean, Regular, Order, History, Once
<1>6. <<y, x>> \in Before
  BY <1>2, <1>3, <1>5 DEF Before, Clean
<1>7. y \in Range(performed)
  <2>1. pc[y] = "done"
    BY <1>5 DEF Order, History, Range
  <2>2. y \in Outstanding \cup Range(performed)
    BY <1>4, <1>5, <2>1 DEF IInv, NothingLost
  <2>3. y \in Range(doing) \cup Left \cup Range(Owed) \cup Range(column.lines)
            \/ y \in Range(performed)
    <3>1. phase = "down" => Range(todo) = {}
      BY DEF IInv, Hands, Range
    <3>2. post # "cleared" => Range(Owed) = {}
      BY DEF Owed, Range
    <3> QED
      BY <2>2, <3>1, <3>2 DEF Outstanding, Left, Owed
  <2> QED
    BY <1>2, <1>5, <1>6, <2>3 DEF Order, Behind, Ahead
<1>8. PICK a \in DOMAIN performed : performed[a] = y
  BY <1>7 DEF Range
<1>9. a < b
  <2>1. a # b
    BY <1>5, <1>8
  <2>2. ~(b < a)
    BY <1>1, <1>2, <1>5, <1>6, <1>8 DEF Order, InLine, Sorted
  <2> QED
    BY <1>2, <2>1, <2>2
<1> QED
  BY <1>2, <1>8, <1>9

\* Lines are carried out in the order they were written, none left out in between.
THEOREM OrderIsRight == Spec => []InOrder
<1>1. Init => Order
  BY OrderInit
<1>2. IInv /\ IInv' /\ Order /\ [Next]_vars => Order'
  BY OrderStep
<1>3. IInv /\ Order => InOrder
  BY OrderIsKept
<1> QED
  BY <1>1, <1>2, <1>3, IInvCorrect, PTL DEF Spec

=============================================================================

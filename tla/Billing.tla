--------------------------------- MODULE Billing ---------------------------------
(***************************************************************************)
(* Billing: the averages a user is billed for in a month.                  *)
(*                                                                         *)
(* A row of billing_domains has the processors of the servers that a user  *)
(* has on a node, and is updated by every POST of the node.  A row of      *)
(* billing_images has the size of his images in a storage pool, and is     *)
(* updated by piston.cgi when an image was backed up and by images.cgi     *)
(* every hour and when an image is made or removed.  A row keeps the       *)
(* amount last seen, its average over the month up to "timestamp", and the *)
(* average up to a marker, "starttimestamp", that is moved when the amount *)
(* changes.                                                                *)
(*                                                                         *)
(* One user, one node, one pool, one month, which begins at time 0.        *)
(* Memory, real size and backup size are treated as processors and virtual *)
(* size are.  An average is a fraction: the columns round it to six        *)
(* decimals.  A node has one POST under way.                               *)
(***************************************************************************)
EXTENDS Integers, FiniteSets, FiniteSetsExt

CONSTANTS
    Procs,          \* processes that update the row of the images
    MonthEnd,       \* bound on the time
    Window,         \* a row begun before it stands for the month from its beginning (4 hours)
    MaxAmount,      \* bound on processors and on sizes
    MaxChanges,     \* bound on the changes of each
    MaxUpdates      \* bound on the updates of each row

ASSUME BillingAssumption ==
    /\ MonthEnd \in Nat /\ Window \in Nat /\ MaxAmount \in Nat
    /\ MaxChanges \in Nat /\ MaxUpdates \in Nat

VARIABLES
    now,
    service,        \* what is billed: "servers" or "images"
    amount,         \* processors of the servers, or size of the images
    row,            \* the row of the month
    job             \* processes: what they have read

VARIABLES           \* history
    used,           \* the amount times the time so far
    metered,        \* what it was at the timestamp of the row
    slack,          \* what the row may be wrong by
    changes,        \* changes so far
    known,          \* those that the row has
    updates,        \* updates so far
    mixed           \* an update was written that overlapped another one

historyVars == <<used, metered, slack, changes, known, updates, mixed>>
vars == <<now, service, amount, row, job, historyVars>>

None == [amount |-> 0, avg |-> <<0, 1>>, time |-> -1, startavg |-> <<0, 1>>, start |-> 0]

Waiting == [pc |-> "idle", kind |-> "none", at |-> 0, used |-> 0, amount |-> 0,
            row |-> None, known |-> 0, slack |-> 0]

Init ==
    /\ now = 0
    /\ service \in {"servers", "images"}
    /\ amount \in 0 .. MaxAmount
    /\ row = None
    /\ job = [p \in Procs |-> Waiting]
    /\ used = 0 /\ metered = 0 /\ slack = 0
    /\ changes = 0 /\ known = 0 /\ updates = 0
    /\ mixed = FALSE

-----------------------------------------------------------------------------
(* Averages *)

Abs(i) == IF i < 0 THEN -i ELSE i

Fraction(n, d) ==
    LET g == Max({i \in 1 .. d : d % i = 0 /\ Abs(n) % i = 0}) IN <<n \div g, d \div g>>

\* The average at time t of what averages a up to time s and is v since.
Average(a, s, v, t) == Fraction(a[1] * s + v * (t - s) * a[2], a[2] * t)

\* Mutant of Begun: the marker is set back by the length of the window.
BegunBefore(v, t) ==
    IF t < Window
    THEN [amount |-> v, avg |-> <<v, 1>>, time |-> t, startavg |-> <<v, 1>>, start |-> t - Window]
    ELSE [amount |-> v, avg |-> <<0, 1>>, time |-> t, startavg |-> <<0, 1>>, start |-> t]

\* The row of a user that has none yet.
Begun(v, t) ==
    IF t < Window
    THEN [amount |-> v, avg |-> <<v, 1>>, time |-> t, startavg |-> <<v, 1>>, start |-> 0]
    ELSE [amount |-> v, avg |-> <<0, 1>>, time |-> t, startavg |-> <<0, 1>>, start |-> t]

-----------------------------------------------------------------------------
(* What an update makes of a row it read                                                     *)

\* A POST: the amount there is now is taken for that since the marker, also if it has changed.
Posted(old, v, t) ==
    IF old = None THEN Begun(v, t)
    ELSE LET avg == Average(old.startavg, old.start, v, t)
         IN  IF v = old.amount THEN [old EXCEPT !.avg = avg, !.time = t]
             ELSE [amount |-> v, avg |-> avg, time |-> t, startavg |-> avg, start |-> t]

\* updateImageBilling: the marker is moved to where the row was.
Reported(old, v, t) ==
    IF old = None
    THEN [amount |-> v, avg |-> <<0, 1>>, time |-> t, startavg |-> <<0, 1>>, start |-> t]
    ELSE IF v = old.amount
         THEN [old EXCEPT !.avg = Average(old.startavg, old.start, v, t), !.time = t]
         ELSE [amount |-> v, avg |-> old.avg, time |-> t, startavg |-> old.avg, start |-> old.time]

\* Mutant of Updated: the marker stays where it is.
UpdatedUnmarked(old, v, t) ==
    IF old = None THEN Begun(v, t)
    ELSE IF v = old.amount
         THEN [old EXCEPT !.avg = Average(old.startavg, old.start, v, t), !.time = t]
         ELSE [old EXCEPT !.amount = v, !.time = t, !.startavg = old.avg]

\* updateBilling: the marker is moved to the present.
Updated(old, v, t) ==
    IF old = None THEN Begun(v, t)
    ELSE IF v = old.amount
         THEN [old EXCEPT !.avg = Average(old.startavg, old.start, v, t), !.time = t]
         ELSE [amount |-> v, avg |-> old.avg, time |-> t, startavg |-> old.avg, start |-> t]

\* How far an update may be wrong about the time since the one before: not at all if there was
\* no change, nor when it begins a row in time, which only updateImageBilling does not see to.
Doubt(kind, t) ==
    IF known = changes /\ (row # None \/ (kind # "report" /\ t < Window)) THEN 0
    ELSE MaxAmount * (t - IF row = None THEN 0 ELSE row.time)

-----------------------------------------------------------------------------
(* piston.cgi and images.cgi *)

Kinds == IF service = "servers" THEN {"post"} ELSE {"report", "update"}

Goto(p, j) == job' = [job EXCEPT ![p] = j]

\* A process takes the time when it begins.
Begin(p, kind) ==
    /\ job[p].pc = "idle"
    /\ kind = "post" => \A q \in Procs : job[q].pc = "idle"
    /\ updates < MaxUpdates
    /\ updates' = updates + 1
    /\ Goto(p, [Waiting EXCEPT !.pc = "begun", !.kind = kind, !.at = now, !.used = used])
    /\ UNCHANGED <<now, service, amount, row, used, metered, slack, changes, known, mixed>>

\* It adds up the amount and reads the row.
Read(p) ==
    /\ job[p].pc = "begun"
    /\ Goto(p, [job[p] EXCEPT !.pc = "read", !.amount = amount, !.row = row, !.known = changes,
                              !.slack = Doubt(job[p].kind, job[p].at) + MaxAmount * (now - job[p].at)])
    /\ mixed' = (mixed \/ row.time > job[p].at)
    /\ UNCHANGED <<now, service, amount, row, used, metered, slack, changes, known, updates>>

\* It writes what it has made of the row it read: all of it, or, where piston.cgi finds no
\* change, average and timestamp.  It cannot divide in the first second of the month, and dies.
Write(p) ==
    LET j    == job[p]
        same == j.row # None /\ j.amount = j.row.amount
        dies == j.at = 0 /\ j.row # None /\ (same \/ j.kind = "post")
        new  == CASE j.kind = "post"   -> Posted(j.row, j.amount, j.at)
                  [] j.kind = "report" -> Reported(j.row, j.amount, j.at)
                  [] j.kind = "update" -> Updated(j.row, j.amount, j.at)
    IN  /\ j.pc = "read"
        /\ IF dies THEN UNCHANGED <<row, metered, slack, known, mixed>>
           ELSE /\ row' = IF same /\ j.kind # "update"
                          THEN [row EXCEPT !.avg = new.avg, !.time = new.time] ELSE new
                /\ metered' = j.used
                /\ slack' = slack + j.slack
                /\ known' = j.known
                /\ mixed' = (mixed \/ row # j.row)
        /\ Goto(p, Waiting)
        /\ UNCHANGED <<now, service, amount, used, changes, updates>>

-----------------------------------------------------------------------------
(* Users, and time *)

Change ==
    /\ changes < MaxChanges
    /\ changes' = changes + 1
    /\ amount' \in 0 .. MaxAmount \ {amount}
    /\ UNCHANGED <<now, service, row, job, used, metered, slack, known, updates, mixed>>

Tick ==
    /\ now < MonthEnd
    /\ now' = now + 1
    /\ used' = used + amount
    /\ UNCHANGED <<service, amount, row, job, metered, slack, changes, known, updates, mixed>>

Next ==
    \/ \E p \in Procs : (\E k \in Kinds : Begin(p, k)) \/ Read(p) \/ Write(p)
    \/ Change
    \/ Tick

Spec == Init /\ [][Next]_vars

-----------------------------------------------------------------------------
(* Properties *)

Rows == [amount : 0 .. MaxAmount, avg : Int \X (Nat \ {0}), time : -1 .. MonthEnd,
         startavg : Int \X (Nat \ {0}), start : 0 .. MonthEnd]

TypeOK ==
    /\ now \in 0 .. MonthEnd
    /\ service \in {"servers", "images"}
    /\ amount \in 0 .. MaxAmount
    /\ row \in Rows
    /\ job \in [Procs -> [pc : {"idle", "begun", "read"}, kind : {"none"} \cup Kinds,
                          at : 0 .. now, used : Nat, amount : 0 .. MaxAmount, row : Rows,
                          known : 0 .. MaxChanges, slack : Int]]
    /\ used \in Nat /\ metered \in Nat /\ slack \in Int
    /\ changes \in 0 .. MaxChanges /\ known \in 0 .. MaxChanges
    /\ updates \in 0 .. MaxUpdates /\ mixed \in BOOLEAN

\* The row bills what was used up to its timestamp, but for the times in which it was not
\* looked at while something changed.
Accurate ==
    row # None =>
        Abs(row.avg[1] * row.time - metered * row.avg[2]) <= slack * row.avg[2]

\* Images are billed for the time they were there, however hourly updates, changes and the
\* updates of piston.cgi follow each other, unless two of them overlap; and so are servers as
\* long as they do not change.
BilledAsUsed == service = "images" \/ changes = 0 => Accurate \/ mixed

\* "Average usage for" a month is that of the servers that were there: every POST tells which.
UsageBilled == service = "servers" => Accurate

=============================================================================

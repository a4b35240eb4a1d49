---------------------------- MODULE ServerLifecycle ----------------------------
(***************************************************************************)
(* The life of servers between the register and the hypervisors.           *)
(*                                                                         *)
(* A request (servers.cgi) looks at what the register says of a server,    *)
(* queues a task for a node and marks the server with a transitional       *)
(* status.  movepiston looks at the domains of its hypervisor, POSTs what  *)
(* it saw, gets the queued tasks as the answer and carries them out with   *)
(* virsh commands it starts in the background.  piston.cgi turns the POST  *)
(* into register entries, by a table of transitional statuses and ages.    *)
(*                                                                         *)
(* Nothing but these delayed reports connects the two sides: the register  *)
(* may say anything of a server that runs.  Whether it says enough to keep *)
(* a server, and the image it writes to, on one node is the subject here.  *)
(*                                                                         *)
(* Images are on shared storage, servers are not locked to a node, and a   *)
(* node that is up has room for one more server.  How a column of tasks    *)
(* loses or repeats lines is the subject of NodeTasks.                     *)
(***************************************************************************)
EXTENDS Integers, Sequences, FiniteSets, Functions

CONSTANTS
    Servers,
    Nodes,
    Nobody,         \* no node: an empty mac
    Ops,            \* the operations users and administrators ask for in an instance
    Admin,          \* whether they are administrators
    Stale,          \* age of a timestamp that is too old, in ticks (20 s)
    Hold,           \* age of a transition in which a report is ignored (30 s)
    ShutdownHold,   \* the same for a shutdown (120 s)
    MoveHold,       \* the same for a move (300 s)
    MaxAge,         \* ages are counted up to here
    MaxRequests,    \* bound on the requests that are accepted
    MaxFaults       \* bound on crashes and on virsh commands that fail

AllOps == {"start", "startOn", "destroy", "shutdown", "suspend", "resume", "move",
           "remove", "save", "list", "update"}

ASSUME LifecycleAssumption ==
    /\ Nobody \notin Nodes
    /\ Ops \subseteq AllOps
    /\ Admin \in BOOLEAN
    /\ {Stale, Hold, ShutdownHold, MoveHold, MaxAge, MaxRequests, MaxFaults} \subseteq Nat
    /\ 0 < Stale
    /\ \A a \in {Stale, 2 * Stale, Hold, ShutdownHold, MoveHold} : a <= MaxAge

VARIABLES
    reg,        \* domains table: status, node, age of timestamp and of statustime
    img,        \* images table: the status of the image of each server
    nodereg,    \* nodes table: status and age of timestamp
    tasks,      \* nodes table: the queued tasks of each node
    phase,      \* what movepiston of each node is doing
    report,     \* what it saw when it looked at the hypervisor
    batch,      \* the tasks it was sent and has not come to
    bad,        \* /tmp/badstrokes
    mortuary,   \* the servers it was told to destroy or shut down
    receiving,  \* the servers it will ask the sender for
    posted,     \* whether it has POSTed since the last tick
    jobs,       \* virsh commands running in the background of each node
    dom,        \* the domains of each hypervisor
    saving,     \* the status a Save under way has read, "none" if there is none
    requests,   \* requests so far
    faults,     \* crashes and failed commands so far
    adrift      \* history: the servers something irregular happened to

engineVars == <<reg, img, nodereg, tasks>>
pistonVars == <<phase, report, batch, bad, mortuary, receiving, posted>>
hyperVars  == <<jobs, dom>>
boundVars  == <<requests, faults>>
vars == <<engineVars, pistonVars, hyperVars, saving, boundVars, adrift>>

Statuses == {"shutoff", "starting", "running", "paused", "shuttingdown", "destroying",
             "suspending", "resuming", "moving", "inactive", "removed"}

Task(op, s)        == [op |-> op, server |-> s, to |-> Nobody]
MoveTask(s, n)     == [op |-> "MOVE", server |-> s, to |-> n]
Jobs ==
    [cmd : {"create", "destroy", "suspend", "resume"}, server : Servers, to : {Nobody}]
    \cup [cmd : {"migrate", "migrating"}, server : Servers, to : Nodes]
Job(cmd, s, n)     == [cmd |-> cmd, server |-> s, to |-> n]
Send(n, task)      == tasks' = [tasks EXCEPT ![n] = Append(@, task)]

\* The tasks for server s in the column of node n.
Queued(n, s) == {task \in Range(tasks[n]) : task.server = s}

\* The servers node n is yet to start, to ask for or to send, or is just doing that to.
Placing == {"START", "RECEIVE", "MOVE"}

Pending(n) ==
    {task.server : task \in {t \in Range(tasks[n]) \cup Range(batch[n]) : t.op \in Placing}}
    \cup receiving[n]
    \cup {job.server : job \in {j \in jobs[n] : j.cmd \in {"create", "migrate", "migrating"}}}

\* What makes the register and the hypervisors part, each noted by the step it is in:
\*   - an inactive server is started on another node than its own (Start);
\*   - a server is taken for inactive while it moves (List);
\*   - a server is declared off, or its move over, while a task for it is on its way, or
\*     registered on a node that let it go after it had looked (Post);
\*   - movepiston looks, or turns to a task, while a virsh command is running (Look,
\*     NextTask), buries a server it does not have (NextTask), or executes a task of
\*     badstrokes (Restart);
\*   - a Save declares off a server that was started since it began, brings back or ends a
\*     move, brings back a removed server, or has as running one that was told to start or
\*     to end since (SaveWrite);
\*   - a server leaves a node that has it in its mortuary (EndMigration).
Drift(servers) == adrift' = adrift \cup servers

Older(age) == IF age < MaxAge THEN age + 1 ELSE age

Init ==
    /\ \E n \in Nodes :
           reg = [s \in Servers |->
                     [status |-> "shutoff", mac |-> n, seen |-> MaxAge, held |-> MaxAge]]
    /\ img = [s \in Servers |-> "used"]
    /\ nodereg = [n \in Nodes |-> [status |-> "running", seen |-> 0]]
    /\ tasks = [n \in Nodes |-> <<>>]
    /\ phase = [n \in Nodes |-> "idle"]
    /\ report = [n \in Nodes |-> [s \in Servers |-> "none"]]
    /\ batch = [n \in Nodes |-> <<>>]
    /\ bad = [n \in Nodes |-> <<>>]
    /\ mortuary = [n \in Nodes |-> {}]
    /\ receiving = [n \in Nodes |-> {}]
    /\ posted = [n \in Nodes |-> FALSE]
    /\ jobs = [n \in Nodes |-> {}]
    /\ dom = [n \in Nodes |-> [s \in Servers |-> "none"]]
    /\ saving = [s \in Servers |-> "none"]
    /\ requests = 0
    /\ faults = 0
    /\ adrift = {}

-----------------------------------------------------------------------------
(* servers.cgi *)

\* Where locateTargetNode may place a server: the node asked for, by an administrator
\* only, or the node with the highest index of those the register has as running.
Targets(dmac, smac) ==
    {n \in Nodes : /\ nodereg[n].status = "running"
                   /\ n # smac
                   /\ dmac = Nobody \/ ~Admin \/ dmac = n}

\* A request that is accepted changes the status of a server and when it began.
Mark(s, status) ==
    reg' = [reg EXCEPT ![s].status = status, ![s].held = 0]

Request(op) ==
    /\ op \in Ops
    /\ requests < MaxRequests
    /\ requests' = requests + 1
    /\ UNCHANGED <<nodereg, pistonVars, hyperVars, saving, faults>>

\* An inactive server, which may well be running, is left alone while its node is
\* away, and otherwise started where it was last seen.
Refused(s, dmac) ==
    /\ dmac \in {Nobody, reg[s].mac}
    /\ reg[s].status = "inactive"
    /\ nodereg[reg[s].mac].status = "inactive"

StartMac(s, dmac) ==
    IF reg[s].status = "inactive" /\ ~(dmac # Nobody /\ Admin) THEN reg[s].mac ELSE dmac

\* Mutant of Start: whatever the register says of the server.
StartAny(s, dmac, n) ==
    /\ Request(IF dmac = Nobody THEN "start" ELSE "startOn")
    /\ img[s] = "used"
    /\ ~Refused(s, dmac)
    /\ n \in Targets(StartMac(s, dmac), Nobody)
    /\ Send(n, Task("START", s))
    /\ reg' = [reg EXCEPT ![s].mac = n, ![s].status = "starting", ![s].held = 0]
    /\ Drift(IF reg[s].status = "inactive" /\ n # reg[s].mac THEN {s} ELSE {})
    /\ UNCHANGED img

Start(s, dmac, n) ==
    /\ Request(IF dmac = Nobody THEN "start" ELSE "startOn")
    /\ img[s] = "used"
    /\ ~Refused(s, dmac)
    /\ reg[s].status \in {"inactive", "shutoff"}
    /\ n \in Targets(StartMac(s, dmac), Nobody)
    /\ Send(n, Task("START", s))
    /\ reg' = [reg EXCEPT ![s].mac = n, ![s].status = "starting", ![s].held = 0]
    /\ Drift(IF reg[s].status = "inactive" /\ n # reg[s].mac THEN {s} ELSE {})
    /\ UNCHANGED img

\* Mutant of Destroy: the server is taken to be off at once.
DestroyOff(s) ==
    /\ Request("destroy")
    /\ reg[s].status \in {"running", "paused", "shuttingdown", "starting", "destroying",
                          "suspending", "resuming"}
    /\ Send(reg[s].mac, Task("DESTROY", s))
    /\ Mark(s, "shutoff")
    /\ UNCHANGED <<img, adrift>>

Destroy(s) ==
    /\ Request("destroy")
    /\ reg[s].status \in {"running", "paused", "shuttingdown", "starting", "destroying",
                          "suspending", "resuming"}
    /\ Send(reg[s].mac, Task("DESTROY", s))
    /\ Mark(s, "destroying")
    /\ UNCHANGED <<img, adrift>>

Shutdown(s) ==
    /\ Request("shutdown")
    /\ reg[s].status = "running"
    /\ Send(reg[s].mac, Task("SHUTDOWN", s))
    /\ Mark(s, "shuttingdown")
    /\ UNCHANGED <<img, adrift>>

Suspend(s) ==
    /\ Request("suspend")
    /\ reg[s].status = "running"
    /\ Send(reg[s].mac, Task("SUSPEND", s))
    /\ Mark(s, "suspending")
    /\ UNCHANGED <<img, adrift>>

Resume(s) ==
    /\ Request("resume")
    /\ img[s] = "paused"
    /\ reg[s].status = "paused"
    /\ Send(reg[s].mac, Task("RESUME", s))
    /\ Mark(s, "resuming")
    /\ UNCHANGED <<img, adrift>>

\* Without a node in the request, the node of the register entry is taken for it.
MoveMac(s, dmac) == IF dmac = Nobody THEN reg[s].mac ELSE dmac

MoveTargets(s, dmac) == Targets(MoveMac(s, dmac), reg[s].mac)

\* Mutant of Move: the register is not told that the server moves.
MoveUnmarked(s, dmac, n) ==
    /\ Request("move")
    /\ Admin
    /\ reg[s].status = "running"
    /\ n \in MoveTargets(s, dmac)
    /\ Send(n, Task("RECEIVE", s))
    /\ UNCHANGED <<reg, img, adrift>>

Move(s, dmac, n) ==
    /\ Request("move")
    /\ Admin
    /\ reg[s].status = "running"
    /\ n \in MoveTargets(s, dmac)
    /\ Send(n, Task("RECEIVE", s))
    /\ Mark(s, "moving")
    /\ UNCHANGED <<img, adrift>>

Remove(s) ==
    /\ Request("remove")
    /\ reg[s].status \in {"inactive", "shutoff"}
    /\ reg' = [reg EXCEPT ![s].status = "removed", ![s].seen = MaxAge]
    /\ img' = [img EXCEPT ![s] = "unused"]
    /\ UNCHANGED <<tasks, adrift>>

\* validateItem: a status that is not believed, since nothing was heard of the server.
Unheard(s, status) ==
    /\ reg[s].seen >= Stale
    /\ status \notin {"shutoff", "starting", "removed"}
    /\ status = "moving" => reg[s].seen >= 2 * Stale

\* Save reads the row and checks the images and networks of all servers.
SaveRead(s) ==
    /\ "save" \in Ops
    /\ requests < MaxRequests
    /\ saving[s] = "none"
    /\ reg[s].status # "removed"
    /\ requests' = requests + 1
    /\ saving' = [saving EXCEPT ![s] = reg[s].status]
    /\ UNCHANGED <<engineVars, pistonVars, hyperVars, faults, adrift>>

\* The row is changed since, and is now one of a server that is off, or loses or gets back a
\* move, or is there again, without a node, or is said to run while a task for it is queued:
\* such a server may be moved, and its start be copied behind the move (SendMoves).
Undone(s, status) ==
    /\ status # reg[s].status
    /\ \/ status = "shutoff" \/ reg[s].status = "removed"
       \/ "moving" \in {status, reg[s].status}
       \/ status = "running" /\ \E n \in Nodes : Queued(n, s) # {}

\* It writes a row with the status it read, validated by the time at which it began, also if
\* there is no row any more.
SaveWrite(s, status) ==
    /\ saving[s] # "none"
    /\ status = saving[s] \/ (status = "inactive" /\ Unheard(s, saving[s]))
    /\ saving' = [saving EXCEPT ![s] = "none"]
    /\ reg' = [reg EXCEPT ![s].status = status]
    /\ img' = [img EXCEPT ![s] =
           IF \/ @ = "unused"
              \/ @ = "active" /\ status = "shutoff"
              \/ status = "inactive" /\ Unheard(s, saving[s])
           THEN "used" ELSE @]
    /\ Drift({t \in {s} : Undone(t, status)})
    /\ UNCHANGED <<nodereg, tasks, pistonVars, hyperVars, boundVars>>

\* Mutant of List: what has not been heard of is off.
ListOff(s) ==
    /\ "list" \in Ops
    /\ Unheard(s, reg[s].status)
    /\ reg' = [reg EXCEPT ![s].status = "shutoff"]
    /\ img' = [img EXCEPT ![s] = "used"]
    /\ Drift(IF reg[s].status = "moving" THEN {s} ELSE {})
    /\ UNCHANGED <<nodereg, tasks, pistonVars, hyperVars, saving, boundVars>>

\* Listing servers validates them: what has not been heard of is inactive.
List(s) ==
    /\ "list" \in Ops
    /\ Unheard(s, reg[s].status)
    /\ reg' = [reg EXCEPT ![s].status = "inactive"]
    /\ img' = [img EXCEPT ![s] = "used"]
    /\ Drift(IF reg[s].status = "moving" THEN {s} ELSE {})
    /\ UNCHANGED <<nodereg, tasks, pistonVars, hyperVars, saving, boundVars>>

\* The action updateregister does so too, by other rules; what it wants to wait for
\* in a start or a shutdown of up to 50 seconds falls through to the last one.
UpdateRegister(s) ==
    /\ "update" \in Ops
    /\ reg[s].seen >= Stale
    /\ reg[s].status \notin {"destroying", "moving", "removed"}
    /\ reg' = [reg EXCEPT ![s].status = IF @ = "shutoff" THEN @ ELSE "inactive"]
    /\ img' = [img EXCEPT ![s] = "used"]
    /\ UNCHANGED <<nodereg, tasks, pistonVars, hyperVars, saving, boundVars, adrift>>

\* nodes.cgi: a node that has not been heard of is inactive.
UpdateNodes ==
    /\ nodereg' = [n \in Nodes |->
                      IF nodereg[n].seen > Stale THEN [nodereg[n] EXCEPT !.status = "inactive"]
                      ELSE nodereg[n]]
    /\ UNCHANGED <<reg, img, tasks, pistonVars, hyperVars, saving, boundVars, adrift>>

-----------------------------------------------------------------------------
(* piston.cgi: the POST of a node *)

\* Mutant of Kept: a transition is waited for without end.
KeptLong(n, s) ==
    LET r == reg[s]  seen == report[n][s]
    IN  \/ r.status \in {"shuttingdown", "suspending"} /\ seen = "running"
        \/ r.status = "starting" /\ seen = "shutoff"
        \/ r.status = "resuming" /\ seen = "paused"
        \/ r.status = "destroying" /\ seen \in {"running", "paused"}
        \/ r.status = "moving" /\ \/ seen \in {"running", "shutoff"} /\ r.mac = n
                                  \/ seen = "paused" /\ r.mac # n

\* A transition the report of node n does not end: the register keeps what it says.
Kept(n, s) ==
    LET r == reg[s]  seen == report[n][s]  within(age) == r.held < age
    IN  \/ r.status = "shuttingdown" /\ seen = "running" /\ within(ShutdownHold)
        \/ r.status = "starting" /\ seen = "shutoff" /\ within(Hold)
        \/ r.status = "suspending" /\ seen = "running" /\ within(Hold)
        \/ r.status = "resuming" /\ seen = "paused" /\ within(Hold)
        \/ r.status = "destroying" /\ seen \in {"running", "paused"} /\ within(Hold)
        \/ r.status = "moving" /\ within(MoveHold)
               /\ \/ seen \in {"running", "shutoff"} /\ r.mac = n
                  \/ seen = "paused" /\ r.mac # n

\* The entry of a server by the report of node n.  The timestamp is set but for moves.
Registered(n, s) ==
    LET r == reg[s]  seen == report[n][s]
    IN  IF seen = "none" \/ r.status = "removed" THEN r
        ELSE IF Kept(n, s) THEN [r EXCEPT !.seen = IF r.status = "moving" THEN @ ELSE 0]
        ELSE [status |-> seen, mac |-> n, seen |-> 0,
              held |-> IF r.status = seen THEN r.held ELSE 0]

\* Mutant of Cleaned: servers that are reported are taken to be off too.
CleanedAll(n, s) ==
    LET r == Registered(n, s)
    IN  IF r.mac = n /\ r.status \in {"inactive", "shuttingdown"}
        THEN [r EXCEPT !.status = "shutoff"]
        ELSE r

\* Servers of this node that it does not report and that are inactive or shutting down
\* are taken to be off.
Cleaned(n, s) ==
    LET r == Registered(n, s)
    IN  IF /\ r.mac = n
           /\ r.status = "inactive" \/ (r.status = "shuttingdown" /\ report[n][s] = "none")
        THEN [r EXCEPT !.status = "shutoff"]
        ELSE r

\* Mutant of ImageOf: the image follows what the register said before.
ImageLate(n, s) ==
    IF report[n][s] = "none" \/ reg[s].status = "removed" THEN img[s]
    ELSE IF reg[s].status = "paused" THEN "paused"
    ELSE IF reg[s].status \in {"shutoff", "inactive"} THEN "used"
    ELSE "active"

ImageOf(n, s) ==
    IF report[n][s] = "none" \/ reg[s].status = "removed" THEN img[s]
    ELSE IF Registered(n, s).status = "paused" THEN "paused"
    ELSE IF Registered(n, s).status \in {"shutoff", "inactive"} THEN "used"
    ELSE "active"

\* A server is declared off, or its move over, with a task for it still on its way.
GivenUp(s) ==
    /\ \E m \in Nodes : s \in Pending(m)
    /\ reg'[s].status # reg[s].status
    /\ reg'[s].status = "shutoff" \/ reg[s].status = "moving"

\* A server is registered on a node that had it when it looked, but has let it go.
Misplaced(n, s) ==
    /\ reg[s].mac # n \/ (reg[s].status = "moving" /\ reg'[s].status # "moving")
    /\ reg'[s].mac = n
    /\ dom[n][s] = "none"

Post(n) ==
    /\ phase[n] = "posting"
    /\ reg' = [s \in Servers |-> Cleaned(n, s)]
    /\ img' = [s \in Servers |-> ImageOf(n, s)]
    /\ nodereg' = [nodereg EXCEPT ![n] = [status |-> "running", seen |-> 0]]
    /\ tasks' = [tasks EXCEPT ![n] = <<>>]
    /\ batch' = [batch EXCEPT ![n] = tasks[n]]
    /\ phase' = [phase EXCEPT ![n] = "working"]
    /\ posted' = [posted EXCEPT ![n] = TRUE]
    /\ Drift({s \in Servers : GivenUp(s) \/ Misplaced(n, s)})
    /\ UNCHANGED <<report, bad, mortuary, receiving, hyperVars, saving, boundVars>>

\* Mutant of SendMoves: the task does not say where to.
SendMovesNowhere(n, s) ==
    LET m == reg[s].mac
    IN  tasks' = [tasks EXCEPT ![m] = Append(@, MoveTask(s, Nobody)) \o @]

\* piston.cgi, asked by the receiver: the sender is the node of the register entry.  Its
\* column gets the new task and, behind it, a copy of what it holds.
SendMoves(n, s) ==
    LET m == reg[s].mac
    IN  tasks' = [tasks EXCEPT ![m] = Append(@, MoveTask(s, n)) \o @]

-----------------------------------------------------------------------------
(* movepiston *)

\* The servers a command in the background, other than a live migration, is about.
Busy(n) == {job.server : job \in {j \in jobs[n] : j.cmd \notin {"migrate", "migrating"}}}

\* dominfo: what the hypervisor has, and once that a domain it was told to end is gone.
Seen(n, s) ==
    CASE dom[n][s] = "incoming" -> "paused"
      [] dom[n][s] = "none" /\ s \in mortuary[n] -> "shutoff"
      [] OTHER -> dom[n][s]

Present(n) == {s \in Servers : dom[n][s] # "none"}

Look(n) ==
    /\ phase[n] = "idle"
    /\ report' = [report EXCEPT ![n] = [s \in Servers |-> Seen(n, s)]]
    /\ mortuary' = [mortuary EXCEPT ![n] = @ \cap Present(n)]
    /\ phase' = [phase EXCEPT ![n] = "posting"]
    /\ Drift(Busy(n))
    /\ UNCHANGED <<engineVars, batch, bad, receiving, posted, hyperVars, saving, boundVars>>

\* The next task of a batch, what is left after it being saved if there is anything.
NextTask(n, op) ==
    /\ phase[n] \in {"working", "replaying"}
    /\ batch[n] # <<>>
    /\ Head(batch[n]).op = op
    /\ batch' = [batch EXCEPT ![n] = Tail(@)]
    /\ bad' = [bad EXCEPT ![n] = IF Tail(batch[n]) # <<>> THEN Tail(batch[n]) ELSE @]
    /\ Drift(Busy(n) \cup IF op \in {"DESTROY", "SHUTDOWN"} THEN {Head(batch[n]).server} \ Present(n)
                           ELSE {})
    /\ UNCHANGED <<engineVars, phase, report, posted, dom, saving, boundVars>>

RunInBg(n, cmd, s, to) == jobs' = [jobs EXCEPT ![n] = @ \cup {Job(cmd, s, to)}]

DoStart(n) ==
    /\ NextTask(n, "START")
    /\ IF reg[Head(batch[n]).server].status # "removed"
       THEN RunInBg(n, "create", Head(batch[n]).server, Nobody)
       ELSE UNCHANGED jobs
    /\ UNCHANGED <<mortuary, receiving>>

\* The domain is destroyed if the hypervisor has it by now; it is buried in any case.
DoDestroy(n) ==
    /\ NextTask(n, "DESTROY")
    /\ mortuary' = [mortuary EXCEPT ![n] = @ \cup {Head(batch[n]).server}]
    /\ IF Head(batch[n]).server \in Present(n)
       THEN RunInBg(n, "destroy", Head(batch[n]).server, Nobody)
       ELSE UNCHANGED jobs
    /\ UNCHANGED receiving

\* The guest is asked to power off, which it may do at any time.
DoShutdown(n) ==
    /\ NextTask(n, "SHUTDOWN")
    /\ mortuary' = [mortuary EXCEPT ![n] = @ \cup {Head(batch[n]).server}]
    /\ UNCHANGED <<receiving, jobs>>

DoSuspend(n) ==
    /\ NextTask(n, "SUSPEND")
    /\ RunInBg(n, "suspend", Head(batch[n]).server, Nobody)
    /\ UNCHANGED <<mortuary, receiving>>

DoResume(n) ==
    /\ NextTask(n, "RESUME")
    /\ RunInBg(n, "resume", Head(batch[n]).server, Nobody)
    /\ UNCHANGED <<mortuary, receiving>>

DoReceive(n) ==
    /\ NextTask(n, "RECEIVE")
    /\ receiving' = [receiving EXCEPT ![n] =
           IF reg[Head(batch[n]).server].status = "removed" THEN @
           ELSE @ \cup {Head(batch[n]).server}]
    /\ UNCHANGED <<mortuary, jobs>>

DoMove(n) ==
    /\ NextTask(n, "MOVE")
    /\ RunInBg(n, "migrate", Head(batch[n]).server, Head(batch[n]).to)
    /\ UNCHANGED <<mortuary, receiving>>

\* At the end of a batch the senders of what is to be received are told.
AskForMove(n) ==
    /\ phase[n] \in {"working", "replaying"}
    /\ batch[n] = <<>>
    /\ \E s \in receiving[n] :
           /\ SendMoves(n, s)
           /\ receiving' = [receiving EXCEPT ![n] = @ \ {s}]
    /\ UNCHANGED <<reg, img, nodereg, phase, report, batch, bad, mortuary, posted, hyperVars,
                   saving, boundVars, adrift>>

Nap(n) ==
    /\ phase[n] \in {"working", "replaying"}
    /\ batch[n] = <<>>
    /\ receiving[n] = {}
    /\ phase' = [phase EXCEPT ![n] = "idle"]
    /\ bad' = [bad EXCEPT ![n] = IF phase[n] = "replaying" THEN <<>> ELSE @]
    /\ UNCHANGED <<engineVars, report, batch, mortuary, receiving, posted, hyperVars, saving,
                   boundVars, adrift>>

-----------------------------------------------------------------------------
(* The hypervisors and their guests *)

Domain(n, s, state) == dom' = [dom EXCEPT ![n][s] = state]

Ended(n, job) == jobs' = [jobs EXCEPT ![n] = @ \ {job}]

\* virsh fails without effect if the domain is not in the state the command is for.
Effect(state, cmd) ==
    CASE cmd = "create" /\ state = "none" -> "running"
      [] cmd = "destroy" -> "none"
      [] cmd = "suspend" /\ state = "running" -> "paused"
      [] cmd = "resume" /\ state = "paused" -> "running"
      [] OTHER -> state

Virsh(n, job) ==
    /\ job \in jobs[n]
    /\ job.cmd \notin {"migrate", "migrating"}
    /\ Ended(n, job)
    /\ Domain(n, job.server, Effect(dom[n][job.server], job.cmd))
    /\ UNCHANGED <<engineVars, pistonVars, saving, boundVars, adrift>>

\* The image is missing, the hypervisor refuses, the receiver cannot be reached.
VirshFails(n, job) ==
    /\ faults < MaxFaults
    /\ job \in jobs[n]
    /\ job.cmd \in {"create", "migrate"}
    /\ Ended(n, job)
    /\ faults' = faults + 1
    /\ UNCHANGED <<engineVars, pistonVars, dom, saving, requests, adrift>>

\* A live migration: the receiver has the domain paused until the sender lets go of it.
BeginMigration(n, job) ==
    /\ job \in jobs[n]
    /\ job.cmd = "migrate"
    /\ IF dom[n][job.server] = "running" /\ dom[job.to][job.server] = "none"
       THEN /\ jobs' = [jobs EXCEPT ![n] = (@ \ {job}) \cup {[job EXCEPT !.cmd = "migrating"]}]
            /\ Domain(job.to, job.server, "incoming")
       ELSE /\ Ended(n, job)
            /\ UNCHANGED dom
    /\ UNCHANGED <<engineVars, pistonVars, saving, boundVars, adrift>>

EndMigration(n, job) ==
    /\ job \in jobs[n]
    /\ job.cmd = "migrating"
    /\ Ended(n, job)
    /\ IF dom[n][job.server] = "running" /\ dom[job.to][job.server] = "incoming"
       THEN dom' = [dom EXCEPT ![n][job.server] = "none", ![job.to][job.server] = "running"]
       ELSE dom' = [dom EXCEPT ![job.to][job.server] = IF @ = "incoming" THEN "none" ELSE @]
    /\ Drift({job.server} \cap mortuary[n])
    /\ UNCHANGED <<engineVars, pistonVars, saving, boundVars>>

GuestOff(n, s) ==
    /\ dom[n][s] = "running"
    /\ Domain(n, s, "none")
    /\ UNCHANGED <<engineVars, pistonVars, jobs, saving, boundVars, adrift>>

-----------------------------------------------------------------------------
(* Faults, and the passing of time *)

\* movepiston dies; the domains go on running.
Crash(n) ==
    /\ faults < MaxFaults
    /\ phase[n] # "down"
    /\ faults' = faults + 1
    /\ phase' = [phase EXCEPT ![n] = "down"]
    /\ batch' = [batch EXCEPT ![n] = <<>>]
    /\ receiving' = [receiving EXCEPT ![n] = {}]
    /\ UNCHANGED <<engineVars, report, bad, mortuary, posted, hyperVars, saving, requests, adrift>>

\* The whole node goes down, with its domains and its /tmp.
PowerLoss(n) ==
    /\ faults < MaxFaults
    /\ phase[n] # "down"
    /\ faults' = faults + 1
    /\ phase' = [phase EXCEPT ![n] = "down"]
    /\ batch' = [batch EXCEPT ![n] = <<>>]
    /\ bad' = [bad EXCEPT ![n] = <<>>]
    /\ mortuary' = [mortuary EXCEPT ![n] = {}]
    /\ receiving' = [receiving EXCEPT ![n] = {}]
    /\ jobs' = [jobs EXCEPT ![n] = {}]
    /\ dom' = [dom EXCEPT ![n] = [s \in Servers |-> "none"]]
    /\ UNCHANGED <<engineVars, report, posted, saving, requests, adrift>>

\* What badstrokes has is executed again; doing so the daemon looks at its domains
\* before it has read the tombstones, and empties them.
Restart(n) ==
    /\ phase[n] = "down"
    /\ phase' = [phase EXCEPT ![n] = IF bad[n] # <<>> THEN "replaying" ELSE "idle"]
    /\ batch' = [batch EXCEPT ![n] = bad[n]]
    /\ mortuary' = [mortuary EXCEPT ![n] = IF bad[n] # <<>> THEN {} ELSE @]
    /\ Drift({bad[n][i].server : i \in DOMAIN bad[n]})
    /\ UNCHANGED <<engineVars, report, bad, receiving, posted, hyperVars, saving, boundVars>>

\* Ten seconds, in which a movepiston that is up POSTs at least once.
Tick ==
    /\ \A n \in Nodes : phase[n] # "down" => posted[n]
    /\ posted' = [n \in Nodes |-> FALSE]
    /\ reg' = [s \in Servers |-> [reg[s] EXCEPT !.seen = Older(@), !.held = Older(@)]]
    /\ nodereg' = [n \in Nodes |-> [nodereg[n] EXCEPT !.seen = Older(@)]]
    /\ UNCHANGED <<img, tasks, phase, report, batch, bad, mortuary, receiving, hyperVars,
                   saving, boundVars, adrift>>

-----------------------------------------------------------------------------
Web ==
    \/ \E s \in Servers :
           \/ \E dmac \in Nodes \cup {Nobody}, n \in Nodes : Start(s, dmac, n) \/ Move(s, dmac, n)
           \/ Destroy(s) \/ Shutdown(s) \/ Suspend(s) \/ Resume(s) \/ Remove(s)
           \/ SaveRead(s) \/ \E status \in Statuses : SaveWrite(s, status)
           \/ List(s) \/ UpdateRegister(s)
    \/ UpdateNodes

Execute(n) ==
    \/ DoStart(n) \/ DoDestroy(n) \/ DoShutdown(n) \/ DoSuspend(n) \/ DoResume(n)
    \/ DoReceive(n) \/ DoMove(n) \/ AskForMove(n)

Piston(n) == Look(n) \/ Post(n) \/ Execute(n) \/ Nap(n)

Command(n) == \E job \in jobs[n] : Virsh(n, job) \/ BeginMigration(n, job) \/ EndMigration(n, job)

Fault(n) == Crash(n) \/ PowerLoss(n) \/ Restart(n) \/ \E job \in jobs[n] : VirshFails(n, job)

Next ==
    \/ Web
    \/ \E n \in Nodes :
           \/ Piston(n) \/ Command(n) \/ Fault(n)
           \/ \E s \in Servers : GuestOff(n, s)
    \/ Tick

Spec == Init /\ [][Next]_vars

\* movepiston loops while it is up, virsh commands end and time passes.  No one is
\* bound to ask for anything, guests need not power off, and a movepiston that is down
\* may stay down.
FairSpec ==
    /\ Spec
    /\ \A n \in Nodes : WF_vars(Piston(n)) /\ WF_vars(Command(n))
    /\ WF_vars(Tick)

-----------------------------------------------------------------------------
(* Properties *)

States == {"none", "running", "paused", "incoming"}
Work   ==
    [op : {"START", "DESTROY", "SHUTDOWN", "SUSPEND", "RESUME", "RECEIVE"}, server : Servers,
     to : {Nobody}]
    \cup [op : {"MOVE"}, server : Servers, to : Nodes]

TypeOK ==
    /\ reg \in [Servers -> [status : Statuses, mac : Nodes, seen : 0..MaxAge, held : 0..MaxAge]]
    /\ img \in [Servers -> {"used", "active", "paused", "unused"}]
    /\ nodereg \in [Nodes -> [status : {"running", "inactive"}, seen : 0..MaxAge]]
    /\ tasks \in [Nodes -> Seq(Work)]
    /\ phase \in [Nodes -> {"idle", "posting", "working", "replaying", "down"}]
    /\ report \in [Nodes -> [Servers -> {"none", "running", "paused", "shutoff"}]]
    /\ batch \in [Nodes -> Seq(Work)]
    /\ bad \in [Nodes -> Seq(Work)]
    /\ mortuary \in [Nodes -> SUBSET Servers]
    /\ receiving \in [Nodes -> SUBSET Servers]
    /\ posted \in [Nodes -> BOOLEAN]
    /\ jobs \in [Nodes -> SUBSET Jobs]
    /\ dom \in [Nodes -> [Servers -> States]]
    /\ saving \in [Servers -> {"none"} \cup Statuses]
    /\ requests \in 0..MaxRequests
    /\ faults \in 0..MaxFaults
    /\ adrift \subseteq Servers

Up(s, n) == dom[n][s] \in {"running", "paused"}

\* The image of a server is written by one node: a server is up on one node at most,
\* whatever is asked for in whatever order, unless it has gone adrift.
SingleHost ==
    \A s \in Servers \ adrift : \A m, n \in Nodes : Up(s, m) /\ Up(s, n) => m = n

\* A server that may be started anywhere, converted or removed is up nowhere, unless it
\* has gone adrift: whoever declares a server off has waited for it to be.
OffIsOff ==
    \A s \in Servers \ adrift : reg[s].status = "shutoff" => \A n \in Nodes : ~Up(s, n)

\* What ServerPlacement calls the node and the state of a server.
HostOf(s)  == IF s \notin adrift /\ \E n \in Nodes : Up(s, n) THEN CHOOSE n \in Nodes : Up(s, n)
              ELSE Nobody
StateOf(s) == IF s \in adrift \/ reg[s].status = "shutoff" THEN "off"
              ELSE IF reg[s].status = "moving" THEN "moving" ELSE "on"

Placement == INSTANCE ServerPlacement WITH
    host <- [s \in Servers |-> HostOf(s)], state <- [s \in Servers |-> StateOf(s)], lost <- adrift

\* Requests, tasks, reports and virsh commands, which know of each other only late, implement
\* ServerPlacement: a server that has not gone adrift changes nodes only while the register
\* says that it moves, comes up only when the register does not have it as off, and is
\* declared off only when it is up nowhere.
Implements == Placement!Spec

\* The register learns of a server that is up, whatever requests and reports crossed:
\* it comes to say so, or the server goes off, or its node is down.
Discovered ==
    \A s \in Servers, n \in Nodes :
        dom[n][s] = "running" ~>
            \/ reg[s].status = "running" /\ reg[s].mac = n
            \/ dom[n][s] # "running" \/ phase[n] = "down" \/ reg[s].status = "removed"

\* A server that is off can be started in the end: its image is not held for it for ever.
Startable ==
    \A s \in Servers :
        reg[s].status = "shutoff" ~> img[s] = "used" \/ reg[s].status # "shutoff"

=============================================================================

------------------------------ MODULE NodeLifecycle ------------------------------
(***************************************************************************)
(* NodeLifecycle: nodes that are put into maintenance, put to sleep,       *)
(* woken, rebooted and halted while servers are placed on them.            *)
(*                                                                         *)
(* Administrators give commands (nodes.cgi), servers are started           *)
(* (locateTargetNode of servers.cgi), movepiston reports, carries out and  *)
(* goes to sleep by itself when it has nothing to do, and piston.cgi       *)
(* serves its requests.  All of them set the status of the node in the     *)
(* register, piston.cgi from what it read when it began.  A request to     *)
(* nodes.cgi first reads the status of its node and writes it back.        *)
(*                                                                         *)
(* A server has one processor and is started once.  Between that reading   *)
(* and its writing a request meets any other step; the rest of it is one   *)
(* step.  What happens to the texts in the column of tasks is in           *)
(* NodeTasks, what becomes of servers in ServerLifecycle.                  *)
(***************************************************************************)
EXTENDS Integers, Sequences, FiniteSets, SequencesExt

CONSTANTS
    Nodes, Servers,
    Nobody,         \* no node
    Managed,        \* nodes with AMT or IPMI, powered off and on by the engine ($brutalsleep)
    Cap,            \* processors of a node, overcommitment included
    SleepAfter,     \* idle rounds after which a node goes to sleep by itself
    MaxEvents       \* bound on the requests of administrators and power losses

Transition == [sleep  |-> "sleeping",  reboot |-> "rebooting", shutdown |-> "shuttingdown",
               halt   |-> "halting",   unjoin |-> "unjoining", wipe     |-> "wiping",
               reload |-> "reloading"]
Commands   == DOMAIN Transition

Statuses == {"running", "maintenance", "asleep", "waking", "joining", "inactive", "drowsing",
             "reset", "deleted"} \cup {Transition[c] : c \in Commands}

ASSUME NodeLifecycleAssumption ==
    /\ IsFiniteSet(Servers)
    /\ Servers \cap (Commands \cup {"ignored"}) = {}
    /\ Nobody \notin Nodes
    /\ Managed \subseteq Nodes
    /\ Cap \in Nat /\ SleepAfter \in Nat \ {0}
    /\ MaxEvents \in Nat

VARIABLES
    row,        \* nodes: status, maintenance, vms
    tasks,      \* nodes: the column of tasks, a START being the server it is for
    asked,      \* nodes: how many requests have read which status of it
    serving,    \* what piston.cgi is doing for each node, and what it has read
    phase,      \* what movepiston and its node are doing
    doing,      \* the command that movepiston has begun, "drowse" being its own
    look,       \* the domains in the report of movepiston
    batch,      \* tasks that movepiston has not yet carried out
    drowsy,     \* rounds without a domain
    jobs, dom,  \* the hypervisors: domains that are being created, domains that are there
    placed,     \* the node each server was placed on
    ran,        \* servers that were created
    ended,      \* servers that are no longer up, or will never be
    events      \* requests and power losses so far

registerVars == <<row, tasks, asked, serving>>
pistonVars   == <<phase, doing, look, batch, drowsy>>
hyperVars    == <<jobs, dom, ran, ended>>

VARIABLES       \* history
    reported,   \* servers that a report in the register had
    crossed,    \* servers whose start and a power-off did not know of each other
    killed,     \* servers that a power-off ended
    uncounted,  \* servers that a report did not have while they were to run there
    evacuated,  \* nodes put into maintenance by an evacuation, not out of it since
    withheld,   \* nodes put into maintenance, not out of it since
    raced       \* nodes carried on while something was going to write maintenance

historyVars == <<reported, crossed, killed, uncounted, evacuated, withheld, raced>>
vars == <<registerVars, pistonVars, hyperVars, placed, events, historyVars>>

Idle == [kind |-> "none", status |-> "none", tasks |-> <<>>]

\* Nodes without servers, some of which have been put into maintenance.
Init ==
    /\ withheld \in SUBSET Nodes
    /\ row = [n \in Nodes |-> [status |-> IF n \in withheld THEN "maintenance" ELSE "running",
                               maintenance |-> n \in withheld, vms |-> 0]]
    /\ tasks = [n \in Nodes |-> <<>>]
    /\ asked = [n \in Nodes |-> [s \in Statuses |-> 0]]
    /\ serving = [n \in Nodes |-> Idle]
    /\ phase = [n \in Nodes |-> "idle"]
    /\ doing = [n \in Nodes |-> "none"]
    /\ look = [n \in Nodes |-> {}]
    /\ batch = [n \in Nodes |-> <<>>]
    /\ drowsy = [n \in Nodes |-> 0]
    /\ jobs = [n \in Nodes |-> {}]
    /\ dom = [n \in Nodes |-> {}]
    /\ placed = [s \in Servers |-> Nobody]
    /\ ran = {} /\ ended = {} /\ reported = {}
    /\ crossed = {} /\ killed = {} /\ uncounted = {}
    /\ evacuated = {} /\ raced = {}
    /\ events = 0

-----------------------------------------------------------------------------
(* Where things are *)

On(n)     == {s \in Servers : placed[s] = n /\ s \notin ended}
Unseen(n) == On(n) \ reported

Off(n)    == phase[n] = "off"

\* A command has yet to reach the node, or it is being carried out.
Ordered(n) == Range(tasks[n] \o serving[n].tasks \o batch[n]) \cap Commands # {}
Leaving(n) == Ordered(n) \/ doing[n] # "none"

\* The register has it on but it is off: nobody will wake it for a server.
Missing(n) == Off(n) /\ row[n].status # "asleep"

Queue(n, task) == tasks' = [tasks EXCEPT ![n] = Append(@, task)]
Status(n, s)   == row' = [row EXCEPT ![n].status = s]

\* The hypervisor stops with all its domains; /tmp of the node is in memory.
PowerOff(n, p) ==
    /\ phase' = [phase EXCEPT ![n] = p]
    /\ doing' = [doing EXCEPT ![n] = "none"]
    /\ batch' = [batch EXCEPT ![n] = <<>>]
    /\ drowsy' = [drowsy EXCEPT ![n] = 0]
    /\ jobs' = [jobs EXCEPT ![n] = {}]
    /\ dom' = [dom EXCEPT ![n] = {}]
    /\ ended' = ended \cup dom[n] \cup jobs[n]
    /\ killed' = killed \cup dom[n] \cup jobs[n]
    /\ UNCHANGED <<look, ran>>

\* A magic packet, or the order to power up, does nothing to a node that is on.
PowerOn(n) ==
    phase' = [phase EXCEPT ![n] = IF @ = "off" THEN "idle" ELSE @]

-----------------------------------------------------------------------------
(* nodes.cgi *)

Event ==
    /\ events < MaxEvents
    /\ events' = events + 1

\* Every request that names a node begins so.
GetObj(n) ==
    /\ Event
    /\ row[n].status # "deleted"
    /\ asked' = [asked EXCEPT ![n][row[n].status] = @ + 1]
    /\ UNCHANGED <<row, tasks, serving, pistonVars, hyperVars, placed, historyVars>>

\* What requests that are under way have read.
Read(n) == {s \in Statuses : asked[n][s] > 0}

\* It then sets the status to the one it read, which makes a row of a node deleted since, and
\* acts on that.
Answers(n, status) ==
    /\ status \in Read(n)
    /\ asked' = [asked EXCEPT ![n][status] = @ - 1]

Request(n, status) ==
    /\ Answers(n, status)
    /\ UNCHANGED <<placed, events>>

\* Requests that are refused, and those for something else.
PutBack(n, status) ==
    /\ Answers(n, status)
    /\ Status(n, status)
    /\ UNCHANGED <<tasks, serving, pistonVars, hyperVars, placed, events, historyVars>>

\* A report or another request has read maintenance and is going to write it.
Race(n) ==
    raced' = IF serving[n].status = "maintenance" \/ "maintenance" \in Read(n)'
             THEN raced \cup {n} ELSE raced

Maintenance(n) ==
    /\ Request(n, "running")
    /\ row' = [row EXCEPT ![n].status = "maintenance", ![n].maintenance = TRUE]
    /\ withheld' = withheld \cup {n}
    /\ UNCHANGED <<tasks, serving, pistonVars, hyperVars, reported, crossed, killed, uncounted,
                   evacuated, raced>>

\* Mutant of Carryon: the flag stays.
CarryonFlagged(n) ==
    /\ Request(n, "maintenance")
    /\ Status(n, "running")
    /\ withheld' = withheld \ {n}
    /\ evacuated' = evacuated \ {n}
    /\ Race(n)
    /\ UNCHANGED <<tasks, serving, pistonVars, hyperVars, reported, crossed, killed, uncounted>>

Carryon(n) ==
    /\ Request(n, "maintenance")
    /\ row' = [row EXCEPT ![n].status = "running", ![n].maintenance = FALSE]
    /\ withheld' = withheld \ {n}
    /\ evacuated' = evacuated \ {n}
    /\ Race(n)
    /\ UNCHANGED <<tasks, serving, pistonVars, hyperVars, reported, crossed, killed, uncounted>>

\* The servers are asked to move, which they cannot without being told where to.
Evacuate(n) ==
    /\ Request(n, "running")
    /\ Status(n, "maintenance")
    /\ evacuated' = evacuated \cup {n}
    /\ UNCHANGED <<tasks, serving, pistonVars, hyperVars, reported, crossed, killed, uncounted,
                   withheld, raced>>

\* Mutant of Accepts: the number of servers is not looked at.
AcceptsBusy(n, c, status) ==
    \/ c \in {"halt", "reload"}
    \/ c \in {"sleep", "reboot", "shutdown", "unjoin", "wipe"} /\ status = "running"

\* What a node must be for each command.  Only a halt does not ask for an idle one, and a
\* reload leaves the domains alone.
Accepts(n, c, status) ==
    \/ c = "halt"
    \/ c = "reload" /\ status = "running"
    \/ /\ c \in {"sleep", "reboot", "shutdown", "unjoin", "wipe"}
       /\ status \in (IF c = "reboot" THEN {"running", "maintenance"} ELSE {"running"})
       /\ row[n].vms = 0

\* Servers that a power-off hits although it asks for an idle node, or those it means to hit.
Hit(n, forced) == crossed \cup IF forced THEN On(n) ELSE Unseen(n)

Command(n, c, status) ==
    /\ Request(n, status)
    /\ Accepts(n, c, status)
    /\ c = "sleep" => n \notin Managed
    /\ Queue(n, c)
    /\ Status(n, Transition[c])
    /\ crossed' = Hit(n, c = "halt")
    /\ UNCHANGED <<serving, pistonVars, hyperVars, reported, killed, uncounted, evacuated,
                   withheld, raced>>

\* The engine powers the node off itself.
BrutalSleep(n, status) ==
    /\ Request(n, status)
    /\ n \in Managed
    /\ Accepts(n, "sleep", status)
    /\ Status(n, "asleep")
    /\ PowerOff(n, "off")
    /\ crossed' = Hit(n, FALSE)
    /\ UNCHANGED <<tasks, serving, reported, uncounted, evacuated, withheld, raced>>

Reset(n, status) ==
    /\ Request(n, status)
    /\ n \in Managed
    /\ \/ status = "maintenance" /\ row[n].vms = 0
       \/ status \in {"inactive", "waking", "sleeping", "shuttingdown", "joining"}
    /\ Status(n, "reset")
    /\ PowerOff(n, IF Off(n) THEN "off" ELSE "booting")
    /\ crossed' = Hit(n, status # "maintenance")
    /\ UNCHANGED <<tasks, serving, reported, uncounted, evacuated, withheld, raced>>

Wake(n, status) ==
    /\ Request(n, status)
    /\ Status(n, "waking")
    /\ PowerOn(n)
    /\ UNCHANGED <<tasks, serving, doing, look, batch, drowsy, hyperVars, historyVars>>

\* The status it asks for is that of no node: any node can be deleted.
Delete(n, status) ==
    /\ Request(n, status)
    /\ row' = [row EXCEPT ![n] = [status |-> "deleted", maintenance |-> FALSE, vms |-> 0]]
    /\ tasks' = [tasks EXCEPT ![n] = <<>>]
    /\ crossed' = Hit(n, TRUE)
    /\ uncounted' = uncounted \cup On(n)
    /\ withheld' = withheld \ {n}
    /\ evacuated' = evacuated \ {n}
    /\ Race(n)
    /\ UNCHANGED <<serving, pistonVars, hyperVars, reported, killed>>

\* list and updateregister: a node not heard of for 20 seconds.
List(n) ==
    /\ phase[n] \in {"off", "booting", "joining"}
    /\ row[n].status \notin {"joining", "asleep", "waking", "sleeping", "deleted", "inactive"}
    /\ Status(n, "inactive")
    /\ UNCHANGED <<tasks, asked, serving, pistonVars, hyperVars, placed, events, historyVars>>

-----------------------------------------------------------------------------
(* locateTargetNode and the START it is for *)

Fits(n) == row[n].vms + 1 <= Cap

Available(n) == row[n].status \in {"running", "asleep", "waking"} /\ ~row[n].maintenance

\* An administrator may name a node, which may then be one in maintenance.
Named(n) == row[n].status \in {"running", "asleep", "waking", "maintenance"}

\* Mutant of Place: a node that sleeps is left asleep.
PlaceAsleep(s, n) ==
    /\ row' = [row EXCEPT ![n].vms = @ + 1]
    /\ UNCHANGED phase

\* Mutant of Place: what is placed is not counted.
PlaceUncounted(s, n) ==
    /\ row' = [row EXCEPT ![n].status = IF @ = "asleep" THEN "waking" ELSE @]
    /\ IF row[n].status = "asleep" THEN PowerOn(n) ELSE UNCHANGED phase

Place(s, n) ==
    /\ row' = [row EXCEPT ![n].vms = @ + 1,
                          ![n].status = IF @ = "asleep" THEN "waking" ELSE @]
    /\ IF row[n].status = "asleep" THEN PowerOn(n) ELSE UNCHANGED phase

Start(s, n) ==
    /\ placed[s] = Nobody
    /\ Fits(n) /\ (Available(n) \/ Named(n))
    /\ Place(s, n)
    /\ Queue(n, s)
    /\ placed' = [placed EXCEPT ![s] = n]
    /\ crossed' = IF Leaving(n) \/ Missing(n) THEN crossed \cup {s} ELSE crossed
    /\ UNCHANGED <<asked, serving, doing, look, batch, drowsy, hyperVars, events, reported,
                   killed, uncounted, evacuated, withheld, raced>>

-----------------------------------------------------------------------------
(* piston.cgi *)

\* The status it is going to write, made of the one reported and of what the row has now.
NodeStatus(n, status) ==
    LET db == row[n].status
    IN  IF (db = "maintenance" /\ status # "drowsing") \/ db \in {"sleeping", "shuttingdown"} THEN db
        ELSE IF status = "drowsing" /\ db \in {"running", "maintenance"} THEN "asleep"
        ELSE IF status = "running" /\ row[n].maintenance THEN "maintenance"
        ELSE status

\* What is sent: the first task decides how all of them are.  As its line is in the register,
\* a command means nothing to movepiston.
Sent(ts) ==
    [i \in DOMAIN ts |->
        IF ts[1] \in Commands THEN ts[1] ELSE IF ts[i] \in Servers THEN ts[i] ELSE "ignored"]

ServePost(n) ==
    /\ phase[n] = "posting" /\ serving[n].kind = "none"
    /\ serving' = [serving EXCEPT ![n] = [kind |-> "post", status |-> NodeStatus(n, "running"),
                                          tasks |-> tasks[n]]]
    /\ tasks' = [tasks EXCEPT ![n] = <<>>]
    /\ UNCHANGED <<row, asked, pistonVars, hyperVars, placed, events, historyVars>>

\* The row of the node is written first ...
WritePost(n) ==
    /\ serving[n].kind = "post"
    /\ serving' = [serving EXCEPT ![n].kind = "posted", ![n].status = "none"]
    /\ Status(n, serving[n].status)
    /\ UNCHANGED <<tasks, asked, pistonVars, hyperVars, placed, events, historyVars>>

\* ... and what it has when its domains have been gone through.
AnswerPost(n) ==
    /\ serving[n].kind = "posted"
    /\ serving' = [serving EXCEPT ![n] = Idle]
    /\ row' = [row EXCEPT ![n].vms = Cardinality(look[n])]
    /\ phase' = [phase EXCEPT ![n] = IF @ = "posting" THEN "working" ELSE @]
    /\ batch' = [batch EXCEPT ![n] = IF phase[n] = "posting" THEN Sent(serving[n].tasks) ELSE @]
    /\ reported' = reported \cup look[n]
    /\ uncounted' = uncounted \cup (On(n) \ look[n])
    /\ UNCHANGED <<tasks, asked, doing, look, drowsy, hyperVars, placed, events, crossed,
                   killed, evacuated, withheld, raced>>

\* A GET takes no tasks.  A managed node is powered off if the register had it on; any other
\* goes down by itself.
ServeDrowse(n) ==
    /\ phase[n] = "drowsing" /\ serving[n].kind = "none"
    /\ serving' = [serving EXCEPT ![n] = [kind |-> "drowse", status |-> NodeStatus(n, "drowsing"),
                                          tasks |-> <<>>]]
    /\ UNCHANGED <<row, tasks, asked, pistonVars, hyperVars, placed, events, historyVars>>

AnswerDrowse(n) ==
    /\ serving[n].kind = "drowse"
    /\ serving' = [serving EXCEPT ![n] = Idle]
    /\ Status(n, serving[n].status)
    /\ phase' = [phase EXCEPT ![n] =
           IF @ # "drowsing" THEN @
           ELSE IF n \in Managed /\ serving[n].status = "asleep" THEN "ending" ELSE "stopping"]
    /\ UNCHANGED <<tasks, asked, doing, look, batch, drowsy, hyperVars, placed, events,
                   historyVars>>

-----------------------------------------------------------------------------
(* movepiston *)

\* A node takes longer to boot than piston.cgi to end what it did for it before.
Look(n) ==
    /\ phase[n] = "idle" /\ serving[n].kind = "none"
    /\ look' = [look EXCEPT ![n] = dom[n]]
    /\ phase' = [phase EXCEPT ![n] = "posting"]
    /\ UNCHANGED <<registerVars, doing, batch, drowsy, hyperVars, placed, events,
                   historyVars>>

\* virsh create runs in the background.
DoStart(n) ==
    /\ phase[n] = "working"
    /\ batch[n] # <<>> /\ Head(batch[n]) \in Servers
    /\ jobs' = [jobs EXCEPT ![n] = @ \cup {Head(batch[n])}]
    /\ batch' = [batch EXCEPT ![n] = Tail(@)]
    /\ UNCHANGED <<registerVars, phase, doing, look, drowsy, dom, ran, ended, placed, events,
                   historyVars>>

DoNothing(n) ==
    /\ phase[n] = "working"
    /\ batch[n] # <<>> /\ Head(batch[n]) = "ignored"
    /\ batch' = [batch EXCEPT ![n] = Tail(@)]
    /\ UNCHANGED <<registerVars, phase, doing, look, drowsy, hyperVars, placed, events,
                   historyVars>>

DoCommand(n) ==
    /\ phase[n] = "working"
    /\ batch[n] # <<>> /\ Head(batch[n]) \in Commands
    /\ batch' = [batch EXCEPT ![n] = Tail(@)]
    /\ IF Head(batch[n]) = "wipe"
       THEN UNCHANGED <<phase, doing>>
       ELSE /\ phase' = [phase EXCEPT ![n] = "stopping"]
            /\ doing' = [doing EXCEPT ![n] = Head(batch[n])]
    /\ UNCHANGED <<registerVars, look, drowsy, hyperVars, placed, events, historyVars>>

\* Mutant of Nap: one round more is counted before it is compared.
NapLate(n) ==
    /\ phase[n] = "working"
    /\ batch[n] = <<>>
    /\ phase' = [phase EXCEPT ![n] = IF drowsy[n] > SleepAfter THEN "drowsing" ELSE "idle"]
    /\ doing' = [doing EXCEPT ![n] = IF drowsy[n] > SleepAfter THEN "drowse" ELSE @]
    /\ drowsy' = [drowsy EXCEPT ![n] = IF dom[n] # {} THEN 0 ELSE @ + 1]
    /\ UNCHANGED <<registerVars, look, batch, hyperVars, placed, events, historyVars>>

\* At the end of a round movepiston may find that it had nothing to do for long enough.
Nap(n) ==
    /\ phase[n] = "working"
    /\ batch[n] = <<>>
    /\ LET rounds == IF dom[n] # {} THEN 0 ELSE drowsy[n] + 1
       IN  IF rounds > SleepAfter
           THEN /\ phase' = [phase EXCEPT ![n] = "drowsing"]
                /\ doing' = [doing EXCEPT ![n] = "drowse"]
                /\ crossed' = Hit(n, FALSE)
                /\ UNCHANGED drowsy
           ELSE /\ phase' = [phase EXCEPT ![n] = "idle"]
                /\ drowsy' = [drowsy EXCEPT ![n] = rounds]
                /\ UNCHANGED <<doing, crossed>>
    /\ UNCHANGED <<registerVars, look, batch, hyperVars, placed, events, reported,
                   killed, uncounted, evacuated, withheld, raced>>

\* TERMINATE: systemctl stops movepiston, which POSTs once more, takes the tasks and carries
\* them out, while piston.cgi leaves the row as it is.
Terminate(n) ==
    /\ phase[n] = "stopping"
    /\ tasks' = [tasks EXCEPT ![n] = <<>>]
    /\ jobs' = [jobs EXCEPT ![n] = @ \cup (Range(Sent(tasks[n])) \cap Servers)]
    /\ batch' = [batch EXCEPT ![n] = <<>>]
    /\ phase' = [phase EXCEPT ![n] = "ending"]
    /\ UNCHANGED <<row, asked, serving, doing, look, drowsy, dom, ran, ended, placed, events,
                   historyVars>>

GoDown(n) ==
    /\ phase[n] = "ending"
    /\ doing[n] # "reload"
    /\ PowerOff(n, CASE doing[n] = "reboot" -> "booting"
                     [] doing[n] = "unjoin" -> "joining"
                     [] OTHER -> "off")
    /\ UNCHANGED <<registerVars, placed, events, reported, crossed, uncounted, evacuated,
                   withheld, raced>>

Reloaded(n) ==
    /\ phase[n] = "ending"
    /\ doing[n] = "reload"
    /\ phase' = [phase EXCEPT ![n] = "idle"]
    /\ doing' = [doing EXCEPT ![n] = "none"]
    /\ drowsy' = [drowsy EXCEPT ![n] = 0]
    /\ UNCHANGED <<registerVars, look, batch, hyperVars, placed, events, historyVars>>

Boot(n) ==
    /\ phase[n] = "booting"
    /\ phase' = [phase EXCEPT ![n] = "idle"]
    /\ UNCHANGED <<registerVars, doing, look, batch, drowsy, hyperVars, placed, events,
                   historyVars>>

\* A node without an identity: the row is written anew, but for what it does not name.
Join(n) ==
    /\ phase[n] = "joining"
    /\ phase' = [phase EXCEPT ![n] = "idle"]
    /\ Status(n, "joining")
    /\ UNCHANGED <<tasks, asked, serving, doing, look, batch, drowsy, hyperVars, placed, events,
                   historyVars>>

-----------------------------------------------------------------------------
(* The hypervisors, people at the nodes, and power losses *)

Create(n, s) ==
    /\ s \in jobs[n]
    /\ jobs' = [jobs EXCEPT ![n] = @ \ {s}]
    /\ dom' = [dom EXCEPT ![n] = @ \cup {s}]
    /\ ran' = ran \cup {s}
    /\ UNCHANGED <<registerVars, pistonVars, ended, placed, events, historyVars>>

GuestOff(n, s) ==
    /\ s \in dom[n]
    /\ dom' = [dom EXCEPT ![n] = @ \ {s}]
    /\ ended' = ended \cup {s}
    /\ UNCHANGED <<registerVars, pistonVars, jobs, ran, placed, events, historyVars>>

SwitchOn(n) ==
    /\ Off(n)
    /\ PowerOn(n)
    /\ UNCHANGED <<registerVars, doing, look, batch, drowsy, hyperVars, placed, events,
                   historyVars>>

PowerLoss(n) ==
    /\ Event
    /\ ~Off(n)
    /\ PowerOff(n, "off")
    /\ crossed' = Hit(n, TRUE)
    /\ UNCHANGED <<registerVars, placed, reported, uncounted, evacuated, withheld, raced>>

-----------------------------------------------------------------------------
Administrator(n) ==
    \/ GetObj(n) \/ Maintenance(n) \/ Carryon(n) \/ Evacuate(n)
    \/ \E status \in Read(n) :
           \/ BrutalSleep(n, status) \/ Reset(n, status) \/ Wake(n, status)
           \/ Delete(n, status) \/ PutBack(n, status)
           \/ \E c \in Commands : Command(n, c, status)

Valve(n)  == ServePost(n) \/ WritePost(n) \/ AnswerPost(n) \/ ServeDrowse(n) \/ AnswerDrowse(n)

Piston(n) ==
    \/ Look(n) \/ DoStart(n) \/ DoNothing(n) \/ DoCommand(n) \/ Nap(n)
    \/ Terminate(n) \/ GoDown(n) \/ Reloaded(n) \/ Boot(n) \/ Join(n)

Next ==
    \E n \in Nodes :
        \/ Administrator(n) \/ List(n) \/ Valve(n) \/ Piston(n)
        \/ \E s \in Servers : Start(s, n) \/ Create(n, s) \/ GuestOff(n, s)
        \/ SwitchOn(n) \/ PowerLoss(n)

Spec == Init /\ [][Next]_vars

\* Apache answers, movepiston goes on, nodes boot and virsh ends.  Nobody has to command,
\* list or press a button.
FairSpec ==
    /\ Spec
    /\ \A n \in Nodes :
           /\ WF_vars(Valve(n)) /\ WF_vars(Piston(n))
           /\ WF_vars(\E s \in Servers : Create(n, s))

-----------------------------------------------------------------------------
(* Properties *)

TypeOK ==
    /\ row \in [Nodes -> [status : Statuses, maintenance : BOOLEAN, vms : Nat]]
    /\ tasks \in [Nodes -> Seq(Commands \cup Servers)]
    /\ asked \in [Nodes -> [Statuses -> Nat]]
    /\ serving \in [Nodes -> [kind : {"none", "post", "posted", "drowse"},
                              status : Statuses \cup {"none"},
                              tasks : Seq(Commands \cup Servers)]]
    /\ phase \in [Nodes -> {"idle", "posting", "working", "drowsing", "stopping", "ending",
                            "booting", "joining", "off"}]
    /\ doing \in [Nodes -> {"none", "drowse"} \cup (Commands \ {"wipe"})]
    /\ look \in [Nodes -> SUBSET Servers]
    /\ batch \in [Nodes -> Seq(Commands \cup Servers \cup {"ignored"})]
    /\ drowsy \in [Nodes -> 0 .. SleepAfter]
    /\ jobs \in [Nodes -> SUBSET Servers] /\ dom \in [Nodes -> SUBSET Servers]
    /\ placed \in [Servers -> Nodes \cup {Nobody}]
    /\ ran \subseteq Servers /\ ended \subseteq Servers /\ reported \subseteq Servers
    /\ crossed \cup killed \cup uncounted \subseteq Servers
    /\ evacuated \cup withheld \cup raced \subseteq Nodes
    /\ events \in 0 .. MaxEvents

\* Sleep, reboot, shutdown, unjoin and drowsing are for idle nodes: a server they end is one
\* that no report had when they were asked for, or that was placed while they were going on.
IdlePowerOff == killed \subseteq crossed

\* No more servers are placed on a node than it has processors for, but for those that a
\* report did not have when it replaced the count.
NotOvercommitted == \A n \in Nodes : Cardinality(On(n) \ uncounted) <= Cap

\* A node is in maintenance because it was put there; only a report that was being served, or
\* a request that had read it, can bring that back after it was carried on or deleted.
MaintenanceMeant ==
    \A n \in Nodes : row[n].status = "maintenance" => n \in withheld \cup evacuated \cup raced

\* A server that was placed on a node is created there, the node being woken if it must.
Delivered == \A s \in Servers : placed[s] # Nobody ~> s \in ran \cup crossed

=============================================================================

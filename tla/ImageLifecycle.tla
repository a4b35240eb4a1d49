----------------------------- MODULE ImageLifecycle -----------------------------
(***************************************************************************)
(* ImageLifecycle: the status of an image as the lock that keeps its       *)
(* server and the jobs on it apart.                                        *)
(*                                                                         *)
(* Users start the server, take, remove and apply snapshots, back the      *)
(* image up and restore it.  Each is handed to the one Gearman worker of   *)
(* the engine.  A job that works on the image sets a status of its own,    *)
(* and afterwards the one it found; backups and restores are left to a     *)
(* daemon (steamExec) and the worker goes on.  A start asks for the status *)
(* "used", but does not change it: that is done when the node reports the  *)
(* server, by piston.cgi.  Listings and pressurecontrol set the status too,*)
(* from what the register says of the server, or to what they have read.   *)
(* Whoever writes has read before, in a step of its own.                   *)
(*                                                                         *)
(* One qcow2 image with its one server, which is never paused, without LVM *)
(* below it.  What the register says of the server and the ways it may be  *)
(* wrong are the subject of ServerLifecycle: here a report is one step.    *)
(* Left out: clones, moves, conversions, masters and resizing; backups of  *)
(* images on the storage of a node, which the node does.                   *)
(***************************************************************************)
EXTENDS Integers, Sequences, FiniteSets

CONSTANTS
    MaxRequests,    \* bound on the requests
    MaxFaults       \* bound on jobs that die or fail and on late reports

ASSUME ImageLifecycleAssumption == {MaxRequests, MaxFaults} \subseteq Nat

VARIABLES
    admin,      \* whether the owner is the administrator the engine is run by (irigo)
    onNode,     \* whether the image is on the storage of a node
    status,     \* images: status
    snap1,      \* images: whether there is a time of the snapshot
    server,     \* domains: status of the server
    queue,      \* requests the worker has not come to
    worker,     \* what it is doing
    daemons,    \* backups and restores going on
    posting,    \* a POST: the status of the image, which it writes last
    updating,   \* images.cgi updateregister: the status it has read
    snap,       \* whether the image has a snapshot
    vm,         \* the server on its node
    requests, faults

VARIABLES       \* history
    early,      \* jobs that began with the server on its way or up, and the image "used"
    dated,      \* jobs that began with another status than the image had
    crossed,    \* jobs that met another one that set the status, or began under it
    refused,    \* jobs that qemu-img refused to list or to write the image
    failed,     \* the worker died, or a snapshot could not be written
    stuck       \* a job died, or found the status of another one, or a status was written
                \* after the job it belongs to

registerVars == <<status, snap1, server>>
engineVars   == <<queue, worker, daemons>>
writerVars   == <<posting, updating>>
history      == <<early, dated, crossed, refused, failed, stuck>>
vars == <<admin, onNode, registerVars, engineVars, writerVars, snap, vm, requests, faults, history>>

\* The jobs of the worker itself, those of daemons, and the status of each.
Snapping == {"snapshot", "unsnap", "revert"}
Kinds    == Snapping \cup {"start", "backup", "restore"}
Status   == [snapshot |-> "snapshotting", unsnap |-> "unsnapping", revert |-> "reverting",
             backup |-> "backingup", restore |-> "restoring"]
Busy     == {Status[k] : k \in DOMAIN Status}

Waiting == [pc |-> "idle", id |-> 0, kind |-> "none", old |-> "none"]
NoPost  == [status |-> "none", checked |-> FALSE]

\* An image with a snapshot or without, whose server is off.
Init ==
    /\ admin \in BOOLEAN /\ onNode \in BOOLEAN
    /\ snap \in BOOLEAN /\ snap1 = snap
    /\ status = "used" /\ server = "shutoff" /\ vm = "off"
    /\ queue = <<>> /\ worker = Waiting /\ daemons = {}
    /\ posting = NoPost /\ updating = "none"
    /\ requests = 0 /\ faults = 0
    /\ early = {} /\ dated = {} /\ crossed = {} /\ refused = {}
    /\ failed = FALSE /\ stuck = FALSE

-----------------------------------------------------------------------------
(* Requests *)

\* The process that queues a request has read the status of the image.
Ask(k) ==
    /\ requests < MaxRequests
    /\ requests' = requests + 1
    /\ queue' = Append(queue, [id |-> requests + 1, kind |-> k, seen |-> status])
    /\ UNCHANGED <<admin, onNode, registerVars, worker, daemons, writerVars, snap, vm, faults,
                   history>>

\* It is told to the worker, which believes an administrator and reads it again otherwise.
Found == IF admin THEN Head(queue).seen ELSE status

Take(kinds) ==
    /\ worker.pc = "idle"
    /\ queue # <<>>
    /\ Head(queue).kind \in kinds
    /\ queue' = Tail(queue)
    /\ UNCHANGED <<admin, onNode, writerVars, requests, faults>>

Active == ({d.id : d \in daemons} \cup {worker.id}) \ {0}

\* A status set by somebody for his own reasons, who does not care about the jobs.
SetBy(s, jobs) ==
    /\ status' = s
    /\ crossed' = crossed \cup IF s # status THEN Active \ jobs ELSE {}

\* A job begins: with a server that the register does not know to use the image, with a
\* status the image had before.
Begin ==
    /\ early' = early \cup IF Found = status /\ status = "used" /\ vm # "off"
                           THEN {Head(queue).id} ELSE {}
    /\ dated' = dated \cup IF Found # status THEN {Head(queue).id} ELSE {}

\* Mutant of Start: the status of the image is not asked for.
StartAny ==
    /\ Take({"start"})
    /\ IF server \in {"shutoff", "inactive"}
       THEN /\ server' = "starting"
            /\ vm' = IF vm = "off" THEN "ordered" ELSE vm
       ELSE UNCHANGED <<server, vm>>
    /\ UNCHANGED <<status, snap1, worker, daemons, snap, history>>

\* servers.cgi.
Start ==
    /\ Take({"start"})
    /\ IF status = "used" /\ server \in {"shutoff", "inactive"}
       THEN /\ server' = "starting"
            /\ vm' = IF vm = "off" THEN "ordered" ELSE vm
       ELSE UNCHANGED <<server, vm>>
    /\ UNCHANGED <<status, snap1, worker, daemons, snap, history>>

\* Mutant of Inspect: the status of the image is not asked for.
InspectAny ==
    /\ Take(Snapping)
    /\ LET k  == Head(queue).kind
           on == k = "snapshot" <=> ~snap
       IN  /\ worker' = IF on THEN [pc |-> "mark", id |-> Head(queue).id, kind |-> k, old |-> Found]
                        ELSE worker
           /\ IF on THEN Begin ELSE UNCHANGED <<early, dated>>
    /\ UNCHANGED <<status, snap1, server, daemons, snap, vm, crossed, refused, failed, stuck>>

\* Snapshot, Unsnap and Revert up to the status they set.  An image that has a snapshot is
\* not given another one; on the storage of a node the one it has is removed before.  An
\* image in use may be refused by qemu-img: a list that cannot be had is an empty one.
Inspect ==
    /\ Take(Snapping)
    /\ \E no \in BOOLEAN :
        LET k    == Head(queue).kind
            has  == snap /\ ~no
            on   == Found = "used" /\ (k = "snapshot" <=> ~has)
            gone == onNode /\ Found = "used" /\ k = "snapshot" /\ has
        IN  /\ no => Found = "used" /\ snap /\ vm = "up"
            /\ worker' = IF on THEN [pc |-> "mark", id |-> Head(queue).id, kind |-> k, old |-> Found]
                         ELSE worker
            /\ IF on \/ no THEN Begin ELSE UNCHANGED <<early, dated>>
            /\ refused' = IF no THEN refused \cup {Head(queue).id} ELSE refused
            /\ \/ snap' = (snap /\ ~gone)
               \/ gone /\ vm = "up" /\ snap' = snap
            /\ snap1' = (snap1 /\ ~(Found = "used" /\ k = "unsnap" /\ ~has))
    /\ UNCHANGED <<status, server, daemons, vm, crossed, failed, stuck>>

\* What goes on without the other ones.
Working == UNCHANGED <<admin, onNode, server, queue, daemons, writerVars, vm, requests, early, dated>>

\* Mutant of Mark: the time of the snapshot is left when it is removed.
MarkForgets ==
    /\ worker.pc = "mark"
    /\ SetBy(Status[worker.kind], {worker.id})
    /\ snap1' = (snap1 \/ worker.kind = "snapshot")
    /\ worker' = [worker EXCEPT !.pc = "run"]
    /\ Working /\ UNCHANGED <<snap, faults, refused, failed, stuck>>

Mark ==
    /\ worker.pc = "mark"
    /\ SetBy(Status[worker.kind], {worker.id})
    /\ snap1' = CASE worker.kind = "snapshot" -> TRUE
                  [] worker.kind = "unsnap" -> FALSE
                  [] OTHER -> snap1
    /\ worker' = [worker EXCEPT !.pc = "run"]
    /\ Working /\ UNCHANGED <<snap, faults, refused, failed, stuck>>

\* qemu-img, whose result nobody looks at: it does as it is told, or refuses an image in
\* use, or fails.
Run ==
    /\ worker.pc = "run"
    /\ worker' = [worker EXCEPT !.pc = "done"]
    /\ \/ /\ snap' = CASE worker.kind = "snapshot" -> TRUE
                        [] worker.kind = "unsnap" -> FALSE
                        [] OTHER -> snap
          /\ UNCHANGED <<faults, refused, failed>>
       \/ /\ vm = "up"
          /\ refused' = refused \cup {worker.id}
          /\ UNCHANGED <<snap, faults, failed>>
       \/ /\ faults < MaxFaults /\ faults' = faults + 1
          /\ failed' = TRUE
          /\ UNCHANGED <<snap, refused>>
    /\ Working /\ UNCHANGED <<status, snap1, crossed, stuck>>

\* Mutant of Done: the status is not set back.
DoneBusy ==
    /\ worker.pc = "done"
    /\ worker' = Waiting
    /\ Working /\ UNCHANGED <<status, snap1, snap, faults, crossed, refused, failed, stuck>>

Done ==
    /\ worker.pc = "done"
    /\ SetBy(worker.old, {worker.id})
    /\ worker' = Waiting
    /\ Working /\ UNCHANGED <<snap1, snap, faults, refused, failed, stuck>>

Spawn ==
    /\ daemons' = daemons \cup {[id |-> Head(queue).id, kind |-> Head(queue).kind, old |-> Found]}
    /\ status' = Status[Head(queue).kind]
    /\ Begin
    /\ crossed' = crossed \cup Active \cup IF Found \in Busy THEN {Head(queue).id} ELSE {}
    /\ stuck' = (stuck \/ Found \in Busy)
    /\ UNCHANGED <<refused, failed>>

\* Without LVM an image in use is not backed up.
Backup ==
    /\ Take({"backup"})
    /\ ~onNode
    /\ IF Found \in {Status[k] : k \in Snapping} \cup {"active"}
       THEN UNCHANGED <<daemons, status, history>>
       ELSE Spawn
    /\ UNCHANGED <<snap1, server, worker, snap, vm>>

Restore ==
    /\ Take({"restore"})
    /\ Spawn
    /\ UNCHANGED <<snap1, server, worker, snap, vm>>

\* steamExec ends.
Finish(d) ==
    /\ d \in daemons
    /\ daemons' = daemons \ {d}
    /\ SetBy(d.old, {d.id})
    /\ UNCHANGED <<admin, onNode, snap1, server, queue, worker, writerVars, snap, vm, requests,
                   faults, early, dated, refused, failed, stuck>>

-----------------------------------------------------------------------------
(* Reports and listings *)

Quiet == UNCHANGED <<admin, onNode, snap1, engineVars, snap, vm, requests, early, dated, refused,
                     failed>>

\* A POST of the node writes the status of the server, looks at the image and writes the
\* status of that.
Reported(s, i) ==
    /\ posting = NoPost
    /\ server' = s
    /\ posting' = [status |-> i, checked |-> FALSE]
    /\ Quiet /\ UNCHANGED <<status, updating, faults, crossed, stuck>>

PostUp == vm = "up" /\ Reported("running", "active")

\* The end of a server that has just been started is not believed for half a minute.
PostDead ==
    /\ vm = "off"
    /\ \/ server \in {"starting", "running", "inactive"} /\ Reported("shutoff", "used")
       \/ server = "starting" /\ Reported("starting", "active")

\* A server that is not on its node.
PostNone ==
    /\ vm # "up" /\ server = "inactive"
    /\ posting = NoPost
    /\ server' = "shutoff"
    /\ Quiet /\ UNCHANGED <<status, writerVars, faults, crossed, stuck>>

\* piston.cgi leaves the status of a backup alone, and of no other job.
PostLook ==
    /\ posting # NoPost /\ ~posting.checked
    /\ posting' = IF status = "backingup" THEN NoPost ELSE [posting EXCEPT !.checked = TRUE]
    /\ Quiet /\ UNCHANGED <<status, server, updating, faults, crossed, stuck>>

PostImage ==
    /\ posting.checked
    /\ SetBy(posting.status, {})
    /\ posting' = NoPost
    /\ Quiet /\ UNCHANGED <<server, updating, faults, stuck>>

\* A server that has not been heard of for 20 seconds, its node being late if it is up.
Unheard ==
    IF vm = "up" THEN faults < MaxFaults /\ faults' = faults + 1 ELSE UNCHANGED faults

ListServers ==
    /\ server \in {"running", "inactive"}
    /\ Unheard
    /\ server' = "inactive"
    /\ SetBy("used", {})
    /\ Quiet /\ UNCHANGED <<writerVars, stuck>>

\* pressurecontrol, every now and then: the servers of irigo, and the images of all.
UpdateServers ==
    /\ admin
    /\ Unheard
    /\ server' = IF server = "shutoff" THEN server ELSE "inactive"
    /\ SetBy("used", {})
    /\ Quiet /\ UNCHANGED <<writerVars, stuck>>

\* images.cgi updateregister: every status is read, and written again.
UpdateRead ==
    /\ updating = "none"
    /\ updating' = IF status = "active" THEN "looking" ELSE status
    /\ Quiet /\ UNCHANGED <<status, server, posting, faults, crossed, stuck>>

\* An active image is that of a server.
UpdateLook ==
    /\ updating = "looking"
    /\ updating' = IF server \in {"shutoff", "inactive"} THEN "used" ELSE "active"
    /\ Quiet /\ UNCHANGED <<status, server, posting, faults, crossed, stuck>>

UpdateWrite ==
    /\ updating \notin {"none", "looking"}
    /\ SetBy(updating, {})
    /\ stuck' = (stuck \/ (updating \in Busy /\ updating # status))
    /\ updating' = "none"
    /\ Quiet /\ UNCHANGED <<server, posting, faults>>

-----------------------------------------------------------------------------
(* The node, and what dies *)

Server(from, to) ==
    /\ vm = from /\ vm' = to
    /\ UNCHANGED <<admin, onNode, registerVars, engineVars, writerVars, snap, requests, faults,
                   history>>

Create   == Server("ordered", "up")
GuestOff == Server("up", "off")

Fault ==
    /\ faults < MaxFaults
    /\ faults' = faults + 1
    /\ stuck' = TRUE
    /\ UNCHANGED <<admin, onNode, registerVars, queue, writerVars, snap, vm, requests, early, dated,
                   crossed, refused>>

DaemonDies ==
    /\ Fault
    /\ \E d \in daemons : daemons' = daemons \ {d}
    /\ UNCHANGED <<worker, failed>>

WorkerDies ==
    /\ Fault
    /\ worker.pc # "idle"
    /\ worker' = Waiting
    /\ failed' = TRUE
    /\ UNCHANGED daemons

-----------------------------------------------------------------------------
Work == Start \/ Inspect \/ Mark \/ Run \/ Done \/ Backup \/ Restore

Report ==
    \/ PostUp \/ PostDead \/ PostNone \/ PostLook \/ PostImage
    \/ ListServers \/ UpdateServers
    \/ UpdateRead \/ UpdateLook \/ UpdateWrite

Next ==
    \/ \E k \in Kinds : (k = "backup" => ~onNode) /\ Ask(k)
    \/ Work
    \/ \E d \in daemons : Finish(d)
    \/ Report
    \/ Create \/ GuestOff \/ DaemonDies \/ WorkerDies

Spec == Init /\ [][Next]_vars

\* The worker goes on and so do daemons that live.  Nobody has to list anything, nodes need
\* not report.
FairSpec ==
    /\ Spec
    /\ WF_vars(Work)
    /\ WF_vars(\E d \in daemons : Finish(d))

-----------------------------------------------------------------------------
(* Properties *)

Ids == 1 .. MaxRequests
Statuses == {"used", "active"} \cup Busy

TypeOK ==
    /\ admin \in BOOLEAN /\ onNode \in BOOLEAN
    /\ status \in Statuses
    /\ snap1 \in BOOLEAN /\ snap \in BOOLEAN
    /\ server \in {"shutoff", "starting", "running", "inactive"}
    /\ vm \in {"off", "ordered", "up"}
    /\ queue \in Seq([id : Ids, kind : Kinds, seen : Statuses])
    /\ worker \in {Waiting} \cup [pc : {"mark", "run", "done"}, id : Ids, kind : Snapping,
                                  old : {"used"}]
    /\ daemons \subseteq [id : Ids, kind : {"backup", "restore"}, old : Statuses]
    /\ posting \in [status : {"none", "active", "used"}, checked : BOOLEAN]
    /\ posting.checked => posting.status # "none"
    /\ updating \in {"none", "looking"} \cup Statuses
    /\ requests \in 0 .. MaxRequests /\ faults \in 0 .. MaxFaults
    /\ early \subseteq Ids /\ dated \subseteq Ids /\ crossed \subseteq Ids /\ refused \subseteq Ids
    /\ failed \in BOOLEAN /\ stuck \in BOOLEAN

\* Jobs at work on the image.
Writing == IF worker.pc = "run" THEN {worker.id} ELSE {}
Copying == {d.id : d \in {e \in daemons : e.kind = "backup"}}

\* No server is up on an image that a snapshot is taken of, removed from or applied to, or
\* that is being backed up, but in three ways: it was on its way or up when the job began
\* and the register still had the image as "used"; the job was an administrator's and
\* believed the status from when it was asked for; or somebody set the status under the job,
\* or the job began under that of another one.
Alone == vm = "up" => Writing \cup Copying \subseteq early \cup dated \cup crossed

\* The register has a snapshot if there is one, which decides what the user is offered, or
\* else qemu-img refused a job that met a server in one of these three ways, or failed, or
\* the worker died.
SnapshotKnown ==
    worker.pc = "idle" /\ ~onNode /\ ~failed /\ snap1 # snap =>
        refused \cap (early \cup dated \cup crossed) # {}

\* An image can be used again after every job, unless one died, or began in the middle of
\* another one, or the listing of the images read its status before it ended and wrote it
\* afterwards.
Released == status \in Busy ~> status \notin Busy \/ stuck

=============================================================================

-------------------------- MODULE ImageLifecycle_proofs --------------------------
(***************************************************************************)
(* Theorems about the status of an image as a lock, for every number of    *)
(* requests and of faults.  The inductive invariant says of whom the lock  *)
(* is: a daemon whose status nobody has overwritten holds it, and whoever  *)
(* is at work while the server is on its way is known to have met it, in   *)
(* one of three ways.                                                      *)
(***************************************************************************)
EXTENDS ImageLifecycle, TLAPS

-----------------------------------------------------------------------------
(* The inductive invariant *)

\* Every job is told from every other one, waiting or at work.
Distinct ==
    /\ \A i, j \in DOMAIN queue : queue[i].id = queue[j].id => i = j
    /\ \A i \in DOMAIN queue : queue[i].id \notin Active /\ queue[i].id <= requests
    /\ \A d, e \in daemons : d.id = e.id => d = e
    /\ \A d \in daemons : d.id # worker.id /\ d.id <= requests
    /\ worker.id <= requests

\* A daemon that has not been met by anybody holds the status.
Held == \A d \in daemons : d.id \in crossed \/ status = Status[d.kind]

\* What is known of the jobs that may meet a server: those at work on the image itself, and
\* backups.  Whatever is going on while the server is on its way or up is among those that
\* are excused.
Excused == early \cup dated \cup crossed
AtWork  == Copying \cup ({worker.id} \ {0})
Met     == vm # "off" => AtWork \subseteq Excused

\* qemu-img only refuses those.
Refusals == refused \subseteq Excused

\* What the register says of the snapshot, at each step of the worker.
Recorded ==
    ~onNode /\ ~failed /\ refused = {} =>
        /\ worker.pc # "run" \/ worker.kind = "revert" => (snap1 <=> snap)
        /\ worker.pc = "run" /\ worker.kind = "snapshot" => snap1
        /\ worker.pc = "run" /\ worker.kind = "unsnap" => ~snap1

IInv == TypeOK /\ Distinct /\ Held /\ Met /\ Refusals /\ Recorded

\* A status of a POST that is written has been read from it.
PostOK == /\ posting \in [status : {"none", "active", "used"}, checked : BOOLEAN]
          /\ posting.checked => posting.status # "none"

-----------------------------------------------------------------------------
(* Facts about the jobs and their statuses *)

LEMMA StatusFacts ==
    /\ Status \in [Snapping \cup {"backup", "restore"} -> Busy]
    /\ Busy = {"snapshotting", "unsnapping", "reverting", "backingup", "restoring"}
    /\ Status["backup"] = "backingup" /\ Status["restore"] = "restoring"
<1>1. DOMAIN Status = Snapping \cup {"backup", "restore"}
  BY DEF Status, Snapping
<1>2. Busy = {"snapshotting", "unsnapping", "reverting", "backingup", "restoring"}
  BY DEF Status, Busy
<1> QED
  BY <1>1, <1>2 DEF Status, Snapping

Job == [id : Ids, kind : Kinds, seen : Statuses]

LEMMA QueueIds ==
    ASSUME queue \in Seq(Job)
    PROVE  \A i \in DOMAIN queue : queue[i].id \in Nat
<1>1. Ids \subseteq Nat
  BY ImageLifecycleAssumption DEF Ids
<1>2. \A i \in DOMAIN queue : queue[i] \in Job
  OBVIOUS
<1>3. \A job \in Job : job.id \in Nat
  BY <1>1 DEF Job
<1> QED
  BY <1>2, <1>3

\* The first request that waits, and those behind it.
LEMMA HeadTail ==
    ASSUME queue \in Seq(Job), queue # <<>>
    PROVE  /\ Head(queue) \in Job
           /\ Head(queue) = queue[1]
           /\ 1 \in DOMAIN queue
           /\ Tail(queue) \in Seq(Job)
           /\ \A i \in DOMAIN Tail(queue) : i + 1 \in DOMAIN queue /\ Tail(queue)[i] = queue[i + 1]
           /\ DOMAIN Tail(queue) \subseteq Nat
  OBVIOUS

LEMMA InitInv == Init => IInv
<1> SUFFICES ASSUME Init PROVE IInv
  OBVIOUS
<1>1. MaxRequests \in Nat /\ MaxFaults \in Nat
  BY ImageLifecycleAssumption
<1>2. queue \in Seq(Job) /\ queue = <<>> /\ DOMAIN queue = {} /\ daemons = {} /\ worker = Waiting
  BY DEF Init
<1>3. TypeOK
  <2>1. admin \in BOOLEAN /\ onNode \in BOOLEAN /\ snap1 \in BOOLEAN /\ snap \in BOOLEAN
        /\ failed \in BOOLEAN /\ stuck \in BOOLEAN
    BY Zenon DEF Init
  <2>2. /\ status \in Statuses
        /\ server \in {"shutoff", "starting", "running", "inactive"}
        /\ vm \in {"off", "ordered", "up"}
        /\ requests \in 0 .. MaxRequests /\ faults \in 0 .. MaxFaults
        /\ early \subseteq Ids /\ dated \subseteq Ids /\ crossed \subseteq Ids
        /\ refused \subseteq Ids
        /\ updating \in {"none", "looking"} \cup Statuses
    BY <1>1 DEF Init, Statuses
  <2>3. PostOK
    BY DEF Init, PostOK, NoPost
  <2> QED
    BY <1>2, <2>1, <2>2, <2>3 DEF TypeOK, Job, PostOK
<1>4. Active = {}
  BY <1>2 DEF Active, Waiting
<1>5. Distinct
  BY <1>2, <1>4 DEF Init, Distinct, Waiting
<1>6. Held /\ Met /\ Refusals
  BY <1>2 DEF Init, Held, Met, Refusals
<1>7. Recorded
  BY <1>2 DEF Init, Recorded, Waiting
<1> QED
  BY <1>3, <1>5, <1>6, <1>7 DEF IInv

-----------------------------------------------------------------------------
(* Every step preserves it *)

\* What a status does that is set under the jobs at work.
LEMMA SetByFacts ==
    ASSUME NEW s, NEW others, SetBy(s, others)
    PROVE  /\ status' = s
           /\ crossed \subseteq crossed'
           /\ crossed' \subseteq crossed \cup Active
           /\ s # status => Active \ others \subseteq crossed'
BY DEF SetBy

LEMMA ActiveIds ==
    ASSUME TypeOK
    PROVE  /\ Active \subseteq Ids
           /\ \A d \in daemons : d.id \in Active /\ d.id \in Ids
           /\ worker # Waiting => worker.id \in Active /\ worker.id \in Ids
           /\ worker = Waiting => worker.id = 0 /\ worker.pc = "idle"
           /\ worker.pc = "idle" => worker = Waiting
           /\ 0 \notin Ids
<1>1. 0 \notin Ids
  BY ImageLifecycleAssumption DEF Ids
<1>2. \A d \in daemons : d.id \in Ids
  BY DEF TypeOK
<1>3. worker = Waiting \/ (worker.id \in Ids /\ worker.pc # "idle")
  BY DEF TypeOK
<1>4. Waiting.id = 0 /\ Waiting.pc = "idle"
  BY DEF Waiting
<1> QED
  BY <1>1, <1>2, <1>3, <1>4 DEF Active

\* Those at work are active jobs; a history that grows excuses whom it excused.
LEMMA AtWorkFacts == TypeOK => AtWork \subseteq Active
<1> SUFFICES ASSUME TypeOK PROVE AtWork \subseteq Active
  OBVIOUS
<1>1. Copying \subseteq Active
  BY ActiveIds DEF Copying
<1>2. {worker.id} \ {0} \subseteq Active
  BY DEF Active
<1> QED
  BY <1>1, <1>2 DEF AtWork

LEMMA MetKept ==
    ASSUME Met, Refusals, Excused \subseteq Excused', AtWork' \subseteq AtWork, vm' # "off" => vm # "off",
           refused' = refused
    PROVE  Met' /\ Refusals'
BY DEF Met, Refusals

\* Reports and listings: they know of no job.
LEMMA QuietStep ==
    ASSUME IInv, Quiet,
           status' \in Statuses, status' # status => Active \subseteq crossed',
           crossed \subseteq crossed', crossed' \subseteq crossed \cup Active,
           stuck' \in BOOLEAN, stuck => stuck',
           server' \in {"shutoff", "starting", "running", "inactive"},
           PostOK', updating' \in {"none", "looking"} \cup Statuses,
           faults' \in 0 .. MaxFaults
    PROVE  IInv'
<1> USE DEF IInv
<1>1. /\ queue' = queue /\ worker' = worker /\ daemons' = daemons
      /\ admin' = admin /\ onNode' = onNode /\ snap1' = snap1 /\ snap' = snap
      /\ vm' = vm /\ requests' = requests
      /\ early' = early /\ dated' = dated /\ refused' = refused /\ failed' = failed
  BY DEF Quiet, engineVars
<1>2. Active' = Active /\ AtWork' = AtWork
  BY <1>1 DEF Active, AtWork, Copying
<1>3. TypeOK'
  BY <1>1, ActiveIds DEF TypeOK, PostOK
<1>4. Distinct'
  BY <1>1, <1>2 DEF Distinct
<1>5. Held'
  BY <1>1, ActiveIds DEF Held
<1>6. Met' /\ Refusals'
  BY <1>1, <1>2, MetKept DEF Excused
<1>7. Recorded'
  BY <1>1 DEF Recorded
<1> QED
  BY <1>3, <1>4, <1>5, <1>6, <1>7

\* What every report and listing leaves or sets of these.
LEMMA QuietFacts ==
    ASSUME IInv
    PROVE  /\ {"used", "active"} \subseteq Statuses /\ status \in Statuses
           /\ Statuses = {"used", "active"} \cup Busy
           /\ faults \in 0 .. MaxFaults /\ MaxFaults \in Nat
           /\ server \in {"shutoff", "starting", "running", "inactive"}
           /\ stuck \in BOOLEAN /\ PostOK
           /\ updating \in {"none", "looking"} \cup Statuses
           /\ crossed \subseteq crossed \cup Active
BY ImageLifecycleAssumption DEF IInv, TypeOK, Statuses, PostOK

LEMMA ReportStep == IInv /\ Report => IInv'
<1> SUFFICES ASSUME IInv, Report PROVE IInv'
  OBVIOUS
<1>1. ASSUME NEW st \in {"shutoff", "starting", "running"}, NEW i \in {"used", "active"}, Reported(st, i)
      PROVE  IInv'
  <2>1. /\ server' = st /\ posting' = [status |-> i, checked |-> FALSE] /\ Quiet
        /\ status' = status /\ updating' = updating /\ faults' = faults
        /\ crossed' = crossed /\ stuck' = stuck
    BY <1>1 DEF Reported
  <2>2. PostOK'
    BY <2>1 DEF PostOK
  <2> QED
    BY <2>1, <2>2, QuietFacts, QuietStep
<1>2. CASE PostUp \/ PostDead
  BY <1>1, <1>2 DEF PostUp, PostDead
<1>3. CASE PostNone
  <2>1. /\ server' = "shutoff" /\ Quiet
        /\ status' = status /\ posting' = posting /\ updating' = updating /\ faults' = faults
        /\ crossed' = crossed /\ stuck' = stuck
    BY <1>3 DEF PostNone, writerVars
  <2>2. PostOK'
    BY <2>1, QuietFacts DEF PostOK
  <2> QED
    BY <2>1, <2>2, QuietFacts, QuietStep
<1>4. CASE PostLook
  <2>1. /\ Quiet /\ posting # NoPost
        /\ posting' = (IF status = "backingup" THEN NoPost ELSE [posting EXCEPT !.checked = TRUE])
        /\ status' = status /\ server' = server /\ updating' = updating /\ faults' = faults
        /\ crossed' = crossed /\ stuck' = stuck /\ ~posting.checked
    BY <1>4 DEF PostLook
  <2>2. PostOK'
    <3>1. posting.status # "none"
      BY <2>1, QuietFacts DEF PostOK, NoPost
    <3> QED
      BY <2>1, <3>1, QuietFacts DEF PostOK, NoPost
  <2> QED
    BY <2>1, <2>2, QuietFacts, QuietStep
<1>5. CASE PostImage
  <2>1. /\ Quiet /\ posting.checked /\ SetBy(posting.status, {}) /\ posting' = NoPost
        /\ server' = server /\ updating' = updating /\ faults' = faults /\ stuck' = stuck
    BY <1>5 DEF PostImage
  <2>2. PostOK'
    BY <2>1 DEF PostOK, NoPost
  <2>3. posting.status \in {"active", "used"}
    BY <2>1, QuietFacts DEF PostOK
  <2> QED
    BY <2>1, <2>2, <2>3, QuietFacts, SetByFacts, QuietStep
<1>6. ASSUME Unheard PROVE faults' \in 0 .. MaxFaults
  BY <1>6, QuietFacts DEF Unheard
<1>7. CASE ListServers \/ UpdateServers
  <2>1. /\ Quiet /\ SetBy("used", {}) /\ Unheard
        /\ server' \in {"shutoff", "inactive"}
        /\ posting' = posting /\ updating' = updating /\ stuck' = stuck
    BY <1>7 DEF ListServers, UpdateServers, writerVars
  <2>2. PostOK'
    BY <2>1, QuietFacts DEF PostOK
  <2> QED
    BY <1>6, <2>1, <2>2, QuietFacts, SetByFacts, QuietStep
<1>8. CASE UpdateRead \/ UpdateLook
  <2>1. /\ Quiet /\ updating' \in {"looking", "used", "active", status}
        /\ status' = status /\ server' = server /\ posting' = posting /\ faults' = faults
        /\ crossed' = crossed /\ stuck' = stuck
    BY <1>8 DEF UpdateRead, UpdateLook
  <2>2. PostOK'
    BY <2>1, QuietFacts DEF PostOK
  <2> QED
    BY <2>1, <2>2, QuietFacts, QuietStep
<1>9. CASE UpdateWrite
  <2>1. /\ Quiet /\ updating \notin {"none", "looking"} /\ SetBy(updating, {}) /\ updating' = "none"
        /\ server' = server /\ posting' = posting /\ faults' = faults
        /\ stuck' = (stuck \/ (updating \in Busy /\ updating # status))
    BY <1>9 DEF UpdateWrite
  <2>2. PostOK'
    BY <2>1, QuietFacts DEF PostOK
  <2>3. stuck' \in BOOLEAN /\ (stuck => stuck')
    BY <2>1, QuietFacts, Zenon
  <2> QED
    BY <2>1, <2>2, <2>3, QuietFacts, SetByFacts, QuietStep
<1> QED
  BY <1>2, <1>3, <1>4, <1>5, <1>7, <1>8, <1>9 DEF Report

\* The server, whose node creates what was ordered.
LEMMA ServerStep ==
    ASSUME IInv, NEW from \in {"ordered", "up"}, NEW to \in {"off", "up"}, Server(from, to)
    PROVE  IInv'
<1> USE DEF IInv
<1>1. /\ queue' = queue /\ worker' = worker /\ daemons' = daemons
      /\ admin' = admin /\ onNode' = onNode /\ snap1' = snap1 /\ snap' = snap
      /\ status' = status /\ server' = server
      /\ requests' = requests /\ faults' = faults /\ stuck' = stuck /\ crossed' = crossed
      /\ early' = early /\ dated' = dated /\ refused' = refused /\ failed' = failed
      /\ posting' = posting /\ updating' = updating
      /\ vm = from /\ vm' = to
  BY DEF Server, engineVars, registerVars, writerVars, history
<1>2. Active' = Active /\ AtWork' = AtWork
  BY <1>1 DEF Active, AtWork, Copying
<1>3. TypeOK'
  BY <1>1 DEF TypeOK
<1>4. Distinct' /\ Held' /\ Recorded'
  BY <1>1, <1>2 DEF Distinct, Held, Recorded
<1>5. Met' /\ Refusals'
  BY <1>1, <1>2, MetKept DEF Excused
<1> QED
  BY <1>3, <1>4, <1>5

LEMMA AskStep ==
    ASSUME IInv, NEW k \in Kinds, Ask(k)
    PROVE  IInv'
<1> USE DEF IInv
<1> DEFINE job == [id |-> requests + 1, kind |-> k, seen |-> status]
<1>1. /\ worker' = worker /\ daemons' = daemons
      /\ admin' = admin /\ onNode' = onNode /\ snap1' = snap1 /\ snap' = snap
      /\ status' = status /\ server' = server /\ vm' = vm
      /\ faults' = faults /\ stuck' = stuck /\ crossed' = crossed
      /\ early' = early /\ dated' = dated /\ refused' = refused /\ failed' = failed
      /\ posting' = posting /\ updating' = updating
      /\ queue' = Append(queue, job)
      /\ requests < MaxRequests /\ requests' = requests + 1
  BY DEF Ask, registerVars, writerVars, history
<1>2. Active' = Active
  BY <1>1 DEF Active
<1>3. /\ requests' \in 0 .. MaxRequests /\ job \in Job /\ queue \in Seq(Job)
      /\ requests \in Nat
  BY <1>1, ImageLifecycleAssumption DEF TypeOK, Ids, Job
<1>4. TypeOK'
  BY <1>1, <1>3 DEF TypeOK, Job
<1>5. \A i \in DOMAIN queue' : queue'[i] = job \/ (i \in DOMAIN queue /\ queue'[i] = queue[i])
  BY <1>1, <1>3
<1>6. \A i, j \in DOMAIN queue' : i \notin DOMAIN queue /\ j \notin DOMAIN queue => i = j
  BY <1>1, <1>3
<1>7. job.id = requests + 1 /\ requests + 1 \notin Active
  <2>1. \A id \in Active : id <= requests
    BY <1>3, ActiveIds DEF Distinct, Active
  <2> QED
    BY <1>3, <2>1
<1>8. Distinct'
  <2>1. \A i \in DOMAIN queue' : queue'[i].id \notin Active /\ queue'[i].id <= requests'
    <3> SUFFICES ASSUME NEW i \in DOMAIN queue'
                 PROVE  queue'[i].id \notin Active /\ queue'[i].id <= requests'
      OBVIOUS
    <3>1. CASE queue'[i] = job
      BY <1>1, <1>3, <1>7, <3>1
    <3>2. CASE i \in DOMAIN queue /\ queue'[i] = queue[i]
      <4>1. queue[i].id \in Nat
        BY <1>3, <3>2, QueueIds
      <4> QED
        BY <1>1, <1>3, <3>2, <4>1 DEF Distinct
    <3> QED
      BY <1>5, <3>1, <3>2
  <2>2. \A i, j \in DOMAIN queue' : queue'[i].id = queue'[j].id => i = j
    <3> SUFFICES ASSUME NEW i \in DOMAIN queue', NEW j \in DOMAIN queue',
                        queue'[i].id = queue'[j].id
                 PROVE  i = j
      OBVIOUS
    <3>1. \A l \in DOMAIN queue' : l \in DOMAIN queue => queue'[l].id < requests + 1
      <4>1. \A l \in DOMAIN queue : queue'[l] = queue[l] /\ queue[l].id \in Nat
        BY <1>1, <1>3, QueueIds
      <4> QED
        BY <1>3, <4>1 DEF Distinct
    <3>2. \A l \in DOMAIN queue' : l \notin DOMAIN queue => queue'[l].id = requests + 1
      BY <1>5, <1>7
    <3>3. CASE i \in DOMAIN queue /\ j \in DOMAIN queue
      <4>1. queue'[i] = queue[i] /\ queue'[j] = queue[j]
        BY <1>1, <1>3, <3>3
      <4> QED
        BY <3>3, <4>1 DEF Distinct
    <3>4. CASE ~(i \in DOMAIN queue /\ j \in DOMAIN queue)
      BY <1>3, <1>6, <3>1, <3>2, <3>4
    <3> QED
      BY <3>3, <3>4
  <2>3. /\ \A d, e \in daemons : d.id = e.id => d = e
        /\ \A d \in daemons : d.id # worker.id /\ d.id <= requests + 1
        /\ worker.id <= requests + 1
    <3>1. \A d \in daemons : d.id \in Nat
      BY ActiveIds, ImageLifecycleAssumption DEF Ids
    <3>2. worker.id \in Nat
      BY ActiveIds, ImageLifecycleAssumption DEF Ids
    <3> QED
      BY <1>3, <3>1, <3>2 DEF Distinct
  <2> QED
    BY <1>1, <1>2, <2>1, <2>2, <2>3 DEF Distinct
<1>9. Held' /\ Recorded'
  BY <1>1, <1>2 DEF Held, Recorded
<1>10. Met' /\ Refusals'
  <2>1. AtWork' = AtWork
    BY <1>1 DEF AtWork, Copying
  <2> QED
    BY <1>1, <2>1, MetKept DEF Excused
<1> QED
  BY <1>4, <1>8, <1>9, <1>10

\* The worker takes the first request: no job has its number, nor has what is left.
LEMMA TakeFacts ==
    ASSUME IInv, NEW kinds, Take(kinds)
    PROVE  /\ worker = Waiting /\ worker.pc = "idle" /\ worker.id = 0
           /\ Head(queue) \in Job /\ Head(queue).kind \in kinds
           /\ Head(queue).id \in Ids \ Active /\ Head(queue).id <= requests
           /\ Found \in Statuses
           /\ queue' \in Seq(Job)
           /\ \A i, j \in DOMAIN queue' : queue'[i].id = queue'[j].id => i = j
           /\ \A i \in DOMAIN queue' :
                  queue'[i].id \notin Active \cup {Head(queue).id} /\ queue'[i].id <= requests
           /\ admin' = admin /\ onNode' = onNode /\ requests' = requests /\ faults' = faults
           /\ posting' = posting /\ updating' = updating
<1> USE DEF IInv
<1>1. queue \in Seq(Job) /\ queue # <<>> /\ queue' = Tail(queue)
  BY DEF TypeOK, Take, Job
<1>2. /\ Head(queue) \in Job /\ Head(queue) = queue[1] /\ 1 \in DOMAIN queue
      /\ queue' \in Seq(Job) /\ DOMAIN queue' \subseteq Nat
      /\ \A i \in DOMAIN queue' : i + 1 \in DOMAIN queue /\ queue'[i] = queue[i + 1] /\ i + 1 # 1
  <2>1. DOMAIN Tail(queue) \subseteq Nat \ {0}
    BY <1>1
  <2> QED
    BY <1>1, <2>1, HeadTail
<1>3. Head(queue).id \in Ids \ Active /\ Head(queue).id <= requests
  BY <1>2 DEF Distinct, Job
<1>4. \A i, j \in DOMAIN queue' : queue'[i].id = queue'[j].id => i = j
  BY <1>2 DEF Distinct
<1>5. \A i \in DOMAIN queue' :
          queue'[i].id \notin Active \cup {Head(queue).id} /\ queue'[i].id <= requests
  BY <1>2 DEF Distinct
<1>6. Found \in Statuses
  BY <1>2 DEF Found, Job, TypeOK
<1>7. worker = Waiting /\ worker.pc = "idle" /\ worker.id = 0
  BY ActiveIds DEF Take
<1> QED
  BY <1>2, <1>3, <1>4, <1>5, <1>6, <1>7 DEF Take, writerVars

\* A job that begins with the server on its way or up is excused, unless the status of the
\* image is its own and not "used".
LEMMA BeginFacts ==
    ASSUME IInv, NEW kinds, Take(kinds), Begin
    PROVE  /\ early \subseteq early' /\ early' \subseteq Ids
           /\ dated \subseteq dated' /\ dated' \subseteq Ids
           /\ vm # "off" /\ Found = "used" => Head(queue).id \in early' \cup dated'
           /\ Found # status => Head(queue).id \in dated'
<1>1. Head(queue).id \in Ids /\ early \subseteq Ids /\ dated \subseteq Ids
  BY TakeFacts DEF IInv, TypeOK
<1> QED
  BY <1>1 DEF Begin

\* A start needs the status "used": no daemon has it that has not been met.
LEMMA StartStep ==
    ASSUME IInv, Start
    PROVE  IInv'
<1> USE DEF IInv
<1>1. /\ status' = status /\ snap1' = snap1 /\ worker' = worker /\ daemons' = daemons
      /\ snap' = snap /\ crossed' = crossed /\ stuck' = stuck
      /\ early' = early /\ dated' = dated /\ refused' = refused /\ failed' = failed
      /\ Take({"start"})
  BY DEF Start, history
<1>2. Active' = Active /\ AtWork' = AtWork
  BY <1>1 DEF Active, AtWork, Copying
<1>3. /\ server' \in {"shutoff", "starting", "running", "inactive"}
      /\ vm' \in {"off", "ordered", "up"}
      /\ vm' # vm => vm = "off" /\ status = "used"
  BY DEF Start, TypeOK
<1>4. TypeOK'
  BY <1>1, <1>3, TakeFacts DEF TypeOK, Job
<1>5. Distinct'
  BY <1>1, <1>2, TakeFacts DEF Distinct
<1>6. Held' /\ Recorded'
  BY <1>1, TakeFacts DEF Held, Recorded
<1>7. Met'
  <2>1. CASE vm' = vm
    BY <1>1, <1>2, <2>1 DEF Met, Excused
  <2>2. CASE vm' # vm
    <3>1. AtWork = Copying
      BY <1>1, TakeFacts DEF AtWork
    <3>2. \A d \in daemons : Status[d.kind] # "used"
      BY StatusFacts DEF TypeOK
    <3>3. \A d \in daemons : d.id \in crossed
      BY <1>3, <2>2, <3>2 DEF Held
    <3> QED
      BY <1>1, <1>2, <3>1, <3>3 DEF Met, Excused, Copying
  <2> QED
    BY <2>1, <2>2
<1>8. Refusals'
  BY <1>1 DEF Refusals, Excused
<1> QED
  BY <1>4, <1>5, <1>6, <1>7, <1>8

LEMMA InspectStep ==
    ASSUME IInv, Inspect
    PROVE  IInv'
<1> USE DEF IInv
<1>0. /\ status' = status /\ server' = server /\ daemons' = daemons
      /\ vm' = vm /\ stuck' = stuck /\ crossed' = crossed /\ failed' = failed
      /\ Take(Snapping)
  BY DEF Inspect
<1> DEFINE id  == Head(queue).id
           k   == Head(queue).kind
           Job1 == [pc |-> "mark", id |-> id, kind |-> k, old |-> Found]
<1>1. PICK no \in BOOLEAN :
        /\ no => Found = "used" /\ snap /\ vm = "up"
        /\ worker' = (IF Found = "used" /\ (k = "snapshot" <=> ~(snap /\ ~no)) THEN Job1 ELSE worker)
        /\ IF (Found = "used" /\ (k = "snapshot" <=> ~(snap /\ ~no))) \/ no
           THEN Begin ELSE UNCHANGED <<early, dated>>
        /\ refused' = (IF no THEN refused \cup {id} ELSE refused)
        /\ \/ snap' = (snap /\ ~(onNode /\ Found = "used" /\ k = "snapshot" /\ snap /\ ~no))
           \/ (onNode /\ Found = "used" /\ k = "snapshot" /\ snap /\ ~no) /\ vm = "up" /\ snap' = snap
        /\ snap1' = (snap1 /\ ~(Found = "used" /\ k = "unsnap" /\ ~(snap /\ ~no)))
  BY Zenon DEF Inspect
<1> DEFINE begins == worker' # worker \/ no
<1>2. /\ early \subseteq early' /\ early' \subseteq Ids
      /\ dated \subseteq dated' /\ dated' \subseteq Ids
  BY <1>0, <1>1, BeginFacts DEF TypeOK
<1>3. Excused \subseteq Excused'
  BY <1>0, <1>2 DEF Excused
<1>4. /\ worker' \in {worker, Job1}
      /\ worker' = Job1 /\ worker # Job1 => Found = "used" /\ Begin
      /\ no => Found = "used" /\ Begin
  BY <1>1
<1>5. worker # Job1 /\ worker.id = 0 /\ worker = Waiting
  BY <1>0, TakeFacts DEF Waiting
<1>6. Found = "used" => Job1 \in [pc : {"mark", "run", "done"}, id : Ids, kind : Snapping, old : {"used"}]
  BY <1>0, TakeFacts
<1>7. vm # "off" /\ (worker' = Job1 \/ no) => id \in Excused'
  BY <1>0, <1>4, <1>5, BeginFacts DEF Excused
<1>8. snap' \in BOOLEAN /\ snap1' \in BOOLEAN
  BY <1>1 DEF TypeOK
<1>9. refused' \subseteq Ids /\ (no => vm # "off") /\ refused' \subseteq refused \cup (IF no THEN {id} ELSE {})
  BY <1>0, <1>1, TakeFacts DEF TypeOK
<1>10. worker' \in {Waiting} \cup [pc : {"mark", "run", "done"}, id : Ids, kind : Snapping, old : {"used"}]
  BY <1>4, <1>5, <1>6
<1> HIDE DEF Job1, id, k
<1>11. TypeOK'
  <2>1. /\ queue' \in Seq(Job) /\ admin' = admin /\ onNode' = onNode /\ requests' = requests
        /\ faults' = faults /\ posting' = posting /\ updating' = updating
    BY <1>0, TakeFacts
  <2>2. /\ admin' \in BOOLEAN /\ onNode' \in BOOLEAN /\ status' \in Statuses
        /\ server' \in {"shutoff", "starting", "running", "inactive"}
        /\ vm' \in {"off", "ordered", "up"}
        /\ crossed' \subseteq Ids /\ failed' \in BOOLEAN /\ stuck' \in BOOLEAN
        /\ requests' \in 0 .. MaxRequests /\ faults' \in 0 .. MaxFaults
        /\ updating' \in {"none", "looking"} \cup Statuses
    BY <1>0, <2>1 DEF TypeOK
  <2>3. PostOK'
    BY <2>1 DEF TypeOK, PostOK
  <2>4. daemons' \subseteq [id : Ids, kind : {"backup", "restore"}, old : Statuses]
    BY <1>0 DEF TypeOK
  <2> HIDE DEF IInv
  <2> QED
    BY <1>2, <1>8, <1>9, <1>10, <2>1, <2>2, <2>3, <2>4 DEF TypeOK, Job, PostOK
<1>12. worker'.id \in {0, id} /\ (worker'.id # 0 => worker' = Job1)
  BY <1>4, <1>5 DEF Job1
<1>13. Active' \subseteq Active \cup {id} /\ AtWork' \subseteq AtWork \cup ({worker'.id} \ {0})
  BY <1>0, <1>12 DEF Active, AtWork, Copying
<1>14. Distinct'
  <2>0. id \notin Active /\ id <= requests
    BY <1>0, TakeFacts DEF id
  <2>2. 0 <= requests /\ \A d \in daemons : d.id \in Active \ {0}
    BY ActiveIds DEF TypeOK
  <2>3. \A d \in daemons' : d.id # worker'.id
    BY <1>0, <1>12, <2>0, <2>2
  <2>4. worker'.id <= requests
    BY <1>12, <2>0, <2>2
  <2>5. \A i \in DOMAIN queue' : queue'[i].id \notin Active'
    BY <1>0, <1>13, TakeFacts DEF id
  <2> QED
    BY <1>0, <2>3, <2>4, <2>5, TakeFacts DEF Distinct
<1>15. Held'
  BY <1>0 DEF Held
<1>16. Met'
  BY <1>0, <1>3, <1>7, <1>12, <1>13 DEF Met
<1>17. Refusals'
  BY <1>3, <1>7, <1>9 DEF Refusals
<1>18. Recorded'
  <2> SUFFICES ASSUME ~onNode, ~failed, refused' = {} PROVE (snap1' <=> snap') /\ worker'.pc # "run"
    BY <1>0, TakeFacts DEF Recorded
  <2>1. refused = {} /\ ~no
    BY <1>1
  <2>2. snap1 <=> snap
    BY <1>0, <2>1, TakeFacts DEF Recorded
  <2>3. snap' = snap /\ snap1' = (snap1 /\ ~(Found = "used" /\ k = "unsnap" /\ ~snap))
    BY <1>1, <2>1 DEF TypeOK
  <2>4. snap1' <=> snap'
    BY <2>2, <2>3, Zenon
  <2>5. worker'.pc # "run"
    BY <1>4, <1>5 DEF Job1, Waiting
  <2> QED
    BY <2>4, <2>5
<1> QED
  BY <1>11, <1>14, <1>15, <1>16, <1>17, <1>18

\* A job that is left to a daemon sets the status, and has met those at work before.
LEMMA SpawnStep ==
    ASSUME IInv, Take({"backup", "restore"}), Spawn, Head(queue).kind = "backup" => Found # "active",
           snap1' = snap1, server' = server, worker' = worker, snap' = snap, vm' = vm
    PROVE  IInv'
<1> USE DEF IInv
<1> DEFINE d0 == [id |-> Head(queue).id, kind |-> Head(queue).kind, old |-> Found]
<1>1. /\ daemons' = daemons \cup {d0}
      /\ status' = Status[d0.kind]
      /\ crossed' = crossed \cup Active \cup (IF Found \in Busy THEN {d0.id} ELSE {})
      /\ stuck' = (stuck \/ Found \in Busy)
      /\ Begin /\ refused' = refused /\ failed' = failed
  BY DEF Spawn
<1>2. d0.kind \in {"backup", "restore"} /\ d0.id \in Ids \ Active /\ d0.id <= requests
      /\ d0 \in [id : Ids, kind : {"backup", "restore"}, old : Statuses]
  BY TakeFacts
<1>3. status' \in Statuses
  BY <1>1, <1>2, StatusFacts DEF Statuses
<1>4. crossed \cup Active \subseteq crossed' /\ crossed' \subseteq Ids
  BY <1>1, <1>2, ActiveIds DEF TypeOK
<1>5. stuck' \in BOOLEAN /\ (stuck => stuck')
  BY <1>1
<1>6. TypeOK'
  <2>1. early' \subseteq Ids /\ dated' \subseteq Ids
    BY <1>1, BeginFacts
  <2>2. refused' \subseteq Ids /\ failed' \in BOOLEAN
    BY <1>1 DEF TypeOK
  <2>3. daemons' \subseteq [id : Ids, kind : {"backup", "restore"}, old : Statuses]
    BY <1>1, <1>2 DEF TypeOK
  <2>4. TypeOK /\ queue' \in Seq(Job)
        /\ admin' = admin /\ onNode' = onNode /\ requests' = requests /\ faults' = faults
        /\ posting' = posting /\ updating' = updating
    BY TakeFacts
  <2> HIDE DEF d0
  <2> QED
    BY <1>3, <1>4, <1>5, <2>1, <2>2, <2>3, <2>4 DEF TypeOK, Job
<1>7. Active' = Active \cup {d0.id}
  <2>1. d0.id # 0
    BY <1>2, ActiveIds
  <2> QED
    BY <1>1, <2>1 DEF Active
<1>8. Distinct'
  <2>1. \A d \in daemons : d.id \in Active /\ d.id # 0 /\ d.id <= requests
    BY ActiveIds DEF Distinct
  <2>2. \A d, e \in daemons' : d.id = e.id => d = e
    BY <1>1, <1>2, <2>1 DEF Distinct
  <2>3. worker'.id = 0 /\ 0 <= requests
    BY TakeFacts DEF TypeOK
  <2>4. \A d \in daemons' : d.id # worker'.id /\ d.id <= requests
    BY <1>1, <1>2, <2>1, <2>3, ActiveIds
  <2>5. \A i \in DOMAIN queue' : queue'[i].id \notin Active' /\ queue'[i].id <= requests
    BY <1>7, TakeFacts
  <2> QED
    BY <2>2, <2>3, <2>4, <2>5, TakeFacts DEF Distinct
<1>9. Held'
  BY <1>1, <1>4, ActiveIds DEF Held
<1>10. Excused \cup Active \subseteq Excused'
  BY <1>1, <1>4, BeginFacts DEF Excused
<1>11. Met'
  <2>1. vm # "off" /\ d0.kind = "backup" => d0.id \in Excused'
    <3>1. CASE Found = "used"
      BY <1>1, <3>1, BeginFacts DEF Excused
    <3>2. CASE Found \in Busy
      BY <1>1, <3>2 DEF Excused
    <3>3. CASE Found = "active"
      BY <3>3
    <3> QED
      BY <3>1, <3>2, <3>3, TakeFacts DEF Statuses
  <2>2. AtWork' \subseteq AtWork \cup (IF d0.kind = "backup" THEN {d0.id} ELSE {})
    BY <1>1 DEF AtWork, Copying
  <2> QED
    BY <1>10, <2>1, <2>2 DEF Met
<1>12. Refusals'
  BY <1>1, <1>10 DEF Refusals
<1>13. Recorded'
  BY <1>1, <1>5, TakeFacts DEF Recorded
<1> QED
  BY <1>6, <1>8, <1>9, <1>11, <1>12, <1>13

\* A job that is refused is only taken from the queue.
LEMMA RefusedStep ==
    ASSUME IInv, NEW kinds, Take(kinds),
           UNCHANGED <<status, snap1, server, worker, daemons, snap, vm, history>>
    PROVE  IInv'
<1> USE DEF IInv
<1>0. /\ status' = status /\ snap1' = snap1 /\ server' = server /\ worker' = worker
      /\ daemons' = daemons /\ snap' = snap /\ vm' = vm
      /\ early' = early /\ dated' = dated /\ crossed' = crossed /\ refused' = refused /\ failed' = failed
      /\ stuck' = stuck
  BY DEF history
<1>1. Active' = Active /\ AtWork' = AtWork
  BY <1>0 DEF Active, AtWork, Copying
<1>2. TypeOK'
  <2>1. /\ queue' \in Seq(Job)
        /\ admin' = admin /\ onNode' = onNode /\ requests' = requests /\ faults' = faults
        /\ posting' = posting /\ updating' = updating
    BY TakeFacts
  <2> QED
    BY <1>0, <2>1 DEF TypeOK, Job
<1>3. Distinct'
  BY <1>0, <1>1, TakeFacts DEF Distinct
<1>4. Held' /\ Recorded'
  BY <1>0, TakeFacts DEF Held, Recorded
<1>5. Met' /\ Refusals'
  BY <1>0, <1>1, MetKept DEF Excused
<1> QED
  BY <1>2, <1>3, <1>4, <1>5

LEMMA TakeMore ==
    ASSUME NEW kinds, Take(kinds), NEW more, kinds \subseteq more
    PROVE  Take(more)
BY DEF Take

LEMMA BackupStep == IInv /\ Backup => IInv'
<1> SUFFICES ASSUME IInv, Backup PROVE IInv'
  OBVIOUS
<1>1. Take({"backup"}) /\ Take({"backup", "restore"})
  BY TakeMore DEF Backup
<1>2. UNCHANGED <<snap1, server, worker, snap, vm>>
  BY DEF Backup
<1>3. CASE UNCHANGED <<daemons, status, history>>
  BY <1>1, <1>2, <1>3, RefusedStep
<1>4. CASE Spawn /\ Found # "active"
  BY <1>1, <1>2, <1>4, SpawnStep
<1> QED
  BY <1>3, <1>4 DEF Backup

LEMMA RestoreStep == IInv /\ Restore => IInv'
<1> SUFFICES ASSUME IInv, Restore PROVE IInv'
  OBVIOUS
<1>1. Take({"restore"}) /\ Take({"backup", "restore"})
  BY TakeMore DEF Restore
<1>2. UNCHANGED <<snap1, server, worker, snap, vm>> /\ Spawn
  BY DEF Restore
<1>3. Head(queue).kind = "restore"
  BY <1>1 DEF Take
<1> QED
  BY <1>1, <1>2, <1>3, SpawnStep

\* No job is added: those that go on are told apart as before.
LEMMA FewerJobs ==
    ASSUME IInv, queue' = queue, requests' = requests, daemons' \subseteq daemons,
           worker'.id \in {0, worker.id}
    PROVE  Active' \subseteq Active /\ AtWork' \subseteq AtWork /\ Distinct'
<1> USE DEF IInv
<1>1. Active' \subseteq Active /\ AtWork' \subseteq AtWork
  BY DEF Active, AtWork, Copying
<1>2. \A d \in daemons' : d.id \in Active /\ d.id # 0
  BY ActiveIds
<1>3. 0 <= requests
  BY DEF TypeOK
<1>4. \A d \in daemons' : d.id # worker'.id
  BY <1>2 DEF Distinct
<1>5. worker'.id <= requests
  BY <1>3 DEF Distinct
<1> QED
  BY <1>1, <1>4, <1>5 DEF Distinct

LEMMA MarkStep == IInv /\ Mark => IInv'
<1> SUFFICES ASSUME IInv, Mark PROVE IInv'
  OBVIOUS
<1> USE DEF IInv
<1>1. /\ worker.pc = "mark" /\ worker' = [worker EXCEPT !.pc = "run"]
      /\ SetBy(Status[worker.kind], {worker.id})
      /\ snap1' = (CASE worker.kind = "snapshot" -> TRUE
                     [] worker.kind = "unsnap" -> FALSE
                     [] OTHER -> snap1)
      /\ admin' = admin /\ onNode' = onNode /\ server' = server /\ queue' = queue
      /\ daemons' = daemons /\ snap' = snap /\ vm' = vm /\ requests' = requests
      /\ faults' = faults /\ stuck' = stuck
      /\ early' = early /\ dated' = dated /\ refused' = refused /\ failed' = failed
      /\ posting' = posting /\ updating' = updating
  BY DEF Mark, Working, writerVars
<1>2. /\ worker \in [pc : {"mark", "run", "done"}, id : Ids, kind : Snapping, old : {"used"}]
      /\ worker' \in [pc : {"mark", "run", "done"}, id : Ids, kind : Snapping, old : {"used"}]
      /\ worker'.id = worker.id /\ worker'.kind = worker.kind /\ worker'.pc = "run"
  BY <1>1 DEF TypeOK, Waiting
<1>3. status' \in Statuses /\ crossed' \subseteq Ids
  BY <1>1, <1>2, StatusFacts, SetByFacts, ActiveIds DEF TypeOK, Statuses
<1>4. snap1' \in BOOLEAN
  BY <1>1 DEF TypeOK
<1>5. TypeOK'
  <2>1. TypeOK /\ worker' \in {Waiting} \cup [pc : {"mark", "run", "done"}, id : Ids,
                                             kind : Snapping, old : {"used"}]
    BY <1>2
  <2>2. /\ admin' = admin /\ onNode' = onNode /\ server' = server /\ queue' = queue
        /\ daemons' = daemons /\ snap' = snap /\ vm' = vm /\ requests' = requests
        /\ faults' = faults /\ stuck' = stuck
        /\ early' = early /\ dated' = dated /\ refused' = refused /\ failed' = failed
        /\ posting' = posting /\ updating' = updating
    BY <1>1
  <2> QED
    BY <1>3, <1>4, <2>1, <2>2 DEF TypeOK
<1>6. AtWork' \subseteq AtWork /\ Distinct'
  BY <1>1, <1>2, FewerJobs
<1>7. Held'
  BY <1>1, SetByFacts, ActiveIds DEF Held, Distinct
<1>8. Met' /\ Refusals'
  BY <1>1, <1>6, SetByFacts, MetKept DEF Excused
<1>9. Recorded'
  <2> SUFFICES ASSUME ~onNode, ~failed, refused = {}
               PROVE  /\ worker.kind = "revert" => (snap1' <=> snap')
                      /\ worker.kind = "snapshot" => snap1'
                      /\ worker.kind = "unsnap" => ~snap1'
    BY <1>1, <1>2 DEF Recorded
  <2>1. snap1 <=> snap
    BY <1>1 DEF Recorded
  <2>2. worker.kind = "snapshot" => snap1'
    BY <1>1
  <2>3. worker.kind = "unsnap" => ~snap1'
    BY <1>1
  <2>4. worker.kind = "revert" => snap1' = snap1 /\ snap' = snap
    BY <1>1
  <2> QED
    BY <2>1, <2>2, <2>3, <2>4
<1> QED
  BY <1>5, <1>6, <1>7, <1>8, <1>9

LEMMA RunStep == IInv /\ Run => IInv'
<1> SUFFICES ASSUME IInv, Run PROVE IInv'
  OBVIOUS
<1> USE DEF IInv
<1>1. /\ worker.pc = "run" /\ worker' = [worker EXCEPT !.pc = "done"]
      /\ admin' = admin /\ onNode' = onNode /\ status' = status /\ snap1' = snap1
      /\ server' = server /\ queue' = queue /\ daemons' = daemons /\ vm' = vm
      /\ requests' = requests /\ crossed' = crossed /\ stuck' = stuck
      /\ early' = early /\ dated' = dated /\ posting' = posting /\ updating' = updating
  BY DEF Run, Working, writerVars
<1>2. /\ worker \in [pc : {"mark", "run", "done"}, id : Ids, kind : Snapping, old : {"used"}]
      /\ worker' \in [pc : {"mark", "run", "done"}, id : Ids, kind : Snapping, old : {"used"}]
      /\ worker'.id = worker.id /\ worker'.kind = worker.kind /\ worker'.pc = "done"
  BY <1>1 DEF TypeOK, Waiting
<1>3. \/ /\ snap' = (CASE worker.kind = "snapshot" -> TRUE
                       [] worker.kind = "unsnap" -> FALSE
                       [] OTHER -> snap)
         /\ faults' = faults /\ refused' = refused /\ failed' = failed
      \/ /\ vm = "up" /\ refused' = refused \cup {worker.id}
         /\ snap' = snap /\ faults' = faults /\ failed' = failed
      \/ /\ faults < MaxFaults /\ faults' = faults + 1 /\ failed' = TRUE
         /\ snap' = snap /\ refused' = refused
  BY DEF Run
<1>4. /\ snap' \in BOOLEAN /\ failed' \in BOOLEAN /\ refused' \subseteq Ids
      /\ faults' \in 0 .. MaxFaults
  <2>1. snap \in BOOLEAN /\ failed \in BOOLEAN
    BY DEF TypeOK
  <2>2. snap' \in BOOLEAN
    <3>1. snap' = snap \/ snap' = TRUE \/ snap' = FALSE
      BY <1>3
    <3> QED
      BY <2>1, <3>1
  <2>3. failed' \in BOOLEAN
    <3>1. failed' = failed \/ failed' = TRUE
      BY <1>3
    <3> QED
      BY <2>1, <3>1
  <2>4. refused' \subseteq Ids
    <3>1. refused' \subseteq refused \cup {worker.id}
      BY <1>3
    <3>2. worker.id \in Ids /\ refused \subseteq Ids
      BY <1>2 DEF TypeOK
    <3> QED
      BY <3>1, <3>2
  <2>5. faults' \in 0 .. MaxFaults
    <3>1. faults' = faults \/ (faults < MaxFaults /\ faults' = faults + 1)
      BY <1>3
    <3>2. faults \in 0 .. MaxFaults
      BY DEF TypeOK
    <3> QED
      BY <3>1, <3>2, ImageLifecycleAssumption
  <2> QED
    BY <2>2, <2>3, <2>4, <2>5
<1>5. TypeOK'
  BY <1>1, <1>2, <1>4 DEF TypeOK
<1>6. AtWork' = AtWork /\ Distinct'
  BY <1>1, <1>2, FewerJobs DEF AtWork, Copying
<1>7. Held' /\ Met'
  BY <1>1, <1>6 DEF Held, Met, Excused
<1>8. Refusals'
  <2>1. vm = "up" => worker.id \in Excused
    <3>1. worker.id \in AtWork
      BY <1>2, ActiveIds DEF AtWork
    <3> QED
      BY <3>1 DEF Met
  <2> QED
    BY <1>1, <1>3, <2>1 DEF Refusals, Excused
<1>9. Recorded'
  <2> SUFFICES ASSUME ~onNode, ~failed', refused' = {} PROVE snap1' <=> snap'
    BY <1>1, <1>2 DEF Recorded
  <2> DEFINE does == snap' = (CASE worker.kind = "snapshot" -> TRUE
                                [] worker.kind = "unsnap" -> FALSE
                                [] OTHER -> snap)
  <2>6. /\ failed' # TRUE /\ worker.id \notin refused'
        /\ does /\ refused' = refused /\ failed' = failed
    <3>1. failed' # TRUE /\ worker.id \notin refused'
      OBVIOUS
    <3> HIDE DEF does
    <3>2. \/ does /\ refused' = refused /\ failed' = failed
          \/ worker.id \in refused' \/ failed' = TRUE
      BY <1>3 DEF does
    <3> QED
      BY <3>1, <3>2
  <2>0. ~failed /\ refused = {} /\ does
    BY <2>6, Zenon
  <2>1. worker.kind = "snapshot" => snap1' /\ snap'
    BY <1>1, <2>0 DEF Recorded
  <2>2. worker.kind = "unsnap" => ~snap1' /\ ~snap'
    BY <1>1, <2>0 DEF Recorded
  <2>3. worker.kind = "revert" => (snap1 <=> snap)
    BY <1>1, <2>0 DEF Recorded
  <2>4. worker.kind = "revert" => snap1' = snap1 /\ snap' = snap
    BY <1>1, <2>0
  <2>5. worker.kind \in {"snapshot", "unsnap", "revert"}
    BY <1>2 DEF Snapping
  <2> QED
    BY <2>1, <2>2, <2>3, <2>4, <2>5
<1> QED
  BY <1>5, <1>6, <1>7, <1>8, <1>9

LEMMA DoneStep == IInv /\ Done => IInv'
<1> SUFFICES ASSUME IInv, Done PROVE IInv'
  OBVIOUS
<1> USE DEF IInv
<1>1. /\ worker.pc = "done" /\ worker' = Waiting
      /\ SetBy(worker.old, {worker.id})
      /\ admin' = admin /\ onNode' = onNode /\ server' = server /\ queue' = queue
      /\ daemons' = daemons /\ snap' = snap /\ snap1' = snap1 /\ vm' = vm
      /\ requests' = requests /\ faults' = faults /\ stuck' = stuck
      /\ early' = early /\ dated' = dated /\ refused' = refused /\ failed' = failed
      /\ posting' = posting /\ updating' = updating
  BY DEF Done, Working, writerVars
<1>2. worker.old = "used" /\ Waiting.id = 0 /\ Waiting.pc = "idle"
  BY <1>1 DEF TypeOK, Waiting
<1>3. status' \in Statuses /\ crossed' \subseteq Ids
  BY <1>1, <1>2, SetByFacts, ActiveIds DEF TypeOK, Statuses
<1>4. TypeOK'
  BY <1>1, <1>3 DEF TypeOK
<1>5. AtWork' \subseteq AtWork /\ Distinct'
  BY <1>1, <1>2, FewerJobs
<1>6. Held'
  BY <1>1, SetByFacts, ActiveIds DEF Held, Distinct
<1>7. Met' /\ Refusals'
  BY <1>1, <1>5, SetByFacts, MetKept DEF Excused
<1>8. Recorded'
  BY <1>1, <1>2 DEF Recorded
<1> QED
  BY <1>4, <1>5, <1>6, <1>7, <1>8

LEMMA FinishStep ==
    ASSUME IInv, NEW d \in daemons, Finish(d)
    PROVE  IInv'
<1> USE DEF IInv
<1>1. /\ daemons' = daemons \ {d}
      /\ SetBy(d.old, {d.id})
      /\ admin' = admin /\ onNode' = onNode /\ server' = server /\ queue' = queue
      /\ worker' = worker /\ snap' = snap /\ snap1' = snap1 /\ vm' = vm
      /\ requests' = requests /\ faults' = faults /\ stuck' = stuck
      /\ early' = early /\ dated' = dated /\ refused' = refused /\ failed' = failed
      /\ posting' = posting /\ updating' = updating
  BY DEF Finish, writerVars
<1>2. status' \in Statuses /\ crossed' \subseteq Ids
  BY <1>1, SetByFacts, ActiveIds DEF TypeOK
<1>3. TypeOK'
  BY <1>1, <1>2 DEF TypeOK
<1>4. AtWork' \subseteq AtWork /\ Distinct'
  BY <1>1, FewerJobs
<1>5. Held'
  <2> SUFFICES ASSUME NEW e \in daemons'
               PROVE  e.id \in crossed' \/ status' = Status[e.kind]
    BY DEF Held
  <2>1. e.id \in Active \ {d.id}
    BY <1>1, ActiveIds DEF Distinct
  <2> QED
    BY <1>1, <2>1, SetByFacts DEF Held
<1>6. Met' /\ Refusals'
  BY <1>1, <1>4, SetByFacts, MetKept DEF Excused
<1>7. Recorded'
  BY <1>1 DEF Recorded
<1> QED
  BY <1>3, <1>4, <1>5, <1>6, <1>7

LEMMA FaultStep ==
    ASSUME IInv, Fault, daemons' \subseteq daemons, worker' \in {worker, Waiting},
           (worker' = worker /\ failed' = failed) \/ failed' = TRUE
    PROVE  IInv'
<1> USE DEF IInv
<1>1. /\ faults < MaxFaults /\ faults' = faults + 1 /\ stuck' = TRUE
      /\ admin' = admin /\ onNode' = onNode /\ status' = status /\ snap1' = snap1
      /\ server' = server /\ queue' = queue /\ snap' = snap /\ vm' = vm
      /\ requests' = requests /\ crossed' = crossed
      /\ early' = early /\ dated' = dated /\ refused' = refused
      /\ posting' = posting /\ updating' = updating
  BY DEF Fault, registerVars, writerVars
<1>2. faults' \in 0 .. MaxFaults /\ failed' \in BOOLEAN
  <2>1. failed' = failed \/ failed' = TRUE
    OBVIOUS
  <2>2. failed \in BOOLEAN
    BY DEF TypeOK
  <2>3. faults' \in 0 .. MaxFaults
    BY <1>1, ImageLifecycleAssumption DEF TypeOK
  <2> QED
    BY <2>1, <2>2, <2>3
<1>3. TypeOK'
  BY <1>1, <1>2 DEF TypeOK
<1>4. worker'.id \in {0, worker.id}
  BY DEF Waiting
<1>5. AtWork' \subseteq AtWork /\ Distinct'
  BY <1>1, <1>4, FewerJobs
<1>6. Held' /\ Met' /\ Refusals'
  BY <1>1, <1>5, MetKept DEF Held, Excused
<1>7. Recorded'
  BY <1>1 DEF Recorded
<1> QED
  BY <1>3, <1>5, <1>6, <1>7

LEMMA NextInv == IInv /\ [Next]_vars => IInv'
<1> SUFFICES ASSUME IInv, [Next]_vars PROVE IInv'
  OBVIOUS
<1>1. CASE \E k \in Kinds : Ask(k)
  BY <1>1, AskStep
<1>2. CASE Start
  BY <1>2, StartStep
<1>3. CASE Inspect
  BY <1>3, InspectStep
<1>4. CASE Mark
  BY <1>4, MarkStep
<1>5. CASE Run
  BY <1>5, RunStep
<1>6. CASE Done
  BY <1>6, DoneStep
<1>7. CASE Backup
  BY <1>7, BackupStep
<1>8. CASE Restore
  BY <1>8, RestoreStep
<1>9. CASE \E d \in daemons : Finish(d)
  BY <1>9, FinishStep
<1>10. CASE Report
  BY <1>10, ReportStep
<1>11. CASE Create \/ GuestOff
  BY <1>11, ServerStep DEF Create, GuestOff
<1>12. CASE DaemonDies
  <2>1. daemons' \subseteq daemons
    BY <1>12 DEF DaemonDies
  <2> QED
    BY <1>12, <2>1, FaultStep DEF DaemonDies
<1>13. CASE WorkerDies
  <2>1. daemons' \subseteq daemons
    BY <1>13 DEF WorkerDies
  <2> QED
    BY <1>13, <2>1, FaultStep DEF WorkerDies
<1>14. CASE UNCHANGED vars
  <2>1. /\ queue' = queue /\ worker' = worker /\ daemons' = daemons
        /\ admin' = admin /\ onNode' = onNode /\ snap1' = snap1 /\ snap' = snap
        /\ status' = status /\ server' = server /\ vm' = vm /\ requests' = requests
        /\ faults' = faults /\ stuck' = stuck /\ crossed' = crossed
        /\ early' = early /\ dated' = dated /\ refused' = refused /\ failed' = failed
        /\ posting' = posting /\ updating' = updating
    BY <1>14 DEF vars, registerVars, engineVars, writerVars, history
  <2>2. Active' = Active /\ AtWork' = AtWork
    BY <2>1 DEF Active, AtWork, Copying
  <2>3. TypeOK'
    BY <2>1 DEF IInv, TypeOK
  <2> QED
    BY <2>1, <2>2, <2>3, MetKept DEF IInv, Distinct, Held, Recorded, Excused
<1> QED
  BY <1>1, <1>2, <1>3, <1>4, <1>5, <1>6, <1>7, <1>8, <1>9, <1>10, <1>11, <1>12, <1>13, <1>14
     DEF Next, Work

THEOREM Invariant == Spec => []IInv
<1> QED
  BY InitInv, NextInv, PTL DEF Spec

-----------------------------------------------------------------------------
(* What the runs check, for every number of requests and of faults *)

\* Every request, job and status is one of those there are; in particular a job that works on
\* the image itself has found it "used", whatever the request had seen.
THEOREM TypeCorrect == Spec => []TypeOK
<1>1. IInv => TypeOK
  BY DEF IInv
<1> QED
  BY <1>1, Invariant, PTL

\* No server is up on an image that is snapshotted, unsnapped, reverted or backed up, but for
\* one of the three ways: it was on its way or up when the job began and the register still
\* had the image as "used", the job believed an older status, or somebody set the status
\* under it or before it.
THEOREM AloneAlways == Spec => []Alone
<1>1. IInv => Alone
  <2> SUFFICES ASSUME IInv, vm = "up" PROVE Writing \cup Copying \subseteq early \cup dated \cup crossed
    BY DEF Alone
  <2>1. Writing \subseteq AtWork
    BY ActiveIds DEF IInv, Writing, Waiting, AtWork
  <2>2. Copying \subseteq AtWork
    BY DEF AtWork
  <2> QED
    BY <2>1, <2>2 DEF IInv, Met, Excused
<1> QED
  BY <1>1, Invariant, PTL

\* Between the jobs of the worker the register has the time of a snapshot exactly if the
\* image has one, although nobody looks at what qemu-img answers, unless qemu-img refused a
\* job that met a server in one of these three ways, or failed, or the worker died, or the
\* snapshot is on the storage of a node.
THEOREM SnapshotKnownAlways == Spec => []SnapshotKnown
<1>1. IInv => SnapshotKnown
  <2> SUFFICES ASSUME IInv, worker.pc = "idle", ~onNode, ~failed, snap1 # snap
               PROVE  refused \cap (early \cup dated \cup crossed) # {}
    BY DEF SnapshotKnown
  <2>1. snap1 \in BOOLEAN /\ snap \in BOOLEAN
    BY DEF IInv, TypeOK
  <2>2. (snap1 <=> snap) => snap1 = snap
    BY <2>1, SMT
  <2>3. refused # {}
    BY <2>2 DEF IInv, Recorded
  <2>4. refused \subseteq early \cup dated \cup crossed
    BY DEF IInv, Refusals, Excused
  <2> QED
    BY <2>3, <2>4
<1> QED
  BY <1>1, Invariant, PTL

=============================================================================

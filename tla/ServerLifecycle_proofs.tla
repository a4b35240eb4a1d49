------------------------- MODULE ServerLifecycle_proofs -------------------------
(***************************************************************************)
(* Theorems about where servers are, for every set of servers and of nodes *)
(* and every number of requests and faults: a server that has not gone     *)
(* adrift is up on one node at most, nowhere when the register has it as   *)
(* off, and is placed as ServerPlacement has it.                           *)
(***************************************************************************)
EXTENDS ServerLifecycle, TaskSequences, TLAPS

-----------------------------------------------------------------------------
(* Types *)

Row    == [status : Statuses, mac : Nodes, seen : 0..MaxAge, held : 0..MaxAge]
NodeRow == [status : {"running", "inactive"}, seen : 0..MaxAge]
Phases == {"idle", "posting", "working", "replaying", "down"}
Images == {"used", "active", "paused", "unused"}

LEMMA WorkFacts ==
    /\ \A s \in Servers, op \in {"START", "DESTROY", "SHUTDOWN", "SUSPEND", "RESUME", "RECEIVE"} :
           /\ Task(op, s) \in Work
           /\ Task(op, s).op = op /\ Task(op, s).server = s /\ Task(op, s).to = Nobody
    /\ \A s \in Servers, n \in Nodes :
           /\ MoveTask(s, n) \in Work
           /\ MoveTask(s, n).op = "MOVE" /\ MoveTask(s, n).server = s /\ MoveTask(s, n).to = n
    /\ \A task \in Work : task.server \in Servers /\ (task.op = "MOVE" => task.to \in Nodes)
BY DEF Task, MoveTask, Work

\* A column that is given one more task.
LEMMA SendType ==
    ASSUME tasks \in [Nodes -> Seq(Work)], NEW n \in Nodes, NEW task \in Work, Send(n, task)
    PROVE  tasks' \in [Nodes -> Seq(Work)]
BY DEF Send

LEMMA SendMovesType ==
    ASSUME TypeOK, NEW n \in Nodes, NEW s \in Servers, SendMoves(n, s)
    PROVE  tasks' \in [Nodes -> Seq(Work)]
<1> DEFINE m == reg[s].mac
<1>1. m \in Nodes /\ tasks[m] \in Seq(Work) /\ MoveTask(s, n) \in Work
  BY WorkFacts DEF TypeOK
<1>2. Append(tasks[m], MoveTask(s, n)) \in Seq(Work)
  BY <1>1
<1>3. Append(tasks[m], MoveTask(s, n)) \o tasks[m] \in Seq(Work)
  BY <1>1, <1>2
<1>4. tasks' = [tasks EXCEPT ![m] = Append(tasks[m], MoveTask(s, n)) \o tasks[m]]
  BY DEF SendMoves
<1> QED
  BY <1>1, <1>3, <1>4 DEF TypeOK

LEMMA MarkRow ==
    ASSUME reg \in [Servers -> Row], NEW s \in Servers, NEW status \in Statuses, Mark(s, status)
    PROVE  /\ reg' \in [Servers -> Row]
           /\ reg'[s].mac = reg[s].mac /\ reg'[s].status = status
           /\ \A t \in Servers \ {s} : reg'[t] = reg[t]
<1>1. reg[s] \in Row /\ 0 \in 0..MaxAge
  BY LifecycleAssumption
<1>2. [reg[s] EXCEPT !.status = status, !.held = 0] \in Row
  BY <1>1 DEF Row
<1>3. reg' = [reg EXCEPT ![s] = [reg[s] EXCEPT !.status = status, !.held = 0]]
  BY DEF Mark
<1> QED
  BY <1>1, <1>2, <1>3 DEF Row

LEMMA InitTyped == Init => TypeOK
<1> SUFFICES ASSUME Init PROVE TypeOK
  OBVIOUS
<1>1. PICK n \in Nodes :
          reg = [s \in Servers |->
                    [status |-> "shutoff", mac |-> n, seen |-> MaxAge, held |-> MaxAge]]
  BY DEF Init
<1>2. MaxAge \in 0..MaxAge /\ 0 \in 0..MaxAge /\ 0 \in 0..MaxRequests /\ 0 \in 0..MaxFaults
  BY LifecycleAssumption
<1>3. reg \in [Servers -> [status : Statuses, mac : Nodes, seen : 0..MaxAge, held : 0..MaxAge]]
  BY <1>1, <1>2 DEF Statuses
<1>4. nodereg \in [Nodes -> [status : {"running", "inactive"}, seen : 0..MaxAge]]
  BY <1>2 DEF Init
<1>5. <<>> \in Seq(Work)
  OBVIOUS
<1> QED
  BY <1>2, <1>3, <1>4, <1>5 DEF Init, TypeOK, States

LEMMA RequestType ==
    ASSUME TypeOK, requests < MaxRequests, requests' = requests + 1
    PROVE  requests' \in 0..MaxRequests
BY LifecycleAssumption DEF TypeOK

LEMMA FaultType ==
    ASSUME TypeOK, faults < MaxFaults, faults' = faults + 1
    PROVE  faults' \in 0..MaxFaults
BY LifecycleAssumption DEF TypeOK

LEMMA OlderType == \A age \in 0..MaxAge : Older(age) \in 0..MaxAge
BY LifecycleAssumption DEF Older

\* Requests that queue a task for the node of a server and mark it with a status.
LEMMA MarkTyped ==
    ASSUME TypeOK, NEW s \in Servers, NEW n \in Nodes, NEW task \in Work,
           NEW op, NEW status \in Statuses,
           Request(op), Send(n, task), Mark(s, status), UNCHANGED <<img, adrift>>
    PROVE  TypeOK'
<1>1. tasks' \in [Nodes -> Seq(Work)]
  BY SendType DEF TypeOK
<1>2. reg' \in [Servers -> Row]
  BY MarkRow DEF TypeOK, Row
<1>3. requests' \in 0..MaxRequests
  BY RequestType DEF Request
<1> QED
  BY <1>1, <1>2, <1>3 DEF TypeOK, Row, Request, pistonVars, hyperVars

LEMMA StartTyped ==
    ASSUME TypeOK, NEW s \in Servers, NEW dmac \in Nodes \cup {Nobody}, NEW n \in Nodes,
           Start(s, dmac, n)
    PROVE  TypeOK'
<1>1. Task("START", s) \in Work
  BY WorkFacts
<1>2. tasks' \in [Nodes -> Seq(Work)]
  BY <1>1, SendType DEF Start, TypeOK
<1>3. reg' \in [Servers -> Row]
  <2>1. reg[s] \in Row /\ "starting" \in Statuses /\ 0 \in 0..MaxAge
    BY LifecycleAssumption DEF TypeOK, Row, Statuses
  <2>2. [reg[s] EXCEPT !.mac = n, !.status = "starting", !.held = 0] \in Row
    BY <2>1 DEF Row
  <2>3. reg' = [reg EXCEPT ![s] = [reg[s] EXCEPT !.mac = n, !.status = "starting", !.held = 0]]
    BY DEF Start
  <2> QED
    BY <2>2, <2>3 DEF TypeOK, Row
<1>4. requests' \in 0..MaxRequests
  BY RequestType DEF Start, Request
<1>5. adrift' \subseteq Servers
  BY DEF Start, Drift, TypeOK
<1> QED
  BY <1>2, <1>3, <1>4, <1>5 DEF Start, Request, TypeOK, Row, pistonVars, hyperVars

LEMMA SaveTyped ==
    ASSUME TypeOK, NEW s \in Servers, SaveRead(s) \/ \E status \in Statuses : SaveWrite(s, status)
    PROVE  TypeOK'
<1>1. CASE SaveRead(s)
  <2>1. requests' \in 0..MaxRequests
    BY <1>1, RequestType DEF SaveRead
  <2>2. saving' \in [Servers -> {"none"} \cup Statuses]
    <3>1. reg[s].status \in Statuses
      BY DEF TypeOK
    <3> QED
      BY <1>1, <3>1 DEF SaveRead, TypeOK
  <2> QED
    BY <1>1, <2>1, <2>2 DEF SaveRead, TypeOK, engineVars, pistonVars, hyperVars
<1>2. ASSUME NEW status \in Statuses, SaveWrite(s, status) PROVE TypeOK'
  <2>1. reg' \in [Servers -> Row]
    <3>1. reg[s] \in Row
      BY DEF TypeOK, Row
    <3>2. [reg[s] EXCEPT !.status = status] \in Row
      BY <3>1 DEF Row
    <3>3. reg' = [reg EXCEPT ![s] = [reg[s] EXCEPT !.status = status]]
      BY <1>2 DEF SaveWrite
    <3> QED
      BY <3>2, <3>3 DEF TypeOK, Row
  <2>2. img' \in [Servers -> Images]
    BY <1>2 DEF SaveWrite, TypeOK, Images
  <2>3. adrift' \subseteq Servers
    BY <1>2 DEF SaveWrite, Drift, TypeOK
  <2>4. saving' \in [Servers -> {"none"} \cup Statuses]
    BY <1>2 DEF SaveWrite, TypeOK
  <2> QED
    BY <1>2, <2>1, <2>2, <2>3, <2>4
    DEF SaveWrite, TypeOK, Row, Images, pistonVars, hyperVars, boundVars
<1> QED
  BY <1>1, <1>2

LEMMA RemoveTyped ==
    ASSUME TypeOK, NEW s \in Servers, Remove(s)
    PROVE  TypeOK'
<1>1. reg[s] \in Row /\ "removed" \in Statuses /\ MaxAge \in 0..MaxAge
  BY LifecycleAssumption DEF TypeOK, Row, Statuses
<1>2. [reg[s] EXCEPT !.status = "removed", !.seen = MaxAge] \in Row
  BY <1>1 DEF Row
<1>3. reg' = [reg EXCEPT ![s] = [reg[s] EXCEPT !.status = "removed", !.seen = MaxAge]]
  BY DEF Remove
<1>4. reg' \in [Servers -> Row]
  BY <1>2, <1>3 DEF TypeOK, Row
<1>5. requests' \in 0..MaxRequests
  BY RequestType DEF Remove, Request
<1> QED
  BY <1>4, <1>5 DEF Remove, Request, TypeOK, Row, pistonVars, hyperVars

\* Listings, which make a server inactive.
LEMMA ListTyped ==
    ASSUME TypeOK, NEW s \in Servers, List(s) \/ UpdateRegister(s)
    PROVE  TypeOK'
<1>1. PICK status \in Statuses : reg' = [reg EXCEPT ![s] = [reg[s] EXCEPT !.status = status]]
  <2>1. CASE List(s)
    BY <2>1 DEF List, Statuses
  <2>2. CASE UpdateRegister(s)
    BY <2>2 DEF UpdateRegister, Statuses
  <2> QED
    BY <2>1, <2>2
<1>2. reg[s] \in Row
  BY DEF TypeOK, Row
<1>3. [reg[s] EXCEPT !.status = status] \in Row
  BY <1>2 DEF Row
<1>4. reg' \in [Servers -> Row]
  BY <1>1, <1>3 DEF TypeOK, Row
<1>5. CASE List(s)
  <2>1. adrift' \subseteq Servers
    BY <1>5 DEF List, Drift, TypeOK
  <2> QED
    BY <1>4, <1>5, <2>1 DEF List, TypeOK, Row, pistonVars, hyperVars, boundVars
<1>6. CASE UpdateRegister(s)
  <2>1. /\ img' = [img EXCEPT ![s] = "used"]
        /\ UNCHANGED <<nodereg, tasks, pistonVars, hyperVars, saving, boundVars, adrift>>
    BY <1>6 DEF UpdateRegister
  <2>2. img' \in [Servers -> Images]
    BY <2>1 DEF TypeOK, Images
  <2> QED
    BY <1>4, <2>1, <2>2 DEF TypeOK, Row, Images, pistonVars, hyperVars, boundVars
<1> QED
  BY <1>5, <1>6

LEMMA UpdateNodesTyped == ASSUME TypeOK, UpdateNodes PROVE TypeOK'
<1>0. nodereg \in [Nodes -> NodeRow]
  BY DEF TypeOK, NodeRow
<1>1. ASSUME NEW r \in NodeRow PROVE [r EXCEPT !.status = "inactive"] \in NodeRow
  BY DEF NodeRow
<1>2. nodereg' \in [Nodes -> NodeRow]
  BY <1>0, <1>1 DEF UpdateNodes
<1> QED
  BY <1>2 DEF NodeRow, UpdateNodes, TypeOK, pistonVars, hyperVars, boundVars

LEMMA WebTyped == ASSUME TypeOK, Web PROVE TypeOK'
<1>1. ASSUME NEW s \in Servers, NEW dmac \in Nodes \cup {Nobody}, NEW n \in Nodes, Move(s, dmac, n)
      PROVE  TypeOK'
  BY <1>1, WorkFacts, MarkTyped DEF Move, Statuses
<1>2. ASSUME NEW s \in Servers, Destroy(s) \/ Shutdown(s) \/ Suspend(s) \/ Resume(s)
      PROVE  TypeOK'
  <2>1. reg[s].mac \in Nodes
    BY DEF TypeOK
  <2>2. CASE Destroy(s)
    BY <2>1, <2>2, WorkFacts, MarkTyped DEF Destroy, Statuses
  <2>3. CASE Shutdown(s)
    BY <2>1, <2>3, WorkFacts, MarkTyped DEF Shutdown, Statuses
  <2>4. CASE Suspend(s)
    BY <2>1, <2>4, WorkFacts, MarkTyped DEF Suspend, Statuses
  <2>5. CASE Resume(s)
    BY <2>1, <2>5, WorkFacts, MarkTyped DEF Resume, Statuses
  <2> QED
    BY <1>2, <2>2, <2>3, <2>4, <2>5
<1> QED
  BY <1>1, <1>2, StartTyped, SaveTyped, RemoveTyped, ListTyped, UpdateNodesTyped DEF Web

LEMMA RegisteredType ==
    ASSUME TypeOK, NEW n \in Nodes, NEW s \in Servers
    PROVE  Registered(n, s) \in Row /\ Cleaned(n, s) \in Row /\ ImageOf(n, s) \in Images
<1>1. reg[s] \in Row /\ report[n][s] \in {"none", "running", "paused", "shutoff"} /\ 0 \in 0..MaxAge
  BY LifecycleAssumption DEF TypeOK, Row
<1>2. Registered(n, s) \in Row
  <2>1. CASE report[n][s] = "none" \/ reg[s].status = "removed"
    BY <1>1, <2>1 DEF Registered
  <2>2. CASE ~(report[n][s] = "none" \/ reg[s].status = "removed") /\ Kept(n, s)
    <3> DEFINE seen == IF reg[s].status = "moving" THEN reg[s].seen ELSE 0
    <3>1. Registered(n, s) = [reg[s] EXCEPT !.seen = seen]
      BY <2>2 DEF Registered
    <3>2. seen \in 0..MaxAge
      BY <1>1 DEF Row
    <3> HIDE DEF seen
    <3> QED
      BY <1>1, <3>1, <3>2 DEF Row
  <2>3. CASE ~(report[n][s] = "none" \/ reg[s].status = "removed") /\ ~Kept(n, s)
    <3>1. Registered(n, s) = [status |-> report[n][s], mac |-> n, seen |-> 0,
                              held |-> IF reg[s].status = report[n][s] THEN reg[s].held ELSE 0]
      BY <2>3 DEF Registered
    <3>2. report[n][s] \in Statuses
      BY <1>1, <2>3 DEF Statuses
    <3>3. (IF reg[s].status = report[n][s] THEN reg[s].held ELSE 0) \in 0..MaxAge
      BY <1>1 DEF Row
    <3> QED
      BY <1>1, <3>1, <3>2, <3>3 DEF Row
  <2> QED
    BY <2>1, <2>2, <2>3
<1>3. Cleaned(n, s) \in Row
  BY <1>2 DEF Cleaned, Row, Statuses
<1>4. ImageOf(n, s) \in Images
  BY DEF ImageOf, TypeOK, Images
<1> QED
  BY <1>2, <1>3, <1>4

LEMMA PostTyped == ASSUME TypeOK, NEW n \in Nodes, Post(n) PROVE TypeOK'
<1>1. reg' \in [Servers -> Row] /\ img' \in [Servers -> Images]
  BY RegisteredType DEF Post
<1>2. nodereg' \in [Nodes -> [status : {"running", "inactive"}, seen : 0..MaxAge]]
  BY LifecycleAssumption DEF Post, TypeOK
<1>3. tasks' \in [Nodes -> Seq(Work)] /\ batch' \in [Nodes -> Seq(Work)]
  BY DEF Post, TypeOK
<1>4. phase' \in [Nodes -> Phases]
  BY DEF Post, TypeOK, Phases
<1>5. posted' \in [Nodes -> BOOLEAN]
  BY DEF Post, TypeOK
<1>6. adrift' \subseteq Servers
  BY DEF Post, Drift, TypeOK
<1>7. UNCHANGED <<report, bad, mortuary, receiving, hyperVars, saving, boundVars>>
  BY DEF Post
<1> QED
  BY <1>1, <1>2, <1>3, <1>4, <1>5, <1>6, <1>7
  DEF TypeOK, Row, Images, Phases, hyperVars, boundVars

LEMMA JobType ==
    ASSUME NEW s \in Servers, NEW n \in Nodes
    PROVE  /\ \A cmd \in {"create", "destroy", "suspend", "resume"} : Job(cmd, s, Nobody) \in Jobs
           /\ \A cmd \in {"migrate", "migrating"} : Job(cmd, s, n) \in Jobs
BY DEF Job, Jobs

\* What a task leaves, whatever it is.
LEMMA NextTaskType ==
    ASSUME TypeOK, NEW n \in Nodes, NEW op, NextTask(n, op)
    PROVE  /\ batch' \in [Nodes -> Seq(Work)] /\ bad' \in [Nodes -> Seq(Work)]
           /\ adrift' \subseteq Servers /\ adrift \subseteq adrift'
           /\ Head(batch[n]) \in Work /\ Head(batch[n]).server \in Servers
<1>1. batch[n] \in Seq(Work) /\ batch[n] # <<>>
  BY DEF NextTask, TypeOK
<1>2. Tail(batch[n]) \in Seq(Work) /\ Head(batch[n]) \in Work
  BY <1>1
<1>3. Head(batch[n]).server \in Servers
  BY <1>2, WorkFacts
<1>4. Busy(n) \subseteq Servers
  BY DEF Busy, TypeOK, Jobs
<1>5. adrift' \subseteq Servers /\ adrift \subseteq adrift'
  BY <1>3, <1>4 DEF NextTask, Drift, TypeOK
<1>6. bad' \in [Nodes -> Seq(Work)]
  BY <1>2 DEF NextTask, TypeOK
<1>7. batch' \in [Nodes -> Seq(Work)]
  BY <1>2 DEF NextTask, TypeOK
<1> QED
  BY <1>2, <1>3, <1>5, <1>6, <1>7

LEMMA RunInBgType ==
    ASSUME TypeOK, NEW n \in Nodes, NEW cmd, NEW s, NEW to, RunInBg(n, cmd, s, to),
           Job(cmd, s, to) \in Jobs
    PROVE  jobs' \in [Nodes -> SUBSET Jobs]
BY DEF RunInBg, TypeOK

LEMMA ExecuteTyped == ASSUME TypeOK, NEW n \in Nodes, Execute(n) PROVE TypeOK'
<1> DEFINE s == Head(batch[n]).server
<1>0. ASSUME NEW op, NextTask(n, op), jobs' \in [Nodes -> SUBSET Jobs],
             mortuary' \in [Nodes -> SUBSET Servers], receiving' \in [Nodes -> SUBSET Servers]
      PROVE  TypeOK'
  <2>1. UNCHANGED <<engineVars, phase, report, posted, dom, saving, boundVars>>
    BY <1>0 DEF NextTask
  <2> QED
    BY <1>0, <2>1, NextTaskType DEF TypeOK, engineVars, boundVars
<1>1. CASE DoStart(n)
  <2>1. NextTask(n, "START") /\ s \in Servers
    BY <1>1, NextTaskType DEF DoStart
  <2>2. jobs' \in [Nodes -> SUBSET Jobs]
    BY <1>1, <2>1, JobType, RunInBgType DEF DoStart, TypeOK
  <2> QED
    BY <1>0, <1>1, <2>1, <2>2 DEF DoStart, TypeOK
<1>2. CASE DoDestroy(n)
  <2>1. NextTask(n, "DESTROY") /\ s \in Servers
    BY <1>2, NextTaskType DEF DoDestroy
  <2>2. jobs' \in [Nodes -> SUBSET Jobs]
    BY <1>2, <2>1, JobType, RunInBgType DEF DoDestroy, TypeOK
  <2>3. mortuary' \in [Nodes -> SUBSET Servers]
    BY <1>2, <2>1 DEF DoDestroy, TypeOK
  <2> QED
    BY <1>0, <1>2, <2>1, <2>2, <2>3 DEF DoDestroy, TypeOK
<1>3. CASE DoShutdown(n)
  <2>1. NextTask(n, "SHUTDOWN") /\ s \in Servers
    BY <1>3, NextTaskType DEF DoShutdown
  <2>2. mortuary' \in [Nodes -> SUBSET Servers]
    BY <1>3, <2>1 DEF DoShutdown, TypeOK
  <2> QED
    BY <1>0, <1>3, <2>1, <2>2 DEF DoShutdown, TypeOK
<1>4. CASE DoSuspend(n)
  <2>1. NextTask(n, "SUSPEND") /\ s \in Servers
    BY <1>4, NextTaskType DEF DoSuspend
  <2>2. jobs' \in [Nodes -> SUBSET Jobs]
    BY <1>4, <2>1, JobType, RunInBgType DEF DoSuspend
  <2> QED
    BY <1>0, <1>4, <2>1, <2>2 DEF DoSuspend, TypeOK
<1>5. CASE DoResume(n)
  <2>1. NextTask(n, "RESUME") /\ s \in Servers
    BY <1>5, NextTaskType DEF DoResume
  <2>2. jobs' \in [Nodes -> SUBSET Jobs]
    BY <1>5, <2>1, JobType, RunInBgType DEF DoResume
  <2> QED
    BY <1>0, <1>5, <2>1, <2>2 DEF DoResume, TypeOK
<1>6. CASE DoReceive(n)
  <2>1. NextTask(n, "RECEIVE") /\ s \in Servers
    BY <1>6, NextTaskType DEF DoReceive
  <2>2. receiving' \in [Nodes -> SUBSET Servers]
    BY <1>6, <2>1 DEF DoReceive, TypeOK
  <2> QED
    BY <1>0, <1>6, <2>1, <2>2 DEF DoReceive, TypeOK
<1>7. CASE DoMove(n)
  <2>1. NextTask(n, "MOVE") /\ s \in Servers /\ Head(batch[n]).to \in Nodes
    BY <1>7, NextTaskType, WorkFacts DEF DoMove, NextTask
  <2> QED
    BY <1>0, <1>7, <2>1, JobType, RunInBgType DEF DoMove, TypeOK
<1>8. CASE AskForMove(n)
  <2>1. PICK t \in receiving[n] : SendMoves(n, t) /\ receiving' = [receiving EXCEPT ![n] = @ \ {t}]
    BY <1>8 DEF AskForMove
  <2>2. t \in Servers
    BY <2>1 DEF TypeOK
  <2>3. tasks' \in [Nodes -> Seq(Work)]
    BY <2>1, <2>2, SendMovesType
  <2>4. receiving' \in [Nodes -> SUBSET Servers]
    BY <2>1 DEF TypeOK
  <2> QED
    BY <1>8, <2>3, <2>4 DEF AskForMove, TypeOK, hyperVars, boundVars
<1> QED
  BY <1>1, <1>2, <1>3, <1>4, <1>5, <1>6, <1>7, <1>8 DEF Execute

LEMMA LookTyped == ASSUME TypeOK, NEW n \in Nodes, Look(n) PROVE TypeOK'
<1>1. \A s \in Servers : Seen(n, s) \in {"none", "running", "paused", "shutoff"}
  <2> SUFFICES ASSUME NEW s \in Servers PROVE Seen(n, s) \in {"none", "running", "paused", "shutoff"}
    OBVIOUS
  <2>1. dom[n][s] \in {"none", "running", "paused", "incoming"}
    BY DEF TypeOK, States
  <2> QED
    BY <2>1 DEF Seen
<1>2. report' \in [Nodes -> [Servers -> {"none", "running", "paused", "shutoff"}]]
  BY <1>1 DEF Look, TypeOK
<1>3. mortuary' \in [Nodes -> SUBSET Servers]
  BY DEF Look, TypeOK
<1>4. adrift' \subseteq Servers
  <2>1. Busy(n) \subseteq Servers
    BY DEF Busy, TypeOK, Jobs
  <2> QED
    BY <2>1 DEF Look, Drift, TypeOK
<1>5. phase' \in [Nodes -> Phases]
  BY DEF Look, TypeOK, Phases
<1> QED
  BY <1>2, <1>3, <1>4, <1>5 DEF Look, TypeOK, Phases, engineVars, hyperVars, boundVars

LEMMA NapTyped == ASSUME TypeOK, NEW n \in Nodes, Nap(n) PROVE TypeOK'
<1>1. <<>> \in Seq(Work)
  OBVIOUS
<1>2. bad' \in [Nodes -> Seq(Work)]
  BY <1>1 DEF Nap, TypeOK
<1>3. phase' \in [Nodes -> Phases]
  BY DEF Nap, TypeOK, Phases
<1> QED
  BY <1>2, <1>3 DEF Nap, TypeOK, Phases, engineVars, hyperVars, boundVars

LEMMA DomainType ==
    ASSUME dom \in [Nodes -> [Servers -> States]], NEW n \in Nodes, NEW s \in Servers,
           NEW state \in States, Domain(n, s, state)
    PROVE  dom' \in [Nodes -> [Servers -> States]]
BY DEF Domain

LEMMA EndedType ==
    ASSUME jobs \in [Nodes -> SUBSET Jobs], NEW n \in Nodes, NEW job, Ended(n, job)
    PROVE  jobs' \in [Nodes -> SUBSET Jobs]
BY DEF Ended

LEMMA JobFacts ==
    ASSUME TypeOK, NEW n \in Nodes, NEW job \in jobs[n]
    PROVE  /\ job.server \in Servers
           /\ job.cmd \in {"migrate", "migrating"} => job.to \in Nodes
           /\ job.cmd = "migrate" => [job EXCEPT !.cmd = "migrating"] \in Jobs
           /\ job = Job(job.cmd, job.server, job.to)
<1>1. job \in Jobs
  BY DEF TypeOK
<1> QED
  BY <1>1 DEF Jobs, Job

LEMMA EffectType ==
    ASSUME NEW state \in States, NEW cmd
    PROVE  Effect(state, cmd) \in States
BY DEF Effect, States

LEMMA CommandTyped == ASSUME TypeOK, NEW n \in Nodes, Command(n) PROVE TypeOK'
<1>0. PICK job \in jobs[n] : Virsh(n, job) \/ BeginMigration(n, job) \/ EndMigration(n, job)
  BY DEF Command
<1>1. dom \in [Nodes -> [Servers -> States]] /\ jobs \in [Nodes -> SUBSET Jobs]
      /\ dom[n][job.server] \in States /\ job.server \in Servers
  BY JobFacts DEF TypeOK
<1>2. ASSUME dom' \in [Nodes -> [Servers -> States]], jobs' \in [Nodes -> SUBSET Jobs],
             adrift' \subseteq Servers, UNCHANGED <<engineVars, pistonVars, saving, boundVars>>
      PROVE  TypeOK'
  BY <1>2 DEF TypeOK, engineVars, pistonVars, boundVars
<1>3. CASE Virsh(n, job)
  BY <1>1, <1>2, <1>3, EffectType, DomainType, EndedType DEF Virsh, TypeOK
<1>4. CASE BeginMigration(n, job)
  <2>1. job.to \in Nodes /\ [job EXCEPT !.cmd = "migrating"] \in Jobs
    BY <1>4, JobFacts DEF BeginMigration
  <2>2. dom' \in [Nodes -> [Servers -> States]]
    BY <1>1, <1>4, <2>1, DomainType DEF BeginMigration, States
  <2>3. jobs' \in [Nodes -> SUBSET Jobs]
    BY <1>1, <1>4, <2>1 DEF BeginMigration, Ended
  <2> QED
    BY <1>2, <1>4, <2>2, <2>3 DEF BeginMigration, TypeOK
<1>5. CASE EndMigration(n, job)
  <2>1. job.to \in Nodes
    BY <1>5, JobFacts DEF EndMigration
  <2>2. jobs' \in [Nodes -> SUBSET Jobs]
    BY <1>1, <1>5, EndedType DEF EndMigration
  <2>3. dom' \in [Nodes -> [Servers -> States]]
    BY <1>1, <1>5, <2>1 DEF EndMigration, States
  <2>4. adrift' \subseteq Servers
    BY <1>1, <1>5 DEF EndMigration, Drift, TypeOK
  <2> QED
    BY <1>2, <1>5, <2>2, <2>3, <2>4 DEF EndMigration
<1> QED
  BY <1>0, <1>3, <1>4, <1>5

LEMMA GuestOffTyped == ASSUME TypeOK, NEW n \in Nodes, NEW s \in Servers, GuestOff(n, s) PROVE TypeOK'
<1>1. dom' \in [Nodes -> [Servers -> States]]
  BY DomainType DEF GuestOff, TypeOK, States
<1> QED
  BY <1>1 DEF GuestOff, TypeOK, engineVars, pistonVars, boundVars

LEMMA FaultTyped == ASSUME TypeOK, NEW n \in Nodes, Fault(n) PROVE TypeOK'
<1>0. <<>> \in Seq(Work)
  OBVIOUS
<1>1. CASE Crash(n)
  <2>1. faults' \in 0..MaxFaults
    BY <1>1, FaultType DEF Crash
  <2>2. batch' \in [Nodes -> Seq(Work)] /\ receiving' \in [Nodes -> SUBSET Servers]
    BY <1>0, <1>1 DEF Crash, TypeOK
  <2>3. phase' \in [Nodes -> Phases]
    BY <1>1 DEF Crash, TypeOK, Phases
  <2> QED
    BY <1>1, <2>1, <2>2, <2>3 DEF Crash, TypeOK, Phases, engineVars, hyperVars
<1>2. CASE PowerLoss(n)
  <2>1. faults' \in 0..MaxFaults
    BY <1>2, FaultType DEF PowerLoss
  <2>2. batch' \in [Nodes -> Seq(Work)] /\ bad' \in [Nodes -> Seq(Work)]
    BY <1>0, <1>2 DEF PowerLoss, TypeOK
  <2>3. phase' \in [Nodes -> Phases]
    BY <1>2 DEF PowerLoss, TypeOK, Phases
  <2>4. /\ mortuary' \in [Nodes -> SUBSET Servers] /\ receiving' \in [Nodes -> SUBSET Servers]
        /\ jobs' \in [Nodes -> SUBSET Jobs]
    BY <1>2 DEF PowerLoss, TypeOK
  <2>5. dom' \in [Nodes -> [Servers -> States]]
    BY <1>2 DEF PowerLoss, TypeOK, States
  <2> QED
    BY <1>2, <2>1, <2>2, <2>3, <2>4, <2>5 DEF PowerLoss, TypeOK, Phases, engineVars
<1>3. CASE Restart(n)
  <2>1. batch' \in [Nodes -> Seq(Work)]
    BY <1>3 DEF Restart, TypeOK
  <2>2. phase' \in [Nodes -> Phases]
    BY <1>3 DEF Restart, TypeOK, Phases
  <2>3. mortuary' \in [Nodes -> SUBSET Servers]
    BY <1>3 DEF Restart, TypeOK
  <2>4. adrift' \subseteq Servers
    <3>1. \A i \in DOMAIN bad[n] : bad[n][i].server \in Servers
      <4>1. bad[n] \in Seq(Work)
        BY DEF TypeOK
      <4>2. \A i \in DOMAIN bad[n] : bad[n][i] \in Work
        BY <4>1
      <4> QED
        BY <4>2, WorkFacts
    <3> QED
      BY <1>3, <3>1 DEF Restart, Drift, TypeOK
  <2> QED
    BY <1>3, <2>1, <2>2, <2>3, <2>4
    DEF Restart, TypeOK, Phases, engineVars, hyperVars, boundVars
<1>4. ASSUME NEW job \in jobs[n], VirshFails(n, job) PROVE TypeOK'
  <2>1. faults' \in 0..MaxFaults
    BY <1>4, FaultType DEF VirshFails
  <2>2. jobs' \in [Nodes -> SUBSET Jobs]
    BY <1>4, EndedType DEF VirshFails, TypeOK
  <2> QED
    BY <1>4, <2>1, <2>2 DEF VirshFails, TypeOK, engineVars, pistonVars
<1> QED
  BY <1>1, <1>2, <1>3, <1>4 DEF Fault

LEMMA TickTyped == ASSUME TypeOK, Tick PROVE TypeOK'
<1>0. reg \in [Servers -> Row] /\ nodereg \in [Nodes -> NodeRow]
  BY DEF TypeOK, Row, NodeRow
<1>1. ASSUME NEW r \in Row, NEW a \in 0..MaxAge, NEW b \in 0..MaxAge
      PROVE  [r EXCEPT !.seen = a, !.held = b] \in Row
  BY DEF Row
<1>2. \A r \in Row : [r EXCEPT !.seen = Older(r.seen), !.held = Older(r.held)] \in Row
  <2> SUFFICES ASSUME NEW r \in Row
               PROVE  [r EXCEPT !.seen = Older(r.seen), !.held = Older(r.held)] \in Row
    OBVIOUS
  <2>1. r.seen \in 0..MaxAge /\ r.held \in 0..MaxAge
    BY DEF Row
  <2> QED
    BY <1>1, <2>1, OlderType
<1>3. reg' \in [Servers -> Row]
  BY <1>0, <1>2 DEF Tick
<1>4. ASSUME NEW r \in NodeRow PROVE [r EXCEPT !.seen = Older(r.seen)] \in NodeRow
  BY OlderType DEF NodeRow
<1>5. nodereg' \in [Nodes -> NodeRow]
  BY <1>0, <1>4 DEF Tick
<1>6. posted' \in [Nodes -> BOOLEAN]
  BY DEF Tick
<1> QED
  BY <1>3, <1>5, <1>6 DEF Tick, TypeOK, Row, NodeRow, hyperVars, boundVars

LEMMA NextTyped == TypeOK /\ [Next]_vars => TypeOK'
<1> SUFFICES ASSUME TypeOK, [Next]_vars PROVE TypeOK'
  OBVIOUS
<1>1. CASE UNCHANGED vars
  BY <1>1 DEF TypeOK, vars, engineVars, pistonVars, hyperVars, boundVars
<1> QED
  BY <1>1, WebTyped, LookTyped, PostTyped, ExecuteTyped, NapTyped, CommandTyped, FaultTyped,
     GuestOffTyped, TickTyped
  DEF Next, Piston

\* The registers, the nodes and the hypervisors keep their types; a task to send a server
\* says where to, and no other task does.
THEOREM TypeCorrect == Spec => []TypeOK
<1> QED
  BY InitTyped, NextTyped, PTL DEF Spec

-----------------------------------------------------------------------------
(* The inductive invariant *)

\* The tasks for server s that node n was sent and has not come to, and the virsh commands
\* about it that run there.
Given(n, s)    == {task \in Range(batch[n]) : task.server = s}
Underway(n, s) == {job \in jobs[n] : job.server = s}

Ends == {"START", "DESTROY", "SHUTDOWN"}
Live == {"migrate", "migrating"}

\* Only a node that works has tasks at hand, and no node has buried what it reports as gone.
Still(s) == \A n \in Nodes :
    /\ phase[n] # "working" => Given(n, s) = {} /\ s \notin receiving[n]
    /\ phase[n] = "posting" /\ report[n][s] \in {"none", "shutoff"} => s \notin mortuary[n]

\* What starts or ends a server is queued for the node of its entry, which is not off, nor
\* known to run, nor on the move.
Placed(s) == \A n \in Nodes : \A task \in Queued(n, s) : task.op \in Ends =>
    reg[s].mac = n /\ reg[s].status \notin {"shutoff", "running", "moving"}

\* A server that moves has one destination at most, another server none.  No other node is
\* to ask for it, to get it or has it, and only the node of its entry is to send it.
Asks(n, s) ==
    s \in receiving[n] \/ \E task \in Queued(n, s) \cup Given(n, s) : task.op = "RECEIVE"

Aimed(s, K) == \A n \in Nodes :
    /\ Asks(n, s) => n \in K
    /\ \A task \in Queued(n, s) \cup Given(n, s) :
           task.op = "MOVE" => n = reg[s].mac /\ task.to \in K
    /\ \A job \in Underway(n, s) : job.cmd \in Live => n = reg[s].mac /\ job.to \in K
    /\ dom[n][s] # "none" => n = reg[s].mac \/ n \in K

Course(s) == \E K \in SUBSET (Nodes \ {reg[s].mac}) :
    /\ reg[s].status # "moving" => K = {}
    /\ \A a, b \in K : a = b
    /\ Aimed(s, K)

\* The server is being sent to node n.
Leaves(s, n) == \E job \in Underway(reg[s].mac, s) : job.cmd = "migrating" /\ job.to = n

\* Two nodes have the server only while one is sending it to the other, which has it paused.
Single(s) == \A n \in Nodes \ {reg[s].mac} :
    /\ dom[n][s] # "none" /\ dom[reg[s].mac][s] # "none" => Leaves(s, n)
    /\ Leaves(s, n) => dom[n][s] \in {"none", "incoming"}

Off(s) == reg[s].status = "shutoff" => \A n \in Nodes : dom[n][s] = "none"

\* A server is about to start only on the node of its entry, and before any move.
Coming(n, s) ==
    \/ \E task \in Given(n, s) : task.op = "START"
    \/ \E job \in Underway(n, s) : job.cmd = "create"

Begun(s) == \E n \in Nodes :
    \/ \E task \in Given(n, s) : task.op = "MOVE"
    \/ \E job \in Underway(n, s) : job.cmd \in Live
    \/ n # reg[s].mac /\ dom[n][s] # "none"

Starts(s) == \A n \in Nodes : Coming(n, s) =>
    reg[s].status # "shutoff" /\ reg[s].mac = n /\ ~Begun(s)

\* A node that has looked is not starting the server.
Clear(s) == \A n \in Nodes : phase[n] = "posting" =>
    \A job \in Underway(n, s) : job.cmd # "create"

\* A node that is to end a server which is not its own has nothing more to do with it.
Ending(s) == \A n \in Nodes \ {reg[s].mac} :
    (\E task \in Given(n, s) : task.op \in {"DESTROY", "SHUTDOWN"}) =>
        /\ dom[n][s] = "none"
        /\ s \notin receiving[n]
        /\ \A task \in Given(n, s) : task.op # "RECEIVE"
        /\ \A m \in Nodes : \A task \in Queued(m, s) \cup Given(m, s) :
               task.op = "MOVE" => task.to # n
        /\ \A m \in Nodes : \A job \in Underway(m, s) : job.cmd \in Live => job.to # n

\* Node n has buried the server, or is telling the engine that it is off.
Buried(n, s) == s \in mortuary[n] \/ (phase[n] = "posting" /\ report[n][s] = "shutoff")

Graves(s) == \A n \in Nodes : Buried(n, s) =>
    /\ reg[s].mac = n
    /\ reg[s].status # "shutoff"
    /\ \A m \in Nodes \ {n} : dom[m][s] # "none" => Leaves(s, m)

\* A node that reports a server as gone has it only if it came by a move since.
Reported(s) == \A n \in Nodes :
    phase[n] = "posting" /\ report[n][s] \in {"none", "shutoff"} /\ dom[n][s] # "none"
        => reg[s].status = "moving" /\ reg[s].mac # n

Good(s) ==
    /\ Still(s) /\ Placed(s) /\ Course(s) /\ Single(s) /\ Off(s)
    /\ Starts(s) /\ Clear(s) /\ Ending(s) /\ Graves(s) /\ Reported(s)

IInv == TypeOK /\ \A s \in Servers \ adrift : Good(s)

-----------------------------------------------------------------------------
(* Steps that are nothing to a server, and servers nothing is on its way for *)

\* A step that brings a server no new command, domain or tombstone and leaves it where it is
\* registered, moving or not.
Calm(s) ==
    /\ reg'[s].mac = reg[s].mac
    /\ reg'[s].status = "moving" <=> reg[s].status = "moving"
    /\ reg'[s].status = "shutoff" => reg[s].status = "shutoff"
    /\ \A n \in Nodes :
           /\ \A task \in Queued(n, s)' : task.op \in {"RECEIVE", "MOVE"} => task \in Queued(n, s)
           /\ Given(n, s)' \subseteq Given(n, s)
           /\ s \in receiving'[n] => s \in receiving[n]
           /\ \A job \in Underway(n, s)' : job.cmd \in Live => job \in Underway(n, s)
           /\ dom'[n][s] # "none" =>
                  dom[n][s] # "none" /\ (dom[n][s] = "incoming" => dom'[n][s] = "incoming")
           /\ s \in mortuary'[n] => s \in mortuary[n]
           /\ phase'[n] = "posting" =>
                  phase[n] = "posting" /\ report'[n][s] = report[n][s]
           /\ phase'[n] # "working" /\ phase[n] = "working" =>
                  Given(n, s)' = {} /\ s \notin receiving'[n]
           /\ Leaves(s, n) /\ dom'[n][s] # "none" =>
                  \/ Leaves(s, n)'
                  \/ dom'[reg[s].mac][s] = "none" /\ ~Buried(reg[s].mac, s)'

\* Neither does it bring a server that is about to start.
NoneComing(s) == \A n \in Nodes : \A job \in Underway(n, s)' :
    job.cmd = "create" => job \in Underway(n, s)

LEMMA CalmStill ==
    ASSUME NEW s \in Servers, Still(s), Calm(s) PROVE Still(s)'
<1> SUFFICES ASSUME NEW n \in Nodes
             PROVE  /\ phase'[n] # "working" => Given(n, s)' = {} /\ s \notin receiving'[n]
                    /\ phase'[n] = "posting" /\ report'[n][s] \in {"none", "shutoff"}
                           => s \notin mortuary'[n]
  BY DEF Still
<1> QED
  BY DEF Still, Calm

LEMMA CalmCourse ==
    ASSUME NEW s \in Servers, Course(s), Calm(s) PROVE Course(s)'
<1>1. PICK K \in SUBSET (Nodes \ {reg[s].mac}) :
          /\ reg[s].status # "moving" => K = {}
          /\ \A a, b \in K : a = b
          /\ Aimed(s, K)
  BY DEF Course
<1>2. K \in SUBSET (Nodes \ {reg'[s].mac}) /\ (reg'[s].status # "moving" => K = {})
  BY <1>1 DEF Calm
<1>3. Aimed(s, K)'
  <2> SUFFICES ASSUME NEW n \in Nodes
               PROVE  /\ Asks(n, s)' => n \in K
                      /\ \A task \in Queued(n, s)' \cup Given(n, s)' :
                             task.op = "MOVE" => n = reg'[s].mac /\ task.to \in K
                      /\ \A job \in Underway(n, s)' :
                             job.cmd \in Live => n = reg'[s].mac /\ job.to \in K
                      /\ dom'[n][s] # "none" => n = reg'[s].mac \/ n \in K
    BY DEF Aimed
  <2>1. Asks(n, s)' => n \in K
    BY <1>1 DEF Calm, Aimed, Asks
  <2> QED
    BY <1>1, <2>1 DEF Calm, Aimed
<1> QED
  BY <1>1, <1>2, <1>3 DEF Course

LEMMA CalmSingle ==
    ASSUME NEW s \in Servers, reg[s].mac \in Nodes, Single(s), Calm(s) PROVE Single(s)'
<1> SUFFICES ASSUME NEW n \in Nodes \ {reg'[s].mac}
             PROVE  /\ dom'[n][s] # "none" /\ dom'[reg'[s].mac][s] # "none" => Leaves(s, n)'
                    /\ Leaves(s, n)' => dom'[n][s] \in {"none", "incoming"}
  BY DEF Single
<1>1. Leaves(s, n)' => Leaves(s, n)
  BY DEF Leaves, Calm, Live
<1> QED
  BY <1>1 DEF Single, Calm

LEMMA CalmOff ==
    ASSUME NEW s \in Servers, Off(s), Calm(s) PROVE Off(s)'
BY DEF Off, Calm

LEMMA CalmStarts ==
    ASSUME NEW s \in Servers, Starts(s), Calm(s), NoneComing(s) PROVE Starts(s)' 
<1> SUFFICES ASSUME NEW n \in Nodes, Coming(n, s)'
             PROVE  reg'[s].status # "shutoff" /\ reg'[s].mac = n /\ ~Begun(s)'
  BY DEF Starts
<1>1. Coming(n, s)
  BY DEF Coming, Calm, NoneComing
<1>2. Begun(s)' => Begun(s)
  BY DEF Begun, Calm
<1> QED
  BY <1>1, <1>2 DEF Starts, Calm

LEMMA CalmClear ==
    ASSUME NEW s \in Servers, Clear(s), Calm(s), NoneComing(s) PROVE Clear(s)'
BY DEF Clear, Calm, NoneComing

LEMMA CalmEnding ==
    ASSUME NEW s \in Servers, Ending(s), Calm(s) PROVE Ending(s)'
<1> SUFFICES ASSUME NEW n \in Nodes \ {reg'[s].mac},
                    \E task \in Given(n, s)' : task.op \in {"DESTROY", "SHUTDOWN"}
             PROVE  /\ dom'[n][s] = "none"
                    /\ s \notin receiving'[n]
                    /\ \A task \in Given(n, s)' : task.op # "RECEIVE"
                    /\ \A m \in Nodes : \A task \in Queued(m, s)' \cup Given(m, s)' :
                           task.op = "MOVE" => task.to # n
                    /\ \A m \in Nodes : \A job \in Underway(m, s)' : job.cmd \in Live => job.to # n
  BY DEF Ending
<1>1. n \in Nodes \ {reg[s].mac} /\ \E task \in Given(n, s) : task.op \in {"DESTROY", "SHUTDOWN"}
  BY DEF Calm
<1> QED
  BY <1>1 DEF Ending, Calm

LEMMA CalmGraves ==
    ASSUME NEW s \in Servers, Graves(s), Calm(s) PROVE Graves(s)'
<1> SUFFICES ASSUME NEW n \in Nodes, Buried(n, s)'
             PROVE  /\ reg'[s].mac = n
                    /\ reg'[s].status # "shutoff"
                    /\ \A m \in Nodes \ {n} : dom'[m][s] # "none" => Leaves(s, m)'
  BY DEF Graves
<1>1. Buried(n, s)
  BY DEF Buried, Calm
<1>2. reg[s].mac = n /\ reg[s].status # "shutoff"
  BY <1>1 DEF Graves
<1>3. ASSUME NEW m \in Nodes \ {n}, dom'[m][s] # "none" PROVE Leaves(s, m)'
  BY <1>1, <1>2, <1>3 DEF Graves, Calm
<1> QED
  BY <1>2, <1>3 DEF Calm

LEMMA CalmReported ==
    ASSUME NEW s \in Servers, Reported(s), Calm(s) PROVE Reported(s)'
BY DEF Reported, Calm

\* What a calm step may disturb yet: how tasks are placed, and what starts.
LEMMA CalmKeeps ==
    ASSUME NEW s \in Servers, reg[s].mac \in Nodes, Good(s), Calm(s), Placed(s)'
    PROVE  /\ Still(s)' /\ Placed(s)' /\ Course(s)' /\ Single(s)' /\ Off(s)' /\ Ending(s)'
           /\ Graves(s)' /\ Reported(s)'
           /\ NoneComing(s) => Starts(s)' /\ Clear(s)' /\ Good(s)'
BY CalmStill, CalmCourse, CalmSingle, CalmOff, CalmStarts, CalmClear, CalmEnding, CalmGraves,
   CalmReported DEF Good

\* A server that is registered on the only node that may have it, and for which nothing is
\* on its way that could bring it up there, start it or send it elsewhere.
Resting(s) ==
    /\ Still(s) /\ Placed(s) /\ Off(s)
    /\ \A n \in Nodes :
           /\ \A task \in Queued(n, s) \cup Given(n, s) : task.op \notin {"RECEIVE", "MOVE"}
           /\ \A task \in Given(n, s) : task.op # "START"
           /\ s \notin receiving[n]
           /\ \A job \in Underway(n, s) : job.cmd \notin {"create", "migrate", "migrating"}
           /\ dom[n][s] # "none" => n = reg[s].mac
           /\ Buried(n, s) => n = reg[s].mac /\ reg[s].status # "shutoff"
           /\ phase[n] = "posting" /\ report[n][s] \in {"none", "shutoff"} => dom[n][s] = "none"

LEMMA RestingIsGood == ASSUME NEW s \in Servers, Resting(s) PROVE Good(s)
<1>1. Course(s)
  <2>1. Aimed(s, {})
    BY DEF Aimed, Asks, Live, Resting
  <2> QED
    BY <2>1 DEF Course
<1>2. Single(s)
  BY DEF Single, Leaves, Resting, Underway
<1>3. Starts(s)
  BY DEF Starts, Coming, Resting
<1>4. Clear(s)
  BY DEF Clear, Resting
<1>5. Ending(s)
  BY DEF Ending, Resting, Live
<1>6. Graves(s)
  BY DEF Graves, Resting
<1>7. Reported(s)
  BY DEF Reported, Resting
<1> QED
  BY <1>1, <1>2, <1>3, <1>4, <1>5, <1>6, <1>7 DEF Good, Resting

\* The same of the state after a step.
LEMMA RestingIsGoodNext == ASSUME NEW s \in Servers PROVE Resting(s)' => Good(s)'
<1>1. Resting(s) => Good(s)
  BY RestingIsGood
<1> QED
  BY <1>1, PTL

-----------------------------------------------------------------------------
(* Requests *)

\* A column that is given one more task.
LEMMA SendQueues ==
    ASSUME TypeOK, NEW m \in Nodes, NEW task \in Work, Send(m, task)
    PROVE  \A n \in Nodes, s \in Servers :
               Queued(n, s)' = IF n = m /\ task.server = s THEN Queued(n, s) \cup {task}
                               ELSE Queued(n, s)
<1> SUFFICES ASSUME NEW n \in Nodes, NEW s \in Servers
             PROVE  Queued(n, s)' = IF n = m /\ task.server = s THEN Queued(n, s) \cup {task}
                                    ELSE Queued(n, s)
  OBVIOUS
<1>1. tasks[m] \in Seq(Work) /\ tasks' = [tasks EXCEPT ![m] = Append(tasks[m], task)]
  BY DEF TypeOK, Send
<1>2. Range(Append(tasks[m], task)) = Range(tasks[m]) \cup {task}
  BY <1>1, RangeAppend
<1>3. tasks'[n] = IF n = m THEN Append(tasks[m], task) ELSE tasks[n]
  BY <1>1 DEF TypeOK
<1> QED
  BY <1>2, <1>3 DEF Queued

\* What happens in the register and in the columns only is calm for a server that stays
\* where it is and of which no column gets a move.
LEMMA RegisterCalm ==
    ASSUME NEW s \in Servers, reg[s].mac \in Nodes, UNCHANGED <<pistonVars, hyperVars>>,
           reg'[s].mac = reg[s].mac,
           reg'[s].status = "moving" <=> reg[s].status = "moving",
           reg'[s].status = "shutoff" => reg[s].status = "shutoff",
           \A n \in Nodes : \A task \in Queued(n, s)' :
               task.op \in {"RECEIVE", "MOVE"} => task \in Queued(n, s)
    PROVE  Calm(s) /\ NoneComing(s)
<1>1. \A n \in Nodes : Given(n, s)' = Given(n, s) /\ Underway(n, s)' = Underway(n, s)
  BY DEF Given, Underway, pistonVars, hyperVars
<1>2. \A n \in Nodes : Leaves(s, n)' = Leaves(s, n)
  BY DEF Leaves, Underway, hyperVars
<1>3. NoneComing(s)
  BY <1>1 DEF NoneComing
<1> QED
  BY <1>1, <1>2, <1>3 DEF Calm, pistonVars, hyperVars

LEMMA RegisterKeeps ==
    ASSUME NEW s \in Servers, reg[s].mac \in Nodes, Good(s), UNCHANGED <<pistonVars, hyperVars>>,
           reg'[s].mac = reg[s].mac,
           reg'[s].status = "moving" <=> reg[s].status = "moving",
           reg'[s].status = "shutoff" => reg[s].status = "shutoff",
           \A n \in Nodes : \A task \in Queued(n, s)' :
               task.op \in {"RECEIVE", "MOVE"} => task \in Queued(n, s),
           Placed(s)'
    PROVE  Good(s)'
<1>1. Calm(s) /\ NoneComing(s)
  BY RegisterCalm
<1> QED
  BY <1>1, CalmKeeps

\* A row that stays, with the tasks for it.
LEMMA SameRowKeeps ==
    ASSUME NEW s \in Servers, reg[s].mac \in Nodes, Good(s), UNCHANGED <<pistonVars, hyperVars>>,
           reg'[s].mac = reg[s].mac, reg'[s].status = reg[s].status,
           \A n \in Nodes : Queued(n, s)' = Queued(n, s)
    PROVE  Good(s)'
<1>1. Placed(s)'
  BY DEF Good, Placed
<1> QED
  BY <1>1, RegisterKeeps

\* A request that queues one task for the node of the entry of a server, other than a move.
LEMMA MarkKeeps ==
    ASSUME TypeOK, NEW s \in Servers, NEW t \in Servers, Good(t), NEW op, NEW status \in Statuses,
           NEW task \in Work,
           task.server = s, task.op \in {"DESTROY", "SHUTDOWN", "SUSPEND", "RESUME"},
           Request(op), Send(reg[s].mac, task), Mark(s, status),
           reg[s].status \notin {"shutoff", "moving"},
           status \notin {"shutoff", "running", "moving"}
    PROVE  Good(t)'
<1>0. UNCHANGED <<pistonVars, hyperVars>> /\ reg[t].mac \in Nodes /\ reg[s].mac \in Nodes
  BY DEF Request, TypeOK
<1>1. /\ reg'[s].mac = reg[s].mac /\ reg'[s].status = status
      /\ t # s => reg'[t] = reg[t]
  BY MarkRow DEF TypeOK, Row
<1>2. \A n \in Nodes, u \in Servers :
          Queued(n, u)' = IF n = reg[s].mac /\ task.server = u THEN Queued(n, u) \cup {task}
                          ELSE Queued(n, u)
  BY <1>0, SendQueues
<1>3. CASE t # s
  BY <1>0, <1>1, <1>2, <1>3, SameRowKeeps
<1>4. CASE t = s
  <2>1. Placed(s)'
    BY <1>0, <1>1, <1>2, <1>4 DEF Good, Placed
  <2> QED
    BY <1>0, <1>1, <1>2, <1>4, <2>1, RegisterKeeps
<1> QED
  BY <1>3, <1>4

\* The requests that mark a server and queue a task for its node.
LEMMA TasksKeep ==
    ASSUME TypeOK, NEW s \in Servers, NEW t \in Servers, Good(t),
           Destroy(s) \/ Shutdown(s) \/ Suspend(s) \/ Resume(s)
    PROVE  Good(t)'
<1>1. CASE Destroy(s)
  BY <1>1, WorkFacts, MarkKeeps DEF Destroy, Statuses
<1>2. CASE Shutdown(s)
  BY <1>2, WorkFacts, MarkKeeps DEF Shutdown, Statuses
<1>3. CASE Suspend(s)
  BY <1>3, WorkFacts, MarkKeeps DEF Suspend, Statuses
<1>4. CASE Resume(s)
  BY <1>4, WorkFacts, MarkKeeps DEF Resume, Statuses
<1> QED
  BY <1>1, <1>2, <1>3, <1>4

\* A server that is off has nothing on its way, and none is started on another node while it
\* is taken for inactive.
LEMMA StartKeeps ==
    ASSUME TypeOK, NEW s \in Servers, NEW dmac \in Nodes \cup {Nobody}, NEW m \in Nodes,
           Start(s, dmac, m), NEW t \in Servers \ adrift', Good(t)
    PROVE  Good(t)'
<1>0. UNCHANGED <<pistonVars, hyperVars>> /\ reg[t].mac \in Nodes
  BY DEF Start, Request, TypeOK
<1>1. /\ reg'[s].mac = m /\ reg'[s].status = "starting"
      /\ t # s => reg'[t] = reg[t]
  BY DEF Start, TypeOK
<1>2. /\ \A n \in Nodes, u \in Servers :
             Queued(n, u)' = IF n = m /\ Task("START", s).server = u
                             THEN Queued(n, u) \cup {Task("START", s)} ELSE Queued(n, u)
      /\ Task("START", s).server = s /\ Task("START", s).op = "START"
  BY WorkFacts, SendQueues DEF Start
<1>3. CASE t # s
  BY <1>0, <1>1, <1>2, <1>3, SameRowKeeps
<1>4. CASE t = s /\ reg[s].status = "inactive"
  <2>1. reg[s].mac = m
    BY <1>4 DEF Start, Drift
  <2>2. Placed(s)'
    BY <1>1, <1>2, <1>4, <2>1 DEF Good, Placed
  <2> QED
    BY <1>0, <1>1, <1>2, <1>4, <2>1, <2>2, RegisterKeeps
<1>5. CASE t = s /\ reg[s].status = "shutoff"
  <2>1. Resting(s)'
    <3>1. \A n \in Nodes : Given(n, s)' = Given(n, s) /\ Underway(n, s)' = Underway(n, s)
      BY <1>0 DEF Given, Underway, pistonVars, hyperVars
    <3>2. Placed(s)'
      BY <1>1, <1>2, <1>5 DEF Good, Placed
    <3>3. Still(s)' /\ Off(s)'
      BY <1>0, <1>1, <1>5, <3>1 DEF Good, Still, Off, pistonVars
    <3>4. \A n \in Nodes : dom[n][s] = "none" /\ ~Buried(n, s) /\ ~Coming(n, s)
      BY <1>5 DEF Good, Off, Graves, Starts
    <3>5. Aimed(s, {})
      BY <1>5 DEF Good, Course
    <3> QED
      BY <1>0, <1>1, <1>2, <3>1, <3>2, <3>3, <3>4, <3>5
      DEF Resting, Aimed, Asks, Live, Coming, Buried, pistonVars, hyperVars
  <2> QED
    BY <1>5, <2>1, RestingIsGoodNext
<1> QED
  BY <1>3, <1>4, <1>5 DEF Start

\* A row of which the status alone is changed.
LEMMA StatusKeeps ==
    ASSUME TypeOK, NEW s \in Servers, NEW status \in Statuses, NEW t \in Servers, Good(t),
           reg'[s].mac = reg[s].mac, reg'[s].status = status, t # s => reg'[t] = reg[t],
           UNCHANGED <<tasks, pistonVars, hyperVars>>,
           t = s => \/ status = reg[s].status
                    \/ /\ status \notin {"shutoff", "moving"}
                       /\ reg[s].status # "moving"
                       /\ status = "running" => \A n \in Nodes : Queued(n, s) = {}
    PROVE  Good(t)'
<1>0. reg[t].mac \in Nodes /\ UNCHANGED <<pistonVars, hyperVars>>
  BY DEF TypeOK
<1>2. \A n \in Nodes : Queued(n, t)' = Queued(n, t)
  BY DEF Queued
<1>3. CASE t # s \/ status = reg[s].status
  BY <1>0, <1>2, <1>3, SameRowKeeps
<1>4. CASE t = s /\ status # reg[s].status
  <2>1. Placed(s)'
    BY <1>2, <1>4 DEF Good, Placed
  <2> QED
    BY <1>0, <1>2, <1>4, <2>1, RegisterKeeps
<1> QED
  BY <1>3, <1>4

LEMMA RowsKeep ==
    ASSUME TypeOK, NEW s \in Servers, NEW t \in Servers \ adrift', Good(t),
           \/ Remove(s) \/ SaveRead(s) \/ \E status \in Statuses : SaveWrite(s, status)
           \/ List(s) \/ UpdateRegister(s)
    PROVE  Good(t)'
<1>0. reg[s] \in Row /\ reg[t] \in Row
  BY DEF TypeOK, Row
<1>1. CASE Remove(s)
  <2>1. /\ reg'[s].mac = reg[s].mac /\ reg'[s].status = "removed"
        /\ t # s => reg'[t] = reg[t]
    BY <1>1 DEF Remove, TypeOK
  <2> QED
    BY <1>1, <2>1, StatusKeeps DEF Remove, Request, Statuses
<1>2. CASE SaveRead(s)
  <2>1. \A n \in Nodes : Queued(n, t)' = Queued(n, t)
    BY <1>2 DEF SaveRead, engineVars, Queued
  <2> QED
    BY <1>0, <1>2, <2>1, SameRowKeeps DEF SaveRead, engineVars, Row
<1>3. ASSUME NEW status \in Statuses, SaveWrite(s, status) PROVE Good(t)'
  <2>1. /\ reg'[s].mac = reg[s].mac /\ reg'[s].status = status
        /\ t # s => reg'[t] = reg[t]
    BY <1>3 DEF SaveWrite, TypeOK
  <2>2. t = s => ~Undone(s, status)
    BY <1>3 DEF SaveWrite, Drift
  <2>3. t = s => \/ status = reg[s].status
                 \/ /\ status \notin {"shutoff", "moving"}
                    /\ reg[s].status # "moving"
                    /\ status = "running" => \A n \in Nodes : Queued(n, s) = {}
    BY <2>2 DEF Undone
  <2> QED
    BY <1>3, <2>1, <2>3, StatusKeeps DEF SaveWrite
<1>4. CASE List(s)
  <2>1. /\ reg'[s].mac = reg[s].mac /\ reg'[s].status = "inactive"
        /\ t # s => reg'[t] = reg[t]
    BY <1>4 DEF List, TypeOK
  <2>2. t = s => reg[s].status # "moving"
    BY <1>4 DEF List, Drift
  <2> QED
    BY <1>4, <2>1, <2>2, StatusKeeps DEF List, Statuses
<1>5. CASE UpdateRegister(s)
  <2> DEFINE status == IF reg[s].status = "shutoff" THEN reg[s].status ELSE "inactive"
  <2>1. /\ reg'[s].mac = reg[s].mac /\ reg'[s].status = status
        /\ t # s => reg'[t] = reg[t]
    BY <1>5 DEF UpdateRegister, TypeOK
  <2>2. /\ status \in Statuses
        /\ status = reg[s].status \/ (status = "inactive" /\ reg[s].status # "moving")
    BY <1>5 DEF UpdateRegister, Statuses
  <2> HIDE DEF status
  <2>3. UNCHANGED <<tasks, pistonVars, hyperVars>>
    BY <1>5 DEF UpdateRegister
  <2> QED
    BY <2>1, <2>2, <2>3, StatusKeeps
<1> QED
  BY <1>1, <1>2, <1>3, <1>4, <1>5

\* A move begins with a request to a node that is to ask for the server.
LEMMA MoveKeeps ==
    ASSUME TypeOK, NEW s \in Servers, NEW dmac \in Nodes \cup {Nobody}, NEW m \in Nodes,
           Move(s, dmac, m), NEW t \in Servers, Good(t)
    PROVE  Good(t)'
<1>0. UNCHANGED <<pistonVars, hyperVars>> /\ reg[t].mac \in Nodes
  BY DEF Move, Request, TypeOK
<1>1. /\ reg'[s].mac = reg[s].mac /\ reg'[s].status = "moving"
      /\ t # s => reg'[t] = reg[t]
  BY MarkRow DEF Move, TypeOK, Row, Statuses
<1>2. /\ \A n \in Nodes, u \in Servers :
             Queued(n, u)' = IF n = m /\ Task("RECEIVE", s).server = u
                             THEN Queued(n, u) \cup {Task("RECEIVE", s)} ELSE Queued(n, u)
      /\ Task("RECEIVE", s).server = s /\ Task("RECEIVE", s).op = "RECEIVE"
  BY WorkFacts, SendQueues DEF Move
<1>3. CASE t # s
  BY <1>0, <1>1, <1>2, <1>3, SameRowKeeps
<1>4. CASE t = s
  <2>0. m # reg[s].mac /\ reg[s].status = "running"
    BY DEF Move, MoveTargets, Targets
  <2>1. \A n \in Nodes : Given(n, s)' = Given(n, s) /\ Underway(n, s)' = Underway(n, s)
    BY <1>0 DEF Given, Underway, pistonVars, hyperVars
  <2>2. \A n \in Nodes : Leaves(s, n)' = Leaves(s, n)
    BY <1>0, <1>1 DEF Leaves, Underway, hyperVars
  <2>3. \A n \in Nodes : Coming(n, s)' = Coming(n, s) /\ Buried(n, s)' = Buried(n, s)
    BY <1>0, <2>1 DEF Coming, Buried, pistonVars
  <2>4. Aimed(s, {})
    BY <1>4, <2>0 DEF Good, Course
  <2>5. Course(s)'
    <3>1. Aimed(s, {m})'
      BY <1>0, <1>1, <1>2, <2>1, <2>4 DEF Aimed, Asks, pistonVars, hyperVars
    <3> QED
      BY <1>1, <2>0, <3>1 DEF Course
  <2>6. Still(s)' /\ Off(s)' /\ Clear(s)'
    BY <1>0, <1>1, <1>4, <2>1 DEF Good, Still, Off, Clear, pistonVars, hyperVars
  <2>7. Placed(s)'
    BY <1>1, <1>2, <1>4, <2>0 DEF Good, Placed, Ends
  <2>8. Single(s)'
    BY <1>0, <1>1, <1>4, <2>2 DEF Good, Single, hyperVars
  <2>9. Starts(s)'
    BY <1>0, <1>1, <1>4, <2>1, <2>3 DEF Good, Starts, Begun, hyperVars
  <2>10. Ending(s)'
    BY <1>0, <1>1, <1>2, <1>4, <2>1 DEF Good, Ending, pistonVars, hyperVars
  <2>11. Graves(s)'
    BY <1>0, <1>1, <1>4, <2>2, <2>3 DEF Good, Graves, hyperVars
  <2>12. Reported(s)'
    BY <1>0, <1>4, <2>0 DEF Good, Reported, pistonVars, hyperVars
  <2> QED
    BY <1>4, <2>5, <2>6, <2>7, <2>8, <2>9, <2>10, <2>11, <2>12 DEF Good
<1> QED
  BY <1>3, <1>4

LEMMA WebKeeps ==
    ASSUME TypeOK, Web, NEW t \in Servers \ adrift', Good(t)
    PROVE  Good(t)'
<1>1. CASE UpdateNodes
  <2>1. \A n \in Nodes : Queued(n, t)' = Queued(n, t)
    BY <1>1 DEF UpdateNodes, Queued
  <2> QED
    BY <1>1, <2>1, SameRowKeeps DEF UpdateNodes, TypeOK
<1> QED
  BY <1>1, StartKeeps, MoveKeeps, TasksKeep, RowsKeep DEF Web

-----------------------------------------------------------------------------
(* Commands, guests, faults and time *)

\* Neither the register nor a column changes, nor what is at hand; no job is added, no domain
\* comes up or out of a migration, and the moves that go on do or leave nothing behind.
LEMMA NodeKeeps ==
    ASSUME TypeOK, NEW s \in Servers, Good(s), UNCHANGED <<reg, tasks>>,
           \A n \in Nodes :
               /\ Given(n, s)' \subseteq Given(n, s)
               /\ s \in receiving'[n] => s \in receiving[n]
               /\ \A job \in Underway(n, s)' :
                      job.cmd \in {"create", "migrate", "migrating"} => job \in Underway(n, s)
               /\ dom'[n][s] # "none" =>
                      dom[n][s] # "none" /\ (dom[n][s] = "incoming" => dom'[n][s] = "incoming")
               /\ s \in mortuary'[n] => s \in mortuary[n]
               /\ phase'[n] = "posting" =>
                      phase[n] = "posting" /\ report'[n][s] = report[n][s]
               /\ phase'[n] # "working" /\ phase[n] = "working" =>
                      Given(n, s)' = {} /\ s \notin receiving'[n]
               /\ Leaves(s, n) /\ dom'[n][s] # "none" =>
                      \/ Leaves(s, n)'
                      \/ dom'[reg[s].mac][s] = "none" /\ ~Buried(reg[s].mac, s)'
    PROVE  Good(s)'
<1>1. reg[s].mac \in Nodes
  BY DEF TypeOK
<1>2. \A n \in Nodes : Queued(n, s)' = Queued(n, s)
  BY DEF Queued
<1>3. Placed(s)'
  BY <1>2 DEF Good, Placed
<1>4. NoneComing(s)
  BY DEF NoneComing
<1>5. Calm(s)
  BY <1>2 DEF Calm, Live
<1> QED
  BY <1>1, <1>3, <1>4, <1>5, CalmKeeps

\* The same, for what happens to jobs and domains only.
LEMMA HyperKeeps ==
    ASSUME TypeOK, NEW s \in Servers, Good(s), UNCHANGED <<reg, tasks, pistonVars>>,
           \A n \in Nodes :
               /\ \A job \in Underway(n, s)' :
                      job.cmd \in {"create", "migrate", "migrating"} => job \in Underway(n, s)
               /\ dom'[n][s] # "none" =>
                      dom[n][s] # "none" /\ (dom[n][s] = "incoming" => dom'[n][s] = "incoming")
               /\ Leaves(s, n) /\ dom'[n][s] # "none" => Leaves(s, n)'
    PROVE  Good(s)'
<1>1. \A n \in Nodes : Given(n, s)' = Given(n, s)
  BY DEF Given, pistonVars
<1>2. UNCHANGED <<phase, report, mortuary, receiving>>
  BY DEF pistonVars
<1> QED
  BY <1>1, <1>2, NodeKeeps

\* A job that ends is no more, and every other one is what it was.
LEMMA EndedJobs ==
    ASSUME TypeOK, NEW n \in Nodes, NEW job, Ended(n, job)
    PROVE  \A m \in Nodes, s \in Servers :
               /\ Underway(m, s)' \subseteq Underway(m, s)
               /\ \A other \in Underway(m, s) : m # n \/ other # job => other \in Underway(m, s)'
               /\ n # m \/ job.server # s => Underway(m, s)' = Underway(m, s)
BY DEF Ended, Underway, TypeOK

\* A command that is not about migrations.
LEMMA PlainJob ==
    ASSUME TypeOK, NEW n \in Nodes, NEW job, job.cmd # "migrating", Ended(n, job), UNCHANGED reg
    PROVE  \A s \in Servers, m \in Nodes : Leaves(s, m) => Leaves(s, m)'
<1>1. \A s \in Servers : reg[s].mac \in Nodes
  BY DEF TypeOK
<1> QED
  BY <1>1, EndedJobs DEF Leaves

LEMMA DomainOf ==
    ASSUME TypeOK, NEW n \in Nodes, NEW s \in Servers, NEW state, Domain(n, s, state)
    PROVE  /\ dom'[n][s] = state
           /\ \A m \in Nodes, t \in Servers : m # n \/ t # s => dom'[m][t] = dom[m][t]
BY DEF Domain, TypeOK

\* A server is created on its node, before any move and when it is not off.
LEMMA CreateKeeps ==
    ASSUME TypeOK, NEW n \in Nodes, NEW job \in jobs[n], Virsh(n, job),
           NEW s \in Servers, Good(s), job.server = s, job.cmd = "create", dom[n][s] = "none"
    PROVE  Good(s)'
<1>0. UNCHANGED <<reg, tasks, pistonVars>> /\ reg[s].mac \in Nodes
  BY DEF Virsh, engineVars, TypeOK
<1>1. job \in Underway(n, s) /\ Coming(n, s)
  BY DEF Underway, Coming
<1>2. reg[s].status # "shutoff" /\ reg[s].mac = n /\ ~Begun(s)
  BY <1>1 DEF Good, Starts
<1>3. /\ \A m \in Nodes : Underway(m, s)' \subseteq Underway(m, s)
      /\ \A m \in Nodes : dom'[m][s] = IF m = n THEN "running" ELSE dom[m][s]
  BY EndedJobs, DomainOf DEF Virsh, Effect
<1>4. \A m \in Nodes \ {n} : dom[m][s] = "none" /\ ~Leaves(s, m) /\ ~Leaves(s, m)'
  BY <1>0, <1>2, <1>3 DEF Begun, Leaves, Live
<1>5. \A m \in Nodes : /\ Given(m, s)' = Given(m, s) /\ Queued(m, s)' = Queued(m, s)
                       /\ Buried(m, s)' = Buried(m, s)
                       /\ Coming(m, s)' => Coming(m, s)
  BY <1>0, <1>3 DEF Given, Queued, Buried, Coming, pistonVars
<1>6. phase[n] # "posting"
  BY <1>1 DEF Good, Clear
<1>7. Still(s)' /\ Placed(s)' /\ Clear(s)' /\ Off(s)'
  BY <1>0, <1>2, <1>3, <1>5 DEF Good, Still, Placed, Clear, Off, pistonVars
<1>8. Course(s)'
  <2>1. PICK K \in SUBSET (Nodes \ {reg[s].mac}) :
            /\ reg[s].status # "moving" => K = {}
            /\ \A a, b \in K : a = b
            /\ Aimed(s, K)
    BY DEF Good, Course
  <2>2. Aimed(s, K)'
    BY <1>0, <1>2, <1>3, <1>5, <2>1 DEF Aimed, Asks, pistonVars
  <2> QED
    BY <1>0, <2>1, <2>2 DEF Course
<1>9. Single(s)'
  BY <1>0, <1>2, <1>3, <1>4 DEF Single
<1>10. Starts(s)'
  BY <1>0, <1>2, <1>3, <1>5 DEF Good, Starts, Begun
<1>11. Ending(s)'
  BY <1>0, <1>2, <1>3, <1>5 DEF Good, Ending, pistonVars
<1>12. Graves(s)'
  BY <1>0, <1>2, <1>3, <1>4, <1>5 DEF Good, Graves
<1>13. Reported(s)'
  BY <1>0, <1>2, <1>3, <1>6 DEF Good, Reported, pistonVars
<1> QED
  BY <1>7, <1>8, <1>9, <1>10, <1>11, <1>12, <1>13 DEF Good

LEMMA VirshKeeps ==
    ASSUME TypeOK, NEW n \in Nodes, NEW job \in jobs[n], Virsh(n, job), NEW s \in Servers, Good(s)
    PROVE  Good(s)'
<1>0. job.server \in Servers /\ dom[n][job.server] \in States
  BY DEF TypeOK, Jobs
<1>1. CASE job.server = s /\ job.cmd = "create" /\ dom[n][s] = "none"
  BY <1>1, CreateKeeps
<1>2. CASE ~(job.server = s /\ job.cmd = "create" /\ dom[n][s] = "none")
  <2>1. \A m \in Nodes :
            /\ Underway(m, s)' \subseteq Underway(m, s)
            /\ Leaves(s, m) => Leaves(s, m)'
    BY EndedJobs, PlainJob DEF Virsh, engineVars
  <2>2. \A m \in Nodes : dom'[m][s] # "none" =>
            dom[m][s] # "none" /\ (dom[m][s] = "incoming" => dom'[m][s] = "incoming")
    <3>1. /\ dom'[n][job.server] = Effect(dom[n][job.server], job.cmd)
          /\ \A m \in Nodes, t \in Servers : m # n \/ t # job.server => dom'[m][t] = dom[m][t]
      BY <1>0, DomainOf DEF Virsh
    <3>2. job.cmd \in {"create", "destroy", "suspend", "resume"}
      BY DEF Virsh, TypeOK, Jobs
    <3>3. job.server = s /\ dom'[n][s] # "none" =>
              dom[n][s] # "none" /\ (dom[n][s] = "incoming" => dom'[n][s] = "incoming")
      BY <1>0, <1>2, <3>1, <3>2 DEF Effect, States
    <3> QED
      BY <3>1, <3>3
  <2> QED
    BY <2>1, <2>2, HyperKeeps DEF Virsh, engineVars
<1> QED
  BY <1>1, <1>2

\* The receiver gets a domain that is paused, while the sender sends it.
LEMMA BeginsKeeps ==
    ASSUME TypeOK, NEW n \in Nodes, NEW job \in jobs[n], BeginMigration(n, job),
           NEW s \in Servers, Good(s), job.server = s,
           dom[n][s] = "running", dom[job.to][s] = "none"
    PROVE  Good(s)'
<1> DEFINE to == job.to
           sending == [job EXCEPT !.cmd = "migrating"]
<1>0. /\ UNCHANGED <<reg, tasks, pistonVars>> /\ reg[s].mac \in Nodes
      /\ job.cmd = "migrate" /\ to \in Nodes
  BY JobFacts DEF BeginMigration, engineVars, TypeOK
<1>1. job \in Underway(n, s) /\ Begun(s)
  BY <1>0 DEF Underway, Begun, Live
<1>2. PICK K \in SUBSET (Nodes \ {reg[s].mac}) :
          /\ reg[s].status # "moving" => K = {}
          /\ \A a, b \in K : a = b
          /\ Aimed(s, K)
  BY DEF Good, Course
<1>3. n = reg[s].mac /\ to \in K /\ to # n /\ reg[s].status = "moving"
  BY <1>0, <1>1, <1>2 DEF Aimed, Live
<1>4. /\ sending.cmd = "migrating" /\ sending.server = s /\ sending.to = to
      /\ \A m \in Nodes : Underway(m, s)' = IF m = n THEN (Underway(n, s) \ {job}) \cup {sending}
                                            ELSE Underway(m, s)
  <2>1. sending.cmd = "migrating" /\ sending.server = s /\ sending.to = to
    BY DEF TypeOK, Jobs
  <2>2. jobs' = [jobs EXCEPT ![n] = (jobs[n] \ {job}) \cup {sending}]
    BY DEF BeginMigration
  <2> QED
    BY <2>1, <2>2 DEF Underway, TypeOK
<1>5. \A m \in Nodes : dom'[m][s] = IF m = to THEN "incoming" ELSE dom[m][s]
  BY <1>0, DomainOf DEF BeginMigration
<1> HIDE DEF sending
<1>6. \A m \in Nodes :
          /\ Given(m, s)' = Given(m, s) /\ Queued(m, s)' = Queued(m, s)
          /\ Buried(m, s)' = Buried(m, s)
          /\ Coming(m, s)' => Coming(m, s)
          /\ Leaves(s, m)' <=> Leaves(s, m) \/ m = to
  BY <1>0, <1>3, <1>4 DEF Given, Queued, Buried, Coming, Leaves, pistonVars
<1>7. \A m \in Nodes : ~Coming(m, s)
  BY <1>1 DEF Good, Starts
<1>8. Still(s)' /\ Placed(s)' /\ Off(s)' /\ Clear(s)' /\ Starts(s)'
  BY <1>0, <1>3, <1>4, <1>6, <1>7 DEF Good, Still, Placed, Clear, Off, Starts, pistonVars
<1>9. Course(s)'
  <2>1. Aimed(s, K)'
    BY <1>0, <1>2, <1>3, <1>4, <1>5, <1>6 DEF Aimed, Asks, Live, pistonVars
  <2> QED
    BY <1>0, <1>2, <2>1 DEF Course
<1>10. Single(s)'
  BY <1>0, <1>3, <1>5, <1>6 DEF Good, Single
<1>11. Ending(s)'
  <2> SUFFICES ASSUME NEW m \in Nodes \ {reg[s].mac},
                      \E task \in Given(m, s) : task.op \in {"DESTROY", "SHUTDOWN"}
               PROVE  /\ dom'[m][s] = "none"
                      /\ s \notin receiving[m]
                      /\ \A task \in Given(m, s) : task.op # "RECEIVE"
                      /\ \A k \in Nodes : \A task \in Queued(k, s) \cup Given(k, s) :
                             task.op = "MOVE" => task.to # m
                      /\ \A k \in Nodes : \A other \in Underway(k, s)' :
                             other.cmd \in Live => other.to # m
    BY <1>0, <1>6 DEF Ending, pistonVars
  <2>1. to # m
    BY <1>0, <1>1 DEF Good, Ending, Live
  <2> QED
    BY <1>4, <1>5, <2>1 DEF Good, Ending
<1>12. Graves(s)'
  BY <1>0, <1>3, <1>5, <1>6 DEF Good, Graves
<1>13. Reported(s)'
  BY <1>0, <1>3, <1>5 DEF Good, Reported, pistonVars
<1> QED
  BY <1>8, <1>9, <1>10, <1>11, <1>12, <1>13 DEF Good

LEMMA BeginMigrationKeeps ==
    ASSUME TypeOK, NEW n \in Nodes, NEW job \in jobs[n], BeginMigration(n, job),
           NEW s \in Servers, Good(s)
    PROVE  Good(s)'
<1>0. /\ job.server \in Servers /\ job.to \in Nodes /\ job.cmd = "migrate"
      /\ UNCHANGED <<reg, tasks, pistonVars>>
  BY JobFacts DEF BeginMigration, engineVars, TypeOK
<1>1. CASE dom[n][job.server] = "running" /\ dom[job.to][job.server] = "none"
  <2>1. CASE job.server = s
    BY <1>1, <2>1, BeginsKeeps
  <2>2. CASE job.server # s
    <3>1. jobs' = [jobs EXCEPT ![n] = (@ \ {job}) \cup {[job EXCEPT !.cmd = "migrating"]}]
      BY <1>1 DEF BeginMigration
    <3>2. [job EXCEPT !.cmd = "migrating"].server # s
      BY <2>2 DEF TypeOK, Jobs
    <3>3. \A m \in Nodes : Underway(m, s)' = Underway(m, s)
      BY <2>2, <3>1, <3>2 DEF Underway, TypeOK
    <3>4. \A m \in Nodes : dom'[m][s] = dom[m][s]
      BY <1>0, <1>1, <2>2, DomainOf DEF BeginMigration
    <3>5. \A m \in Nodes : Leaves(s, m) => Leaves(s, m)'
      BY <1>0, <3>3 DEF Leaves, TypeOK
    <3> QED
      BY <1>0, <3>3, <3>4, <3>5, HyperKeeps
  <2> QED
    BY <2>1, <2>2
<1>2. CASE ~(dom[n][job.server] = "running" /\ dom[job.to][job.server] = "none")
  <2>1. Ended(n, job) /\ UNCHANGED dom
    BY <1>2 DEF BeginMigration
  <2>2. \A m \in Nodes : /\ Underway(m, s)' \subseteq Underway(m, s)
                         /\ Leaves(s, m) => Leaves(s, m)'
    BY <1>0, <2>1, EndedJobs, PlainJob
  <2> QED
    BY <1>0, <2>1, <2>2, HyperKeeps
<1> QED
  BY <1>1, <1>2

\* The sender lets go of the domain, which it had, and the receiver's runs: there was no
\* tombstone of it.
LEMMA ArrivesKeeps ==
    ASSUME TypeOK, NEW n \in Nodes, NEW job \in jobs[n], EndMigration(n, job),
           NEW s \in Servers \ adrift', Good(s), job.server = s,
           dom[n][s] = "running", dom[job.to][s] = "incoming"
    PROVE  Good(s)'
<1> DEFINE to == job.to
<1>0. /\ UNCHANGED <<reg, tasks, pistonVars>> /\ reg[s].mac \in Nodes
      /\ job.cmd = "migrating" /\ to \in Nodes
  BY JobFacts DEF EndMigration, engineVars, TypeOK
<1>1. job \in Underway(n, s) /\ Begun(s)
  BY <1>0 DEF Underway, Begun, Live
<1>2. PICK K \in SUBSET (Nodes \ {reg[s].mac}) :
          /\ reg[s].status # "moving" => K = {}
          /\ \A a, b \in K : a = b
          /\ Aimed(s, K)
  BY DEF Good, Course
<1>3. n = reg[s].mac /\ to \in K /\ to # n /\ reg[s].status = "moving"
  BY <1>0, <1>1, <1>2 DEF Aimed, Live
<1>4. \A m \in Nodes : Underway(m, s)' = Underway(m, s) \ {job}
  <2>1. \A m \in Nodes \ {n} : job \notin Underway(m, s)
    BY <1>0, <1>2, <1>3 DEF Aimed, Live
  <2>2. \A m \in Nodes : jobs'[m] = IF m = n THEN jobs[n] \ {job} ELSE jobs[m]
    BY DEF EndMigration, Ended, TypeOK
  <2> QED
    BY <2>1, <2>2 DEF Underway
<1>5. \A m \in Nodes : dom'[m][s] = IF m = n THEN "none" ELSE IF m = to THEN "running" ELSE dom[m][s]
  BY <1>0, <1>3 DEF EndMigration, TypeOK
<1>6. \A m \in Nodes :
          /\ Given(m, s)' = Given(m, s) /\ Queued(m, s)' = Queued(m, s)
          /\ Buried(m, s)' = Buried(m, s)
          /\ Coming(m, s)' => Coming(m, s)
  BY <1>0, <1>4 DEF Given, Queued, Buried, Coming, pistonVars
<1>7. \A m \in Nodes : ~Coming(m, s)
  BY <1>1 DEF Good, Starts
<1>8. Still(s)' /\ Placed(s)' /\ Off(s)' /\ Clear(s)' /\ Starts(s)'
  BY <1>0, <1>3, <1>4, <1>6, <1>7 DEF Good, Still, Placed, Clear, Off, Starts, pistonVars
<1>9. Course(s)'
  <2>1. Aimed(s, K)'
    BY <1>0, <1>2, <1>3, <1>4, <1>5, <1>6 DEF Aimed, Asks, pistonVars
  <2> QED
    BY <1>0, <1>2, <2>1 DEF Course
<1>10. Single(s)'
  <2>1. \A m \in Nodes \ {to} : ~Leaves(s, m)
    BY <1>0, <1>2, <1>3 DEF Aimed, Leaves, Live
  <2>2. ~Leaves(s, to)'
    <3> SUFFICES ASSUME NEW other \in Underway(n, s) \ {job},
                        other.cmd = "migrating", other.to = to
                 PROVE  FALSE
      BY <1>0, <1>3, <1>4 DEF Leaves
    <3>1. other \in Jobs /\ job \in Jobs /\ other.server = s
      BY DEF Underway, TypeOK
    <3> QED
      BY <1>0, <3>1 DEF Jobs
  <2>3. \A m \in Nodes : Leaves(s, m)' => Leaves(s, m)
    BY <1>0, <1>4 DEF Leaves
  <2> QED
    BY <1>0, <1>3, <1>5, <2>1, <2>2, <2>3 DEF Single
<1>11. Ending(s)'
  <2> SUFFICES ASSUME NEW m \in Nodes \ {reg[s].mac},
                      \E task \in Given(m, s) : task.op \in {"DESTROY", "SHUTDOWN"}
               PROVE  dom'[m][s] = "none"
    BY <1>0, <1>4, <1>6 DEF Good, Ending, pistonVars
  <2>1. to # m
    BY <1>0, <1>1 DEF Good, Ending, Live
  <2> QED
    BY <1>5, <2>1 DEF Good, Ending
<1>12. Graves(s)'
  <2>1. s \notin mortuary[n]
    BY DEF EndMigration, Drift
  <2>2. \A m \in Nodes : ~Buried(m, s)
    BY <1>3, <2>1 DEF Good, Graves, Reported, Buried
  <2> QED
    BY <1>6, <2>2 DEF Graves
<1>13. Reported(s)'
  BY <1>0, <1>3, <1>5 DEF Good, Reported, pistonVars
<1> QED
  BY <1>8, <1>9, <1>10, <1>11, <1>12, <1>13 DEF Good

LEMMA EndMigrationKeeps ==
    ASSUME TypeOK, NEW n \in Nodes, NEW job \in jobs[n], EndMigration(n, job),
           NEW s \in Servers \ adrift', Good(s)
    PROVE  Good(s)'
<1> DEFINE to == job.to
<1>0. /\ job.server \in Servers /\ to \in Nodes /\ job.cmd = "migrating" /\ Ended(n, job)
      /\ UNCHANGED <<reg, tasks, pistonVars>>
  BY JobFacts DEF EndMigration, engineVars, TypeOK
<1>1. CASE dom[n][job.server] = "running" /\ dom[to][job.server] = "incoming" /\ job.server = s
  BY <1>1, ArrivesKeeps
<1>2. CASE ~(dom[n][job.server] = "running" /\ dom[to][job.server] = "incoming") \/ job.server # s
  <2>1. \A m \in Nodes : Underway(m, s)' \subseteq Underway(m, s)
    BY <1>0, EndedJobs
  <2>2. \A m \in Nodes : dom'[m][s] =
            IF m = to /\ s = job.server /\ dom[m][s] = "incoming" THEN "none" ELSE dom[m][s]
    <3>1. CASE dom[n][job.server] = "running" /\ dom[to][job.server] = "incoming"
      <4>1. dom' = [dom EXCEPT ![n][job.server] = "none", ![to][job.server] = "running"]
        BY <3>1 DEF EndMigration
      <4>2. s # job.server
        BY <1>2, <3>1
      <4> QED
        BY <1>0, <4>1, <4>2 DEF TypeOK
    <3>2. CASE ~(dom[n][job.server] = "running" /\ dom[to][job.server] = "incoming")
      <4>1. dom' = [dom EXCEPT ![to][job.server] = IF @ = "incoming" THEN "none" ELSE @]
        BY <3>2 DEF EndMigration
      <4> QED
        BY <1>0, <4>1 DEF TypeOK
    <3> QED
      BY <3>1, <3>2
  <2>3. ASSUME NEW m \in Nodes, Leaves(s, m), dom'[m][s] # "none" PROVE Leaves(s, m)'
    <3>1. PICK other \in Underway(reg[s].mac, s) : other.cmd = "migrating" /\ other.to = m
      BY <2>3 DEF Leaves
    <3>2. reg[s].mac \in Nodes
      BY DEF TypeOK
    <3>3. other # job
      <4> SUFFICES ASSUME other = job PROVE FALSE
        OBVIOUS
      <4>1. job.server = s /\ to = m
        BY <3>1 DEF Underway
      <4>2. m # reg[s].mac
        BY <3>1, <3>2 DEF Good, Course, Aimed, Live
      <4>3. dom[m][s] \in {"none", "incoming"}
        BY <2>3, <4>2 DEF Good, Single
      <4> QED
        BY <2>2, <2>3, <4>1, <4>3
    <3>4. other \in Underway(reg[s].mac, s)'
      BY <1>0, <3>1, <3>2, <3>3, EndedJobs
    <3> QED
      BY <1>0, <3>1, <3>4 DEF Leaves
  <2> QED
    BY <1>0, <2>1, <2>2, <2>3, HyperKeeps
<1> QED
  BY <1>1, <1>2

LEMMA GuestOffKeeps ==
    ASSUME TypeOK, NEW n \in Nodes, NEW g \in Servers, GuestOff(n, g), NEW s \in Servers, Good(s)
    PROVE  Good(s)'
<1>1. UNCHANGED <<reg, tasks, pistonVars, jobs>>
  BY DEF GuestOff, engineVars
<1>2. \A m \in Nodes : Underway(m, s)' = Underway(m, s) /\ (Leaves(s, m) => Leaves(s, m)')
  BY <1>1 DEF Underway, Leaves
<1>3. \A m \in Nodes : dom'[m][s] \in {"none", dom[m][s]}
  BY DomainOf DEF GuestOff
<1> QED
  BY <1>1, <1>2, <1>3, HyperKeeps

LEMMA VirshFailsKeeps ==
    ASSUME TypeOK, NEW n \in Nodes, NEW job \in jobs[n], VirshFails(n, job), NEW s \in Servers, Good(s)
    PROVE  Good(s)'
<1>1. UNCHANGED <<reg, tasks, pistonVars, dom>> /\ Ended(n, job) /\ job.cmd # "migrating"
  BY DEF VirshFails, engineVars
<1>2. \A m \in Nodes : Underway(m, s)' \subseteq Underway(m, s) /\ (Leaves(s, m) => Leaves(s, m)')
  BY <1>1, EndedJobs, PlainJob
<1> QED
  BY <1>1, <1>2, HyperKeeps

LEMMA NothingGiven == \A n \in Nodes, s \in Servers : batch[n] = <<>> => Given(n, s) = {}
BY DEF Given, Range

LEMMA NothingGivenNext == \A n \in Nodes, s \in Servers : batch'[n] = <<>> => Given(n, s)' = {}
BY DEF Given, Range

\* A daemon that dies forgets its tasks, and one that is back has other servers' only.
LEMMA CrashKeeps ==
    ASSUME TypeOK, NEW n \in Nodes, Crash(n) \/ Restart(n), NEW s \in Servers \ adrift', Good(s)
    PROVE  Good(s)'
<1>1. UNCHANGED <<reg, tasks, jobs, dom, report>>
  BY DEF Crash, Restart, engineVars, hyperVars
<1>2. \A m \in Nodes : Underway(m, s)' = Underway(m, s) /\ (Leaves(s, m) => Leaves(s, m)')
  BY <1>1 DEF Underway, Leaves
<1>3. \A m \in Nodes \ {n} : /\ Given(m, s)' = Given(m, s) /\ receiving'[m] = receiving[m]
                             /\ phase'[m] = phase[m]
  BY DEF Given, Crash, Restart, TypeOK
<1>4. \A m \in Nodes : mortuary'[m] \subseteq mortuary[m]
  BY DEF Crash, Restart, TypeOK
<1>5. Given(n, s)' = {}
  <2>1. CASE Crash(n)
    <3>1. batch'[n] = <<>>
      BY <2>1 DEF Crash, TypeOK
    <3> QED
      BY <3>1, NothingGivenNext
  <2>2. CASE Restart(n)
    <3>1. batch'[n] = bad[n] /\ \A i \in DOMAIN bad[n] : bad[n][i].server # s
      BY <2>2 DEF Restart, Drift, TypeOK
    <3> QED
      BY <3>1 DEF Given, Range
  <2> QED
    BY <2>1, <2>2
<1>6. s \notin receiving'[n] /\ phase'[n] # "posting"
  BY DEF Crash, Restart, Good, Still, TypeOK
<1> QED
  BY <1>1, <1>2, <1>3, <1>4, <1>5, <1>6, NodeKeeps

\* So does a node, and has no domain, command or tombstone either.
LEMMA PowerLossKeeps ==
    ASSUME TypeOK, NEW n \in Nodes, PowerLoss(n), NEW s \in Servers, Good(s)
    PROVE  Good(s)'
<1>1. UNCHANGED <<reg, tasks, report>> /\ reg[s].mac \in Nodes
  BY DEF PowerLoss, engineVars, TypeOK
<1>2. \A m \in Nodes \ {n} :
          /\ Given(m, s)' = Given(m, s) /\ receiving'[m] = receiving[m]
          /\ phase'[m] = phase[m] /\ mortuary'[m] = mortuary[m]
          /\ Underway(m, s)' = Underway(m, s) /\ dom'[m] = dom[m]
  BY DEF Given, Underway, PowerLoss, TypeOK
<1>3. /\ batch'[n] = <<>> /\ receiving'[n] = {} /\ mortuary'[n] = {} /\ phase'[n] = "down"
      /\ jobs'[n] = {} /\ dom'[n][s] = "none"
  BY DEF PowerLoss, TypeOK
<1>4. Given(n, s)' = {}
  BY <1>3, NothingGivenNext
<1>5. Underway(n, s)' = {} /\ ~Buried(n, s)'
  BY <1>3 DEF Underway, Buried
<1>6. \A m \in Nodes : Leaves(s, m) => Leaves(s, m)' \/ reg[s].mac = n
  BY <1>1, <1>2 DEF Leaves
<1> QED
  BY <1>1, <1>2, <1>3, <1>4, <1>5, <1>6, NodeKeeps

LEMMA FaultKeeps ==
    ASSUME TypeOK, NEW n \in Nodes, Fault(n), NEW s \in Servers \ adrift', Good(s)
    PROVE  Good(s)'
BY CrashKeeps, PowerLossKeeps, VirshFailsKeeps DEF Fault

LEMMA NapKeeps ==
    ASSUME TypeOK, NEW n \in Nodes, Nap(n), NEW s \in Servers, Good(s)
    PROVE  Good(s)'
<1>1. /\ UNCHANGED <<reg, tasks, report, batch, mortuary, receiving, jobs, dom>>
      /\ batch[n] = <<>> /\ receiving[n] = {}
  BY DEF Nap, engineVars, hyperVars
<1>2. \A m \in Nodes : /\ Given(m, s)' = Given(m, s) /\ Underway(m, s)' = Underway(m, s)
                       /\ Leaves(s, m) => Leaves(s, m)'
  BY <1>1 DEF Given, Underway, Leaves
<1>3. Given(n, s)' = {}
  BY <1>1, NothingGivenNext
<1>4. \A m \in Nodes : phase'[m] = IF m = n THEN "idle" ELSE phase[m]
  BY DEF Nap, TypeOK
<1> QED
  BY <1>1, <1>2, <1>3, <1>4, NodeKeeps

\* A tick ages the entries and does nothing else to them.
LEMMA TickRow ==
    ASSUME TypeOK, Tick, NEW s \in Servers
    PROVE  reg'[s].mac = reg[s].mac /\ reg'[s].status = reg[s].status /\ reg[s].mac \in Nodes
<1>1. reg \in [Servers -> Row] /\ reg[s].mac \in Nodes
  BY DEF TypeOK, Row
<1>2. ASSUME NEW r \in Row, NEW a, NEW b
      PROVE  /\ [r EXCEPT !.seen = a, !.held = b].mac = r.mac
             /\ [r EXCEPT !.seen = a, !.held = b].status = r.status
  BY DEF Row
<1>3. \A r \in Row :
          /\ [r EXCEPT !.seen = Older(r.seen), !.held = Older(r.held)].mac = r.mac
          /\ [r EXCEPT !.seen = Older(r.seen), !.held = Older(r.held)].status = r.status
  BY <1>2
<1>4. reg' = [t \in Servers |-> [reg[t] EXCEPT !.seen = Older(@), !.held = Older(@)]]
  BY Zenon DEF Tick
<1>5. reg'[s] = [reg[s] EXCEPT !.seen = Older(reg[s].seen), !.held = Older(reg[s].held)]
  BY <1>4, Zenon
<1> QED
  BY <1>1, <1>3, <1>5

LEMMA TickKeeps ==
    ASSUME TypeOK, Tick, NEW s \in Servers, Good(s)
    PROVE  Good(s)'
<1>1. reg'[s].mac = reg[s].mac /\ reg'[s].status = reg[s].status /\ reg[s].mac \in Nodes
  BY TickRow
<1>2. UNCHANGED <<tasks, phase, report, batch, mortuary, receiving, jobs, dom>>
  <2>1. UNCHANGED <<tasks, phase, report, batch, mortuary, receiving, hyperVars>>
    BY Zenon DEF Tick
  <2> QED
    BY <2>1 DEF hyperVars
<1>3. \A n \in Nodes : /\ Queued(n, s)' = Queued(n, s) /\ Given(n, s)' = Given(n, s)
                       /\ Underway(n, s)' = Underway(n, s)
  BY <1>2 DEF Queued, Given, Underway
<1>4. \A n \in Nodes : Leaves(s, n) => Leaves(s, n)'
  BY <1>1, <1>3 DEF Leaves
<1>5. Placed(s)'
  BY <1>1, <1>3 DEF Good, Placed
<1>6. Calm(s) /\ NoneComing(s)
  BY <1>1, <1>2, <1>3, <1>4 DEF Calm, NoneComing
<1> QED
  BY <1>1, <1>5, <1>6, CalmKeeps

-----------------------------------------------------------------------------
(* What the daemon of a node does *)

\* It looks: what it is to report as gone is gone, and it is not starting it.
LEMMA LookKeeps ==
    ASSUME TypeOK, NEW n \in Nodes, Look(n), NEW s \in Servers \ adrift', Good(s)
    PROVE  Good(s)'
<1>0. UNCHANGED <<reg, tasks, batch, receiving, jobs, dom>> /\ reg[s].mac \in Nodes
  BY DEF Look, engineVars, hyperVars, TypeOK
<1>1. /\ phase[n] = "idle"
      /\ phase'[n] = "posting" /\ \A m \in Nodes \ {n} : phase'[m] = phase[m]
      /\ mortuary'[n] = mortuary[n] \cap Present(n)
      /\ \A m \in Nodes \ {n} : mortuary'[m] = mortuary[m]
      /\ report'[n][s] = Seen(n, s) /\ \A m \in Nodes \ {n} : report'[m] = report[m]
  BY DEF Look, TypeOK
<1>2. \A m \in Nodes : /\ Queued(m, s)' = Queued(m, s) /\ Given(m, s)' = Given(m, s)
                       /\ Underway(m, s)' = Underway(m, s)
  BY <1>0 DEF Queued, Given, Underway
<1>3. \A m \in Nodes : Leaves(s, m)' = Leaves(s, m) /\ Coming(m, s)' = Coming(m, s)
                       /\ Asks(m, s)' = Asks(m, s)
  BY <1>0, <1>2 DEF Leaves, Coming, Asks
<1>4. report'[n][s] \in {"none", "shutoff"} =>
          /\ dom[n][s] = "none" /\ s \notin mortuary'[n]
          /\ report'[n][s] = "shutoff" => s \in mortuary[n]
  <2>1. dom[n][s] \in States
    BY DEF TypeOK
  <2> QED
    BY <1>1, <2>1 DEF Seen, States, Present
<1>5. \A m \in Nodes : Buried(m, s)' => Buried(m, s)
  BY <1>1, <1>4 DEF Buried
<1>6. Still(s)'
  BY <1>0, <1>1, <1>2, <1>4 DEF Good, Still
<1>7. Placed(s)' /\ Single(s)' /\ Off(s)'
  BY <1>0, <1>2, <1>3 DEF Good, Placed, Single, Off
<1>8. Course(s)'
  <2>1. PICK K \in SUBSET (Nodes \ {reg[s].mac}) :
            /\ reg[s].status # "moving" => K = {}
            /\ \A a, b \in K : a = b
            /\ Aimed(s, K)
    BY DEF Good, Course
  <2>2. Aimed(s, K)'
    BY <1>0, <1>2, <1>3, <2>1 DEF Aimed
  <2> QED
    BY <1>0, <2>1, <2>2 DEF Course
<1>9. Starts(s)'
  BY <1>0, <1>2, <1>3 DEF Good, Starts, Begun
<1>10. Clear(s)'
  <2>1. s \notin Busy(n)
    BY DEF Look, Drift
  <2>2. \A job \in Underway(n, s) : job.cmd # "create"
    BY <2>1 DEF Busy, Underway
  <2> QED
    BY <1>1, <1>2, <2>2 DEF Good, Clear
<1>11. Ending(s)'
  BY <1>0, <1>2 DEF Good, Ending
<1>12. Graves(s)'
  BY <1>0, <1>3, <1>5 DEF Good, Graves
<1>13. Reported(s)'
  BY <1>0, <1>1, <1>4 DEF Good, Reported
<1> QED
  BY <1>6, <1>7, <1>8, <1>9, <1>10, <1>11, <1>12, <1>13 DEF Good

\* The task a node turns to was at hand, and what is at hand then is the rest.
LEMMA TaskTaken ==
    ASSUME TypeOK, NEW n \in Nodes, NEW op, NextTask(n, op)
    PROVE  /\ Head(batch[n]) \in Work /\ Head(batch[n]).op = op
           /\ Head(batch[n]).server \in Servers
           /\ Head(batch[n]) \in Given(n, Head(batch[n]).server)
           /\ \A m \in Nodes, s \in Servers :
                  /\ Given(m, s)' \subseteq Given(m, s)
                  /\ Given(m, s) \subseteq Given(m, s)' \cup {Head(batch[n])}
           /\ UNCHANGED <<reg, tasks, phase, report, dom>>
           /\ phase[n] \in {"working", "replaying"}
<1>1. batch[n] \in Seq(Work) /\ batch[n] # <<>> /\ Head(batch[n]).op = op
  BY DEF TypeOK, NextTask
<1>2. /\ Head(batch[n]) \in Work
      /\ Range(batch[n]) = {Head(batch[n])} \cup Range(Tail(batch[n]))
  BY <1>1, RangeTail
<1>3. \A m \in Nodes : batch'[m] = IF m = n THEN Tail(batch[n]) ELSE batch[m]
  BY DEF NextTask, TypeOK
<1>4. Head(batch[n]).server \in Servers
  BY <1>2, WorkFacts
<1> QED
  BY <1>1, <1>2, <1>3, <1>4 DEF NextTask, Given, engineVars

LEMMA RunInBgAdds ==
    ASSUME TypeOK, NEW n \in Nodes, NEW cmd, NEW s \in Servers, NEW to, RunInBg(n, cmd, s, to)
    PROVE  /\ \A m \in Nodes, t \in Servers :
                  Underway(m, t)' = IF m = n /\ t = s THEN Underway(m, t) \cup {Job(cmd, s, to)}
                                    ELSE Underway(m, t)
           /\ Job(cmd, s, to).cmd = cmd /\ Job(cmd, s, to).server = s /\ Job(cmd, s, to).to = to
<1>1. Job(cmd, s, to).cmd = cmd /\ Job(cmd, s, to).server = s /\ Job(cmd, s, to).to = to
  BY DEF Job
<1>2. \A m \in Nodes : jobs'[m] = IF m = n THEN jobs[n] \cup {Job(cmd, s, to)} ELSE jobs[m]
  BY DEF RunInBg, TypeOK
<1> QED
  BY <1>1, <1>2 DEF Underway

\* A command that is started or not.
LEMMA RunInBgMay ==
    ASSUME TypeOK, NEW n \in Nodes, NEW cmd, NEW s \in Servers, NEW to,
           RunInBg(n, cmd, s, to) \/ UNCHANGED jobs
    PROVE  \A m \in Nodes, t \in Servers :
               /\ Underway(m, t) \subseteq Underway(m, t)'
               /\ \A job \in Underway(m, t)' :
                      job \in Underway(m, t) \/ (job.cmd = cmd /\ m = n /\ t = s)
               /\ UNCHANGED jobs \/ m # n \/ t # s => Underway(m, t)' = Underway(m, t)
<1>1. CASE RunInBg(n, cmd, s, to)
  <2>1. UNCHANGED jobs => \A m \in Nodes, t \in Servers : Underway(m, t)' = Underway(m, t)
    BY DEF Underway
  <2> QED
    BY <1>1, <2>1, RunInBgAdds
<1>2. CASE UNCHANGED jobs
  BY <1>2 DEF Underway
<1> QED
  BY <1>1, <1>2

\* A task that is nothing to a server but that it is done.
LEMMA TaskKeeps ==
    ASSUME TypeOK, NEW n \in Nodes, NEW op, NextTask(n, op), NEW s \in Servers, Good(s),
           \A m \in Nodes :
               /\ s \in receiving'[m] => s \in receiving[m]
               /\ s \in mortuary'[m] => s \in mortuary[m]
               /\ Underway(m, s) \subseteq Underway(m, s)'
               /\ \A job \in Underway(m, s)' :
                      job.cmd \in {"create", "migrate", "migrating"} => job \in Underway(m, s)
    PROVE  Good(s)'
<1>1. /\ UNCHANGED <<reg, tasks, phase, report, dom>>
      /\ \A m \in Nodes : Given(m, s)' \subseteq Given(m, s)
  BY TaskTaken
<1>2. reg[s].mac \in Nodes
  BY DEF TypeOK
<1>3. \A m \in Nodes : Leaves(s, m) => Leaves(s, m)'
  BY <1>1, <1>2 DEF Leaves
<1> QED
  BY <1>1, <1>3, NodeKeeps

LEMMA ChoreKeeps ==
    ASSUME TypeOK, NEW n \in Nodes, DoSuspend(n) \/ DoResume(n), NEW s \in Servers, Good(s)
    PROVE  Good(s)'
<1> DEFINE head == Head(batch[n])
<1>1. PICK op \in {"SUSPEND", "RESUME"}, cmd \in {"suspend", "resume"} :
          NextTask(n, op) /\ RunInBg(n, cmd, head.server, Nobody)
  BY DEF DoSuspend, DoResume
<1>2. head.server \in Servers
  BY <1>1, TaskTaken
<1>3. \A m \in Nodes :
          /\ Underway(m, s) \subseteq Underway(m, s)'
          /\ \A job \in Underway(m, s)' :
                 job.cmd \in {"create", "migrate", "migrating"} => job \in Underway(m, s)
  BY <1>1, <1>2, RunInBgAdds
<1>4. UNCHANGED <<mortuary, receiving>>
  BY DEF DoSuspend, DoResume
<1> QED
  BY <1>1, <1>3, <1>4, TaskKeeps

\* A server is to be created on its node, where nothing else is going on with it.
LEMMA DoStartKeeps ==
    ASSUME TypeOK, NEW n \in Nodes, DoStart(n), NEW s \in Servers \ adrift', Good(s)
    PROVE  Good(s)'
<1> DEFINE head == Head(batch[n])
<1>1. NextTask(n, "START") /\ UNCHANGED <<mortuary, receiving>>
  BY DEF DoStart
<1>2. /\ head.op = "START" /\ head.server \in Servers /\ head \in Given(n, head.server)
      /\ \A m \in Nodes : Given(m, s)' \subseteq Given(m, s)
      /\ UNCHANGED <<reg, tasks, phase, report, dom>>
      /\ phase[n] \in {"working", "replaying"}
  BY <1>1, TaskTaken
<1>3. jobs' = jobs \/ RunInBg(n, "create", head.server, Nobody)
  BY DEF DoStart
<1>4. CASE jobs' = jobs \/ head.server # s
  <2>1. CASE jobs' = jobs
    BY <1>1, <2>1, TaskKeeps DEF Underway
  <2>2. CASE RunInBg(n, "create", head.server, Nobody) /\ head.server # s
    <3> DEFINE job == Job("create", head.server, Nobody)
    <3>1. job.server # s
      BY <2>2 DEF Job
    <3>2. jobs' = [jobs EXCEPT ![n] = jobs[n] \cup {job}]
      BY <2>2 DEF RunInBg
    <3> HIDE DEF job
    <3>3. \A m \in Nodes : Underway(m, s)' = Underway(m, s)
      BY <3>1, <3>2 DEF Underway, TypeOK
    <3> QED
      BY <1>1, <3>3, TaskKeeps
  <2> QED
    BY <1>3, <1>4, <2>1, <2>2
<1>5. CASE RunInBg(n, "create", head.server, Nobody) /\ head.server = s
  <2>0. reg[s].mac \in Nodes
    BY DEF TypeOK
  <2>1. Coming(n, s)
    BY <1>2, <1>5 DEF Coming
  <2>2. reg[s].mac = n /\ reg[s].status # "shutoff" /\ ~Begun(s)
    BY <2>1 DEF Good, Starts
  <2>3. \A m \in Nodes :
            /\ Underway(m, s) \subseteq Underway(m, s)'
            /\ \A job \in Underway(m, s)' :
                   job \in Underway(m, s) \/ (job.cmd = "create" /\ m = n)
    BY <1>2, <1>5, RunInBgAdds
  <2>4. \A m \in Nodes : Leaves(s, m) => Leaves(s, m)'
    BY <1>2, <2>0, <2>3 DEF Leaves
  <2>5. Placed(s)' /\ \A m \in Nodes : Queued(m, s)' = Queued(m, s)
    BY <1>2 DEF Good, Placed, Queued
  <2>6. Calm(s)
    BY <1>1, <1>2, <2>3, <2>4, <2>5 DEF Calm, Live
  <2>7. Starts(s)'
    <3>1. ~Begun(s)'
      BY <1>2, <2>2, <2>3 DEF Begun, Live
    <3>2. \A m \in Nodes : Coming(m, s)' => m = n
      BY <1>2, <2>2, <2>3 DEF Coming, Good, Starts
    <3> QED
      BY <1>2, <2>2, <3>1, <3>2 DEF Starts
  <2>8. Clear(s)'
    BY <1>2, <2>3 DEF Good, Clear
  <2> QED
    BY <2>0, <2>5, <2>6, <2>7, <2>8, CalmKeeps DEF Good
<1> QED
  BY <1>3, <1>4, <1>5

\* A server is buried by the node of its entry, while it has it.
LEMMA BuryKeeps ==
    ASSUME TypeOK, NEW n \in Nodes, DoDestroy(n) \/ DoShutdown(n),
           NEW s \in Servers \ adrift', Good(s)
    PROVE  Good(s)'
<1> DEFINE head == Head(batch[n])
<1>1. PICK op \in {"DESTROY", "SHUTDOWN"} : NextTask(n, op)
  BY DEF DoDestroy, DoShutdown
<1>2. /\ head.op = op /\ head.server \in Servers /\ head \in Given(n, head.server)
      /\ \A m \in Nodes : Given(m, s)' \subseteq Given(m, s)
      /\ UNCHANGED <<reg, tasks, phase, report, dom>>
      /\ phase[n] \in {"working", "replaying"}
  BY <1>1, TaskTaken
<1>3. UNCHANGED receiving /\ (jobs' = jobs \/ RunInBg(n, "destroy", head.server, Nobody))
  BY DEF DoDestroy, DoShutdown
<1>4. \A m \in Nodes :
          /\ Underway(m, s) \subseteq Underway(m, s)'
          /\ \A job \in Underway(m, s)' :
                 job.cmd \in {"create", "migrate", "migrating"} => job \in Underway(m, s)
  BY <1>2, <1>3, RunInBgMay
<1>5. \A m \in Nodes : mortuary'[m] = IF m = n THEN mortuary[n] \cup {head.server} ELSE mortuary[m]
  BY DEF DoDestroy, DoShutdown, TypeOK
<1>6. CASE head.server # s
  BY <1>1, <1>3, <1>4, <1>5, <1>6, TaskKeeps
<1>7. CASE head.server = s
  <2>0. reg[s].mac \in Nodes
    BY DEF TypeOK
  <2>1. dom[n][s] # "none"
    BY <1>1, <1>7 DEF NextTask, Drift, Present
  <2>2. reg[s].mac = n
    BY <1>2, <1>7, <2>1 DEF Good, Ending
  <2>3. reg[s].status # "shutoff"
    BY <2>1 DEF Good, Off
  <2>5. \A m \in Nodes : Leaves(s, m)' <=> Leaves(s, m)
    BY <1>2, <1>4, <2>0 DEF Leaves
  <2>6. \A m \in Nodes : Queued(m, s)' = Queued(m, s) /\ (Asks(m, s)' => Asks(m, s))
                         /\ (Coming(m, s)' => Coming(m, s))
    BY <1>2, <1>3, <1>4 DEF Queued, Asks, Coming
  <2>7. phase[n] = "working"
    BY <1>2, <1>7 DEF Good, Still
  <2>8. Still(s)'
    BY <1>2, <1>3, <1>5, <2>7 DEF Good, Still
  <2>9. Placed(s)' /\ Off(s)' /\ Single(s)' /\ Clear(s)' /\ Reported(s)'
    BY <1>2, <1>4, <2>5, <2>6 DEF Good, Placed, Off, Single, Clear, Reported
  <2>10. Course(s)'
    <3>1. PICK K \in SUBSET (Nodes \ {reg[s].mac}) :
              /\ reg[s].status # "moving" => K = {}
              /\ \A a, b \in K : a = b
              /\ Aimed(s, K)
      BY DEF Good, Course
    <3>2. Aimed(s, K)'
      BY <1>2, <1>4, <2>6, <3>1 DEF Aimed, Live
    <3> QED
      BY <1>2, <3>1, <3>2 DEF Course
  <2>11. Starts(s)'
    BY <1>2, <1>4, <2>6 DEF Good, Starts, Begun, Live
  <2>12. Ending(s)'
    <3> SUFFICES ASSUME NEW m \in Nodes \ {reg[s].mac},
                        \E task \in Given(m, s) : task.op \in {"DESTROY", "SHUTDOWN"}
                 PROVE  /\ dom[m][s] = "none"
                        /\ s \notin receiving[m]
                        /\ \A task \in Given(m, s) : task.op # "RECEIVE"
                        /\ \A k \in Nodes : \A task \in Queued(k, s) \cup Given(k, s) :
                               task.op = "MOVE" => task.to # m
                        /\ \A k \in Nodes : \A job \in Underway(k, s)' :
                               job.cmd \in Live => job.to # m
      BY <1>2, <1>3, <2>6 DEF Ending
    <3> QED
      BY <1>4 DEF Good, Ending, Live
  <2>13. Graves(s)'
    <3>1. \A m \in Nodes : Buried(m, s)' => Buried(m, s) \/ m = n
      BY <1>2, <1>5 DEF Buried
    <3>2. \A m \in Nodes \ {n} : dom[m][s] # "none" => Leaves(s, m)
      BY <2>1, <2>2 DEF Good, Single
    <3> QED
      BY <1>2, <2>2, <2>3, <2>5, <3>1, <3>2 DEF Good, Graves
  <2> QED
    BY <2>8, <2>9, <2>10, <2>11, <2>12, <2>13 DEF Good
<1> QED
  BY <1>6, <1>7

\* The receiver is told to ask for the server, or takes note that it is to.
LEMMA DoReceiveKeeps ==
    ASSUME TypeOK, NEW n \in Nodes, DoReceive(n), NEW s \in Servers \ adrift', Good(s)
    PROVE  Good(s)'
<1> DEFINE head == Head(batch[n])
<1>1. NextTask(n, "RECEIVE") /\ UNCHANGED <<mortuary, jobs>>
  BY DEF DoReceive
<1>2. /\ head.op = "RECEIVE" /\ head.server \in Servers /\ head \in Given(n, head.server)
      /\ \A m \in Nodes : Given(m, s)' \subseteq Given(m, s)
      /\ UNCHANGED <<reg, tasks, phase, report, dom>>
      /\ phase[n] \in {"working", "replaying"}
  BY <1>1, TaskTaken
<1>3. \A m \in Nodes : Underway(m, s)' = Underway(m, s)
  BY <1>1 DEF Underway
<1>4. \A m \in Nodes : s \in receiving'[m] =>
          s \in receiving[m] \/ (m = n /\ head.server = s)
  BY DEF DoReceive, TypeOK
<1>5. CASE head.server # s
  BY <1>1, <1>3, <1>4, <1>5, TaskKeeps
<1>6. CASE head.server = s
  <2>0. reg[s].mac \in Nodes
    BY DEF TypeOK
  <2>1. \A m \in Nodes : Leaves(s, m)' = Leaves(s, m)
    BY <1>2, <1>3, <2>0 DEF Leaves
  <2>2. \A m \in Nodes : /\ Queued(m, s)' = Queued(m, s) /\ Buried(m, s)' = Buried(m, s)
                         /\ Asks(m, s)' => Asks(m, s)
                         /\ Coming(m, s)' => Coming(m, s)
    BY <1>1, <1>2, <1>3, <1>4, <1>6 DEF Queued, Buried, Asks, Coming
  <2>3. phase[n] = "working"
    BY <1>2, <1>6 DEF Good, Still
  <2>4. Still(s)'
    BY <1>1, <1>2, <1>4, <2>3 DEF Good, Still
  <2>5. Placed(s)' /\ Off(s)' /\ Single(s)' /\ Clear(s)' /\ Reported(s)' /\ Graves(s)'
    BY <1>2, <1>3, <2>1, <2>2 DEF Good, Placed, Off, Single, Clear, Reported, Graves
  <2>6. Course(s)'
    <3>1. PICK K \in SUBSET (Nodes \ {reg[s].mac}) :
              /\ reg[s].status # "moving" => K = {}
              /\ \A a, b \in K : a = b
              /\ Aimed(s, K)
      BY DEF Good, Course
    <3>2. Aimed(s, K)'
      BY <1>2, <1>3, <2>2, <3>1 DEF Aimed
    <3> QED
      BY <1>2, <3>1, <3>2 DEF Course
  <2>7. Starts(s)'
    BY <1>2, <1>3, <2>2 DEF Good, Starts, Begun
  <2>8. Ending(s)'
    <3> SUFFICES ASSUME NEW m \in Nodes \ {reg[s].mac},
                        \E task \in Given(m, s) : task.op \in {"DESTROY", "SHUTDOWN"}
                 PROVE  /\ dom[m][s] = "none"
                        /\ s \notin receiving'[m]
                        /\ \A task \in Given(m, s) : task.op # "RECEIVE"
                        /\ \A k \in Nodes : \A task \in Queued(k, s) \cup Given(k, s) :
                               task.op = "MOVE" => task.to # m
                        /\ \A k \in Nodes : \A job \in Underway(k, s) :
                               job.cmd \in Live => job.to # m
      BY <1>2, <1>3, <2>2 DEF Ending
    <3>1. m # n
      BY <1>2, <1>6 DEF Good, Ending
    <3> QED
      BY <1>4, <3>1 DEF Good, Ending
  <2> QED
    BY <2>4, <2>5, <2>6, <2>7, <2>8 DEF Good
<1> QED
  BY <1>5, <1>6

\* The sender begins to send the server where it was told to.
LEMMA DoMoveKeeps ==
    ASSUME TypeOK, NEW n \in Nodes, DoMove(n), NEW s \in Servers \ adrift', Good(s)
    PROVE  Good(s)'
<1> DEFINE head == Head(batch[n])
           job  == Job("migrate", head.server, head.to)
<1>1. NextTask(n, "MOVE") /\ UNCHANGED <<mortuary, receiving>>
  BY DEF DoMove
<1>2. /\ head.op = "MOVE" /\ head.server \in Servers /\ head \in Given(n, head.server)
      /\ \A m \in Nodes : Given(m, s)' \subseteq Given(m, s)
      /\ UNCHANGED <<reg, tasks, phase, report, dom>>
      /\ phase[n] \in {"working", "replaying"}
  BY <1>1, TaskTaken
<1>3. /\ job.cmd = "migrate" /\ job.server = head.server /\ job.to = head.to
      /\ jobs' = [jobs EXCEPT ![n] = jobs[n] \cup {job}]
  BY DEF DoMove, RunInBg, Job
<1> HIDE DEF job
<1>4. \A m \in Nodes : Underway(m, s)' = IF m = n /\ head.server = s THEN Underway(m, s) \cup {job}
                                         ELSE Underway(m, s)
  BY <1>3 DEF Underway, TypeOK
<1>5. CASE head.server # s
  BY <1>1, <1>4, <1>5, TaskKeeps
<1>6. CASE head.server = s
  <2>0. reg[s].mac \in Nodes
    BY DEF TypeOK
  <2>1. \A m \in Nodes : Leaves(s, m)' = Leaves(s, m)
    BY <1>2, <1>3, <1>4, <2>0 DEF Leaves
  <2>2. \A m \in Nodes : /\ Queued(m, s)' = Queued(m, s) /\ Buried(m, s)' = Buried(m, s)
                         /\ Asks(m, s)' => Asks(m, s)
                         /\ Coming(m, s)' => Coming(m, s)
    BY <1>1, <1>2, <1>3, <1>4 DEF Queued, Buried, Asks, Coming
  <2>3. Begun(s)
    BY <1>2, <1>6 DEF Begun
  <2>4. Still(s)' /\ Placed(s)' /\ Off(s)' /\ Single(s)' /\ Clear(s)'
    BY <1>1, <1>2, <1>3, <1>4, <2>1, <2>2 DEF Good, Still, Placed, Off, Single, Clear
  <2>5. Starts(s)'
    BY <2>2, <2>3 DEF Good, Starts
  <2>6. Graves(s)' /\ Reported(s)'
    BY <1>2, <2>1, <2>2 DEF Good, Graves, Reported
  <2>7. Course(s)'
    <3>1. PICK K \in SUBSET (Nodes \ {reg[s].mac}) :
              /\ reg[s].status # "moving" => K = {}
              /\ \A a, b \in K : a = b
              /\ Aimed(s, K)
      BY DEF Good, Course
    <3>2. n = reg[s].mac /\ head.to \in K
      BY <1>2, <1>6, <3>1 DEF Aimed
    <3>3. Aimed(s, K)'
      BY <1>2, <1>3, <1>4, <2>2, <3>1, <3>2 DEF Aimed
    <3> QED
      BY <1>2, <3>1, <3>3 DEF Course
  <2>8. Ending(s)'
    <3> SUFFICES ASSUME NEW m \in Nodes \ {reg[s].mac},
                        \E task \in Given(m, s) : task.op \in {"DESTROY", "SHUTDOWN"}
                 PROVE  /\ dom[m][s] = "none"
                        /\ s \notin receiving[m]
                        /\ \A task \in Given(m, s) : task.op # "RECEIVE"
                        /\ \A k \in Nodes : \A task \in Queued(k, s) \cup Given(k, s) :
                               task.op = "MOVE" => task.to # m
                        /\ \A k \in Nodes : \A other \in Underway(k, s)' :
                               other.cmd \in Live => other.to # m
      BY <1>1, <1>2, <2>2 DEF Ending
    <3>1. head.to # m
      BY <1>2, <1>6 DEF Good, Ending
    <3> QED
      BY <1>3, <1>4, <3>1 DEF Good, Ending
  <2> QED
    BY <2>4, <2>5, <2>6, <2>7, <2>8 DEF Good
<1> QED
  BY <1>5, <1>6

\* The column of the sender gets the move, and keeps what it has.
LEMMA SendMovesQueues ==
    ASSUME TypeOK, NEW n \in Nodes, NEW s \in Servers, SendMoves(n, s)
    PROVE  /\ \A m \in Nodes, t \in Servers :
                  /\ Queued(m, t) \subseteq Queued(m, t)'
                  /\ \A task \in Queued(m, t)' :
                         \/ task \in Queued(m, t)
                         \/ t = s /\ m = reg[s].mac /\ task.op = "MOVE" /\ task.to = n
           /\ \A m \in Nodes, t \in Servers \ {s} : Queued(m, t)' = Queued(m, t)
<1> DEFINE mac == reg[s].mac
           task == MoveTask(s, n)
           grown == Append(tasks[mac], task)
<1>1. mac \in Nodes /\ tasks[mac] \in Seq(Work) /\ task \in Work
  BY WorkFacts DEF TypeOK
<1>2. grown \in Seq(Work) /\ Range(grown) = Range(tasks[mac]) \cup {task}
  BY <1>1, RangeAppend
<1>3. \A m \in Nodes : tasks'[m] = IF m = mac THEN grown \o tasks[mac] ELSE tasks[m]
  BY <1>1 DEF SendMoves, TypeOK
<1> HIDE DEF grown
<1>4. Range(grown \o tasks[mac]) = Range(tasks[mac]) \cup {task}
  <2>1. Range(grown \o tasks[mac]) = Range(grown) \cup Range(tasks[mac])
    BY <1>1, <1>2, RangeConcat
  <2> QED
    BY <1>2, <2>1
<1>5. task.op = "MOVE" /\ task.server = s /\ task.to = n
  BY WorkFacts
<1> HIDE DEF task
<1>6. \A m \in Nodes : Range(tasks'[m]) = IF m = mac THEN Range(tasks[m]) \cup {task} ELSE Range(tasks[m])
  BY <1>3, <1>4
<1> QED
  BY <1>5, <1>6 DEF Queued

LEMMA AskForMoveKeeps ==
    ASSUME TypeOK, NEW n \in Nodes, AskForMove(n), NEW s \in Servers \ adrift', Good(s)
    PROVE  Good(s)'
<1>1. PICK asked \in receiving[n] :
          SendMoves(n, asked) /\ receiving' = [receiving EXCEPT ![n] = @ \ {asked}]
  BY DEF AskForMove
<1>2. asked \in Servers /\ reg[s].mac \in Nodes
  BY DEF TypeOK
<1>3. UNCHANGED <<reg, phase, report, batch, mortuary, jobs, dom>>
  BY DEF AskForMove, hyperVars
<1>4. \A m \in Nodes : receiving'[m] \subseteq receiving[m]
  BY <1>1 DEF TypeOK
<1>5. \A m \in Nodes :
          /\ Given(m, s)' = Given(m, s) /\ Underway(m, s)' = Underway(m, s)
          /\ Leaves(s, m)' = Leaves(s, m) /\ Buried(m, s)' = Buried(m, s)
          /\ Coming(m, s)' = Coming(m, s)
  BY <1>2, <1>3 DEF Given, Underway, Leaves, Buried, Coming
<1>6. \A m \in Nodes :
          /\ Queued(m, s) \subseteq Queued(m, s)'
          /\ \A task \in Queued(m, s)' :
                 \/ task \in Queued(m, s)
                 \/ s = asked /\ m = reg[s].mac /\ task.op = "MOVE" /\ task.to = n
  BY <1>1, <1>2, SendMovesQueues
<1>7. Placed(s)'
  BY <1>3, <1>6 DEF Good, Placed, Ends
<1>8. CASE asked # s
  <2>1. Calm(s) /\ NoneComing(s)
    BY <1>3, <1>4, <1>5, <1>6, <1>8 DEF Calm, NoneComing
  <2> QED
    BY <1>2, <1>7, <2>1, CalmKeeps
<1>9. CASE asked = s
  <2>1. \A m \in Nodes : Asks(m, s)' => Asks(m, s)
    BY <1>4, <1>5, <1>6 DEF Asks
  <2>2. Still(s)' /\ Off(s)' /\ Single(s)' /\ Clear(s)' /\ Reported(s)' /\ Graves(s)' /\ Starts(s)'
    BY <1>3, <1>4, <1>5 DEF Good, Still, Off, Single, Clear, Reported, Graves, Starts, Begun
  <2>3. Course(s)'
    <3>1. PICK K \in SUBSET (Nodes \ {reg[s].mac}) :
              /\ reg[s].status # "moving" => K = {}
              /\ \A a, b \in K : a = b
              /\ Aimed(s, K)
      BY DEF Good, Course
    <3>2. n \in K
      BY <1>1, <1>9, <3>1 DEF Aimed, Asks
    <3>3. Aimed(s, K)'
      BY <1>3, <1>5, <1>6, <2>1, <3>1, <3>2 DEF Aimed
    <3> QED
      BY <1>3, <3>1, <3>3 DEF Course
  <2>4. Ending(s)'
    <3> SUFFICES ASSUME NEW m \in Nodes \ {reg[s].mac},
                        \E task \in Given(m, s) : task.op \in {"DESTROY", "SHUTDOWN"}
                 PROVE  /\ dom[m][s] = "none"
                        /\ s \notin receiving'[m]
                        /\ \A task \in Given(m, s) : task.op # "RECEIVE"
                        /\ \A k \in Nodes : \A task \in Queued(k, s)' \cup Given(k, s) :
                               task.op = "MOVE" => task.to # m
                        /\ \A k \in Nodes : \A job \in Underway(k, s) :
                               job.cmd \in Live => job.to # m
      BY <1>3, <1>5 DEF Ending
    <3>1. m # n
      BY <1>1, <1>9 DEF Good, Ending
    <3> QED
      BY <1>4, <1>6, <3>1 DEF Good, Ending
  <2> QED
    BY <1>7, <2>2, <2>3, <2>4 DEF Good
<1> QED
  BY <1>8, <1>9

LEMMA ExecuteKeeps ==
    ASSUME TypeOK, NEW n \in Nodes, Execute(n), NEW s \in Servers \ adrift', Good(s)
    PROVE  Good(s)'
BY DoStartKeeps, BuryKeeps, ChoreKeeps, DoReceiveKeeps, DoMoveKeeps, AskForMoveKeeps DEF Execute

-----------------------------------------------------------------------------
(* The POST of a node *)

\* An entry stays, or is declared off as its node does not report the server, or says what
\* the node saw.
LEMMA PostRow ==
    ASSUME TypeOK, NEW n \in Nodes, Post(n), NEW s \in Servers
    PROVE  \/ reg'[s].mac = reg[s].mac /\ reg'[s].status = reg[s].status
           \/ /\ reg[s].mac = n /\ reg'[s].mac = n
              /\ report[n][s] = "none"
              /\ reg[s].status \in {"inactive", "shuttingdown"} /\ reg'[s].status = "shutoff"
           \/ /\ report[n][s] \in {"running", "paused", "shutoff"}
              /\ reg'[s].mac = n /\ reg'[s].status = report[n][s]
<1>1. reg'[s] = Cleaned(n, s)
  BY DEF Post
<1>2. reg[s] \in Row /\ report[n][s] \in {"none", "running", "paused", "shutoff"}
  BY DEF TypeOK, Row
<1>3. CASE report[n][s] = "none"
  <2>1. Registered(n, s) = reg[s]
    BY <1>3 DEF Registered
  <2>2. CASE reg[s].mac = n /\ reg[s].status \in {"inactive", "shuttingdown"}
    <3>1. reg'[s] = [reg[s] EXCEPT !.status = "shutoff"]
      BY <1>1, <1>3, <2>1, <2>2 DEF Cleaned
    <3> QED
      BY <1>2, <1>3, <2>2, <3>1 DEF Row
  <2>3. CASE ~(reg[s].mac = n /\ reg[s].status \in {"inactive", "shuttingdown"})
    <3>1. reg'[s] = reg[s]
      BY <1>1, <2>1, <2>3 DEF Cleaned
    <3> QED
      BY <3>1
  <2> QED
    BY <2>2, <2>3
<1>4. CASE report[n][s] # "none" /\ reg[s].status = "removed"
  <2>1. Registered(n, s) = reg[s]
    BY <1>4 DEF Registered
  <2>2. reg'[s] = reg[s]
    BY <1>1, <1>4, <2>1 DEF Cleaned
  <2> QED
    BY <2>2
<1>5. CASE report[n][s] # "none" /\ reg[s].status # "removed" /\ Kept(n, s)
  <2>1. Registered(n, s).mac = reg[s].mac /\ Registered(n, s).status = reg[s].status
    <3> DEFINE seen == IF reg[s].status = "moving" THEN reg[s].seen ELSE 0
    <3>1. Registered(n, s) = [reg[s] EXCEPT !.seen = seen]
      BY <1>5 DEF Registered
    <3> HIDE DEF seen
    <3> QED
      BY <1>2, <3>1 DEF Row
  <2>2. reg[s].status # "inactive"
    BY <1>5 DEF Kept
  <2>3. reg'[s] = Registered(n, s)
    BY <1>1, <1>5, <2>1, <2>2 DEF Cleaned
  <2> QED
    BY <2>1, <2>3
<1>6. CASE report[n][s] # "none" /\ reg[s].status # "removed" /\ ~Kept(n, s)
  <2>1. Registered(n, s).mac = n /\ Registered(n, s).status = report[n][s]
    BY <1>6 DEF Registered
  <2>2. reg'[s] = Registered(n, s)
    BY <1>1, <1>2, <1>6, <2>1 DEF Cleaned
  <2> QED
    BY <1>2, <1>6, <2>1, <2>2
<1> QED
  BY <1>3, <1>4, <1>5, <1>6

\* The node gets what is queued for it, and is no longer posting.
LEMMA PostViews ==
    ASSUME TypeOK, NEW n \in Nodes, Post(n), NEW s \in Servers, Good(s)
    PROVE  /\ UNCHANGED <<report, mortuary, receiving, jobs, dom>>
           /\ phase[n] = "posting" /\ phase'[n] = "working"
           /\ \A m \in Nodes \ {n} : phase'[m] = phase[m]
           /\ Given(n, s) = {} /\ Given(n, s)' = Queued(n, s) /\ Queued(n, s)' = {}
           /\ \A m \in Nodes \ {n} : Given(m, s)' = Given(m, s) /\ Queued(m, s)' = Queued(m, s)
           /\ \A m \in Nodes : Underway(m, s)' = Underway(m, s)
<1>1. UNCHANGED <<report, mortuary, receiving, jobs, dom>> /\ phase[n] = "posting"
  BY DEF Post, hyperVars
<1>2. /\ phase'[n] = "working" /\ \A m \in Nodes \ {n} : phase'[m] = phase[m]
      /\ tasks'[n] = <<>> /\ \A m \in Nodes \ {n} : tasks'[m] = tasks[m]
      /\ batch'[n] = tasks[n] /\ \A m \in Nodes \ {n} : batch'[m] = batch[m]
  BY DEF Post, TypeOK
<1>3. Queued(n, s)' = {}
  BY <1>2 DEF Queued, Range
<1>4. Given(n, s) = {}
  BY <1>1 DEF Good, Still
<1> QED
  BY <1>1, <1>2, <1>3, <1>4 DEF Given, Queued, Underway

\* What is on its way for a server that is not given up is not about to start, to be asked
\* for or to be sent.
LEMMA NotPending ==
    ASSUME TypeOK, NEW s \in Servers, NEW m \in Nodes, s \notin Pending(m)
    PROVE  /\ \A task \in Queued(m, s) \cup Given(m, s) : task.op \notin {"START", "RECEIVE", "MOVE"}
           /\ s \notin receiving[m]
           /\ \A job \in Underway(m, s) : job.cmd \notin {"create", "migrate", "migrating"}
BY DEF Pending, Placing, Queued, Given, Underway

\* The entry stays, or says what the node saw of a server of its own that does not move: the
\* tasks of the node are those of such a server, or were given for a move.
LEMMA PostSameKeeps ==
    ASSUME TypeOK, NEW n \in Nodes, Post(n), NEW s \in Servers, Good(s),
           reg'[s].mac = reg[s].mac,
           reg'[s].status = "moving" <=> reg[s].status = "moving",
           reg'[s].status = "shutoff" => reg[s].status = "shutoff",
           reg'[s].status = "running" => reg[s].status = "running" \/ reg[s].mac = n
    PROVE  Good(s)'
<1>0. reg[s].mac \in Nodes
  BY DEF TypeOK
<1>1. /\ UNCHANGED <<report, mortuary, receiving, jobs, dom>>
      /\ phase[n] = "posting" /\ phase'[n] = "working"
      /\ \A m \in Nodes \ {n} : phase'[m] = phase[m]
      /\ Given(n, s) = {} /\ Given(n, s)' = Queued(n, s) /\ Queued(n, s)' = {}
      /\ \A m \in Nodes \ {n} : Given(m, s)' = Given(m, s) /\ Queued(m, s)' = Queued(m, s)
      /\ \A m \in Nodes : Underway(m, s)' = Underway(m, s)
  BY PostViews
<1>2. \A m \in Nodes :
          /\ Leaves(s, m)' = Leaves(s, m)
          /\ Queued(m, s)' \cup Given(m, s)' = Queued(m, s) \cup Given(m, s)
          /\ Asks(m, s)' = Asks(m, s)
          /\ Buried(m, s)' => Buried(m, s)
  BY <1>0, <1>1 DEF Leaves, Asks, Buried
<1>3. Still(s)' /\ Off(s)' /\ Single(s)' /\ Clear(s)' /\ Graves(s)' /\ Reported(s)'
  BY <1>1, <1>2 DEF Good, Still, Off, Single, Clear, Graves, Reported
<1>4. PICK K \in SUBSET (Nodes \ {reg[s].mac}) :
          /\ reg[s].status # "moving" => K = {}
          /\ \A a, b \in K : a = b
          /\ Aimed(s, K)
  BY DEF Good, Course
<1>5. Course(s)'
  <2>1. Aimed(s, K)'
    BY <1>1, <1>2, <1>4 DEF Aimed
  <2> QED
    BY <1>4, <2>1 DEF Course
<1>6. Starts(s)'
  <2> SUFFICES ASSUME NEW m \in Nodes, Coming(m, s)'
               PROVE  reg'[s].status # "shutoff" /\ reg[s].mac = m /\ ~Begun(s)'
    BY DEF Starts
  <2>1. CASE Coming(m, s)
    <3>1. reg[s].status # "shutoff" /\ reg[s].mac = m /\ ~Begun(s)
      BY <2>1 DEF Good, Starts
    <3>2. m # n
      BY <1>1, <2>1 DEF Coming, Good, Clear
    <3>3. \A task \in Queued(n, s) : task.op # "MOVE"
      BY <1>4, <3>1, <3>2 DEF Aimed
    <3>4. ~Begun(s)'
      BY <1>1, <3>1, <3>3 DEF Begun
    <3> QED
      BY <3>1, <3>4
  <2>2. CASE ~Coming(m, s)
    <3>1. m = n /\ \E task \in Queued(n, s) : task.op = "START"
      BY <1>1, <2>2 DEF Coming
    <3>2. reg[s].mac = n /\ reg[s].status \notin {"shutoff", "moving"}
      BY <3>1 DEF Good, Placed, Ends
    <3>3. Aimed(s, {})
      BY <1>4, <3>2
    <3>4. ~Begun(s)'
      BY <1>1, <1>2, <3>3 DEF Begun, Aimed
    <3> QED
      BY <3>1, <3>2, <3>4
  <2> QED
    BY <2>1, <2>2
<1>7. Ending(s)'
  <2> SUFFICES ASSUME NEW m \in Nodes \ {reg[s].mac},
                      \E task \in Given(m, s)' : task.op \in {"DESTROY", "SHUTDOWN"}
               PROVE  /\ dom[m][s] = "none"
                      /\ s \notin receiving[m]
                      /\ \A task \in Given(m, s)' : task.op # "RECEIVE"
                      /\ \A k \in Nodes : \A task \in Queued(k, s) \cup Given(k, s) :
                             task.op = "MOVE" => task.to # m
                      /\ \A k \in Nodes : \A job \in Underway(k, s) :
                             job.cmd \in Live => job.to # m
    BY <1>1, <1>2 DEF Ending
  <2>1. m # n
    BY <1>1 DEF Good, Placed, Ends
  <2> QED
    BY <1>1, <2>1 DEF Good, Ending
<1>8. Placed(s)'
  BY <1>1 DEF Good, Placed
<1> QED
  BY <1>3, <1>5, <1>6, <1>7, <1>8 DEF Good

\* The entry is changed with nothing on its way for the server: it rests, if it is nowhere but
\* on the node that posts, and there only when it is said to be up.
LEMMA PostRests ==
    ASSUME TypeOK, NEW n \in Nodes, Post(n), NEW s \in Servers, Good(s),
           \A m \in Nodes : s \notin Pending(m),
           reg'[s].mac = n,
           \A m \in Nodes \ {n} : dom[m][s] = "none",
           reg'[s].status = "shutoff" =>
               dom[n][s] = "none" /\ report[n][s] \in {"none", "shutoff"},
           reg[s].mac = n \/ reg[s].status = "moving",
           reg'[s].status # "moving",
           \A m \in Nodes : Buried(m, s) => m = n
    PROVE  Good(s)'
<1>1. /\ UNCHANGED <<report, mortuary, receiving, jobs, dom>>
      /\ phase[n] = "posting" /\ phase'[n] = "working"
      /\ \A m \in Nodes \ {n} : phase'[m] = phase[m]
      /\ Given(n, s) = {} /\ Given(n, s)' = Queued(n, s) /\ Queued(n, s)' = {}
      /\ \A m \in Nodes \ {n} : Given(m, s)' = Given(m, s) /\ Queued(m, s)' = Queued(m, s)
      /\ \A m \in Nodes : Underway(m, s)' = Underway(m, s)
  BY PostViews
<1>2. \A m \in Nodes :
          /\ \A task \in Queued(m, s)' \cup Given(m, s)' : task.op \notin {"START", "RECEIVE", "MOVE"}
          /\ s \notin receiving[m]
          /\ \A job \in Underway(m, s) : job.cmd \notin {"create", "migrate", "migrating"}
  BY <1>1, NotPending
<1>3. Still(s)'
  BY <1>1 DEF Good, Still
<1>4. Placed(s)'
  BY <1>1 DEF Good, Placed
<1>5. Off(s)'
  BY <1>1 DEF Off
<1>6. \A m \in Nodes : Buried(m, s)' => m = n /\ reg'[s].status # "shutoff"
  BY <1>1 DEF Good, Still, Buried
<1>7. Resting(s)'
  BY <1>1, <1>2, <1>3, <1>4, <1>5, <1>6 DEF Resting
<1> QED
  BY <1>7, RestingIsGoodNext

LEMMA PostKeeps ==
    ASSUME TypeOK, NEW n \in Nodes, Post(n), NEW s \in Servers \ adrift', Good(s)
    PROVE  Good(s)'
<1>0. ~GivenUp(s) /\ ~Misplaced(n, s)
  BY DEF Post, Drift
<1>1. phase[n] = "posting" /\ reg[s].mac \in Nodes
  BY DEF Post, TypeOK
<1>2. PICK K \in SUBSET (Nodes \ {reg[s].mac}) :
          /\ reg[s].status # "moving" => K = {}
          /\ \A a, b \in K : a = b
          /\ Aimed(s, K)
  BY DEF Good, Course
<1>3. ASSUME NEW m \in Nodes, \A k \in Nodes : s \notin Pending(k) PROVE ~Leaves(s, m)
  BY <1>1, <1>3, NotPending DEF Leaves
<1>4. CASE reg'[s].mac = reg[s].mac /\ reg'[s].status = reg[s].status
  BY <1>4, PostSameKeeps
<1>5. CASE /\ reg[s].mac = n /\ reg'[s].mac = n
           /\ report[n][s] = "none"
           /\ reg[s].status \in {"inactive", "shuttingdown"} /\ reg'[s].status = "shutoff"
  <2>1. \A m \in Nodes : s \notin Pending(m)
    BY <1>0, <1>5 DEF GivenUp
  <2>2. \A m \in Nodes \ {n} : dom[m][s] = "none"
    BY <1>2, <1>5 DEF Aimed
  <2>3. dom[n][s] = "none"
    BY <1>1, <1>5 DEF Good, Reported
  <2>4. \A m \in Nodes : ~Buried(m, s)
    BY <1>1, <1>5 DEF Good, Graves, Still, Buried
  <2> QED
    BY <1>5, <2>1, <2>2, <2>3, <2>4, PostRests
<1>6. CASE report[n][s] = "shutoff" /\ reg'[s].mac = n /\ reg'[s].status = "shutoff"
  <2>1. Buried(n, s)
    BY <1>1, <1>6 DEF Buried
  <2>2. /\ reg[s].mac = n /\ reg[s].status # "shutoff"
        /\ \A m \in Nodes \ {n} : dom[m][s] # "none" => Leaves(s, m)
    BY <2>1 DEF Good, Graves
  <2>3. \A m \in Nodes : s \notin Pending(m)
    BY <1>0, <1>6, <2>2 DEF GivenUp
  <2>4. \A m \in Nodes \ {n} : dom[m][s] = "none"
    BY <1>3, <2>2, <2>3
  <2>5. dom[n][s] = "none"
    BY <1>1, <1>6, <2>2 DEF Good, Reported
  <2>6. \A m \in Nodes : Buried(m, s) => m = n
    BY <2>2 DEF Good, Graves
  <2> QED
    BY <1>6, <2>2, <2>3, <2>4, <2>5, <2>6, PostRests
<1>7. CASE /\ report[n][s] \in {"running", "paused"}
           /\ reg'[s].mac = n /\ reg'[s].status = report[n][s]
           /\ reg[s].mac # n \/ reg[s].status = "moving"
  <2>1. dom[n][s] # "none"
    BY <1>0, <1>7 DEF Misplaced
  <2>2. reg[s].status = "moving"
    BY <1>2, <1>7, <2>1 DEF Aimed
  <2>3. \A m \in Nodes : s \notin Pending(m)
    BY <1>0, <1>7, <2>2 DEF GivenUp
  <2>4. \A m \in Nodes : ~Leaves(s, m)
    BY <1>3, <2>3
  <2>5. \A m \in Nodes \ {n} : dom[m][s] = "none"
    BY <1>1, <1>2, <2>1, <2>4 DEF Good, Single, Aimed
  <2>6. \A m \in Nodes : Buried(m, s) => m = n
    BY <2>1, <2>4 DEF Good, Graves
  <2> QED
    BY <1>7, <2>2, <2>3, <2>5, <2>6, PostRests
<1>8. CASE /\ report[n][s] \in {"running", "paused"}
           /\ reg'[s].mac = n /\ reg'[s].status = report[n][s]
           /\ reg[s].mac = n /\ reg[s].status # "moving"
  BY <1>8, PostSameKeeps
<1> QED
  BY <1>4, <1>5, <1>6, <1>7, <1>8, PostRow

-----------------------------------------------------------------------------
(* Theorems *)

LEMMA InitGood == Init => IInv
<1> SUFFICES ASSUME Init PROVE IInv
  OBVIOUS
<1>1. TypeOK
  BY InitTyped
<1> SUFFICES ASSUME NEW s \in Servers PROVE Resting(s)
  BY <1>1, RestingIsGood DEF IInv
<1>2. /\ reg[s].status = "shutoff"
      /\ \A n \in Nodes : /\ tasks[n] = <<>> /\ batch[n] = <<>> /\ receiving[n] = {}
                          /\ jobs[n] = {} /\ mortuary[n] = {} /\ phase[n] = "idle"
                          /\ dom[n][s] = "none"
  BY DEF Init
<1>3. \A n \in Nodes : Queued(n, s) = {} /\ Given(n, s) = {} /\ Underway(n, s) = {}
  BY <1>2 DEF Queued, Given, Underway, Range
<1> QED
  BY <1>2, <1>3 DEF Resting, Still, Placed, Off, Buried

LEMMA AdriftGrows == TypeOK /\ Next => adrift \subseteq adrift'
<1> SUFFICES ASSUME TypeOK, Next PROVE adrift \subseteq adrift'
  OBVIOUS
<1>1. ASSUME Web PROVE adrift \subseteq adrift'
  <2>1. ASSUME NEW s \in Servers, Destroy(s) \/ Shutdown(s) \/ Suspend(s) \/ Resume(s) \/ Remove(s)
        PROVE  adrift \subseteq adrift'
    BY <2>1 DEF Destroy, Shutdown, Suspend, Resume, Remove
  <2>2. ASSUME NEW s \in Servers,
               SaveRead(s) \/ (\E status \in Statuses : SaveWrite(s, status)) \/ List(s)
                   \/ UpdateRegister(s)
        PROVE  adrift \subseteq adrift'
    BY <2>2 DEF SaveRead, SaveWrite, List, UpdateRegister, Drift
  <2>3. ASSUME NEW s \in Servers, NEW dmac, NEW n, Start(s, dmac, n) \/ Move(s, dmac, n)
        PROVE  adrift \subseteq adrift'
    BY <2>3 DEF Start, Move, Drift
  <2>4. ASSUME UpdateNodes PROVE adrift \subseteq adrift'
    BY <2>4 DEF UpdateNodes
  <2> QED
    BY <1>1, <2>1, <2>2, <2>3, <2>4 DEF Web
<1>2. ASSUME NEW n \in Nodes, Piston(n) PROVE adrift \subseteq adrift'
  BY <1>2 DEF Piston, Look, Post, Execute, DoStart, DoDestroy, DoShutdown, DoSuspend, DoResume,
              DoReceive, DoMove, AskForMove, Nap, NextTask, Drift
<1>3. ASSUME NEW n \in Nodes, Command(n) \/ Fault(n) \/ \E s \in Servers : GuestOff(n, s)
      PROVE  adrift \subseteq adrift'
  BY <1>3 DEF Command, Virsh, BeginMigration, EndMigration, Fault, Crash, PowerLoss, Restart,
              VirshFails, GuestOff, Drift
<1>4. ASSUME Tick PROVE adrift \subseteq adrift'
  BY <1>4, Zenon DEF Tick
<1> QED
  BY <1>1, <1>2, <1>3, <1>4 DEF Next

LEMMA NextKeeps ==
    ASSUME TypeOK, Next, NEW s \in Servers \ adrift', Good(s)
    PROVE  Good(s)'
BY WebKeeps, LookKeeps, PostKeeps, ExecuteKeeps, NapKeeps, VirshKeeps, BeginMigrationKeeps,
   EndMigrationKeeps, FaultKeeps, GuestOffKeeps, TickKeeps
DEF Next, Piston, Command

LEMMA StepGood == IInv /\ [Next]_vars => IInv'
<1> SUFFICES ASSUME IInv, [Next]_vars PROVE IInv'
  OBVIOUS
<1>1. TypeOK'
  BY NextTyped DEF IInv
<1>2. CASE Next
  <2>1. \A s \in Servers \ adrift' : s \in Servers \ adrift /\ Good(s)
    BY <1>2, AdriftGrows DEF IInv
  <2> QED
    BY <1>1, <1>2, <2>1, NextKeeps DEF IInv
<1>3. CASE UNCHANGED vars
  <2>1. ASSUME NEW s \in Servers \ adrift PROVE Good(s)'
    <3>1. UNCHANGED <<reg, tasks, pistonVars, hyperVars>> /\ reg[s].mac \in Nodes
      BY <1>3 DEF vars, engineVars, IInv, TypeOK
    <3>2. \A n \in Nodes : Queued(n, s)' = Queued(n, s)
      BY <3>1 DEF Queued
    <3> QED
      BY <2>1, <3>1, <3>2, SameRowKeeps DEF IInv
  <2>2. adrift' = adrift
    BY <1>3 DEF vars
  <2> QED
    BY <1>1, <2>1, <2>2 DEF IInv
<1> QED
  BY <1>2, <1>3

LEMMA Invariant == Spec => []IInv
BY InitGood, StepGood, PTL DEF Spec

LEMMA SafePlace == IInv => SingleHost /\ OffIsOff
<1> SUFFICES ASSUME IInv PROVE SingleHost /\ OffIsOff
  OBVIOUS
<1>1. ASSUME NEW s \in Servers \ adrift, NEW m \in Nodes, NEW n \in Nodes, Up(s, m), Up(s, n)
      PROVE  m = n
  <2>1. Good(s)
    BY DEF IInv
  <2>2. \A k \in Nodes : Up(s, k) => dom[k][s] \notin {"none", "incoming"}
    BY DEF Up
  <2>3. ASSUME NEW k \in Nodes \ {reg[s].mac}, Up(s, k) PROVE dom[reg[s].mac][s] = "none"
    BY <2>1, <2>2, <2>3 DEF Good, Single
  <2>4. PICK K \in SUBSET (Nodes \ {reg[s].mac}) : (\A a, b \in K : a = b) /\ Aimed(s, K)
    BY <2>1 DEF Good, Course
  <2>5. \A k \in Nodes : Up(s, k) => k = reg[s].mac \/ k \in K
    BY <2>2, <2>4 DEF Aimed
  <2> QED
    BY <1>1, <2>2, <2>3, <2>4, <2>5
<1>2. ASSUME NEW s \in Servers \ adrift, reg[s].status = "shutoff", NEW n \in Nodes
      PROVE  ~Up(s, n)
  BY <1>2 DEF IInv, Good, Off, Up
<1> QED
  BY <1>1, <1>2 DEF SingleHost, OffIsOff

\* The image of a server is written by one node: whatever requests, reports, tasks and
\* migrations cross, and whatever crashes, a server that has not gone adrift is up on one
\* node at most.
THEOREM OneHost == Spec => []SingleHost
BY Invariant, SafePlace, PTL

\* A server the register has as off is up nowhere, unless it has gone adrift.
THEOREM OffIsDown == Spec => []OffIsOff
BY Invariant, SafePlace, PTL

\* HostOf is where a server is up, if it is up anywhere.
LEMMA HostFacts ==
    ASSUME NEW s \in Servers
    PROVE  SingleHost => /\ HostOf(s) \in Nodes \cup {Nobody}
                         /\ s \notin adrift => \A n \in Nodes : Up(s, n) <=> HostOf(s) = n
<1> SUFFICES ASSUME SingleHost
             PROVE  /\ HostOf(s) \in Nodes \cup {Nobody}
                    /\ s \notin adrift => \A n \in Nodes : Up(s, n) <=> HostOf(s) = n
  OBVIOUS
<1>1. Nobody \notin Nodes
  BY LifecycleAssumption
<1>2. CASE s \notin adrift /\ \E n \in Nodes : Up(s, n)
  <2>1. PICK n \in Nodes : Up(s, n) /\ HostOf(s) = n
    BY <1>2 DEF HostOf
  <2> QED
    BY <1>2, <2>1 DEF SingleHost
<1>3. CASE ~(s \notin adrift /\ \E n \in Nodes : Up(s, n))
  <2>1. HostOf(s) = Nobody
    BY <1>3 DEF HostOf
  <2> QED
    BY <1>1, <1>3, <2>1
<1> QED
  BY <1>2, <1>3

HostKnown(s) ==
    /\ HostOf(s) \in Nodes \cup {Nobody}
    /\ s \notin adrift => \A n \in Nodes : Up(s, n) <=> HostOf(s) = n

LEMMA HostFactsNext ==
    ASSUME NEW s \in Servers
    PROVE  SingleHost' => /\ HostOf(s)' \in Nodes \cup {Nobody}
                          /\ s \notin adrift' => \A n \in Nodes : Up(s, n)' <=> HostOf(s)' = n
<1>1. SingleHost => HostKnown(s)
  BY HostFacts DEF HostKnown
<1>2. SingleHost' => HostKnown(s)'
  BY <1>1, PTL
<1> QED
  BY <1>2 DEF HostKnown

LEMMA SafePlaceNext == IInv' => SingleHost' /\ OffIsOff'
BY SafePlace, PTL

\* A step changes the register or the hypervisors, not both.
LEMMA EitherSide == Next => UNCHANGED reg \/ UNCHANGED dom
<1>1. ASSUME Web PROVE UNCHANGED dom
  <2>1. ASSUME NEW s \in Servers, Destroy(s) \/ Shutdown(s) \/ Suspend(s) \/ Resume(s) \/ Remove(s)
        PROVE  UNCHANGED dom
    BY <2>1 DEF Destroy, Shutdown, Suspend, Resume, Remove, Request, hyperVars
  <2>2. ASSUME NEW s \in Servers,
               SaveRead(s) \/ (\E status \in Statuses : SaveWrite(s, status)) \/ List(s)
                   \/ UpdateRegister(s)
        PROVE  UNCHANGED dom
    BY <2>2 DEF SaveRead, SaveWrite, List, UpdateRegister, hyperVars
  <2>3. ASSUME NEW s \in Servers, NEW dmac, NEW n, Start(s, dmac, n) \/ Move(s, dmac, n)
        PROVE  UNCHANGED dom
    BY <2>3 DEF Start, Move, Request, hyperVars
  <2>4. ASSUME UpdateNodes PROVE UNCHANGED dom
    BY <2>4 DEF UpdateNodes, hyperVars
  <2> QED
    BY <1>1, <2>1, <2>2, <2>3, <2>4 DEF Web
<1>2. ASSUME NEW n \in Nodes, Piston(n) PROVE UNCHANGED dom
  BY <1>2 DEF Piston, Look, Post, Execute, DoStart, DoDestroy, DoShutdown, DoSuspend, DoResume,
              DoReceive, DoMove, AskForMove, Nap, NextTask, hyperVars
<1>3. ASSUME NEW n \in Nodes, Command(n) \/ Fault(n) \/ \E s \in Servers : GuestOff(n, s)
      PROVE  UNCHANGED reg
  BY <1>3 DEF Command, Virsh, BeginMigration, EndMigration, Fault, Crash, PowerLoss, Restart,
              VirshFails, GuestOff, engineVars
<1>4. ASSUME Tick PROVE UNCHANGED dom
  <2>1. UNCHANGED hyperVars
    BY <1>4, Zenon DEF Tick
  <2> QED
    BY <2>1 DEF hyperVars
<1> QED
  BY <1>1, <1>2, <1>3, <1>4 DEF Next

\* No server that is off is moved.
LEMMA NoMoveOff ==
    ASSUME TypeOK, Next, NEW s \in Servers \ adrift', reg[s].status = "shutoff"
    PROVE  reg'[s].status # "moving"
<1>1. ASSUME Web PROVE reg'[s].status # "moving"
  <2>1. ASSUME NEW t \in Servers, Destroy(t) \/ Shutdown(t) \/ Suspend(t) \/ Resume(t) \/ Remove(t)
        PROVE  reg'[s].status # "moving"
    <3>1. PICK status \in {"destroying", "shuttingdown", "suspending", "resuming", "removed"} :
              \/ Mark(t, status)
              \/ reg' = [reg EXCEPT ![t].status = status, ![t].seen = MaxAge]
      BY <2>1 DEF Destroy, Shutdown, Suspend, Resume, Remove
    <3>2. CASE Mark(t, status)
      <4>1. reg' = [reg EXCEPT ![t] = [reg[t] EXCEPT !.status = status, !.held = 0]]
        BY <3>2 DEF Mark
      <4> QED
        BY <4>1 DEF TypeOK
    <3>3. CASE reg' = [reg EXCEPT ![t].status = status, ![t].seen = MaxAge]
      <4>1. reg' = [reg EXCEPT ![t] = [reg[t] EXCEPT !.status = status, !.seen = MaxAge]]
        BY <3>3
      <4> QED
        BY <4>1 DEF TypeOK
    <3> QED
      BY <3>1, <3>2, <3>3
  <2>2. ASSUME NEW t \in Servers, SaveRead(t) \/ List(t) \/ UpdateRegister(t)
        PROVE  reg'[s].status # "moving"
    BY <2>2 DEF SaveRead, List, UpdateRegister, engineVars, TypeOK
  <2>3. ASSUME NEW t \in Servers, NEW status \in Statuses, SaveWrite(t, status)
        PROVE  reg'[s].status # "moving"
    <3>1. t = s => ~Undone(s, status)
      BY <2>3 DEF SaveWrite, Drift
    <3>2. reg'[s].status = IF t = s THEN status ELSE reg[s].status
      BY <2>3 DEF SaveWrite, TypeOK
    <3> QED
      BY <3>1, <3>2 DEF Undone
  <2>4. ASSUME NEW t \in Servers, NEW dmac, NEW n \in Nodes, Start(t, dmac, n) \/ Move(t, dmac, n)
        PROVE  reg'[s].status # "moving"
    <3>1. CASE Start(t, dmac, n)
      <4>1. reg' = [reg EXCEPT ![t] = [reg[t] EXCEPT !.mac = n, !.status = "starting", !.held = 0]]
        BY <3>1 DEF Start
      <4> QED
        BY <4>1 DEF TypeOK
    <3>2. CASE Move(t, dmac, n)
      <4>1. t # s
        BY <3>2 DEF Move
      <4> QED
        BY <3>2, <4>1 DEF Move, Mark, TypeOK
    <3> QED
      BY <2>4, <3>1, <3>2
  <2>5. ASSUME UpdateNodes PROVE reg'[s].status # "moving"
    BY <2>5 DEF UpdateNodes
  <2> QED
    BY <1>1, <2>1, <2>2, <2>3, <2>4, <2>5 DEF Web
<1>2. ASSUME NEW n \in Nodes, Post(n) PROVE reg'[s].status # "moving"
  BY <1>2, PostRow
<1>3. ASSUME NEW n \in Nodes, Look(n) \/ Execute(n) \/ Nap(n) PROVE reg'[s].status # "moving"
  BY <1>3 DEF Look, Execute, DoStart, DoDestroy, DoShutdown, DoSuspend, DoResume,
              DoReceive, DoMove, AskForMove, Nap, NextTask, engineVars
<1>4. ASSUME NEW n \in Nodes, Command(n) \/ Fault(n) \/ \E t \in Servers : GuestOff(n, t)
      PROVE  reg'[s].status # "moving"
  BY <1>4 DEF Command, Virsh, BeginMigration, EndMigration, Fault, Crash, PowerLoss, Restart,
              VirshFails, GuestOff, engineVars
<1>5. ASSUME Tick PROVE reg'[s].status # "moving"
  BY <1>5, TickRow
<1> QED
  BY <1>1, <1>2, <1>3, <1>4, <1>5 DEF Next, Piston

\* The registers alone change: a server stays where it is, and is on the move, off, or neither.
LEMMA StaysPlaced ==
    ASSUME IInv, IInv', Next, UNCHANGED dom, NEW s \in Servers \ adrift', s \notin adrift
    PROVE  Placement!Step(s)
<1>1. TypeOK /\ SingleHost /\ SingleHost' /\ OffIsOff'
  BY SafePlace, SafePlaceNext DEF IInv
<1>2. \A n \in Nodes : Up(s, n)' = Up(s, n)
  BY DEF Up
<1>3. HostOf(s)' = HostOf(s)
  BY <1>1, <1>2, HostFacts, HostFactsNext
<1>4. reg[s].status = "shutoff" => reg'[s].status # "moving"
  BY <1>1, NoMoveOff
<1>5. reg'[s].status = "shutoff" => HostOf(s) = Nobody
  BY <1>1, <1>2, HostFacts DEF OffIsOff
<1>6. /\ StateOf(s) = IF reg[s].status = "shutoff" THEN "off"
                      ELSE IF reg[s].status = "moving" THEN "moving" ELSE "on"
      /\ StateOf(s)' = IF reg'[s].status = "shutoff" THEN "off"
                       ELSE IF reg'[s].status = "moving" THEN "moving" ELSE "on"
  BY DEF StateOf
<1> QED
  BY <1>3, <1>4, <1>5, <1>6
  DEF Placement!Step, Placement!Stays, Placement!Order, Placement!BeginMove, Placement!EndMove,
      Placement!Settle

\* The hypervisors alone change: a server comes up unless it is off, and goes from one node
\* to another while it moves.
LEMMA HostPlaced ==
    ASSUME IInv, IInv', UNCHANGED reg, NEW s \in Servers \ adrift', s \notin adrift
    PROVE  Placement!Step(s)
<1>1. TypeOK /\ SingleHost /\ SingleHost' /\ OffIsOff'
  BY SafePlace, SafePlaceNext DEF IInv
<1>2. StateOf(s)' = StateOf(s) /\ (StateOf(s) = "off" <=> reg[s].status = "shutoff")
  BY DEF StateOf
<1>3. CASE HostOf(s)' = HostOf(s)
  BY <1>2, <1>3 DEF Placement!Step, Placement!Stays
<1>4. CASE HostOf(s) = Nobody /\ HostOf(s)' # Nobody
  <2>1. reg[s].status # "shutoff"
    BY <1>1, <1>4, HostFactsNext DEF OffIsOff
  <2> QED
    BY <1>2, <1>4, <2>1 DEF Placement!Step, Placement!Boot
<1>5. CASE HostOf(s) # Nobody /\ HostOf(s)' = Nobody
  BY <1>2, <1>5 DEF Placement!Step, Placement!Stop
<1>6. CASE HostOf(s) # Nobody /\ HostOf(s)' # Nobody /\ HostOf(s)' # HostOf(s)
  <2>1. PICK m \in Nodes, n \in Nodes : m # n /\ Up(s, m) /\ Up(s, n)'
    BY <1>1, <1>6, HostFacts, HostFactsNext
  <2>2. dom[m][s] # "none" /\ dom'[n][s] # "none"
    BY <2>1 DEF Up
  <2>3. Course(s) /\ Course(s)'
    BY DEF IInv, Good
  <2>4. reg[s].status = "moving"
    BY <2>1, <2>2, <2>3 DEF Course, Aimed
  <2>5. StateOf(s) = "moving"
    BY <2>4 DEF StateOf
  <2> QED
    BY <1>2, <1>6, <2>5 DEF Placement!Step, Placement!Migrate
<1> QED
  BY <1>3, <1>4, <1>5, <1>6

LEMMA InitPlaced == Init => Placement!Init
<1> SUFFICES ASSUME Init PROVE Placement!Init
  OBVIOUS
<1>1. \A s \in Servers : HostOf(s) = Nobody /\ StateOf(s) = "off" /\ adrift = {}
  BY DEF Init, HostOf, StateOf, Up
<1> QED
  BY <1>1 DEF Init, Placement!Init

LEMMA StepPlaced ==
    IInv /\ IInv' /\ [Next]_vars =>
        [Placement!Next]_<<[s \in Servers |-> HostOf(s)], [s \in Servers |-> StateOf(s)], adrift>>
<1> SUFFICES ASSUME IInv, IInv', [Next]_vars
             PROVE  [Placement!Next]_<<[s \in Servers |-> HostOf(s)],
                                       [s \in Servers |-> StateOf(s)], adrift>>
  OBVIOUS
<1>1. CASE Next
  <2>1. adrift \subseteq adrift'
    BY <1>1, AdriftGrows DEF IInv
  <2>2. \A s \in Servers \ adrift' : Placement!Step(s)
    BY <1>1, <2>1, EitherSide, StaysPlaced, HostPlaced
  <2>3. \A s \in Servers : HostOf(s)' \in Nodes \cup {Nobody}
    BY SafePlaceNext, HostFactsNext
  <2>4. \A s \in Servers : StateOf(s)' \in {"off", "on", "moving"}
    BY DEF StateOf
  <2> QED
    BY <2>1, <2>2, <2>3, <2>4 DEF Placement!Next, Placement!States
<1>2. CASE UNCHANGED vars
  <2>1. UNCHANGED <<reg, dom, adrift>>
    BY <1>2 DEF vars, engineVars, hyperVars
  <2> QED
    BY <2>1 DEF HostOf, StateOf, Up
<1> QED
  BY <1>1, <1>2

\* Requests, tasks, reports and virsh commands implement ServerPlacement: a server that has
\* not gone adrift changes nodes only while the register says that it moves, comes up only
\* when the register does not have it as off, and is declared off only when it is up nowhere.
THEOREM PlacementKept == Spec => Implements
<1>1. Init => Placement!Init
  BY InitPlaced
<1>2. IInv /\ IInv' /\ [Next]_vars =>
          [Placement!Next]_<<[s \in Servers |-> HostOf(s)], [s \in Servers |-> StateOf(s)], adrift>>
  BY StepPlaced
<1> QED
  BY <1>1, <1>2, Invariant, PTL DEF Implements, Spec, Placement!Spec

=============================================================================

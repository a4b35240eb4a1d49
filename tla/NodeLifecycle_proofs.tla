-------------------------- MODULE NodeLifecycle_proofs --------------------------
(***************************************************************************)
(* Theorems about nodes and what is placed on them, for every set of nodes *)
(* and of servers, every capacity and number of requests.                  *)
(***************************************************************************)
EXTENDS NodeLifecycle, TaskSequences, FiniteSetTheorems, TLAPS

-----------------------------------------------------------------------------
(* Types *)

\* piston.cgi has a status to write until it has written it, and none otherwise.
Serving ==
    \A n \in Nodes : serving[n].kind \in {"none", "posted"} <=> serving[n].status = "none"

Typed == TypeOK /\ Serving

Row   == [status : Statuses, maintenance : BOOLEAN, vms : Nat]
Tasks == Commands \cup Servers
Reply == [kind : {"none", "post", "posted", "drowse"}, status : Statuses \cup {"none"},
          tasks : Seq(Tasks)]
Asked == [Nodes -> [Statuses -> Nat]]
Phases == {"idle", "posting", "working", "drowsing", "stopping", "ending", "booting", "joining",
           "off"}

LEMMA CommandFacts ==
    /\ Commands = {"sleep", "reboot", "shutdown", "halt", "unjoin", "wipe", "reload"}
    /\ {Transition[c] : c \in Commands} = {"sleeping", "rebooting", "shuttingdown", "halting",
                                           "unjoining", "wiping", "reloading"}
    /\ \A c \in Commands : Transition[c] \in Statuses /\ Transition[c] # "maintenance"
<1>1. Commands = {"sleep", "reboot", "shutdown", "halt", "unjoin", "wipe", "reload"}
  BY DEF Commands, Transition
<1>2. {Transition[c] : c \in Commands} = {"sleeping", "rebooting", "shuttingdown", "halting",
                                           "unjoining", "wiping", "reloading"}
  BY <1>1 DEF Transition
<1>3. \A c \in Commands : Transition[c] # "maintenance"
  BY <1>1 DEF Transition
<1> QED
  BY <1>1, <1>2, <1>3 DEF Statuses

LEMMA StatusFacts ==
    /\ {"running", "maintenance", "asleep", "waking", "joining", "inactive", "drowsing", "reset",
        "deleted"} \subseteq Statuses
    /\ "none" \notin Statuses
BY CommandFacts DEF Statuses

LEMMA NodeStatusType ==
    ASSUME TypeOK, NEW n \in Nodes, NEW st \in {"running", "drowsing"}
    PROVE  NodeStatus(n, st) \in Statuses
<1>1. row[n].status \in Statuses
  BY DEF TypeOK
<1> QED
  BY <1>1, StatusFacts DEF NodeStatus

LEMMA SentType ==
    ASSUME NEW ts \in Seq(Tasks)
    PROVE  /\ Sent(ts) \in Seq(Tasks \cup {"ignored"})
           /\ DOMAIN Sent(ts) = DOMAIN ts
<1>1. DOMAIN Sent(ts) = 1 .. Len(ts) /\ Len(ts) \in Nat
  BY DEF Sent
<1>2. \A i \in DOMAIN ts : Sent(ts)[i] \in Tasks \cup {"ignored"}
  BY DEF Sent, Tasks
<1> QED
  BY <1>1, <1>2 DEF Sent

LEMMA InitTyped == Init => Typed
<1> SUFFICES ASSUME Init PROVE Typed
  OBVIOUS
<1>1. Idle \in Reply /\ Idle.kind = "none" /\ Idle.status = "none"
  BY DEF Idle, Reply
<1>2. row \in [Nodes -> Row]
  BY StatusFacts DEF Init, Row
<1>3. SleepAfter \in Nat /\ MaxEvents \in Nat
  BY NodeLifecycleAssumption
<1>4. TypeOK
  BY <1>1, <1>2, <1>3 DEF Init, TypeOK, Row, Reply, Tasks
<1>5. Serving
  BY <1>1 DEF Init, Serving
<1> QED
  BY <1>4, <1>5 DEF Typed

\* The parts of a step that several actions have in common.
LEMMA QueueType ==
    ASSUME TypeOK, NEW n \in Nodes, NEW t \in Tasks, Queue(n, t)
    PROVE  tasks' \in [Nodes -> Seq(Tasks)]
BY DEF TypeOK, Queue, Tasks

LEMMA RowType ==
    ASSUME TypeOK, NEW n \in Nodes, NEW st \in Statuses, Status(n, st)
    PROVE  row' \in [Nodes -> Row]
<1>1. row \in [Nodes -> Row]
  BY DEF TypeOK, Row
<1>2. row[n] \in Row
  BY <1>1
<1>3. [row[n] EXCEPT !.status = st] \in Row
  BY <1>2 DEF Row
<1>4. row' = [row EXCEPT ![n] = [row[n] EXCEPT !.status = st]]
  BY DEF Status
<1> QED
  BY <1>1, <1>3, <1>4

LEMMA FlagType ==
    ASSUME TypeOK, NEW n \in Nodes, NEW st \in Statuses, NEW flag \in BOOLEAN,
           row' = [row EXCEPT ![n].status = st, ![n].maintenance = flag]
    PROVE  row' \in [Nodes -> Row]
<1>1. row \in [Nodes -> Row]
  BY DEF TypeOK, Row
<1>2. row[n] \in Row
  BY <1>1
<1>3. [row[n] EXCEPT !.status = st, !.maintenance = flag] \in Row
  BY <1>2 DEF Row
<1>4. row' = [row EXCEPT ![n] = [row[n] EXCEPT !.status = st, !.maintenance = flag]]
  BY <1>1
<1> QED
  BY <1>1, <1>3, <1>4

LEMMA HitType ==
    ASSUME TypeOK, NEW n, NEW forced \in BOOLEAN
    PROVE  Hit(n, forced) \subseteq Servers
BY DEF TypeOK, Hit, On, Unseen

LEMMA EventType ==
    ASSUME TypeOK, Event
    PROVE  events' \in 0 .. MaxEvents
BY NodeLifecycleAssumption DEF TypeOK, Event

LEMMA AnswersType ==
    ASSUME TypeOK, NEW n \in Nodes, NEW st, Answers(n, st)
    PROVE  st \in Statuses /\ asked' \in Asked
<1>1. st \in Statuses /\ asked[n][st] > 0 /\ asked \in Asked
  BY DEF Answers, Read, TypeOK, Asked
<1>2. asked[n] \in [Statuses -> Nat] /\ asked[n][st] - 1 \in Nat
  BY <1>1 DEF Asked
<1>3. [asked[n] EXCEPT ![st] = @ - 1] \in [Statuses -> Nat]
  BY <1>1, <1>2
<1>4. asked' = [asked EXCEPT ![n] = [asked[n] EXCEPT ![st] = @ - 1]]
  BY <1>1 DEF Answers, Asked
<1> QED
  BY <1>1, <1>3, <1>4 DEF Asked

LEMMA RequestType ==
    ASSUME TypeOK, NEW n \in Nodes, NEW st, Request(n, st)
    PROVE  st \in Statuses /\ asked' \in Asked /\ placed' = placed /\ events' = events
BY AnswersType DEF Request

LEMMA GetObjType ==
    ASSUME TypeOK, NEW n \in Nodes, GetObj(n)
    PROVE  asked' \in Asked
<1>1. row[n].status \in Statuses /\ asked \in Asked
  BY DEF TypeOK, Asked
<1>2. asked[n] \in [Statuses -> Nat] /\ asked[n][row[n].status] + 1 \in Nat
  BY <1>1 DEF Asked
<1>3. [asked[n] EXCEPT ![row[n].status] = @ + 1] \in [Statuses -> Nat]
  BY <1>1, <1>2
<1>4. asked' = [asked EXCEPT ![n] = [asked[n] EXCEPT ![row[n].status] = @ + 1]]
  BY <1>1 DEF GetObj, Asked
<1> QED
  BY <1>1, <1>3, <1>4 DEF Asked

LEMMA PowerOffType ==
    ASSUME TypeOK, NEW n \in Nodes, NEW p \in Phases, PowerOff(n, p)
    PROVE  /\ phase' \in [Nodes -> Phases]
           /\ doing' \in [Nodes -> {"none", "drowse"} \cup (Commands \ {"wipe"})]
           /\ batch' \in [Nodes -> Seq(Tasks \cup {"ignored"})]
           /\ drowsy' \in [Nodes -> 0 .. SleepAfter]
           /\ jobs' \in [Nodes -> SUBSET Servers] /\ dom' \in [Nodes -> SUBSET Servers]
           /\ ended' \subseteq Servers /\ killed' \subseteq Servers
           /\ look' = look /\ ran' = ran
<1>1. phase' \in [Nodes -> Phases]
  BY DEF TypeOK, PowerOff, Phases
<1>2. doing' \in [Nodes -> {"none", "drowse"} \cup (Commands \ {"wipe"})]
  BY DEF TypeOK, PowerOff
<1>3. batch' \in [Nodes -> Seq(Tasks \cup {"ignored"})]
  BY DEF TypeOK, PowerOff, Tasks
<1>4. drowsy' \in [Nodes -> 0 .. SleepAfter]
  BY NodeLifecycleAssumption DEF TypeOK, PowerOff
<1>5. jobs' \in [Nodes -> SUBSET Servers] /\ dom' \in [Nodes -> SUBSET Servers]
  BY DEF TypeOK, PowerOff
<1>6. ended' \subseteq Servers /\ killed' \subseteq Servers
  BY DEF TypeOK, PowerOff
<1> QED
  BY <1>1, <1>2, <1>3, <1>4, <1>5, <1>6 DEF PowerOff

LEMMA PowerOnType ==
    ASSUME TypeOK, NEW n \in Nodes, PowerOn(n)
    PROVE  phase' \in [Nodes -> Phases]
BY DEF TypeOK, PowerOn, Phases

LEMMA AdministratorTyped ==
    ASSUME Typed, NEW n \in Nodes, Administrator(n)
    PROVE  Typed'
<1> USE DEF Typed
<1>0. CASE GetObj(n)
  <2>1. asked' \in Asked /\ events' \in 0 .. MaxEvents
    BY <1>0, GetObjType, EventType DEF GetObj
  <2> QED
    BY <1>0, <2>1 DEF GetObj, TypeOK, Serving, Asked, pistonVars, hyperVars, historyVars
<1>1. CASE Maintenance(n)
  <2>1. row' \in [Nodes -> Row]
    BY <1>1, StatusFacts, FlagType DEF Maintenance
  <2>2. asked' \in Asked /\ placed' = placed /\ events' = events
    BY <1>1, RequestType DEF Maintenance
  <2> QED
    BY <1>1, <2>1, <2>2 DEF Maintenance, TypeOK, Serving, Row, Asked, pistonVars, hyperVars
<1>2. CASE Carryon(n)
  <2>1. row' \in [Nodes -> Row]
    BY <1>2, StatusFacts, FlagType DEF Carryon
  <2>2. asked' \in Asked /\ placed' = placed /\ events' = events
    BY <1>2, RequestType DEF Carryon
  <2>3. raced' \subseteq Nodes
    BY <1>2 DEF Carryon, Race, TypeOK
  <2> QED
    BY <1>2, <2>1, <2>2, <2>3
    DEF Carryon, TypeOK, Serving, Row, Asked, pistonVars, hyperVars
<1>3. CASE Evacuate(n)
  <2>1. row' \in [Nodes -> Row]
    BY <1>3, StatusFacts, RowType DEF Evacuate
  <2>2. asked' \in Asked /\ placed' = placed /\ events' = events
    BY <1>3, RequestType DEF Evacuate
  <2> QED
    BY <1>3, <2>1, <2>2 DEF Evacuate, TypeOK, Serving, Row, Asked, pistonVars, hyperVars
<1>4. ASSUME NEW st, BrutalSleep(n, st) PROVE Typed'
  <2>1. row' \in [Nodes -> Row]
    BY <1>4, StatusFacts, RowType DEF BrutalSleep
  <2>2. asked' \in Asked /\ placed' = placed /\ events' = events
    BY <1>4, RequestType DEF BrutalSleep
  <2>3. crossed' \subseteq Servers
    BY <1>4, HitType DEF BrutalSleep
  <2>4. PowerOff(n, "off") /\ "off" \in Phases
    BY <1>4 DEF BrutalSleep, Phases
  <2> QED
    BY <1>4, <2>1, <2>2, <2>3, <2>4, PowerOffType
    DEF BrutalSleep, TypeOK, Serving, Row, Phases, Tasks, Asked
<1>5. ASSUME NEW st, Reset(n, st) PROVE Typed'
  <2>1. row' \in [Nodes -> Row]
    BY <1>5, StatusFacts, RowType DEF Reset
  <2>2. asked' \in Asked /\ placed' = placed /\ events' = events
    BY <1>5, RequestType DEF Reset
  <2>3. crossed' \subseteq Servers
    BY <1>5, HitType DEF Reset
  <2>4. PICK p \in Phases : PowerOff(n, p)
    BY <1>5 DEF Reset, Phases
  <2> QED
    BY <1>5, <2>1, <2>2, <2>3, <2>4, PowerOffType
    DEF Reset, TypeOK, Serving, Row, Phases, Tasks, Asked
<1>6. ASSUME NEW st, Wake(n, st) PROVE Typed'
  <2>1. row' \in [Nodes -> Row]
    BY <1>6, StatusFacts, RowType DEF Wake
  <2>2. asked' \in Asked /\ placed' = placed /\ events' = events
    BY <1>6, RequestType DEF Wake
  <2>3. phase' \in [Nodes -> Phases]
    BY <1>6, PowerOnType DEF Wake
  <2> QED
    BY <1>6, <2>1, <2>2, <2>3
    DEF Wake, TypeOK, Serving, Row, Phases, Asked, hyperVars, historyVars
<1>7. ASSUME NEW st, Delete(n, st) PROVE Typed'
  <2>1. row' \in [Nodes -> Row]
    BY <1>7, StatusFacts DEF Delete, TypeOK, Row
  <2>2. asked' \in Asked /\ placed' = placed /\ events' = events
    BY <1>7, RequestType DEF Delete
  <2>3. crossed' \subseteq Servers /\ uncounted' \subseteq Servers
    BY <1>7, HitType DEF Delete, TypeOK, On
  <2>4. raced' \subseteq Nodes
    BY <1>7 DEF Delete, Race, TypeOK
  <2>5. tasks' \in [Nodes -> Seq(Tasks)]
    BY <1>7 DEF Delete, TypeOK, Tasks
  <2> QED
    BY <1>7, <2>1, <2>2, <2>3, <2>4, <2>5
    DEF Delete, TypeOK, Serving, Row, Tasks, Asked, pistonVars, hyperVars
<1>8. ASSUME NEW st, NEW c \in Commands, Command(n, c, st) PROVE Typed'
  <2>1. row' \in [Nodes -> Row]
    BY <1>8, CommandFacts, RowType DEF Command
  <2>2. asked' \in Asked /\ placed' = placed /\ events' = events
    BY <1>8, RequestType DEF Command
  <2>3. crossed' \subseteq Servers
    BY <1>8, HitType DEF Command
  <2>4. tasks' \in [Nodes -> Seq(Tasks)]
    BY <1>8, QueueType DEF Command, Tasks
  <2> QED
    BY <1>8, <2>1, <2>2, <2>3, <2>4
    DEF Command, TypeOK, Serving, Row, Tasks, Asked, pistonVars, hyperVars
<1>9. ASSUME NEW st, PutBack(n, st) PROVE Typed'
  <2>1. asked' \in Asked /\ st \in Statuses
    BY <1>9, AnswersType DEF PutBack
  <2>2. row' \in [Nodes -> Row]
    BY <1>9, <2>1, RowType DEF PutBack
  <2> QED
    BY <1>9, <2>1, <2>2 DEF PutBack, TypeOK, Serving, Row, Asked, pistonVars, hyperVars, historyVars
<1> QED
  BY <1>0, <1>1, <1>2, <1>3, <1>4, <1>5, <1>6, <1>7, <1>8, <1>9 DEF Administrator

LEMMA ValveTyped ==
    ASSUME Typed, NEW n \in Nodes, Valve(n)
    PROVE  Typed'
<1> USE DEF Typed
<1>0. serving \in [Nodes -> Reply] /\ Idle \in Reply /\ Idle.kind = "none" /\ Idle.status = "none"
  BY DEF TypeOK, Reply, Tasks, Idle
<1>1. ASSUME NEW st \in {"running", "drowsing"}, NEW k \in {"post", "drowse"}, NEW ts \in Seq(Tasks),
             serving' = [serving EXCEPT ![n] = [kind |-> k, status |-> NodeStatus(n, st),
                                                tasks |-> ts]]
      PROVE  serving' \in [Nodes -> Reply] /\ Serving'
  <2>1. NodeStatus(n, st) \in Statuses /\ NodeStatus(n, st) # "none"
    BY NodeStatusType, StatusFacts
  <2> DEFINE r == [kind |-> k, status |-> NodeStatus(n, st), tasks |-> ts]
  <2>2. r \in Reply /\ r.kind = k /\ k # "none" /\ r.status # "none"
    BY <2>1 DEF Reply
  <2> QED
    BY <1>0, <1>1, <2>2 DEF Serving
<1>2. ASSUME serving' = [serving EXCEPT ![n] = Idle]
      PROVE  serving' \in [Nodes -> Reply] /\ Serving'
  BY <1>0, <1>2 DEF Serving
<1>3. CASE ServePost(n)
  <2>1. tasks[n] \in Seq(Tasks) /\ tasks' \in [Nodes -> Seq(Tasks)]
    BY <1>3 DEF ServePost, TypeOK, Tasks
  <2>2. serving' \in [Nodes -> Reply] /\ Serving'
    BY <1>1, <1>3, <2>1 DEF ServePost
  <2> QED
    BY <1>3, <2>1, <2>2 DEF ServePost, TypeOK, Reply, Tasks, pistonVars, hyperVars, historyVars
<1>7. CASE WritePost(n)
  <2> DEFINE r == [serving[n] EXCEPT !.kind = "posted", !.status = "none"]
  <2>1. serving[n] \in Reply /\ serving[n].kind = "post" /\ serving[n].status \in Statuses
    BY <1>0, <1>7 DEF WritePost, Serving, Reply
  <2>2. r \in Reply /\ r.kind = "posted" /\ r.status = "none"
    BY <2>1 DEF Reply
  <2>3. serving' = [serving EXCEPT ![n] = r]
    BY <1>0, <1>7 DEF WritePost
  <2>4. serving' \in [Nodes -> Reply] /\ Serving'
    <3> HIDE DEF r
    <3> QED
      BY <1>0, <2>2, <2>3 DEF Serving
  <2>5. row' \in [Nodes -> Row]
    BY <1>7, <2>1, RowType DEF WritePost
  <2> QED
    BY <1>7, <2>4, <2>5
    DEF WritePost, TypeOK, Reply, Row, Tasks, pistonVars, hyperVars, historyVars
<1>4. CASE AnswerPost(n)
  <2>1. serving' \in [Nodes -> Reply] /\ Serving'
    BY <1>2, <1>4 DEF AnswerPost
  <2>2. Cardinality(look[n]) \in Nat
    <3>1. look[n] \subseteq Servers /\ IsFiniteSet(Servers)
      BY NodeLifecycleAssumption DEF TypeOK
    <3> QED
      BY <3>1, FS_Subset, FS_CardinalityType
  <2>4. row' \in [Nodes -> Row]
    <3>1. row \in [Nodes -> Row]
      BY DEF TypeOK, Row
    <3>2. [row[n] EXCEPT !.vms = Cardinality(look[n])] \in Row
      BY <2>2, <3>1 DEF Row
    <3>3. row' = [row EXCEPT ![n] = [row[n] EXCEPT !.vms = Cardinality(look[n])]]
      BY <1>4, <3>1 DEF AnswerPost
    <3> QED
      BY <3>1, <3>2, <3>3
  <2>5. batch' \in [Nodes -> Seq(Tasks \cup {"ignored"})]
    <3>1. Sent(serving[n].tasks) \in Seq(Tasks \cup {"ignored"})
      BY <1>0, SentType DEF Reply
    <3>2. batch \in [Nodes -> Seq(Tasks \cup {"ignored"})]
      BY DEF TypeOK, Tasks
    <3> QED
      BY <1>4, <3>1, <3>2 DEF AnswerPost
  <2>6. phase' \in [Nodes -> Phases]
    BY <1>4 DEF AnswerPost, TypeOK, Phases
  <2>7. reported' \subseteq Servers /\ uncounted' \subseteq Servers
    BY <1>4 DEF AnswerPost, TypeOK, On
  <2> QED
    BY <1>4, <2>1, <2>4, <2>5, <2>6, <2>7
    DEF AnswerPost, TypeOK, Reply, Row, Tasks, Phases, hyperVars
<1>5. CASE ServeDrowse(n)
  <2>1. <<>> \in Seq(Tasks)
    OBVIOUS
  <2>2. serving' \in [Nodes -> Reply] /\ Serving'
    BY <1>1, <1>5, <2>1 DEF ServeDrowse
  <2> QED
    BY <1>5, <2>2 DEF ServeDrowse, TypeOK, Reply, Tasks, pistonVars, hyperVars, historyVars
<1>6. CASE AnswerDrowse(n)
  <2>1. serving' \in [Nodes -> Reply] /\ Serving'
    BY <1>2, <1>6 DEF AnswerDrowse
  <2>2. serving[n].status \in Statuses
    BY <1>0, <1>6 DEF AnswerDrowse, Serving, Reply
  <2>3. row' \in [Nodes -> Row]
    BY <1>6, <2>2, RowType DEF AnswerDrowse
  <2>4. phase' \in [Nodes -> Phases]
    BY <1>6 DEF AnswerDrowse, TypeOK, Phases
  <2> QED
    BY <1>6, <2>1, <2>3, <2>4
    DEF AnswerDrowse, TypeOK, Reply, Row, Tasks, Phases, hyperVars, historyVars
<1> QED
  BY <1>3, <1>4, <1>5, <1>6, <1>7 DEF Valve

LEMMA PistonTyped ==
    ASSUME Typed, NEW n \in Nodes, Piston(n)
    PROVE  Typed'
<1> USE DEF Typed
<1>0. ASSUME batch[n] # <<>>, batch' = [batch EXCEPT ![n] = Tail(@)]
      PROVE  /\ batch' \in [Nodes -> Seq(Tasks \cup {"ignored"})]
             /\ Head(batch[n]) \in Tasks \cup {"ignored"}
  BY <1>0 DEF TypeOK, Tasks
<1>1. CASE Look(n)
  BY <1>1 DEF Look, TypeOK, Serving, registerVars, hyperVars, historyVars
<1>2. CASE DoStart(n)
  <2>1. jobs' \in [Nodes -> SUBSET Servers]
    BY <1>2 DEF DoStart, TypeOK
  <2> QED
    BY <1>0, <1>2, <2>1 DEF DoStart, TypeOK, Serving, Tasks, registerVars, historyVars
<1>3. CASE DoNothing(n)
  BY <1>0, <1>3 DEF DoNothing, TypeOK, Serving, Tasks, registerVars, hyperVars, historyVars
<1>4. CASE DoCommand(n)
  <2>1. /\ phase' \in [Nodes -> Phases]
        /\ doing' \in [Nodes -> {"none", "drowse"} \cup (Commands \ {"wipe"})]
    <3>1. Head(batch[n]) # "wipe" => Head(batch[n]) \in Commands \ {"wipe"}
      BY <1>4 DEF DoCommand
    <3>2. phase \in [Nodes -> Phases]
          /\ doing \in [Nodes -> {"none", "drowse"} \cup (Commands \ {"wipe"})]
      BY DEF TypeOK, Phases
    <3>3. CASE Head(batch[n]) = "wipe"
      BY <1>4, <3>2, <3>3 DEF DoCommand
    <3>4. CASE Head(batch[n]) # "wipe"
      <4>1. /\ phase' = [phase EXCEPT ![n] = "stopping"]
            /\ doing' = [doing EXCEPT ![n] = Head(batch[n])]
        BY <1>4, <3>4 DEF DoCommand
      <4>2. "stopping" \in Phases
        BY DEF Phases
      <4> QED
        BY <3>1, <3>2, <3>4, <4>1, <4>2
    <3> QED
      BY <3>3, <3>4
  <2> QED
    BY <1>0, <1>4, <2>1
    DEF DoCommand, TypeOK, Serving, Tasks, Phases, registerVars, hyperVars, historyVars
<1>5. CASE Nap(n)
  <2> DEFINE rounds == IF dom[n] # {} THEN 0 ELSE drowsy[n] + 1
  <2>1. ASSUME rounds > SleepAfter
        PROVE  /\ crossed' \subseteq Servers
               /\ phase' \in [Nodes -> Phases] /\ drowsy' \in [Nodes -> 0 .. SleepAfter]
               /\ doing' \in [Nodes -> {"none", "drowse"} \cup (Commands \ {"wipe"})]
    <3>1. /\ phase' = [phase EXCEPT ![n] = "drowsing"] /\ doing' = [doing EXCEPT ![n] = "drowse"]
          /\ crossed' = Hit(n, FALSE) /\ drowsy' = drowsy
      BY <1>5, <2>1 DEF Nap
    <3> QED
      BY <3>1, HitType DEF TypeOK, Phases
  <2>2. ASSUME ~(rounds > SleepAfter)
        PROVE  /\ crossed' \subseteq Servers
               /\ phase' \in [Nodes -> Phases] /\ drowsy' \in [Nodes -> 0 .. SleepAfter]
               /\ doing' \in [Nodes -> {"none", "drowse"} \cup (Commands \ {"wipe"})]
    <3>1. /\ phase' = [phase EXCEPT ![n] = "idle"] /\ drowsy' = [drowsy EXCEPT ![n] = rounds]
          /\ crossed' = crossed /\ doing' = doing
      BY <1>5, <2>2 DEF Nap
    <3>2. rounds \in 0 .. SleepAfter
      BY <2>2, NodeLifecycleAssumption DEF TypeOK
    <3> QED
      BY <3>1, <3>2 DEF TypeOK, Phases
  <2>3. crossed' \subseteq Servers
    BY <2>1, <2>2
  <2>4. phase' \in [Nodes -> Phases] /\ drowsy' \in [Nodes -> 0 .. SleepAfter]
    BY <2>1, <2>2
  <2>5. doing' \in [Nodes -> {"none", "drowse"} \cup (Commands \ {"wipe"})]
    BY <2>1, <2>2
  <2> QED
    BY <1>5, <2>3, <2>4, <2>5
    DEF Nap, TypeOK, Serving, Phases, registerVars, hyperVars
<1>6. CASE Terminate(n)
  <2>0. <<>> \in Seq(Tasks \cup {"ignored"}) /\ <<>> \in Seq(Tasks)
    OBVIOUS
  <2>1. tasks' \in [Nodes -> Seq(Tasks)] /\ batch' \in [Nodes -> Seq(Tasks \cup {"ignored"})]
    <3>1. tasks \in [Nodes -> Seq(Tasks)] /\ batch \in [Nodes -> Seq(Tasks \cup {"ignored"})]
      BY DEF TypeOK, Tasks
    <3>2. tasks' = [tasks EXCEPT ![n] = <<>>]
      BY <1>6 DEF Terminate
    <3>3. batch' = [batch EXCEPT ![n] = <<>>]
      BY <1>6 DEF Terminate
    <3> QED
      BY <2>0, <3>1, <3>2, <3>3
  <2>2. phase' \in [Nodes -> Phases] /\ jobs' \in [Nodes -> SUBSET Servers]
    BY <1>6 DEF Terminate, TypeOK, Phases
  <2> QED
    BY <1>6, <2>1, <2>2 DEF Terminate, TypeOK, Serving, Tasks, Phases, historyVars
<1>7. CASE GoDown(n)
  <2>1. PICK p \in Phases : PowerOff(n, p)
    BY <1>7 DEF GoDown, Phases
  <2> QED
    <3>1. UNCHANGED <<row, tasks, asked, serving, placed, events, reported, crossed, uncounted,
                      evacuated, withheld, raced>>
      BY <1>7 DEF GoDown, registerVars
    <3>2. Serving'
      BY <3>1 DEF Serving
    <3>3. TypeOK'
      <4>1. /\ phase' \in [Nodes -> Phases]
            /\ doing' \in [Nodes -> {"none", "drowse"} \cup (Commands \ {"wipe"})]
            /\ batch' \in [Nodes -> Seq(Tasks \cup {"ignored"})]
            /\ drowsy' \in [Nodes -> 0 .. SleepAfter]
            /\ jobs' \in [Nodes -> SUBSET Servers] /\ dom' \in [Nodes -> SUBSET Servers]
            /\ ended' \subseteq Servers /\ killed' \subseteq Servers
            /\ look' = look /\ ran' = ran
        BY <2>1, PowerOffType
      <4> QED
        BY <3>1, <4>1 DEF TypeOK, Phases, Tasks
    <3> QED
      BY <3>2, <3>3
<1>8. CASE Reloaded(n)
  <2>1. /\ UNCHANGED <<row, tasks, asked, serving, look, batch, jobs, dom, ran, ended, placed,
                       events, reported, crossed, killed, uncounted, evacuated, withheld, raced>>
        /\ phase' = [phase EXCEPT ![n] = "idle"] /\ doing' = [doing EXCEPT ![n] = "none"]
        /\ drowsy' = [drowsy EXCEPT ![n] = 0]
    BY <1>8 DEF Reloaded, registerVars, hyperVars, historyVars
  <2>2. Serving'
    BY <2>1 DEF Serving
  <2>3. /\ phase' \in [Nodes -> Phases]
        /\ doing' \in [Nodes -> {"none", "drowse"} \cup (Commands \ {"wipe"})]
    BY <2>1 DEF TypeOK, Phases
  <2>4. drowsy' \in [Nodes -> 0 .. SleepAfter]
    BY <2>1, NodeLifecycleAssumption DEF TypeOK
  <2>5. TypeOK'
    BY <2>1, <2>3, <2>4 DEF TypeOK, Phases
  <2> QED
    BY <2>2, <2>5
<1>9. CASE Boot(n)
  BY <1>9 DEF Boot, TypeOK, Serving, registerVars, hyperVars, historyVars
<1>10. CASE Join(n)
  <2>1. row' \in [Nodes -> Row]
    BY <1>10, StatusFacts, RowType DEF Join
  <2>2. phase' \in [Nodes -> Phases]
    BY <1>10 DEF Join, TypeOK, Phases
  <2> QED
    BY <1>10, <2>1, <2>2 DEF Join, TypeOK, Serving, Row, Phases, hyperVars, historyVars
<1> QED
  BY <1>1, <1>2, <1>3, <1>4, <1>5, <1>6, <1>7, <1>8, <1>9, <1>10 DEF Piston

LEMMA OtherTyped ==
    ASSUME Typed, NEW n \in Nodes
    PROVE  /\ List(n) \/ SwitchOn(n) \/ PowerLoss(n) => Typed'
           /\ \A s \in Servers : Start(s, n) \/ Create(n, s) \/ GuestOff(n, s) => Typed'
<1> USE DEF Typed
<1>1. CASE List(n)
  <2>1. row' \in [Nodes -> Row]
    BY <1>1, StatusFacts, RowType DEF List
  <2> QED
    BY <1>1, <2>1 DEF List, TypeOK, Serving, Row, pistonVars, hyperVars, historyVars
<1>2. CASE SwitchOn(n)
  BY <1>2, PowerOnType DEF SwitchOn, TypeOK, Serving, Phases, registerVars, hyperVars, historyVars
<1>3. CASE PowerLoss(n)
  <2>1. events' \in 0 .. MaxEvents
    BY <1>3, EventType DEF PowerLoss
  <2>2. crossed' \subseteq Servers
    BY <1>3, HitType DEF PowerLoss
  <2>3. PowerOff(n, "off") /\ "off" \in Phases
    BY <1>3 DEF PowerLoss, Phases
  <2> QED
    BY <1>3, <2>1, <2>2, <2>3, PowerOffType
    DEF PowerLoss, TypeOK, Serving, Phases, Tasks, registerVars
<1>4. ASSUME NEW s \in Servers, Start(s, n) PROVE Typed'
  <2>1. row' \in [Nodes -> Row]
    <3>1. row \in [Nodes -> Row] /\ "waking" \in Statuses
      BY StatusFacts DEF TypeOK, Row
    <3> DEFINE r == [row[n] EXCEPT !.vms = @ + 1,
                                   !.status = IF @ = "asleep" THEN "waking" ELSE @]
    <3>2. row[n] \in Row /\ row[n].vms + 1 \in Nat
      BY <3>1 DEF Row
    <3>3. r \in Row
      BY <3>1, <3>2 DEF Row
    <3>4. row' = [row EXCEPT ![n] = r]
      BY <1>4, <3>1 DEF Start, Place
    <3> QED
      BY <3>1, <3>3, <3>4
  <2>2. tasks' \in [Nodes -> Seq(Tasks)]
    BY <1>4, QueueType DEF Start, Tasks
  <2>3. phase' \in [Nodes -> Phases]
    BY <1>4, PowerOnType DEF Start, Place, TypeOK, Phases
  <2>4. placed' \in [Servers -> Nodes \cup {Nobody}] /\ crossed' \subseteq Servers
    BY <1>4 DEF Start, TypeOK
  <2> QED
    <3>1. UNCHANGED <<asked, serving, doing, look, batch, drowsy, jobs, dom, ran, ended, events,
                      reported, killed, uncounted, evacuated, withheld, raced>>
      BY <1>4 DEF Start, hyperVars
    <3>2. Serving'
      BY <3>1 DEF Serving
    <3>3. TypeOK'
      <4>1. /\ row' \in [Nodes -> [status : Statuses, maintenance : BOOLEAN, vms : Nat]]
            /\ tasks' \in [Nodes -> Seq(Commands \cup Servers)]
            /\ phase' \in [Nodes -> {"idle", "posting", "working", "drowsing", "stopping",
                                      "ending", "booting", "joining", "off"}]
        BY <2>1, <2>2, <2>3 DEF Row, Tasks, Phases
      <4> QED
        BY <2>4, <3>1, <4>1 DEF TypeOK
    <3> QED
      BY <3>2, <3>3
<1>5. ASSUME NEW s \in Servers, Create(n, s) PROVE Typed'
  <2>1. /\ UNCHANGED <<row, tasks, asked, serving, phase, doing, look, batch, drowsy, ended, placed,
                       events, reported, crossed, killed, uncounted, evacuated, withheld, raced>>
        /\ jobs' = [jobs EXCEPT ![n] = @ \ {s}] /\ dom' = [dom EXCEPT ![n] = @ \cup {s}]
        /\ ran' = ran \cup {s}
    BY <1>5 DEF Create, registerVars, pistonVars, historyVars
  <2>2. Serving'
    BY <2>1 DEF Serving
  <2>3. TypeOK'
    BY <2>1 DEF TypeOK
  <2> QED
    BY <2>2, <2>3
<1>6. ASSUME NEW s \in Servers, GuestOff(n, s) PROVE Typed'
  BY <1>6 DEF GuestOff, TypeOK, Serving, registerVars, pistonVars, historyVars
<1> QED
  BY <1>1, <1>2, <1>3, <1>4, <1>5, <1>6

LEMMA NextTyped == Typed /\ [Next]_vars => Typed'
<1> SUFFICES ASSUME Typed, [Next]_vars PROVE Typed'
  OBVIOUS
<1>1. CASE Next
  BY <1>1, AdministratorTyped, ValveTyped, PistonTyped, OtherTyped DEF Next
<1>2. CASE UNCHANGED vars
  BY <1>2 DEF Typed, TypeOK, Serving, vars, registerVars, pistonVars, hyperVars, historyVars
<1> QED
  BY <1>1, <1>2

\* Every status, task, phase and count is one of those there are.
THEOREM TypeCorrect == Spec => []TypeOK
<1>1. Typed => TypeOK
  BY DEF Typed
<1> QED
  BY <1>1, InitTyped, NextTyped, PTL DEF Spec

-----------------------------------------------------------------------------
(* Maintenance *)

\* What the row, the report being served and the requests that have read the row say of
\* maintenance comes from somebody who put the node there, or was undone meanwhile.
Meant ==
    \A n \in Nodes :
        \/ row[n].status = "maintenance" \/ row[n].maintenance
        \/ serving[n].status = "maintenance" \/ asked[n]["maintenance"] > 0
        => n \in withheld \cup evacuated \cup raced

\* Only GetObj adds to what has been read.
LEMMA MeantAsked ==
    ASSUME Typed, NEW n \in Nodes, NEW st, Answers(n, st)
    PROVE  /\ \A m \in Nodes : asked'[m]["maintenance"] > 0 => asked[m]["maintenance"] > 0
           /\ st = "maintenance" => asked[n]["maintenance"] > 0
           /\ Read(n)' = {s \in Statuses : asked'[n][s] > 0}
<1>1. st \in Statuses /\ asked[n][st] > 0 /\ asked \in Asked
  BY DEF Answers, Read, Typed, TypeOK, Asked
<1>2. asked' = [asked EXCEPT ![n][st] = @ - 1]
  BY DEF Answers
<1>3. ASSUME NEW m \in Nodes, asked'[m]["maintenance"] > 0 PROVE asked[m]["maintenance"] > 0
  <2>1. CASE m = n /\ st = "maintenance"
    BY <1>1, <2>1
  <2>2. CASE ~(m = n /\ st = "maintenance")
    <3>1. asked[m] \in [Statuses -> Nat] /\ "maintenance" \in Statuses
      BY <1>1, StatusFacts DEF Asked
    <3>2. asked'[m]["maintenance"] = asked[m]["maintenance"]
      BY <1>1, <1>2, <2>2, <3>1 DEF Asked
    <3> QED
      BY <1>3, <3>2
  <2> QED
    BY <2>1, <2>2
<1> QED
  BY <1>1, <1>3 DEF Read

\* A status that is no maintenance.
LEMMA MeantStatus ==
    ASSUME Typed, Meant, NEW n \in Nodes, NEW st, st # "maintenance", Status(n, st),
           \A m \in Nodes : asked'[m]["maintenance"] > 0 => asked[m]["maintenance"] > 0,
           UNCHANGED <<serving, withheld, evacuated, raced>>
    PROVE  Meant'
<1>1. row' = [row EXCEPT ![n].status = st] /\ row \in [Nodes -> Row]
  BY DEF Status, Typed, TypeOK, Row
<1>2. \A m \in Nodes \ {n} : row'[m] = row[m]
  BY <1>1
<1>3. row'[n].status = st /\ row'[n].maintenance = row[n].maintenance
  BY <1>1 DEF Row
<1> QED
  BY <1>2, <1>3 DEF Meant

LEMMA MeantAdministrator ==
    ASSUME Typed, Meant, NEW n \in Nodes, Administrator(n)
    PROVE  Meant'
<1> DEFINE Fewer == \A m \in Nodes : asked'[m]["maintenance"] > 0 => asked[m]["maintenance"] > 0
<1>0. row \in [Nodes -> Row]
  BY DEF Typed, TypeOK, Row
<1>1. ASSUME NEW st, Request(n, st) PROVE Fewer
  BY <1>1, MeantAsked DEF Request
<1>2. ASSUME row'[n].status # "maintenance", ~row'[n].maintenance,
             \A m \in Nodes \ {n} : row'[m] = row[m],
             serving' = serving, Race(n), Fewer,
             withheld' = withheld \ {n}, evacuated' = evacuated \ {n}
      PROVE  Meant'
  <2> SUFFICES ASSUME NEW m \in Nodes,
                      \/ row'[m].status = "maintenance" \/ row'[m].maintenance
                      \/ serving'[m].status = "maintenance" \/ asked'[m]["maintenance"] > 0
               PROVE  m \in withheld' \cup evacuated' \cup raced'
    BY DEF Meant
  <2>1. raced \subseteq raced'
    BY <1>2 DEF Race
  <2>2. CASE m = n
    <3>1. serving[n].status = "maintenance" \/ "maintenance" \in Read(n)'
      BY <1>2, <2>2, StatusFacts DEF Read
    <3> QED
      BY <1>2, <2>2, <3>1 DEF Race
  <2>3. CASE m # n
    BY <1>2, <2>1, <2>3 DEF Meant
  <2> QED
    BY <2>2, <2>3
<1>3. CASE Carryon(n)
  <2>1. /\ row' = [row EXCEPT ![n].status = "running", ![n].maintenance = FALSE]
        /\ serving' = serving /\ Race(n) /\ Fewer
        /\ withheld' = withheld \ {n} /\ evacuated' = evacuated \ {n}
    BY <1>1, <1>3 DEF Carryon
  <2>2. row'[n].status = "running" /\ ~row'[n].maintenance
    BY <1>0, <2>1 DEF Row
  <2>3. \A m \in Nodes \ {n} : row'[m] = row[m]
    BY <1>0, <2>1
  <2> QED
    BY <1>2, <2>1, <2>2, <2>3
<1>4. CASE Evacuate(n)
  <2>1. /\ row' = [row EXCEPT ![n].status = "maintenance"]
        /\ evacuated' = evacuated \cup {n} /\ Fewer
        /\ serving' = serving /\ withheld' = withheld /\ raced' = raced
    BY <1>1, <1>4 DEF Evacuate, Status
  <2>2. \A m \in Nodes \ {n} : row'[m] = row[m]
    BY <1>0, <2>1
  <2> QED
    BY <2>1, <2>2 DEF Meant
<1>5. ASSUME NEW st, BrutalSleep(n, st) PROVE Meant'
  BY <1>1, <1>5, MeantStatus DEF BrutalSleep
<1>6. ASSUME NEW st, Reset(n, st) PROVE Meant'
  BY <1>1, <1>6, MeantStatus DEF Reset
<1>7. ASSUME NEW st, Wake(n, st) PROVE Meant'
  BY <1>1, <1>7, MeantStatus DEF Wake, historyVars
<1>8. ASSUME NEW st, Delete(n, st) PROVE Meant'
  <2>1. /\ row' = [row EXCEPT ![n] = [status |-> "deleted", maintenance |-> FALSE, vms |-> 0]]
        /\ serving' = serving /\ Race(n) /\ Fewer
        /\ withheld' = withheld \ {n} /\ evacuated' = evacuated \ {n}
    BY <1>1, <1>8 DEF Delete
  <2>2. row'[n].status = "deleted" /\ ~row'[n].maintenance
    BY <1>0, <2>1
  <2>3. \A m \in Nodes \ {n} : row'[m] = row[m]
    BY <1>0, <2>1
  <2> QED
    BY <1>2, <2>1, <2>2, <2>3
<1>9. ASSUME NEW st, NEW c \in Commands, Command(n, c, st) PROVE Meant'
  <2>1. Fewer /\ Status(n, Transition[c]) /\ UNCHANGED <<serving, withheld, evacuated, raced>>
    BY <1>1, <1>9 DEF Command
  <2> QED
    BY <2>1, MeantStatus, CommandFacts
<1>10. CASE Maintenance(n)
  <2>1. /\ row' = [row EXCEPT ![n].status = "maintenance", ![n].maintenance = TRUE]
        /\ withheld' = withheld \cup {n} /\ Fewer
        /\ serving' = serving /\ evacuated' = evacuated /\ raced' = raced
    BY <1>1, <1>10 DEF Maintenance
  <2>2. \A m \in Nodes \ {n} : row'[m] = row[m]
    BY <1>0, <2>1
  <2> QED
    BY <2>1, <2>2 DEF Meant
<1>11. CASE GetObj(n)
  <2>1. UNCHANGED <<row, serving, withheld, evacuated, raced>>
    BY <1>11 DEF GetObj, historyVars
  <2>2. ASSUME NEW m \in Nodes, asked'[m]["maintenance"] > 0
        PROVE  asked[m]["maintenance"] > 0 \/ row[m].status = "maintenance"
    <3>1. asked \in Asked /\ asked[m] \in [Statuses -> Nat] /\ "maintenance" \in Statuses
      BY StatusFacts DEF Typed, TypeOK, Asked
    <3>2. asked' = [asked EXCEPT ![n][row[n].status] = @ + 1]
      BY <1>11 DEF GetObj
    <3>3. CASE ~(m = n /\ row[n].status = "maintenance")
      <4>1. asked'[m]["maintenance"] = asked[m]["maintenance"]
        BY <3>1, <3>2, <3>3 DEF Asked
      <4> QED
        BY <2>2, <4>1
    <3> QED
      BY <3>3
  <2> QED
    BY <2>1, <2>2 DEF Meant
<1>12. ASSUME NEW st, PutBack(n, st) PROVE Meant'
  <2>1. /\ Fewer /\ (st = "maintenance" => asked[n]["maintenance"] > 0)
        /\ UNCHANGED <<serving, withheld, evacuated, raced>>
    BY <1>12, MeantAsked DEF PutBack, historyVars
  <2>2. row' = [row EXCEPT ![n].status = st]
    BY <1>12 DEF PutBack, Status
  <2>3. /\ row'[n].maintenance = row[n].maintenance
        /\ row'[n].status = "maintenance" => row[n].status = "maintenance" \/ st = "maintenance"
        /\ \A m \in Nodes \ {n} : row'[m] = row[m]
    BY <1>0, <2>2 DEF Row
  <2> QED
    BY <2>1, <2>3 DEF Meant
<1> QED
  BY <1>3, <1>4, <1>5, <1>6, <1>7, <1>8, <1>9, <1>10, <1>11, <1>12 DEF Administrator

LEMMA MeantValve ==
    ASSUME Typed, Meant, NEW n \in Nodes, Valve(n)
    PROVE  Meant'
<1>0. row \in [Nodes -> Row] /\ serving \in [Nodes -> Reply]
  BY DEF Typed, TypeOK, Row, Reply, Tasks
<1>1. ASSUME NEW st \in {"running", "drowsing"}, NEW k, NEW ts,
             serving' = [serving EXCEPT ![n] = [kind |-> k, status |-> NodeStatus(n, st),
                                                tasks |-> ts]],
             UNCHANGED <<row, asked, withheld, evacuated, raced>>
      PROVE  Meant'
  <2>1. NodeStatus(n, st) = "maintenance" => row[n].status = "maintenance" \/ row[n].maintenance
    BY DEF NodeStatus
  <2>2. serving'[n].status = NodeStatus(n, st) /\ \A m \in Nodes \ {n} : serving'[m] = serving[m]
    BY <1>0, <1>1
  <2> QED
    BY <1>1, <2>1, <2>2 DEF Meant
<1>2. ASSUME NEW r, r.status = "none", serving' = [serving EXCEPT ![n] = r],
             row'[n].status = serving[n].status, row'[n].maintenance = row[n].maintenance,
             \A m \in Nodes \ {n} : row'[m] = row[m],
             UNCHANGED <<asked, withheld, evacuated, raced>>
      PROVE  Meant'
  <2>1. serving'[n].status = "none" /\ \A m \in Nodes \ {n} : serving'[m] = serving[m]
    BY <1>0, <1>2
  <2> QED
    BY <1>2, <2>1 DEF Meant
<1>3. CASE ServePost(n) \/ ServeDrowse(n)
  BY <1>1, <1>3 DEF ServePost, ServeDrowse, historyVars
<1>4. CASE WritePost(n)
  <2> DEFINE r == [serving[n] EXCEPT !.kind = "posted", !.status = "none"]
  <2>1. row' = [row EXCEPT ![n].status = serving[n].status]
    BY <1>4 DEF WritePost, Status
  <2>2. /\ row'[n].status = serving[n].status /\ row'[n].maintenance = row[n].maintenance
        /\ \A m \in Nodes \ {n} : row'[m] = row[m]
    BY <1>0, <2>1 DEF Row
  <2>3. serving' = [serving EXCEPT ![n] = r] /\ r.status = "none"
    BY <1>0, <1>4 DEF WritePost, Reply
  <2>4. UNCHANGED <<asked, withheld, evacuated, raced>>
    BY <1>4 DEF WritePost, historyVars
  <2> HIDE DEF r
  <2> QED
    BY <1>2, <2>2, <2>3, <2>4
<1>6. CASE AnswerPost(n)
  <2>1. row' = [row EXCEPT ![n].vms = Cardinality(look[n])]
    BY <1>6 DEF AnswerPost
  <2>2. /\ row'[n].status = row[n].status /\ row'[n].maintenance = row[n].maintenance
        /\ \A m \in Nodes \ {n} : row'[m] = row[m]
    BY <1>0, <2>1 DEF Row
  <2>3. /\ serving' = [serving EXCEPT ![n] = Idle] /\ Idle.status = "none"
        /\ UNCHANGED <<asked, withheld, evacuated, raced>>
    BY <1>6 DEF AnswerPost, Idle
  <2>4. serving'[n].status = "none" /\ \A m \in Nodes \ {n} : serving'[m] = serving[m]
    BY <1>0, <2>3
  <2> QED
    BY <2>2, <2>3, <2>4 DEF Meant
<1>5. CASE AnswerDrowse(n)
  <2>1. row' = [row EXCEPT ![n].status = serving[n].status]
    BY <1>5 DEF AnswerDrowse, Status
  <2>2. /\ row'[n].status = serving[n].status /\ row'[n].maintenance = row[n].maintenance
        /\ \A m \in Nodes \ {n} : row'[m] = row[m]
    BY <1>0, <2>1 DEF Row
  <2> QED
    BY <1>2, <1>5, <2>2 DEF AnswerDrowse, Idle, historyVars
<1> QED
  BY <1>3, <1>4, <1>5, <1>6 DEF Valve

LEMMA NextMeant == Typed /\ Meant /\ [Next]_vars => Meant'
<1> SUFFICES ASSUME Typed, Meant, [Next]_vars PROVE Meant'
  OBVIOUS
<1>0. ASSUME UNCHANGED <<row, asked, serving, withheld, evacuated, raced>> PROVE Meant'
  BY <1>0 DEF Meant
<1>1. CASE UNCHANGED vars
  BY <1>0, <1>1 DEF vars, registerVars, historyVars
<1>2. ASSUME NEW n \in Nodes, Administrator(n) \/ Valve(n) PROVE Meant'
  BY <1>2, MeantAdministrator, MeantValve
<1>3. ASSUME NEW n \in Nodes, List(n) PROVE Meant'
  BY <1>3, MeantStatus DEF List, historyVars
<1>4. ASSUME NEW n \in Nodes, Piston(n) PROVE Meant'
  <2>1. CASE Join(n)
    BY <2>1, MeantStatus DEF Join, historyVars
  <2>2. CASE ~Join(n)
    BY <1>0, <1>4, <2>2
    DEF Piston, Look, DoStart, DoNothing, DoCommand, Nap, Terminate, GoDown, Reloaded, Boot,
        registerVars, historyVars
  <2> QED
    BY <2>1, <2>2
<1>5. ASSUME NEW n \in Nodes, NEW s \in Servers, Start(s, n) PROVE Meant'
  <2>1. row \in [Nodes -> Row]
    BY DEF Typed, TypeOK, Row
  <2>2. row' = [row EXCEPT ![n].vms = @ + 1,
                           ![n].status = IF @ = "asleep" THEN "waking" ELSE @]
    BY <1>5 DEF Start, Place
  <2>3. /\ row'[n].status = "maintenance" => row[n].status = "maintenance"
        /\ row'[n].maintenance = row[n].maintenance
        /\ \A m \in Nodes \ {n} : row'[m] = row[m]
    BY <2>1, <2>2 DEF Row
  <2> QED
    BY <1>5, <2>3 DEF Start, Meant
<1>6. ASSUME NEW n \in Nodes, NEW s \in Servers, Create(n, s) \/ GuestOff(n, s) PROVE Meant'
  BY <1>0, <1>6 DEF Create, GuestOff, registerVars, historyVars
<1>7. ASSUME NEW n \in Nodes, SwitchOn(n) \/ PowerLoss(n) PROVE Meant'
  BY <1>0, <1>7 DEF SwitchOn, PowerLoss, registerVars, historyVars
<1> QED
  BY <1>1, <1>2, <1>3, <1>4, <1>5, <1>6, <1>7 DEF Next

\* A node is in maintenance because it was put there; only a report that was being served, or
\* a request that had read it, can bring that back after it was carried on or deleted.
THEOREM MaintenanceAlwaysMeant == Spec => []MaintenanceMeant
<1>1. Init => Meant
  <2>1. Idle.status # "maintenance" /\ "maintenance" \in Statuses
    BY StatusFacts DEF Idle
  <2> SUFFICES ASSUME Init, NEW n \in Nodes,
                      \/ row[n].status = "maintenance" \/ row[n].maintenance
                      \/ serving[n].status = "maintenance" \/ asked[n]["maintenance"] > 0
               PROVE  n \in withheld
    BY DEF Meant
  <2>2. row[n] = [status |-> IF n \in withheld THEN "maintenance" ELSE "running",
                  maintenance |-> n \in withheld, vms |-> 0]
    BY DEF Init
  <2>3. serving[n] = Idle /\ asked[n]["maintenance"] = 0
    BY <2>1 DEF Init
  <2>4. ~(asked[n]["maintenance"] > 0)
    BY <2>3
  <2>5. row[n].status = "maintenance" \/ row[n].maintenance
    <3>1. serving[n].status # "maintenance"
      BY <2>1, <2>3
    <3> QED
      BY <2>4, <3>1, Zenon
  <2>6. row[n].status # "maintenance" \/ n \in withheld
    BY <2>2
  <2>7. CASE n \notin withheld
    <3>1. (n \in withheld) = FALSE
      BY <2>7
    <3>2. row[n] = [status |-> "running", maintenance |-> FALSE, vms |-> 0]
      BY <2>2, <3>1, Zenon
    <3>3. row[n].maintenance = FALSE
      BY <3>2
    <3> QED
      BY <2>5, <2>6, <2>7, <3>3, Zenon
  <2> QED
    BY <2>7
<1>2. Meant => MaintenanceMeant
  BY DEF Meant, MaintenanceMeant
<1> QED
  BY <1>1, <1>2, InitTyped, NextTyped, NextMeant, PTL DEF Spec

-----------------------------------------------------------------------------
(* Capacity *)

\* The row of a node counts the servers on it, but for those a report did not have.
Counted ==
    \A n \in Nodes :
        /\ Cardinality(On(n) \ uncounted) <= Cap
        /\ Cardinality(On(n) \ uncounted) <= row[n].vms

LEMMA OnFinite ==
    ASSUME Typed, NEW S, S \subseteq Servers
    PROVE  /\ IsFiniteSet(S) /\ Cardinality(S) \in Nat
           /\ \A T \in SUBSET S : Cardinality(T) <= Cardinality(S) /\ Cardinality(T) \in Nat
<1>1. IsFiniteSet(Servers)
  BY NodeLifecycleAssumption
<1>2. \A T \in SUBSET Servers : IsFiniteSet(T)
  BY <1>1, FS_Subset
<1>3. \A T \in SUBSET S : IsFiniteSet(T) /\ Cardinality(T) \in Nat
  BY <1>2, FS_CardinalityType
<1>4. IsFiniteSet(S) /\ Cardinality(S) \in Nat
  BY <1>3
<1> QED
  BY <1>3, <1>4, FS_Subset

\* A step that places no server and does not touch the count.
LEMMA CountedFrame ==
    ASSUME Typed, Counted,
           \A n \in Nodes : On(n)' \ uncounted' \subseteq On(n) \ uncounted,
           \A n \in Nodes : row'[n].vms = row[n].vms
    PROVE  Counted'
<1> SUFFICES ASSUME NEW n \in Nodes
             PROVE  /\ Cardinality(On(n)' \ uncounted') <= Cap
                    /\ Cardinality(On(n)' \ uncounted') <= row'[n].vms
  BY DEF Counted
<1>1. On(n) \ uncounted \subseteq Servers
  BY DEF On
<1>2. /\ Cardinality(On(n)' \ uncounted') <= Cardinality(On(n) \ uncounted)
      /\ Cardinality(On(n)' \ uncounted') \in Nat /\ Cardinality(On(n) \ uncounted) \in Nat
  BY <1>1, OnFinite
<1>3. row[n].vms \in Nat /\ Cap \in Nat
  BY NodeLifecycleAssumption DEF Typed, TypeOK
<1> QED
  BY <1>2, <1>3 DEF Counted

\* A server that ends is on its node no more.
LEMMA OnEnded ==
    ASSUME placed' = placed, ended \subseteq ended', uncounted \subseteq uncounted'
    PROVE  \A n \in Nodes : On(n)' \ uncounted' \subseteq On(n) \ uncounted
BY DEF On

LEMMA StatusVms ==
    ASSUME Typed, NEW n \in Nodes, NEW st, Status(n, st)
    PROVE  \A m \in Nodes : row'[m].vms = row[m].vms
<1>1. row \in [Nodes -> Row]
  BY DEF Typed, TypeOK, Row
<1> QED
  BY <1>1 DEF Status, Row

LEMMA CountedAdministrator ==
    ASSUME Typed, Counted, NEW n \in Nodes, Administrator(n)
    PROVE  Counted'
<1>0. row \in [Nodes -> Row]
  BY DEF Typed, TypeOK, Row
<1>1. placed' = placed /\ ended \subseteq ended' /\ uncounted \subseteq uncounted'
  BY DEF Administrator, GetObj, PutBack, Request, Maintenance, Carryon, Evacuate, BrutalSleep,
         Reset, Wake, Delete, Command, PowerOff, hyperVars, historyVars
<1>2. CASE \A m \in Nodes : row'[m].vms = row[m].vms
  BY <1>1, <1>2, OnEnded, CountedFrame
<1>3. CASE Maintenance(n) \/ Carryon(n)
  <2>1. \A m \in Nodes : row'[m].vms = row[m].vms
    BY <1>0, <1>3 DEF Maintenance, Carryon, Row
  <2> QED
    BY <1>2, <2>1
<1>4. ASSUME NEW st, Delete(n, st) PROVE Counted'
  <2>1. /\ row' = [row EXCEPT ![n] = [status |-> "deleted", maintenance |-> FALSE, vms |-> 0]]
        /\ uncounted' = uncounted \cup On(n) /\ ended' = ended
    BY <1>4 DEF Delete, hyperVars
  <2>2. On(n)' \ uncounted' = {}
    BY <1>1, <2>1 DEF On
  <2>3. \A m \in Nodes \ {n} : row'[m] = row[m]
    BY <1>0, <2>1
  <2>4. row'[n].vms = 0
    BY <1>0, <2>1
  <2> SUFFICES ASSUME NEW m \in Nodes
               PROVE  /\ Cardinality(On(m)' \ uncounted') <= Cap
                      /\ Cardinality(On(m)' \ uncounted') <= row'[m].vms
    BY DEF Counted
  <2>5. CASE m = n
    BY <2>2, <2>4, <2>5, FS_EmptySet, NodeLifecycleAssumption
  <2>6. CASE m # n
    <3>1. On(m)' \ uncounted' \subseteq On(m) \ uncounted /\ On(m) \ uncounted \subseteq Servers
      BY <1>1, <2>1 DEF On
    <3>2. /\ Cardinality(On(m)' \ uncounted') <= Cardinality(On(m) \ uncounted)
          /\ Cardinality(On(m)' \ uncounted') \in Nat /\ Cardinality(On(m) \ uncounted) \in Nat
      BY <3>1, OnFinite
    <3>3. row[m].vms \in Nat /\ Cap \in Nat
      BY NodeLifecycleAssumption DEF Typed, TypeOK
    <3> QED
      BY <2>3, <2>6, <3>2, <3>3 DEF Counted
  <2> QED
    BY <2>5, <2>6
<1>5. ASSUME NEW st, \/ Evacuate(n) \/ BrutalSleep(n, st) \/ Reset(n, st) \/ Wake(n, st)
                     \/ \E c \in Commands : Command(n, c, st)
      PROVE  Counted'
  <2>1. \E to : Status(n, to)
    BY <1>5 DEF Evacuate, BrutalSleep, Reset, Wake, Command
  <2> QED
    BY <1>2, <2>1, StatusVms
<1>6. CASE GetObj(n)
  BY <1>2, <1>6 DEF GetObj
<1>7. ASSUME NEW st, PutBack(n, st) PROVE Counted'
  <2>1. Status(n, st)
    BY <1>7 DEF PutBack
  <2> QED
    BY <1>2, <2>1, StatusVms
<1> QED
  BY <1>3, <1>4, <1>5, <1>6, <1>7 DEF Administrator

LEMMA CountedAnswer ==
    ASSUME Typed, Counted, NEW n \in Nodes, AnswerPost(n)
    PROVE  Counted'
<1>1. /\ row' = [row EXCEPT ![n].vms = Cardinality(look[n])]
      /\ uncounted' = uncounted \cup (On(n) \ look[n])
      /\ placed' = placed /\ ended' = ended
  BY DEF AnswerPost, hyperVars
<1>2. row \in [Nodes -> Row] /\ look[n] \subseteq Servers
  BY DEF Typed, TypeOK, Row
<1>3. row'[n].vms = Cardinality(look[n]) /\ \A m \in Nodes \ {n} : row'[m] = row[m]
  BY <1>1, <1>2 DEF Row
<1> SUFFICES ASSUME NEW m \in Nodes
             PROVE  /\ Cardinality(On(m)' \ uncounted') <= Cap
                    /\ Cardinality(On(m)' \ uncounted') <= row'[m].vms
  BY DEF Counted
<1>4. On(m)' \ uncounted' \subseteq On(m) \ uncounted /\ On(m) \ uncounted \subseteq Servers
  BY <1>1 DEF On
<1>5. /\ Cardinality(On(m)' \ uncounted') <= Cardinality(On(m) \ uncounted)
      /\ Cardinality(On(m)' \ uncounted') \in Nat /\ Cardinality(On(m) \ uncounted) \in Nat
  BY <1>4, OnFinite
<1>6. row[m].vms \in Nat /\ Cap \in Nat
  BY NodeLifecycleAssumption DEF Typed, TypeOK
<1>7. CASE m = n
  <2>1. On(n)' \ uncounted' \subseteq look[n]
    BY <1>1 DEF On
  <2>2. Cardinality(On(n)' \ uncounted') <= Cardinality(look[n])
    BY <1>2, <2>1, OnFinite
  <2> QED
    BY <1>3, <1>5, <1>6, <1>7, <2>2 DEF Counted
<1>8. CASE m # n
  BY <1>3, <1>5, <1>6, <1>8 DEF Counted
<1> QED
  BY <1>7, <1>8

LEMMA CountedStart ==
    ASSUME Typed, Counted, NEW n \in Nodes, NEW s \in Servers, Start(s, n)
    PROVE  Counted'
<1>1. /\ row' = [row EXCEPT ![n].vms = @ + 1,
                            ![n].status = IF @ = "asleep" THEN "waking" ELSE @]
      /\ placed' = [placed EXCEPT ![s] = n] /\ placed[s] = Nobody
      /\ row[n].vms + 1 <= Cap
      /\ uncounted' = uncounted /\ ended' = ended
  BY DEF Start, Place, Fits, hyperVars
<1>2. row \in [Nodes -> Row] /\ placed \in [Servers -> Nodes \cup {Nobody}] /\ Nobody \notin Nodes
  BY NodeLifecycleAssumption DEF Typed, TypeOK, Row
<1>3. row'[n].vms = row[n].vms + 1 /\ \A m \in Nodes \ {n} : row'[m] = row[m]
  BY <1>1, <1>2 DEF Row
<1> SUFFICES ASSUME NEW m \in Nodes
             PROVE  /\ Cardinality(On(m)' \ uncounted') <= Cap
                    /\ Cardinality(On(m)' \ uncounted') <= row'[m].vms
  BY DEF Counted
<1>4. row[m].vms \in Nat /\ Cap \in Nat
  BY <1>2, NodeLifecycleAssumption DEF Row
<1>5. On(m) \ uncounted \subseteq Servers
  BY DEF On
<1>6. CASE m = n
  <2> DEFINE S == On(n) \ uncounted
  <2>1. On(n)' \ uncounted' \subseteq S \cup {s} /\ S \cup {s} \subseteq Servers
    BY <1>1, <1>2 DEF On
  <2>2. Cardinality(On(n)' \ uncounted') <= Cardinality(S \cup {s})
        /\ Cardinality(On(n)' \ uncounted') \in Nat /\ Cardinality(S \cup {s}) \in Nat
    BY <2>1, OnFinite
  <2>3. IsFiniteSet(S) /\ Cardinality(S) \in Nat
    BY <1>5, <1>6, OnFinite
  <2>4. Cardinality(S \cup {s}) <= Cardinality(S) + 1
    <3>1. ASSUME NEW T, IsFiniteSet(T), Cardinality(T) \in Nat
          PROVE  Cardinality(T \cup {s}) <= Cardinality(T) + 1
      <4>1. Cardinality(T \cup {s}) =
                IF s \in T THEN Cardinality(T) ELSE Cardinality(T) + 1
        BY <3>1, FS_AddElement
      <4> QED
        BY <3>1, <4>1
    <3> QED
      BY <2>3, <3>1
  <2>5. Cardinality(S) <= row[n].vms
    BY DEF Counted
  <2> QED
    BY <1>1, <1>3, <1>4, <1>6, <2>2, <2>3, <2>4, <2>5
<1>7. CASE m # n
  <2>1. On(m)' = On(m)
    BY <1>1, <1>2, <1>7 DEF On
  <2> QED
    BY <1>1, <1>3, <1>7, <2>1 DEF Counted
<1> QED
  BY <1>6, <1>7

LEMMA NextCounted == Typed /\ Counted /\ [Next]_vars => Counted'
<1> SUFFICES ASSUME Typed, Counted, [Next]_vars PROVE Counted'
  OBVIOUS
<1>0. ASSUME placed' = placed, ended \subseteq ended', uncounted \subseteq uncounted',
             row' = row \/ \E n \in Nodes : \E st : Status(n, st)
      PROVE  Counted'
  <2>1. \A m \in Nodes : row'[m].vms = row[m].vms
    BY <1>0, StatusVms
  <2> QED
    BY <1>0, <2>1, OnEnded, CountedFrame
<1>1. CASE UNCHANGED vars
  BY <1>0, <1>1 DEF vars, registerVars, hyperVars, historyVars
<1>2. ASSUME NEW n \in Nodes, Administrator(n) PROVE Counted'
  BY <1>2, CountedAdministrator
<1>3. ASSUME NEW n \in Nodes, List(n) PROVE Counted'
  <2>1. Status(n, "inactive")
    BY <1>3 DEF List
  <2> QED
    BY <1>0, <1>3, <2>1 DEF List, hyperVars, historyVars
<1>4. ASSUME NEW n \in Nodes, Valve(n) PROVE Counted'
  <2>1. CASE AnswerPost(n)
    BY <2>1, CountedAnswer
  <2>2. CASE ServePost(n) \/ ServeDrowse(n)
    BY <1>0, <2>2 DEF ServePost, ServeDrowse, hyperVars, historyVars
  <2>3. CASE WritePost(n) \/ AnswerDrowse(n)
    <3>1. Status(n, serving[n].status)
      BY <2>3 DEF WritePost, AnswerDrowse
    <3> QED
      BY <1>0, <2>3, <3>1 DEF WritePost, AnswerDrowse, hyperVars, historyVars
  <2> QED
    BY <1>4, <2>1, <2>2, <2>3 DEF Valve
<1>5. ASSUME NEW n \in Nodes, Piston(n) PROVE Counted'
  <2>1. CASE Join(n)
    <3>1. Status(n, "joining")
      BY <2>1 DEF Join
    <3> QED
      BY <1>0, <2>1, <3>1 DEF Join, hyperVars, historyVars
  <2>2. CASE ~Join(n)
    BY <1>0, <1>5, <2>2
    DEF Piston, Look, DoStart, DoNothing, DoCommand, Nap, Terminate, GoDown, Reloaded, Boot,
        PowerOff, registerVars, hyperVars, historyVars
  <2> QED
    BY <2>1, <2>2
<1>6. ASSUME NEW n \in Nodes, NEW s \in Servers, Start(s, n) PROVE Counted'
  BY <1>6, CountedStart
<1>7. ASSUME NEW n \in Nodes, NEW s \in Servers, Create(n, s) \/ GuestOff(n, s) PROVE Counted'
  BY <1>0, <1>7 DEF Create, GuestOff, registerVars, historyVars
<1>8. ASSUME NEW n \in Nodes, SwitchOn(n) \/ PowerLoss(n) PROVE Counted'
  BY <1>0, <1>8 DEF SwitchOn, PowerLoss, PowerOff, registerVars, hyperVars, historyVars
<1> QED
  BY <1>1, <1>2, <1>3, <1>4, <1>5, <1>6, <1>7, <1>8 DEF Next

\* No more servers are placed on a node than it has processors for, but for those a report
\* did not have when it replaced the count.
THEOREM NeverOvercommitted == Spec => []NotOvercommitted
<1>1. Init => Counted
  <2> SUFFICES ASSUME Init, NEW n \in Nodes
               PROVE  /\ Cardinality(On(n) \ uncounted) <= Cap
                      /\ Cardinality(On(n) \ uncounted) <= row[n].vms
    BY DEF Counted
  <2>1. On(n) \ uncounted = {}
    BY NodeLifecycleAssumption DEF Init, On
  <2>2. row[n].vms = 0
    BY DEF Init
  <2> QED
    BY <2>1, <2>2, FS_EmptySet, NodeLifecycleAssumption
<1>2. Counted => NotOvercommitted
  BY DEF Counted, NotOvercommitted
<1> QED
  BY <1>1, <1>2, InitTyped, NextTyped, NextCounted, PTL DEF Spec

-----------------------------------------------------------------------------
(* Where servers are *)

Starts(q) == Range(q) \cap Servers

\* Servers whose start has not been begun.
Waits(n) == Starts(tasks[n]) \cup Starts(serving[n].tasks) \cup Starts(batch[n])

\* A server is at one place of the node it was placed on: its start in the column, in the
\* reply or with movepiston, or virsh creating it, or the hypervisor.
PlacesAt(n) ==
    /\ Once(tasks[n], Servers) /\ Once(serving[n].tasks, Servers) /\ Once(batch[n], Servers)
    /\ Starts(tasks[n]) \cap Starts(serving[n].tasks) = {}
    /\ Starts(tasks[n]) \cap Starts(batch[n]) = {}
    /\ Starts(serving[n].tasks) \cap Starts(batch[n]) = {}
    /\ Waits(n) \cap jobs[n] = {}
    /\ \A s \in Waits(n) \cup jobs[n] : placed[s] = n /\ s \notin ran /\ s \notin ended
    /\ \A s \in dom[n] : placed[s] = n /\ s \in ran /\ s \notin ended
    /\ \A s \in look[n] : placed[s] = n /\ s \in ran

\* A server that was created and has not ended is there.
Kept ==
    /\ \A s \in ran \cup ended : placed[s] # Nobody
    /\ \A s \in ran \ ended : s \in dom[placed[s]]
    /\ reported \subseteq ran

Places == Kept /\ \A n \in Nodes : PlacesAt(n)

\* What a step does not touch stays where it is.
LEMMA PlacesElse ==
    ASSUME NEW m \in Nodes, PlacesAt(m),
           tasks'[m] = tasks[m], serving'[m].tasks = serving[m].tasks, batch'[m] = batch[m],
           jobs'[m] = jobs[m], dom'[m] = dom[m], look'[m] = look[m],
           \A s \in Servers : placed[s] = m => /\ placed'[s] = m
                                               /\ s \in ran' <=> s \in ran
                                               /\ s \in ended' <=> s \in ended,
           jobs[m] \subseteq Servers, dom[m] \subseteq Servers, look[m] \subseteq Servers
    PROVE  PlacesAt(m)'
<1>1. Waits(m)' = Waits(m) /\ Waits(m) \subseteq Servers
  BY DEF Waits, Starts
<1> QED
  BY <1>1 DEF PlacesAt, Starts

LEMMA SeqTypes ==
    ASSUME Typed, NEW n \in Nodes
    PROVE  /\ tasks \in [Nodes -> Seq(Tasks)] /\ tasks[n] \in Seq(Tasks)
           /\ serving \in [Nodes -> Reply] /\ serving[n].tasks \in Seq(Tasks)
           /\ batch \in [Nodes -> Seq(Tasks \cup {"ignored"})]
           /\ batch[n] \in Seq(Tasks \cup {"ignored"})
           /\ jobs \in [Nodes -> SUBSET Servers] /\ dom \in [Nodes -> SUBSET Servers]
           /\ look \in [Nodes -> SUBSET Servers] /\ placed \in [Servers -> Nodes \cup {Nobody}]
           /\ ran \subseteq Servers /\ ended \subseteq Servers
BY DEF Typed, TypeOK, Reply, Tasks

LEMMA EmptyStarts == Starts(<<>>) = {} /\ Range(<<>>) = {} /\ \A C : Once(<<>>, C)
BY DEF Starts, Range, Once

\* What is sent has no start that was not in the column, and none twice.
LEMMA SentStarts ==
    ASSUME NEW ts \in Seq(Tasks)
    PROVE  /\ Starts(Sent(ts)) \subseteq Starts(ts)
           /\ Range(Sent(ts)) \cap Commands \subseteq Range(ts)
           /\ Once(ts, Servers) => Once(Sent(ts), Servers)
<1>1. Servers \cap Commands = {} /\ "ignored" \notin Servers /\ "ignored" \notin Commands
  BY NodeLifecycleAssumption, CommandFacts
<1>2. DOMAIN Sent(ts) = DOMAIN ts /\ DOMAIN ts = 1 .. Len(ts) /\ Len(ts) \in Nat
  BY DEF Sent
<1>3. \A i \in DOMAIN ts :
          /\ Sent(ts)[i] \in Servers => Sent(ts)[i] = ts[i]
          /\ Sent(ts)[i] \in Commands => Sent(ts)[i] = ts[1]
  BY <1>1, <1>2 DEF Sent
<1>4. \A i \in DOMAIN ts : 1 \in DOMAIN ts
  BY <1>2
<1>5. Starts(Sent(ts)) \subseteq Starts(ts)
  BY <1>2, <1>3 DEF Starts, Range
<1>6. Range(Sent(ts)) \cap Commands \subseteq Range(ts)
  BY <1>2, <1>3, <1>4 DEF Range
<1>7. Once(ts, Servers) => Once(Sent(ts), Servers)
  BY <1>2, <1>3 DEF Once
<1> QED
  BY <1>5, <1>6, <1>7

\* Domains and commands of one node end with it.
LEMMA PowerOffPlaces ==
    ASSUME Typed, Places, NEW n \in Nodes, NEW p, PowerOff(n, p),
           UNCHANGED <<tasks, serving, placed, reported>>
    PROVE  Places'
<1>1. /\ jobs' = [jobs EXCEPT ![n] = {}] /\ dom' = [dom EXCEPT ![n] = {}]
      /\ batch' = [batch EXCEPT ![n] = <<>>]
      /\ ended' = ended \cup dom[n] \cup jobs[n]
      /\ look' = look /\ ran' = ran
  BY DEF PowerOff
<1>2. \A m \in Nodes \ {n} : PlacesAt(m)'
  <2> SUFFICES ASSUME NEW m \in Nodes \ {n} PROVE PlacesAt(m)'
    OBVIOUS
  <2>1. \A s \in Servers : placed[s] = m => s \notin dom[n] \cup jobs[n]
    BY DEF Places, PlacesAt
  <2> QED
    BY <1>1, <2>1, SeqTypes, PlacesElse DEF Places
<1>3. PlacesAt(n)'
  <2>1. jobs'[n] = {} /\ dom'[n] = {} /\ batch'[n] = <<>>
    BY <1>1, SeqTypes
  <2>2. Waits(n)' = Starts(tasks[n]) \cup Starts(serving[n].tasks)
    BY <2>1, EmptyStarts DEF Waits, Starts
  <2>3. \A s \in Waits(n)' : s \in Waits(n) /\ s \notin dom[n] \cup jobs[n]
    BY <2>2 DEF Places, PlacesAt, Waits
  <2> QED
    BY <1>1, <2>1, <2>2, <2>3, EmptyStarts DEF Places, PlacesAt, Starts
<1>4. Kept'
  <2>1. \A s \in ran' \cup ended' : placed'[s] # Nobody
    BY <1>1, NodeLifecycleAssumption DEF Places, Kept, PlacesAt
  <2>2. ASSUME NEW s \in ran' \ ended' PROVE s \in dom'[placed'[s]]
    <3>1. s \in dom[placed[s]] /\ s \notin dom[n] /\ s \in Servers
      BY <1>1, <2>2, SeqTypes DEF Places, Kept
    <3>2. placed[s] \in Nodes
      BY <1>1, <2>1, <2>2, <3>1, SeqTypes
    <3>3. dom'[placed[s]] = dom[placed[s]]
      BY <1>1, <3>1, <3>2, SeqTypes
    <3> QED
      BY <3>1, <3>3
  <2> QED
    BY <1>1, <2>1, <2>2 DEF Places, Kept
<1> QED
  BY <1>2, <1>3, <1>4 DEF Places

LEMMA PlacesSame ==
    ASSUME Typed, Places,
           UNCHANGED <<tasks, serving, batch, jobs, dom, look, placed, ran, ended, reported>>
    PROVE  Places'
<1>1. \A n \in Nodes : PlacesAt(n)'
  BY PlacesElse, SeqTypes DEF Places
<1>2. Kept'
  BY DEF Places, Kept
<1> QED
  BY <1>1, <1>2 DEF Places

\* Starts go from one place of a node to another, or are dropped.
LEMMA PlacesMove ==
    ASSUME Typed, Places, NEW n \in Nodes,
           UNCHANGED <<dom, look, placed, ran, ended>>,
           reported' \subseteq reported \cup look[n],
           \A m \in Nodes \ {n} : /\ tasks'[m] = tasks[m] /\ serving'[m] = serving[m]
                                  /\ batch'[m] = batch[m] /\ jobs'[m] = jobs[m],
           Once(tasks'[n], Servers), Once(serving'[n].tasks, Servers), Once(batch'[n], Servers),
           Starts(tasks'[n]) \cap Starts(serving'[n].tasks) = {},
           Starts(tasks'[n]) \cap Starts(batch'[n]) = {},
           Starts(serving'[n].tasks) \cap Starts(batch'[n]) = {},
           Waits(n)' \cap jobs'[n] = {},
           Waits(n)' \cup jobs'[n] \subseteq Waits(n) \cup jobs[n]
    PROVE  Places'
<1>1. \A m \in Nodes \ {n} : PlacesAt(m)'
  BY PlacesElse, SeqTypes DEF Places
<1>2. PlacesAt(n)'
  <2>1. \A s \in Waits(n)' \cup jobs'[n] : placed[s] = n /\ s \notin ran /\ s \notin ended
    BY DEF Places, PlacesAt
  <2> QED
    BY <2>1 DEF Places, PlacesAt
<1>3. Kept'
  BY DEF Places, Kept, PlacesAt
<1> QED
  BY <1>1, <1>2, <1>3 DEF Places

\* Only the column of tasks changes, and no start is added to it.
LEMMA PlacesColumn ==
    ASSUME Typed, Places, NEW n \in Nodes, NEW q, tasks' = [tasks EXCEPT ![n] = q],
           Once(q, Servers), Starts(q) \subseteq Starts(tasks[n]),
           UNCHANGED <<serving, batch, jobs, dom, look, placed, ran, ended, reported>>
    PROVE  Places'
<1>1. tasks'[n] = q /\ \A m \in Nodes \ {n} : tasks'[m] = tasks[m]
  BY SeqTypes
<1>2. Waits(n)' \subseteq Waits(n)
  BY <1>1 DEF Waits, Starts
<1>3. /\ Starts(q) \cap Starts(serving[n].tasks) = {}
      /\ Starts(q) \cap Starts(batch[n]) = {}
      /\ Waits(n)' \cap jobs[n] = {}
  BY <1>2 DEF Places, PlacesAt
<1>4. /\ Once(serving[n].tasks, Servers) /\ Once(batch[n], Servers)
      /\ Starts(serving[n].tasks) \cap Starts(batch[n]) = {}
  BY DEF Places, PlacesAt
<1> QED
  BY <1>1, <1>2, <1>3, <1>4, PlacesMove

LEMMA PlacesAdministrator ==
    ASSUME Typed, Places, NEW n \in Nodes, Administrator(n)
    PROVE  Places'
<1>1. ASSUME NEW st, \/ Maintenance(n) \/ Carryon(n) \/ Evacuate(n) \/ Wake(n, st)
                     \/ GetObj(n) \/ PutBack(n, st)
      PROVE  Places'
  BY <1>1, PlacesSame
  DEF Maintenance, Carryon, Evacuate, Wake, GetObj, PutBack, Request, pistonVars, hyperVars,
      historyVars
<1>2. ASSUME NEW st, BrutalSleep(n, st) \/ Reset(n, st) PROVE Places'
  <2>1. PICK p : PowerOff(n, p)
    BY <1>2 DEF BrutalSleep, Reset
  <2> QED
    BY <1>2, <2>1, PowerOffPlaces DEF BrutalSleep, Reset, Request
<1>3. ASSUME NEW st, Delete(n, st) PROVE Places'
  BY <1>3, EmptyStarts, PlacesColumn DEF Delete, Request, pistonVars, hyperVars
<1>4. ASSUME NEW st, NEW c \in Commands, Command(n, c, st) PROVE Places'
  <2> DEFINE q == Append(tasks[n], c)
  <2>1. tasks' = [tasks EXCEPT ![n] = q]
    BY <1>4 DEF Command, Queue
  <2>2. tasks[n] \in Seq(Tasks) /\ c \in Tasks /\ c \notin Servers
    BY SeqTypes, NodeLifecycleAssumption DEF Tasks
  <2>3. Once(q, Servers)
    BY <2>2, OnceAppend DEF Places, PlacesAt
  <2>4. Starts(q) \subseteq Starts(tasks[n])
    BY <2>2, RangeAppend DEF Starts
  <2> QED
    BY <1>4, <2>1, <2>3, <2>4, PlacesColumn DEF Command, Request, pistonVars, hyperVars
<1> QED
  BY <1>1, <1>2, <1>3, <1>4 DEF Administrator

LEMMA PlacesValve ==
    ASSUME Typed, Places, NEW n \in Nodes, Valve(n)
    PROVE  Places'
<1>0. /\ Once(tasks[n], Servers) /\ Once(serving[n].tasks, Servers) /\ Once(batch[n], Servers)
      /\ Starts(tasks[n]) \cap Starts(serving[n].tasks) = {}
      /\ Starts(tasks[n]) \cap Starts(batch[n]) = {}
      /\ Starts(serving[n].tasks) \cap Starts(batch[n]) = {}
      /\ Waits(n) \cap jobs[n] = {}
  BY DEF Places, PlacesAt
<1>1. CASE ServePost(n)
  <2>1. /\ tasks'[n] = <<>> /\ serving'[n].tasks = tasks[n]
        /\ \A m \in Nodes \ {n} : tasks'[m] = tasks[m] /\ serving'[m] = serving[m]
        /\ batch' = batch /\ jobs' = jobs /\ reported' = reported
        /\ UNCHANGED <<dom, look, placed, ran, ended>>
    BY <1>1, SeqTypes DEF ServePost, pistonVars, hyperVars, historyVars
  <2>2. Waits(n)' = Starts(tasks[n]) \cup Starts(batch[n])
    BY <2>1, EmptyStarts DEF Waits, Starts
  <2>3. Waits(n)' \subseteq Waits(n)
    BY <2>2 DEF Waits
  <2> QED
    BY <1>0, <2>1, <2>3, EmptyStarts, PlacesMove
<1>2. CASE ServeDrowse(n) \/ AnswerDrowse(n)
  <2>1. /\ serving'[n].tasks = <<>>
        /\ \A m \in Nodes \ {n} : serving'[m] = serving[m]
        /\ UNCHANGED <<tasks, batch, jobs, dom, look, placed, ran, ended, reported>>
    BY <1>2, SeqTypes
    DEF ServeDrowse, AnswerDrowse, Idle, pistonVars, hyperVars, historyVars
  <2>2. Waits(n)' \subseteq Waits(n)
    BY <2>1, EmptyStarts DEF Waits, Starts
  <2> QED
    BY <1>0, <2>1, <2>2, EmptyStarts, PlacesMove
<1>3. CASE AnswerPost(n)
  <2>1. /\ serving'[n].tasks = <<>>
        /\ \A m \in Nodes \ {n} : serving'[m] = serving[m] /\ batch'[m] = batch[m]
        /\ batch'[n] = Sent(serving[n].tasks) \/ batch'[n] = batch[n]
        /\ reported' = reported \cup look[n]
        /\ UNCHANGED <<tasks, jobs, dom, look, placed, ran, ended>>
    BY <1>3, SeqTypes DEF AnswerPost, Idle, hyperVars
  <2>2. /\ Starts(batch'[n]) \subseteq Starts(serving[n].tasks) \cup Starts(batch[n])
        /\ Starts(tasks[n]) \cap Starts(batch'[n]) = {}
        /\ Once(batch'[n], Servers)
    BY <1>0, <2>1, SentStarts, SeqTypes
  <2>3. Waits(n)' \subseteq Waits(n)
    BY <2>1, <2>2, EmptyStarts DEF Waits, Starts
  <2> QED
    BY <1>0, <2>1, <2>2, <2>3, EmptyStarts, PlacesMove
<1>4. CASE WritePost(n)
  <2>1. /\ serving'[n].tasks = serving[n].tasks
        /\ \A m \in Nodes \ {n} : serving'[m] = serving[m]
        /\ UNCHANGED <<tasks, batch, jobs, dom, look, placed, ran, ended, reported>>
    BY <1>4, SeqTypes DEF WritePost, Reply, pistonVars, hyperVars, historyVars
  <2>2. Waits(n)' = Waits(n)
    BY <2>1 DEF Waits
  <2> QED
    BY <1>0, <2>1, <2>2, PlacesMove
<1> QED
  BY <1>1, <1>2, <1>3, <1>4 DEF Valve

LEMMA PlacesPiston ==
    ASSUME Typed, Places, NEW n \in Nodes, Piston(n)
    PROVE  Places'
<1>0. /\ Once(tasks[n], Servers) /\ Once(serving[n].tasks, Servers) /\ Once(batch[n], Servers)
      /\ Starts(tasks[n]) \cap Starts(serving[n].tasks) = {}
      /\ Starts(tasks[n]) \cap Starts(batch[n]) = {}
      /\ Starts(serving[n].tasks) \cap Starts(batch[n]) = {}
      /\ Waits(n) \cap jobs[n] = {}
  BY DEF Places, PlacesAt
<1>1. CASE Look(n)
  <2>1. /\ look' = [look EXCEPT ![n] = dom[n]]
        /\ UNCHANGED <<tasks, serving, batch, jobs, dom, placed, ran, ended, reported>>
    BY <1>1 DEF Look, registerVars, hyperVars, historyVars
  <2>2. look'[n] = dom[n] /\ \A m \in Nodes \ {n} : look'[m] = look[m]
    BY <2>1, SeqTypes
  <2>3. \A m \in Nodes \ {n} : PlacesAt(m)'
    BY <2>1, <2>2, PlacesElse, SeqTypes DEF Places
  <2>4. Waits(n)' = Waits(n)
    BY <2>1 DEF Waits
  <2>5. PlacesAt(n)'
    BY <2>1, <2>2, <2>4 DEF Places, PlacesAt
  <2>6. Kept'
    BY <2>1 DEF Places, Kept
  <2> QED
    BY <2>3, <2>5, <2>6 DEF Places
<1>2. ASSUME batch[n] # <<>>, batch' = [batch EXCEPT ![n] = Tail(@)]
      PROVE  /\ batch'[n] = Tail(batch[n]) /\ \A m \in Nodes \ {n} : batch'[m] = batch[m]
             /\ Once(batch'[n], Servers)
             /\ Starts(batch'[n]) \subseteq Starts(batch[n])
             /\ Head(batch[n]) \in Servers => /\ Head(batch[n]) \in Starts(batch[n])
                                              /\ Head(batch[n]) \notin Starts(batch'[n])
  <2>1. batch'[n] = Tail(batch[n]) /\ \A m \in Nodes \ {n} : batch'[m] = batch[m]
    BY <1>2, SeqTypes
  <2>2. /\ Once(Tail(batch[n]), Servers)
        /\ Head(batch[n]) \in Servers => Head(batch[n]) \notin Range(Tail(batch[n]))
        /\ Range(batch[n]) = {Head(batch[n])} \cup Range(Tail(batch[n]))
    BY <1>0, <1>2, SeqTypes, OnceTail, RangeTail
  <2> QED
    BY <2>1, <2>2 DEF Starts
<1>3. CASE DoStart(n)
  <2> DEFINE s == Head(batch[n])
  <2>1. /\ batch[n] # <<>> /\ s \in Servers
        /\ batch' = [batch EXCEPT ![n] = Tail(@)]
        /\ jobs' = [jobs EXCEPT ![n] = @ \cup {s}]
        /\ UNCHANGED <<tasks, serving, dom, look, placed, ran, ended, reported>>
    BY <1>3 DEF DoStart, registerVars, historyVars
  <2>2. jobs'[n] = jobs[n] \cup {s} /\ \A m \in Nodes \ {n} : jobs'[m] = jobs[m]
    BY <2>1, SeqTypes
  <2>3. /\ s \in Starts(batch[n]) /\ s \notin Starts(batch'[n])
        /\ Starts(batch'[n]) \subseteq Starts(batch[n])
    BY <1>2, <2>1
  <2>4. s \notin Waits(n)' /\ Waits(n)' \subseteq Waits(n) /\ s \in Waits(n)
    BY <1>0, <2>1, <2>3 DEF Waits
  <2> HIDE DEF s
  <2>5. Waits(n)' \cap jobs'[n] = {} /\ Waits(n)' \cup jobs'[n] \subseteq Waits(n) \cup jobs[n]
    BY <1>0, <2>2, <2>4
  <2>6. /\ Starts(tasks[n]) \cap Starts(batch'[n]) = {}
        /\ Starts(serving[n].tasks) \cap Starts(batch'[n]) = {}
    BY <1>0, <2>3
  <2> QED
    BY <1>0, <1>2, <2>1, <2>2, <2>5, <2>6, PlacesMove
<1>4. CASE DoNothing(n) \/ DoCommand(n)
  <2>1. /\ batch[n] # <<>>
        /\ batch' = [batch EXCEPT ![n] = Tail(@)]
        /\ UNCHANGED <<tasks, serving, jobs, dom, look, placed, ran, ended, reported>>
    BY <1>4 DEF DoNothing, DoCommand, registerVars, hyperVars, historyVars
  <2>2. Waits(n)' \subseteq Waits(n)
    BY <1>2, <2>1 DEF Waits
  <2>3. /\ Starts(tasks[n]) \cap Starts(batch'[n]) = {}
        /\ Starts(serving[n].tasks) \cap Starts(batch'[n]) = {}
    BY <1>0, <1>2, <2>1
  <2> QED
    BY <1>0, <1>2, <2>1, <2>2, <2>3, PlacesMove
<1>5. CASE Nap(n) \/ Reloaded(n) \/ Boot(n) \/ Join(n)
  BY <1>5, PlacesSame DEF Nap, Reloaded, Boot, Join, registerVars, hyperVars, historyVars
<1>6. CASE Terminate(n)
  <2> DEFINE S == Range(Sent(tasks[n])) \cap Servers
  <2>1. /\ tasks'[n] = <<>> /\ batch'[n] = <<>> /\ jobs'[n] = jobs[n] \cup S
        /\ \A m \in Nodes \ {n} : tasks'[m] = tasks[m] /\ batch'[m] = batch[m] /\ jobs'[m] = jobs[m]
        /\ UNCHANGED <<serving, dom, look, placed, ran, ended, reported>>
    BY <1>6, SeqTypes DEF Terminate, historyVars
  <2>2. S \subseteq Starts(tasks[n])
    BY SentStarts, SeqTypes DEF Starts
  <2> HIDE DEF S
  <2>3. Waits(n)' = Starts(serving[n].tasks)
    BY <2>1, EmptyStarts DEF Waits
  <2>4. Waits(n)' \cap jobs'[n] = {} /\ Waits(n)' \cup jobs'[n] \subseteq Waits(n) \cup jobs[n]
    BY <1>0, <2>1, <2>2, <2>3 DEF Waits
  <2> QED
    BY <1>0, <2>1, <2>4, EmptyStarts, PlacesMove
<1>7. CASE GoDown(n)
  <2>1. PICK p : PowerOff(n, p)
    BY <1>7 DEF GoDown
  <2> QED
    BY <1>7, <2>1, PowerOffPlaces DEF GoDown, registerVars
<1> QED
  BY <1>1, <1>3, <1>4, <1>5, <1>6, <1>7 DEF Piston

LEMMA PlacesStart ==
    ASSUME Typed, Places, NEW n \in Nodes, NEW s \in Servers, Start(s, n)
    PROVE  Places'
<1>1. /\ placed[s] = Nobody /\ placed' = [placed EXCEPT ![s] = n]
      /\ tasks' = [tasks EXCEPT ![n] = Append(@, s)]
      /\ UNCHANGED <<serving, batch, jobs, dom, look, ran, ended, reported>>
  BY DEF Start, Queue, hyperVars
<1>2. /\ tasks'[n] = Append(tasks[n], s) /\ \A m \in Nodes \ {n} : tasks'[m] = tasks[m]
      /\ placed'[s] = n /\ \A r \in Servers \ {s} : placed'[r] = placed[r]
      /\ n # Nobody
  BY <1>1, SeqTypes, NodeLifecycleAssumption
<1>3. /\ s \notin ran /\ s \notin ended
      /\ \A m \in Nodes : s \notin Waits(m) \cup jobs[m] \cup dom[m] \cup look[m]
  BY <1>1, NodeLifecycleAssumption DEF Places, Kept, PlacesAt
<1>4. \A m \in Nodes \ {n} : PlacesAt(m)'
  <2> SUFFICES ASSUME NEW m \in Nodes \ {n} PROVE PlacesAt(m)'
    OBVIOUS
  <2>1. \A r \in Servers : placed[r] = m => placed'[r] = m
    BY <1>1, <1>2, NodeLifecycleAssumption
  <2> QED
    BY <1>1, <1>2, <2>1, PlacesElse, SeqTypes DEF Places
<1>5. PlacesAt(n)'
  <2>1. tasks[n] \in Seq(Tasks) /\ s \in Tasks
    BY SeqTypes DEF Tasks
  <2>2. Starts(tasks'[n]) = Starts(tasks[n]) \cup {s}
    BY <1>2, <2>1, RangeAppend DEF Starts
  <2>3. Once(tasks'[n], Servers)
    <3>1. s \notin Range(tasks[n])
      BY <1>3 DEF Waits, Starts
    <3> QED
      BY <1>2, <2>1, <3>1, OnceAppend DEF Places, PlacesAt
  <2>4. Waits(n)' = Waits(n) \cup {s}
    BY <1>1, <2>2 DEF Waits
  <2>5. \A r \in Waits(n) \cup jobs[n] \cup dom[n] \cup look[n] : r \in Servers \ {s}
    BY <1>3, SeqTypes DEF Waits, Starts
  <2>6. /\ Starts(tasks'[n]) \cap Starts(serving[n].tasks) = {}
        /\ Starts(tasks'[n]) \cap Starts(batch[n]) = {}
        /\ Waits(n)' \cap jobs[n] = {}
    BY <1>3, <2>2, <2>4 DEF Places, PlacesAt, Waits
  <2> QED
    BY <1>1, <1>2, <1>3, <2>3, <2>4, <2>5, <2>6 DEF Places, PlacesAt
<1>6. Kept'
  BY <1>1, <1>2, <1>3, SeqTypes DEF Places, Kept
<1> QED
  BY <1>4, <1>5, <1>6 DEF Places

LEMMA PlacesHypervisor ==
    ASSUME Typed, Places, NEW n \in Nodes, NEW s \in Servers, Create(n, s) \/ GuestOff(n, s)
    PROVE  Places'
<1>1. CASE Create(n, s)
  <2>1. /\ s \in jobs[n]
        /\ jobs' = [jobs EXCEPT ![n] = @ \ {s}] /\ dom' = [dom EXCEPT ![n] = @ \cup {s}]
        /\ ran' = ran \cup {s}
        /\ UNCHANGED <<tasks, serving, batch, look, placed, ended, reported>>
    BY <1>1 DEF Create, registerVars, pistonVars, historyVars
  <2>2. /\ jobs'[n] = jobs[n] \ {s} /\ dom'[n] = dom[n] \cup {s}
        /\ \A m \in Nodes \ {n} : jobs'[m] = jobs[m] /\ dom'[m] = dom[m]
    BY <2>1, SeqTypes
  <2>3. placed[s] = n /\ s \notin ended /\ s \notin Waits(n)
    BY <2>1 DEF Places, PlacesAt
  <2>4. \A m \in Nodes \ {n} : PlacesAt(m)'
    BY <2>1, <2>2, <2>3, PlacesElse, SeqTypes DEF Places
  <2>5. PlacesAt(n)'
    <3>1. Waits(n)' = Waits(n)
      BY <2>1 DEF Waits
    <3> QED
      BY <2>1, <2>2, <2>3, <3>1 DEF Places, PlacesAt
  <2>6. Kept'
    BY <2>1, <2>2, <2>3, SeqTypes, NodeLifecycleAssumption DEF Places, Kept
  <2> QED
    BY <2>4, <2>5, <2>6 DEF Places
<1>2. CASE GuestOff(n, s)
  <2>1. /\ s \in dom[n]
        /\ dom' = [dom EXCEPT ![n] = @ \ {s}]
        /\ ended' = ended \cup {s}
        /\ UNCHANGED <<tasks, serving, batch, jobs, look, placed, ran, reported>>
    BY <1>2 DEF GuestOff, registerVars, pistonVars, historyVars
  <2>2. dom'[n] = dom[n] \ {s} /\ \A m \in Nodes \ {n} : dom'[m] = dom[m]
    BY <2>1, SeqTypes
  <2>3. placed[s] = n /\ s \in ran
    BY <2>1 DEF Places, PlacesAt
  <2>4. \A m \in Nodes \ {n} : PlacesAt(m)'
    BY <2>1, <2>2, <2>3, PlacesElse, SeqTypes DEF Places
  <2>5. PlacesAt(n)'
    <3>1. Waits(n)' = Waits(n)
      BY <2>1 DEF Waits
    <3>2. \A r \in Waits(n) \cup jobs[n] : r # s
      BY <2>3 DEF Places, PlacesAt
    <3> QED
      BY <2>1, <2>2, <2>3, <3>1, <3>2 DEF Places, PlacesAt
  <2>6. Kept'
    BY <2>1, <2>2, <2>3, SeqTypes, NodeLifecycleAssumption DEF Places, Kept
  <2> QED
    BY <2>4, <2>5, <2>6 DEF Places
<1> QED
  BY <1>1, <1>2

LEMMA NextPlaces == Typed /\ Places /\ [Next]_vars => Places'
<1> SUFFICES ASSUME Typed, Places, [Next]_vars PROVE Places'
  OBVIOUS
<1>1. CASE UNCHANGED vars
  BY <1>1, PlacesSame DEF vars, registerVars, pistonVars, hyperVars, historyVars
<1>2. ASSUME NEW n \in Nodes, List(n) \/ SwitchOn(n) PROVE Places'
  BY <1>2, PlacesSame DEF List, SwitchOn, registerVars, pistonVars, hyperVars, historyVars
<1>3. ASSUME NEW n \in Nodes, PowerLoss(n) PROVE Places'
  BY <1>3, PowerOffPlaces DEF PowerLoss, registerVars
<1> QED
  BY <1>1, <1>2, <1>3, PlacesAdministrator, PlacesValve, PlacesPiston, PlacesStart,
     PlacesHypervisor DEF Next

LEMMA InitPlaces == Init => Places
<1> SUFFICES ASSUME Init PROVE Places
  OBVIOUS
<1>1. ASSUME NEW n \in Nodes PROVE PlacesAt(n)
  <2>1. /\ tasks[n] = <<>> /\ serving[n].tasks = <<>> /\ batch[n] = <<>>
        /\ jobs[n] = {} /\ dom[n] = {} /\ look[n] = {}
    BY DEF Init, Idle
  <2> QED
    BY <2>1, EmptyStarts DEF PlacesAt, Waits
<1>2. Kept
  BY DEF Init, Kept
<1> QED
  BY <1>1, <1>2 DEF Places

-----------------------------------------------------------------------------
(* Power-offs *)

\* A command that ends the servers of node n has been given, or movepiston is going down.
Down == Commands \ {"wipe", "reload"}

Stopping(n) ==
    \/ (Range(tasks[n]) \cup Range(serving[n].tasks) \cup Range(batch[n])) \cap Down # {}
    \/ doing[n] \notin {"none", "reload"}

\* What a power-off relies on: a server in the register's last report that has not been met
\* is counted, and those on a node that is going to stop have been met.
Safe ==
    /\ \A n \in Nodes : \A s \in (On(n) \cap reported) \ crossed : s \in look[n] /\ row[n].vms >= 1
    /\ \A n \in Nodes : Stopping(n) => On(n) \subseteq crossed
    /\ \A n \in Nodes : phase[n] \in {"drowsing", "stopping", "ending"} => doing[n] # "none"
    /\ killed \subseteq crossed

\* A step that places nobody, counts as before and stops no node that was not stopping.
LEMMA SafeFrame ==
    ASSUME Typed, Safe,
           placed' = placed, ended \subseteq ended', reported' = reported,
           crossed \subseteq crossed', look' = look, killed' = killed,
           \A n \in Nodes : row'[n].vms = row[n].vms,
           \A n \in Nodes : Stopping(n)' => Stopping(n),
           \A n \in Nodes : phase'[n] \in {"drowsing", "stopping", "ending"} => doing'[n] # "none"
    PROVE  Safe'
<1>1. \A n \in Nodes : On(n)' \subseteq On(n)
  BY DEF On
<1> QED
  BY <1>1 DEF Safe

\* No server that a report had is left on a node that has none, or that all have met.
LEMMA IdleMet ==
    ASSUME Typed, Safe, NEW n \in Nodes, row[n].vms = 0
    PROVE  On(n) \subseteq Hit(n, FALSE)
BY DEF Safe, Hit, Unseen

LEMMA HitGrows == \A n, forced : crossed \subseteq Hit(n, forced)
BY DEF Hit

LEMMA ForcedMet == \A n : On(n) \subseteq Hit(n, TRUE)
BY DEF Hit

LEMMA DomOn ==
    ASSUME Typed, Places, NEW n \in Nodes
    PROVE  dom[n] \cup jobs[n] \subseteq On(n)
BY SeqTypes DEF Places, PlacesAt, On

\* The end of a node whose servers have all been met.
LEMMA SafePowerOff ==
    ASSUME Typed, Places, Safe, NEW n \in Nodes, NEW p \in {"off", "booting", "joining"},
           PowerOff(n, p), On(n) \subseteq crossed',
           UNCHANGED <<tasks, serving, placed, reported>>, crossed \subseteq crossed',
           \A m \in Nodes : row'[m].vms = row[m].vms
    PROVE  Safe'
<1>1. /\ ended \subseteq ended' /\ look' = look
      /\ killed' = killed \cup dom[n] \cup jobs[n]
      /\ phase' = [phase EXCEPT ![n] = p] /\ doing' = [doing EXCEPT ![n] = "none"]
      /\ batch' = [batch EXCEPT ![n] = <<>>]
  BY DEF PowerOff
<1>2. /\ phase \in [Nodes -> Phases] /\ batch \in [Nodes -> Seq(Tasks \cup {"ignored"})]
      /\ doing \in [Nodes -> {"none", "drowse"} \cup (Commands \ {"wipe"})]
  BY DEF Typed, TypeOK, Phases, Tasks
<1>3. \A m \in Nodes : On(m)' \subseteq On(m)
  BY <1>1 DEF On
<1>4. \A m \in Nodes : Stopping(m)' => Stopping(m)
  BY <1>1, <1>2, EmptyStarts DEF Stopping
<1>5. killed' \subseteq crossed'
  BY <1>1, DomOn DEF Safe
<1>6. \A m \in Nodes : phase'[m] \in {"drowsing", "stopping", "ending"} => doing'[m] # "none"
  BY <1>1, <1>2 DEF Safe
<1> QED
  BY <1>1, <1>3, <1>4, <1>5, <1>6 DEF Safe

LEMMA SafeAdministrator ==
    ASSUME Typed, Places, Safe, NEW n \in Nodes, Administrator(n)
    PROVE  Safe'
<1>0. row \in [Nodes -> Row] /\ phase \in [Nodes -> Phases] /\ "sleep" \in Down
  BY CommandFacts DEF Typed, TypeOK, Row, Phases, Down
<1>1. ASSUME NEW st, Maintenance(n) \/ Carryon(n) \/ Evacuate(n) \/ GetObj(n) \/ PutBack(n, st)
      PROVE  Safe'
  <2>1. \A m \in Nodes : row'[m].vms = row[m].vms
    BY <1>0, <1>1 DEF Maintenance, Carryon, Evacuate, GetObj, PutBack, Status, Row
  <2>2. UNCHANGED <<tasks, serving, batch, doing, phase, placed, ended, reported, crossed, look,
                    killed>>
    BY <1>1 DEF Maintenance, Carryon, Evacuate, GetObj, PutBack, Request, pistonVars, hyperVars,
                historyVars
  <2> QED
    BY <2>1, <2>2, SafeFrame DEF Stopping, Safe
<1>2. ASSUME NEW st, Wake(n, st) PROVE Safe'
  <2>1. \A m \in Nodes : row'[m].vms = row[m].vms
    BY <1>2, StatusVms DEF Wake
  <2>2. UNCHANGED <<tasks, serving, batch, doing, placed, ended, reported, crossed, look, killed>>
    BY <1>2 DEF Wake, Request, hyperVars, historyVars
  <2>3. \A m \in Nodes : phase'[m] \in {"drowsing", "stopping", "ending"} => phase'[m] = phase[m]
    BY <1>0, <1>2 DEF Wake, PowerOn
  <2> QED
    BY <2>1, <2>2, <2>3, SafeFrame DEF Stopping, Safe
<1>3. ASSUME NEW st, BrutalSleep(n, st) PROVE Safe'
  <2>1. On(n) \subseteq crossed' /\ crossed \subseteq crossed'
    BY <1>3, IdleMet, HitGrows, CommandFacts DEF BrutalSleep, Accepts
  <2> QED
    BY <1>3, <2>1, StatusVms, SafePowerOff DEF BrutalSleep, Request
<1>4. ASSUME NEW st, Reset(n, st) PROVE Safe'
  <2>1. On(n) \subseteq crossed' /\ crossed \subseteq crossed'
    <3>1. CASE st = "maintenance"
      BY <1>4, <3>1, IdleMet, HitGrows DEF Reset
    <3>2. CASE st # "maintenance"
      BY <1>4, <3>2, ForcedMet, HitGrows DEF Reset
    <3> QED
      BY <3>1, <3>2
  <2>2. \E p \in {"off", "booting", "joining"} : PowerOff(n, p)
    BY <1>4 DEF Reset
  <2> QED
    BY <1>4, <2>1, <2>2, StatusVms, SafePowerOff DEF Reset, Request
<1>5. ASSUME NEW st, Delete(n, st) PROVE Safe'
  <2>1. /\ crossed' = Hit(n, TRUE)
        /\ row' = [row EXCEPT ![n] = [status |-> "deleted", maintenance |-> FALSE, vms |-> 0]]
        /\ tasks' = [tasks EXCEPT ![n] = <<>>]
        /\ UNCHANGED <<serving, batch, doing, phase, placed, ended, reported, look, killed>>
    BY <1>5 DEF Delete, Request, pistonVars, hyperVars
  <2>2. On(n) \subseteq crossed' /\ crossed \subseteq crossed' /\ \A m \in Nodes : On(m)' = On(m)
    BY <2>1, ForcedMet, HitGrows DEF On
  <2>3. \A m \in Nodes \ {n} : row'[m] = row[m] /\ tasks'[m] = tasks[m]
    BY <1>0, <2>1, SeqTypes
  <2>4. \A m \in Nodes \ {n} : Stopping(m)' => Stopping(m)
    BY <2>1, <2>3 DEF Stopping
  <2> QED
    BY <2>1, <2>2, <2>3, <2>4 DEF Safe
<1>6. ASSUME NEW st, NEW c \in Commands, Command(n, c, st) PROVE Safe'
  <2>1. /\ tasks' = [tasks EXCEPT ![n] = Append(@, c)]
        /\ crossed' = Hit(n, c = "halt")
        /\ UNCHANGED <<serving, batch, doing, phase, placed, ended, reported, look, killed>>
    BY <1>6 DEF Command, Request, Queue, pistonVars, hyperVars
  <2>2. crossed \subseteq crossed' /\ (\A m \in Nodes : On(m)' = On(m))
        /\ \A m \in Nodes : row'[m].vms = row[m].vms
    BY <1>6, <2>1, HitGrows, StatusVms DEF On, Command
  <2>3. c \in Down => On(n) \subseteq crossed'
    <3>1. CASE c = "halt"
      BY <2>1, <3>1, ForcedMet
    <3>2. CASE c \in Down /\ c # "halt"
      <4>1. row[n].vms = 0
        BY <1>6, <3>2 DEF Command, Accepts, Down
      <4>2. (c = "halt") = FALSE
        BY <3>2
      <4> QED
        BY <2>1, <4>1, <4>2, IdleMet
    <3> QED
      BY <3>1, <3>2
  <2>4. /\ Range(tasks'[n]) = Range(tasks[n]) \cup {c}
        /\ \A m \in Nodes \ {n} : tasks'[m] = tasks[m]
    <3>1. /\ tasks'[n] = Append(tasks[n], c)
          /\ \A m \in Nodes \ {n} : tasks'[m] = tasks[m]
      BY <2>1, SeqTypes
    <3>2. tasks[n] \in Seq(Tasks) /\ c \in Tasks
      BY SeqTypes DEF Tasks
    <3> QED
      BY <3>1, <3>2, RangeAppend
  <2>5. \A m \in Nodes : Stopping(m)' => Stopping(m) \/ (m = n /\ c \in Down)
    BY <2>1, <2>4 DEF Stopping
  <2> QED
    BY <2>1, <2>2, <2>3, <2>5 DEF Safe
<1> QED
  BY <1>1, <1>2, <1>3, <1>4, <1>5, <1>6 DEF Administrator

LEMMA SafeValve ==
    ASSUME Typed, Places, Safe, NEW n \in Nodes, Valve(n)
    PROVE  Safe'
<1>0. /\ row \in [Nodes -> Row] /\ phase \in [Nodes -> Phases]
      /\ serving \in [Nodes -> Reply]
      /\ batch \in [Nodes -> Seq(Tasks \cup {"ignored"})]
      /\ look \in [Nodes -> SUBSET Servers]
  BY DEF Typed, TypeOK, Row, Phases, Reply, Tasks
<1>1. CASE ServePost(n)
  <2>1. /\ tasks'[n] = <<>> /\ serving'[n].tasks = tasks[n]
        /\ \A m \in Nodes \ {n} : tasks'[m] = tasks[m] /\ serving'[m] = serving[m]
        /\ UNCHANGED <<row, phase, doing, batch, look, placed, ended, reported, crossed, killed>>
    BY <1>1, SeqTypes DEF ServePost, pistonVars, hyperVars, historyVars
  <2>2. \A m \in Nodes : Stopping(m)' => Stopping(m)
    <3>1. Stopping(n)' => Stopping(n)
      BY <2>1, EmptyStarts DEF Stopping
    <3> QED
      BY <2>1, <3>1 DEF Stopping
  <2> QED
    BY <2>1, <2>2, SafeFrame DEF Safe
<1>2. CASE ServeDrowse(n)
  <2>1. /\ serving'[n].tasks = <<>>
        /\ \A m \in Nodes \ {n} : serving'[m] = serving[m]
        /\ UNCHANGED <<row, tasks, phase, doing, batch, look, placed, ended, reported, crossed,
                       killed>>
    BY <1>2, SeqTypes DEF ServeDrowse, pistonVars, hyperVars, historyVars
  <2>2. \A m \in Nodes : Stopping(m)' => Stopping(m)
    <3>1. Stopping(n)' => Stopping(n)
      BY <2>1, EmptyStarts DEF Stopping
    <3> QED
      BY <2>1, <3>1 DEF Stopping
  <2> QED
    BY <2>1, <2>2, SafeFrame DEF Safe
<1>3. CASE AnswerDrowse(n)
  <2>1. /\ serving'[n].tasks = <<>>
        /\ \A m \in Nodes \ {n} : serving'[m] = serving[m]
        /\ UNCHANGED <<tasks, doing, batch, look, placed, ended, reported, crossed, killed>>
    BY <1>3, SeqTypes DEF AnswerDrowse, Idle, hyperVars, historyVars
  <2>2. \A m \in Nodes : Stopping(m)' => Stopping(m)
    <3>1. Stopping(n)' => Stopping(n)
      BY <2>1, EmptyStarts DEF Stopping
    <3> QED
      BY <2>1, <3>1 DEF Stopping
  <2>3. \A m \in Nodes : row'[m].vms = row[m].vms
    BY <1>3, StatusVms DEF AnswerDrowse
  <2>4. \A m \in Nodes : phase'[m] \in {"drowsing", "stopping", "ending"}
                            => phase[m] \in {"drowsing", "stopping", "ending"}
    BY <1>0, <1>3 DEF AnswerDrowse
  <2> QED
    BY <2>1, <2>2, <2>3, <2>4, SafeFrame DEF Safe
<1>4. CASE AnswerPost(n)
  <2>1. /\ serving'[n].tasks = <<>>
        /\ \A m \in Nodes \ {n} : serving'[m] = serving[m] /\ batch'[m] = batch[m]
        /\ batch'[n] = Sent(serving[n].tasks) \/ batch'[n] = batch[n]
        /\ reported' = reported \cup look[n]
        /\ UNCHANGED <<tasks, doing, look, placed, ended, crossed, killed>>
    BY <1>4, SeqTypes DEF AnswerPost, Idle, hyperVars
  <2>2. \A m \in Nodes : Stopping(m)' => Stopping(m)
    <3>1. Range(batch'[n]) \cap Commands \subseteq Range(serving[n].tasks) \cup Range(batch[n])
      BY <2>1, SentStarts, SeqTypes
    <3>2. Stopping(n)' => Stopping(n)
      BY <2>1, <3>1, EmptyStarts DEF Stopping, Down
    <3> QED
      BY <2>1, <3>2 DEF Stopping
  <2>3. /\ row'[n].vms = Cardinality(look[n])
        /\ \A m \in Nodes \ {n} : row'[m] = row[m]
    BY <1>0, <1>4 DEF AnswerPost, Row
  <2>4. \A s \in look[n] : row'[n].vms >= 1
    <3> SUFFICES ASSUME NEW s \in look[n] PROVE Cardinality(look[n]) >= 1
      BY <2>3
    <3>1. IsFiniteSet(look[n])
      BY <1>0, FS_Subset, NodeLifecycleAssumption
    <3> QED
      BY <3>1, FS_EmptySet, FS_CardinalityType
  <2>5. \A m \in Nodes : On(m)' = On(m)
    BY <2>1 DEF On
  <2>6. \A m \in Nodes \ {n} : On(m) \cap look[n] = {}
    BY SeqTypes DEF On, Places, PlacesAt
  <2>7. \A m \in Nodes : \A s \in (On(m) \cap reported') \ crossed : s \in look[m] /\ row'[m].vms >= 1
    BY <2>1, <2>3, <2>4, <2>6 DEF Safe
  <2>8. \A m \in Nodes : phase'[m] \in {"drowsing", "stopping", "ending"}
                            => phase[m] \in {"drowsing", "stopping", "ending"}
    BY <1>0, <1>4 DEF AnswerPost
  <2> QED
    BY <2>1, <2>2, <2>5, <2>7, <2>8 DEF Safe
<1>5. CASE WritePost(n)
  <2>1. /\ serving'[n].tasks = serving[n].tasks
        /\ \A m \in Nodes \ {n} : serving'[m] = serving[m]
        /\ UNCHANGED <<tasks, phase, doing, batch, look, placed, ended, reported, crossed, killed>>
    BY <1>5, SeqTypes DEF WritePost, pistonVars, hyperVars, historyVars
  <2>2. \A m \in Nodes : Stopping(m)' => Stopping(m)
    BY <2>1 DEF Stopping
  <2>3. \A m \in Nodes : row'[m].vms = row[m].vms
    BY <1>5, StatusVms DEF WritePost
  <2> QED
    BY <2>1, <2>2, <2>3, SafeFrame DEF Safe
<1> QED
  BY <1>1, <1>2, <1>3, <1>4, <1>5 DEF Valve

LEMMA SafePiston ==
    ASSUME Typed, Places, Safe, NEW n \in Nodes, Piston(n)
    PROVE  Safe'
<1>0. /\ row \in [Nodes -> Row] /\ phase \in [Nodes -> Phases]
      /\ doing \in [Nodes -> {"none", "drowse"} \cup (Commands \ {"wipe"})]
      /\ drowsy \in [Nodes -> 0 .. SleepAfter]
      /\ SleepAfter \in Nat \ {0}
  BY NodeLifecycleAssumption DEF Typed, TypeOK, Row, Phases
<1>1. CASE Look(n)
  <2>1. /\ look' = [look EXCEPT ![n] = dom[n]]
        /\ phase' = [phase EXCEPT ![n] = "posting"]
        /\ UNCHANGED <<row, tasks, serving, doing, batch, placed, ran, ended, reported, crossed,
                       killed>>
    BY <1>1 DEF Look, registerVars, hyperVars, historyVars
  <2>2. \A m \in Nodes : On(m)' = On(m) /\ (Stopping(m)' <=> Stopping(m))
    BY <2>1 DEF On, Stopping
  <2>3. \A s \in On(n) \cap reported : s \in dom[n]
    BY DEF On, Places, Kept
  <2>4. look'[n] = dom[n] /\ \A m \in Nodes \ {n} : look'[m] = look[m]
    BY <2>1, SeqTypes
  <2>5. \A m \in Nodes : \A s \in (On(m) \cap reported) \ crossed : s \in look'[m]
    BY <2>3, <2>4 DEF Safe
  <2>6. \A m \in Nodes : phase'[m] \in {"drowsing", "stopping", "ending"} => phase'[m] = phase[m]
    BY <1>0, <2>1
  <2> QED
    BY <2>1, <2>2, <2>5, <2>6 DEF Safe
<1>2. ASSUME batch[n] # <<>>, batch' = [batch EXCEPT ![n] = Tail(@)]
      PROVE  /\ Range(batch'[n]) \subseteq Range(batch[n]) /\ Head(batch[n]) \in Range(batch[n])
             /\ \A m \in Nodes \ {n} : batch'[m] = batch[m]
  <2>1. batch'[n] = Tail(batch[n]) /\ \A m \in Nodes \ {n} : batch'[m] = batch[m]
    BY <1>2, SeqTypes
  <2>2. Range(batch[n]) = {Head(batch[n])} \cup Range(Tail(batch[n]))
    BY <1>2, SeqTypes, RangeTail
  <2> QED
    BY <2>1, <2>2
<1>3. CASE DoStart(n) \/ DoNothing(n)
  <2>1. /\ batch[n] # <<>> /\ batch' = [batch EXCEPT ![n] = Tail(@)]
        /\ UNCHANGED <<row, tasks, serving, phase, doing, look, placed, ended, reported, crossed,
                       killed>>
    BY <1>3 DEF DoStart, DoNothing, registerVars, hyperVars, historyVars
  <2>2. \A m \in Nodes : Stopping(m)' => Stopping(m)
    <3>1. Stopping(n)' => Stopping(n)
      BY <1>2, <2>1 DEF Stopping
    <3> QED
      BY <1>2, <2>1, <3>1 DEF Stopping
  <2> QED
    BY <2>1, <2>2, SafeFrame DEF Safe
<1>4. CASE DoCommand(n)
  <2> DEFINE c == Head(batch[n])
  <2>1. /\ batch[n] # <<>> /\ batch' = [batch EXCEPT ![n] = Tail(@)]
        /\ UNCHANGED <<row, tasks, serving, look, placed, ended, reported, crossed, killed>>
    BY <1>4 DEF DoCommand, registerVars, hyperVars, historyVars
  <2>2. /\ c \in Commands
        /\ \/ c = "wipe" /\ UNCHANGED <<phase, doing>>
           \/ /\ c # "wipe"
              /\ phase' = [phase EXCEPT ![n] = "stopping"] /\ doing' = [doing EXCEPT ![n] = c]
    BY <1>4 DEF DoCommand
  <2>3. c \in Range(batch[n])
    BY <1>2, <2>1
  <2>4. "none" \notin Commands
    BY CommandFacts
  <2> HIDE DEF c
  <2>5. \A m \in Nodes : Stopping(m)' => Stopping(m)
    <3>1. Stopping(n)' => Stopping(n)
      <4>1. doing'[n] \notin {"none", "reload"} => c \in Down \/ doing'[n] = doing[n]
        BY <1>0, <2>2 DEF Down
      <4> QED
        BY <1>2, <2>1, <2>3, <4>1 DEF Stopping
    <3>2. \A m \in Nodes \ {n} : doing'[m] = doing[m]
      BY <1>0, <2>2
    <3> QED
      BY <1>2, <2>1, <3>1, <3>2 DEF Stopping
  <2>6. \A m \in Nodes : phase'[m] \in {"drowsing", "stopping", "ending"} => doing'[m] # "none"
    BY <1>0, <2>2, <2>4 DEF Safe
  <2> QED
    BY <2>1, <2>5, <2>6, SafeFrame
<1>5. CASE Nap(n)
  <2> DEFINE rounds == IF dom[n] # {} THEN 0 ELSE drowsy[n] + 1
  <2>1. UNCHANGED <<row, tasks, serving, batch, look, placed, ended, reported, killed>>
    BY <1>5 DEF Nap, registerVars, hyperVars
  <2>2. CASE rounds > SleepAfter
    <3>1. /\ phase' = [phase EXCEPT ![n] = "drowsing"] /\ doing' = [doing EXCEPT ![n] = "drowse"]
          /\ crossed' = Hit(n, FALSE)
      BY <1>5, <2>2 DEF Nap
    <3>2. dom[n] = {}
      BY <1>0, <2>2
    <3>3. On(n) \cap reported = {}
      BY <3>2 DEF On, Places, Kept
    <3>4. On(n) \subseteq crossed' /\ crossed \subseteq crossed'
      BY <3>1, <3>3 DEF Hit, Unseen
    <3>5. \A m \in Nodes : On(m)' = On(m)
      BY <2>1 DEF On
    <3>6. \A m \in Nodes \ {n} : doing'[m] = doing[m] /\ phase'[m] = phase[m]
      BY <1>0, <3>1
    <3>7. doing'[n] # "none"
      BY <1>0, <3>1
    <3>8. \A m \in Nodes \ {n} : Stopping(m)' => Stopping(m)
      BY <2>1, <3>6 DEF Stopping
    <3> QED
      BY <2>1, <3>4, <3>5, <3>6, <3>7, <3>8 DEF Safe
  <2>3. CASE ~(rounds > SleepAfter)
    <3>1. phase' = [phase EXCEPT ![n] = "idle"] /\ UNCHANGED <<doing, crossed>>
      BY <1>5, <2>3 DEF Nap
    <3>2. \A m \in Nodes : Stopping(m)' => Stopping(m)
      BY <2>1, <3>1 DEF Stopping
    <3>3. \A m \in Nodes : phase'[m] \in {"drowsing", "stopping", "ending"} => phase'[m] = phase[m]
      BY <1>0, <3>1
    <3> QED
      BY <2>1, <3>1, <3>2, <3>3, SafeFrame DEF Safe
  <2> QED
    BY <2>2, <2>3
<1>6. CASE Terminate(n)
  <2>1. /\ phase[n] = "stopping" /\ phase' = [phase EXCEPT ![n] = "ending"]
        /\ tasks'[n] = <<>> /\ batch'[n] = <<>>
        /\ \A m \in Nodes \ {n} : tasks'[m] = tasks[m] /\ batch'[m] = batch[m]
        /\ UNCHANGED <<row, serving, doing, look, placed, ended, reported, crossed, killed>>
    BY <1>6, SeqTypes DEF Terminate, historyVars
  <2>2. \A m \in Nodes : Stopping(m)' => Stopping(m)
    <3>1. Stopping(n)' => Stopping(n)
      BY <2>1, EmptyStarts DEF Stopping
    <3> QED
      BY <2>1, <3>1 DEF Stopping
  <2>3. \A m \in Nodes : phase'[m] \in {"drowsing", "stopping", "ending"} => doing'[m] # "none"
    BY <1>0, <2>1 DEF Safe
  <2> QED
    BY <2>1, <2>2, <2>3, SafeFrame
<1>7. CASE GoDown(n)
  <2>1. phase[n] = "ending" /\ doing[n] # "reload" /\ crossed' = crossed
    BY <1>7 DEF GoDown
  <2>2. On(n) \subseteq crossed
    BY <2>1 DEF Safe, Stopping
  <2>3. \E p \in {"off", "booting", "joining"} : PowerOff(n, p)
    BY <1>7 DEF GoDown
  <2> QED
    BY <1>7, <2>1, <2>2, <2>3, SafePowerOff DEF GoDown, registerVars
<1>8. CASE Reloaded(n) \/ Boot(n) \/ Join(n)
  <2>1. UNCHANGED <<tasks, serving, batch, look, placed, ended, reported, crossed, killed>>
    BY <1>8 DEF Reloaded, Boot, Join, registerVars, hyperVars, historyVars
  <2>2. phase' = [phase EXCEPT ![n] = "idle"]
    BY <1>8 DEF Reloaded, Boot, Join
  <2>3. doing' = doing \/ doing' = [doing EXCEPT ![n] = "none"]
    BY <1>8 DEF Reloaded, Boot, Join
  <2>4. \A m \in Nodes : row'[m].vms = row[m].vms
    BY <1>8, StatusVms DEF Reloaded, Boot, Join, registerVars
  <2>5. \A m \in Nodes : Stopping(m)' => Stopping(m)
    BY <1>0, <2>1, <2>3 DEF Stopping
  <2>6. \A m \in Nodes : phase'[m] \in {"drowsing", "stopping", "ending"} => doing'[m] # "none"
    BY <1>0, <2>2, <2>3 DEF Safe
  <2> QED
    BY <2>1, <2>4, <2>5, <2>6, SafeFrame
<1> QED
  BY <1>1, <1>3, <1>4, <1>5, <1>6, <1>7, <1>8 DEF Piston

\* A server is placed on a node that does not stop, or the two have met.
LEMMA SafeStart ==
    ASSUME Typed, Places, Safe, NEW n \in Nodes, NEW s \in Servers, Start(s, n)
    PROVE  Safe'
<1>0. /\ row \in [Nodes -> Row] /\ phase \in [Nodes -> Phases]
      /\ Row = [status : Statuses, maintenance : BOOLEAN, vms : Nat]
  BY DEF Typed, TypeOK, Row, Phases
<1>1. /\ placed[s] = Nobody /\ placed' = [placed EXCEPT ![s] = n]
      /\ tasks' = [tasks EXCEPT ![n] = Append(@, s)]
      /\ crossed' = IF Leaving(n) \/ Missing(n) THEN crossed \cup {s} ELSE crossed
      /\ UNCHANGED <<serving, batch, doing, look, ended, reported, killed>>
  BY DEF Start, Queue, hyperVars
<1>2. /\ tasks'[n] = Append(tasks[n], s) /\ \A m \in Nodes \ {n} : tasks'[m] = tasks[m]
      /\ placed'[s] = n /\ \A r \in Servers \ {s} : placed'[r] = placed[r]
  BY <1>1, SeqTypes
<1>3. Range(tasks'[n]) = Range(tasks[n]) \cup {s} /\ s \notin Commands
  <2>1. tasks[n] \in Seq(Tasks) /\ s \in Tasks
    BY SeqTypes DEF Tasks
  <2> QED
    BY <1>2, <2>1, RangeAppend, NodeLifecycleAssumption
<1>4. \A m \in Nodes : Stopping(m)' => Stopping(m)
  BY <1>1, <1>2, <1>3 DEF Stopping, Down
<1>5. Stopping(n) => Leaving(n)
  <2>1. Range(tasks[n] \o serving[n].tasks \o batch[n])
           = Range(tasks[n]) \cup Range(serving[n].tasks) \cup Range(batch[n])
    <3> DEFINE T == Tasks \cup {"ignored"}
    <3>1. tasks[n] \in Seq(T) /\ serving[n].tasks \in Seq(T) /\ batch[n] \in Seq(T)
      BY SeqTypes
    <3> DEFINE front == tasks[n] \o serving[n].tasks
    <3> HIDE DEF T
    <3>2. front \in Seq(T) /\ Range(front) = Range(tasks[n]) \cup Range(serving[n].tasks)
      BY <3>1, RangeConcat
    <3> HIDE DEF front
    <3>3. Range(front \o batch[n]) = Range(front) \cup Range(batch[n])
      BY <3>1, <3>2, RangeConcat
    <3> QED
      BY <3>2, <3>3 DEF front
  <2> QED
    BY <2>1 DEF Stopping, Leaving, Ordered, Down
<1>6. s \notin reported /\ crossed \subseteq crossed' /\ (Stopping(n) => s \in crossed')
  BY <1>1, <1>5 DEF Places, Kept
<1>7. \A m \in Nodes : On(m)' \subseteq On(m) \cup (IF m = n THEN {s} ELSE {})
  BY <1>1, <1>2 DEF On
<1>8. \A m \in Nodes : row'[m].vms \in Nat /\ row'[m].vms >= row[m].vms
  BY <1>0 DEF Start, Place
<1>9. \A m \in Nodes : row[m].vms \in Nat
  BY <1>0
<1>10. \A m \in Nodes : phase'[m] \in {"drowsing", "stopping", "ending"} => phase'[m] = phase[m]
  BY <1>0 DEF Start, Place, PowerOn
<1>11. \A m \in Nodes : \A r \in (On(m)' \cap reported) \ crossed' : r \in look[m] /\ row'[m].vms >= 1
  <2> SUFFICES ASSUME NEW m \in Nodes, NEW r \in (On(m)' \cap reported) \ crossed'
               PROVE  r \in look[m] /\ row'[m].vms >= 1
    OBVIOUS
  <2>1. r \in (On(m) \cap reported) \ crossed
    BY <1>6, <1>7
  <2>2. r \in look[m] /\ row[m].vms >= 1
    BY <2>1 DEF Safe
  <2> QED
    BY <1>8, <1>9, <2>2
<1>12. \A m \in Nodes : Stopping(m)' => On(m)' \subseteq crossed'
  BY <1>4, <1>6, <1>7 DEF Safe
<1> QED
  BY <1>1, <1>6, <1>10, <1>11, <1>12 DEF Safe

LEMMA NextSafe == Typed /\ Places /\ Safe /\ [Next]_vars => Safe'
<1> SUFFICES ASSUME Typed, Places, Safe, [Next]_vars PROVE Safe'
  OBVIOUS
<1>1. CASE UNCHANGED vars
  BY <1>1, SafeFrame DEF vars, registerVars, pistonVars, hyperVars, historyVars, Stopping, Safe
<1>2. ASSUME NEW n \in Nodes, List(n) PROVE Safe'
  <2>1. UNCHANGED <<tasks, serving, phase, doing, batch, look, placed, ended, reported, crossed,
                    killed>>
    BY <1>2 DEF List, pistonVars, hyperVars, historyVars
  <2>2. \A m \in Nodes : row'[m].vms = row[m].vms
    BY <1>2, StatusVms DEF List
  <2> QED
    BY <2>1, <2>2, SafeFrame DEF Stopping, Safe
<1>3. ASSUME NEW n \in Nodes, SwitchOn(n) PROVE Safe'
  <2>1. UNCHANGED <<row, tasks, serving, doing, batch, look, placed, ended, reported, crossed,
                    killed>>
    BY <1>3 DEF SwitchOn, registerVars, hyperVars, historyVars
  <2>2. \A m \in Nodes : phase'[m] \in {"drowsing", "stopping", "ending"} => phase'[m] = phase[m]
    BY <1>3 DEF SwitchOn, PowerOn, Typed, TypeOK
  <2> QED
    BY <2>1, <2>2, SafeFrame DEF Stopping, Safe
<1>4. ASSUME NEW n \in Nodes, PowerLoss(n) PROVE Safe'
  <2>1. On(n) \subseteq crossed' /\ crossed \subseteq crossed'
    BY <1>4, ForcedMet, HitGrows DEF PowerLoss
  <2> QED
    BY <1>4, <2>1, SafePowerOff DEF PowerLoss, registerVars
<1>5. ASSUME NEW n \in Nodes, NEW s \in Servers, Create(n, s) \/ GuestOff(n, s) PROVE Safe'
  <2>1. UNCHANGED <<row, tasks, serving, phase, doing, batch, look, placed, reported, crossed,
                    killed>>
    BY <1>5 DEF Create, GuestOff, registerVars, pistonVars, historyVars
  <2>2. ended \subseteq ended'
    BY <1>5 DEF Create, GuestOff
  <2> QED
    BY <2>1, <2>2, SafeFrame DEF Stopping, Safe
<1> QED
  BY <1>1, <1>2, <1>3, <1>4, <1>5, SafeAdministrator, SafeValve, SafePiston, SafeStart DEF Next

LEMMA InitSafe == Init => Safe
<1> SUFFICES ASSUME Init PROVE Safe
  OBVIOUS
<1>1. \A n \in Nodes : /\ tasks[n] = <<>> /\ serving[n].tasks = <<>> /\ batch[n] = <<>>
                       /\ doing[n] = "none" /\ phase[n] = "idle"
  BY DEF Init, Idle
<1>2. \A n \in Nodes : ~Stopping(n)
  BY <1>1, EmptyStarts DEF Stopping
<1> QED
  BY <1>1, <1>2 DEF Safe, Init

\* A command that asks for an idle node (nodes.cgi), and the sleep a node falls into by
\* itself (movepiston), end only servers that no report had when the power-off was asked
\* for, or that were placed while it was going on.
THEOREM IdlePowerOffAlways == Spec => []IdlePowerOff
<1>1. Init => Typed /\ Places /\ Safe
  BY InitTyped, InitPlaces, InitSafe
<1>2. Typed /\ Places /\ Safe /\ [Next]_vars => (Typed /\ Places /\ Safe)'
  BY NextTyped, NextPlaces, NextSafe
<1>3. Typed /\ Places /\ Safe => IdlePowerOff
  BY DEF Safe, IdlePowerOff
<1> QED
  BY <1>1, <1>2, <1>3, PTL DEF Spec

=============================================================================

---------------------------- MODULE ServerPlacement ----------------------------
(***************************************************************************)
(* What the engine promises of where servers are: a server is up on one    *)
(* node or on none, changes nodes only while it is being moved, comes up   *)
(* only once it has been ordered, and is declared off only when it is.     *)
(*                                                                         *)
(* Registers, tasks, reports and hypervisors are not in it: they are how   *)
(* ServerLifecycle keeps the promise, but for the servers that are lost.   *)
(***************************************************************************)
CONSTANTS Servers, Nodes, Nobody

VARIABLES
    host,       \* the node a server is up on
    state,      \* "off", "on": it may be or come up, "moving": it may change nodes
    lost        \* the servers nothing is promised of any more

States == {"off", "on", "moving"}

Init ==
    /\ host = [s \in Servers |-> Nobody]
    /\ state = [s \in Servers |-> "off"]
    /\ lost = {}

Stays(s) == host'[s] = host[s]

Order(s)     == Stays(s) /\ state[s] = "off" /\ state'[s] = "on"
Boot(s)      == host[s] = Nobody /\ state[s] # "off" /\ host'[s] # Nobody /\ state'[s] = state[s]
BeginMove(s) == Stays(s) /\ state[s] = "on" /\ state'[s] = "moving"
Migrate(s)   == state[s] = "moving" /\ host[s] # Nobody /\ host'[s] # Nobody /\ state'[s] = "moving"
EndMove(s)   == Stays(s) /\ state[s] = "moving" /\ state'[s] = "on"
Stop(s)      == host[s] # Nobody /\ host'[s] = Nobody /\ state'[s] = state[s]
Settle(s)    == Stays(s) /\ host[s] = Nobody /\ state[s] # "off" /\ state'[s] = "off"

Step(s) ==
    \/ Order(s) \/ Boot(s) \/ BeginMove(s) \/ Migrate(s) \/ EndMove(s) \/ Stop(s) \/ Settle(s)
    \/ Stays(s) /\ state'[s] = state[s]

\* A node that goes down stops several servers at once.
Next ==
    /\ host' \in [Servers -> Nodes \cup {Nobody}]
    /\ state' \in [Servers -> States]
    /\ lost \subseteq lost'
    /\ \A s \in Servers \ lost' : Step(s)

Spec == Init /\ [][Next]_<<host, state, lost>>

=============================================================================

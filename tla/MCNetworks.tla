------------------------------- MODULE MCNetworks -------------------------------
(* Instances of Networks for TLC: users, networks and processes as model values. *)
EXTENDS Networks, TLC

CONSTANTS u1, u2, a, b, p1, p2

\* Processes are told apart by what they do, users and networks by what they have.
Symmetry == Permutations(Procs) \cup Permutations(Nets) \cup Permutations(Users)

\* Two servers have each a network, the VLANs of which are all that there are to be found:
\* the requests before the last two.
Started ==
    /\ \E n \in Nets, owner \in [Nets -> Users] :
           reg = [m \in Nets |->
                     LET id == IF m = n THEN VlanStart ELSE VlanStart + 1
                     IN  [user |-> owner[m], id |-> id, type |-> "internalip",
                          int |-> Internal(id, 2), ext |-> NoIp, sys |-> FALSE,
                          dom |-> TRUE, status |-> "down"]]
    /\ attached = Nets
    /\ requests = MaxRequests - 2
    /\ Booted

StartedSpec == (Init \/ Started) /\ [][Next]_vars
=============================================================================

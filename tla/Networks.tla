-------------------------------- MODULE Networks --------------------------------
(***************************************************************************)
(* Networks: what networks.cgi keeps in the networks register, and what it *)
(* makes of it in the kernel of the engine.                                *)
(*                                                                         *)
(* A network belongs to a user and has a VLAN id, a type and an internal   *)
(* and an external address.  Save picks what the request leaves open by    *)
(* looking through the register and writes its pick a while later; nothing *)
(* is locked.  Activate reads the register and sets up the VLAN, the alias *)
(* of the external address, the forwarding to the internal address and the *)
(* lease of the server; Deactivate, Stop and Remove take parts of it down. *)
(* The status of a network is what validateStatus last found in the        *)
(* kernel, and decides what may be done with it.                           *)
(*                                                                         *)
(* Requests are processes of Apache that interleave; activate, deactivate, *)
(* stop and the removal of a system are handed to the one Gearman worker   *)
(* of the engine.  It alone has the rights to change the kernel and the    *)
(* dhcp-hosts files.  A pass over the register is one step.  Left out:     *)
(* the bulk actions, the restore after a reboot among them; networks 0 and *)
(* 1, which nobody owns; names and ports; another engine that answers      *)
(* arping; the partial row that a write to a removed network makes.  The   *)
(* ranges of external and of proxied addresses are one; a server has one   *)
(* network, of type externalip only where a proxy is set up.               *)
(***************************************************************************)
EXTENDS Integers, FiniteSets, FiniteSetsExt

CONSTANTS
    Users,
    Admins,         \* those with the privilege "a"
    Nets,           \* uuids of networks
    Procs,          \* processes that serve requests
    Ops,            \* the requests users make in an instance
    VlanStart, VlanEnd,
    ExtStart, ExtEnd,   \* hosts of the range of external addresses
    IntEnd,         \* the last host of an internal subnet (254)
    Quota,          \* external addresses a user may have, 0 or less for any number
    TypesAsked,     \* the types of networks requests name
    IdAsked,        \* the VLAN ids requests name
    IntAsked,       \* the hosts of internal addresses requests name
    ExtAsked,       \* the hosts of external addresses requests name
    Links,          \* whether requests link a network to a system
    MaxRequests,    \* bound on the requests
    MaxFaults       \* bound on reboots and on aliases that cannot be added

AllOps == {"save", "activate", "deactivate", "stop", "remove", "removesystem", "list",
           "attach", "detach", "move"}

Types == {"gateway", "internalip", "ipmapping", "externalip"}

ASSUME NetworksAssumption ==
    /\ Admins \subseteq Users
    /\ Ops \subseteq AllOps
    /\ {VlanStart, VlanEnd, ExtStart, ExtEnd, IntEnd, MaxRequests, MaxFaults} \subseteq Nat
    /\ Quota \in Int
    /\ 1 < VlanStart /\ VlanStart <= VlanEnd /\ VlanEnd < 4096
    /\ 0 < ExtStart /\ ExtStart < ExtEnd
    /\ IntEnd \in 2 .. 254
    /\ TypesAsked \subseteq Types
    /\ IdAsked \subseteq VlanStart .. VlanEnd
    /\ IntAsked \subseteq 2 .. IntEnd
    /\ ExtAsked \subseteq ExtStart .. ExtEnd
    /\ Links \subseteq BOOLEAN

VARIABLES
    reg,        \* networks table, a row for each registered network
    attached,   \* domains table: the networks a server is attached to
    job,        \* what each process is doing
    vlan,       \* the VLANs of the data nic that are up, with bridge and gateway
    alias,      \* external nic: the VLAN and external address of its aliases
    dnat,       \* nat table: the internal addresses each external one is forwarded to
    proxied,    \* the routes of addresses of type externalip
    leases,     \* dhcp-hosts files: the network and address of each lease of a VLAN
    dnsmasq,    \* the VLANs that have a DHCP server running
    requests,   \* requests so far
    faults,     \* reboots and failed aliases so far
    strays      \* history: external addresses whose forwarding was left behind

kernelVars == <<vlan, alias, dnat, proxied, leases, dnsmasq>>
boundVars  == <<requests, faults>>
vars == <<reg, attached, job, kernelVars, boundVars, strays>>

Statuses == {"", "down", "nat", "up"}
Vlans    == {1} \cup VlanStart .. VlanEnd
NoIp     == <<>>
Internal(v, h) == <<v, h>>
External(h)    == <<0, h>>
Internals == {Internal(v, h) : v \in Vlans, h \in 1 .. IntEnd}
Externals == {External(h) : h \in ExtStart .. ExtEnd}
Open == 0        \* an id or a host that the request leaves open

Rows(statuses) ==
    [user : Users, id : Vlans, type : Types, int : Internals \cup {NoIp},
     ext : Externals \cup {NoIp}, sys : BOOLEAN, dom : BOOLEAN, status : statuses]

\* pc: the next step; root: the worker does it; then: where validateStatus returns to;
\* newid: the VLAN a move has picked; during: history, the networks that others wrote
\* between the pick of this request and its write.
Idle == [pc |-> "idle", root |-> FALSE]
Job(pc, u, n, row) ==
    [pc |-> pc, user |-> u, net |-> n, row |-> row, seen |-> FALSE, then |-> "idle",
     todo |-> {}, newid |-> 1, during |-> {}, root |-> FALSE]

Put(n, row) == [m \in DOMAIN reg \cup {n} |-> IF m = n THEN row ELSE reg[m]]
Drop(n)     == [m \in DOMAIN reg \ {n} |-> reg[m]]
Owned(u)    == {n \in DOMAIN reg : reg[n].user = u}
May(u, n)   == n \in DOMAIN reg /\ (reg[n].user = u \/ u \in Admins)

\* getDomains: the servers of the user that are attached to network n
Servers(u, n) == {m \in {n} \cap attached : reg[m].user = u}

\* The engine has just started: nothing is served, and nothing set up in the kernel.
Booted ==
    /\ job = [p \in Procs |-> Idle]
    /\ vlan = {}
    /\ alias = {}
    /\ dnat = [e \in Externals |-> {}]
    /\ proxied = {}
    /\ leases = [v \in Vlans |-> {}]
    /\ dnsmasq = {}
    /\ faults = 0
    /\ strays = {}

Init ==
    /\ reg = [n \in {} |-> {}]
    /\ attached = {}
    /\ requests = 0
    /\ Booted

Request(op) ==
    /\ op \in Ops
    /\ requests < MaxRequests
    /\ requests' = requests + 1
    /\ UNCHANGED faults

\* privileged_action: the Gearman worker serves one request after the other.
Privileged(op) ==
    /\ Request(op)
    /\ \A p \in Procs : ~job[p].root

Fault ==
    /\ faults < MaxFaults
    /\ faults' = faults + 1
    /\ UNCHANGED requests

Become(p, j)  == job' = [job EXCEPT ![p] = j]

\* Those that have picked notice, for the history, that network n was written or removed.
Noticed(n) ==
    [q \in Procs |-> IF job[q].pc \in {"write", "moveid", "moveuser", "moveint"}
                     THEN [job[q] EXCEPT !.during = @ \cup {n}]
                     ELSE job[q]]

Wrote(p, n, j) == job' = [Noticed(n) EXCEPT ![p] = j]

-----------------------------------------------------------------------------
(* Picking ids and addresses *)

\* Mutant of NextId: with no VLAN left the search yields the first of the range.
NextIdFirst(u, asked) ==
    LET own    == {reg[n].id : n \in Owned(u)} \ {1}
        others == {reg[n].id : n \in DOMAIN reg \ Owned(u)} \ {1}
        free   == (VlanStart .. VlanEnd - 1) \ others
    IN  IF asked # Open THEN asked
        ELSE IF own # {} THEN Min(own) ELSE IF free # {} THEN Min(free) ELSE VlanStart

\* getNextId: the user's first VLAN or the first free one when none is asked for; -1 when
\* the one asked for is another user's.
NextId(u, asked) ==
    LET own    == {reg[n].id : n \in Owned(u)} \ {1}
        others == {reg[n].id : n \in DOMAIN reg \ Owned(u)} \ {1}
        free   == (VlanStart .. VlanEnd - 1) \ others
    IN  CASE asked = Open /\ own # {}                    -> Min(own)
          [] asked = Open /\ own = {} /\ free # {}       -> Min(free)
          [] asked = Open /\ own = {} /\ free = {}       -> 1
          [] asked \in others /\ u \notin Admins        -> -1
          [] OTHER                                      -> asked

\* overQuotas
Used(u) == Cardinality({n \in Owned(u) : reg[n].ext # NoIp})

\* Mutant of OverQuota: the address that is asked for is not counted.
OverQuotaNow(u, more) == u \notin Admins /\ Quota > 0 /\ Used(u) > Quota

OverQuota(u, more) == u \notin Admins /\ Quota > 0 /\ Used(u) + more > Quota

\* Mutants of NextExternal: the range ends a host too late; only the user's own are reserved.
NextExternalFar(u, n, asked) ==
    {External(h) : h \in ExtStart .. ExtEnd + 1} \ {reg[m].ext : m \in DOMAIN reg \ {n}}

NextExternalOwn(u, n, asked) ==
    IF OverQuota(u, 1) THEN {NoIp} ELSE Externals \ {reg[m].ext : m \in Owned(u) \ {n}}

\* getNextExternalIP: what it may return.  The last of the shuffled hosts is not tried, and
\* the last host of the range is not one that may be asked for.
NextExternal(u, n, asked) ==
    LET reserved == {reg[m].ext : m \in DOMAIN reg \ {n}}
        free     == Externals \ reserved
    IN  IF OverQuota(u, 1) THEN {NoIp}
        ELSE IF asked # NoIp /\ asked # External(ExtEnd)
             THEN {IF asked \in reserved THEN NoIp ELSE asked}
             ELSE free \cup {ip \in {NoIp} : Cardinality(free) <= 1}

\* Mutant of NextInternal: the addresses of IP mappings are not looked at.
NextInternalOnly(u, n, id, asked) ==
    LET taken == {reg[m].int : m \in {m \in Owned(u) : reg[m].type = "internalip"}}
        free  == {h \in 2 .. IntEnd : Internal(id, h) \notin taken}
    IN  IF free # {} THEN Internal(id, Min(free)) ELSE NoIp

\* getNextInternalIP: the address asked for if it is free, else the one the network has; or
\* the first free one of the subnet.  Only the user's own networks are looked at.
NextInternal(u, n, id, asked) ==
    LET taken == {reg[m].int : m \in Owned(u)}
        net   == IF asked = NoIp THEN id ELSE asked[1]
        free  == {h \in 2 .. IntEnd : Internal(net, h) \notin taken}
    IN  IF asked # NoIp /\ asked[2] > 1
        THEN IF asked \notin taken THEN asked
             ELSE IF n \in DOMAIN reg THEN reg[n].int ELSE NoIp
        ELSE IF free # {} THEN Internal(net, Min(free)) ELSE NoIp

\* The address asked for is taken and the network has none: that may be stored as "--",
\* which Save takes for an address.
Dashed(u, n, asked) ==
    /\ asked # NoIp /\ asked[2] > 1
    /\ asked \in {reg[m].int : m \in Owned(u)}
    /\ n \in DOMAIN reg /\ reg[n].int = NoIp

\* Save: the type and addresses it settles for, falling back from what it cannot have.
Addresses(u, n, row) ==
    LET inner(asked) == NextInternal(u, n, row.id, asked)
        outer        == NextExternal(u, n, row.ext)
        With(t, i, e) == [row EXCEPT !.type = t, !.int = i, !.ext = e]
        Kept(t)      == IF inner(row.int) # NoIp THEN {t}
                        ELSE {"gateway"} \cup {k \in {t} : Dashed(u, n, row.int)}
    IN  CASE row.type = "gateway" -> {row}
          [] row.type = "internalip" ->
                 {With(t, inner(row.int), NoIp) : t \in Kept("internalip")}
          [] row.type = "externalip" ->
                 {IF e = NoIp THEN With("internalip", inner(NoIp), NoIp)
                  ELSE With("externalip", NoIp, e) : e \in outer}
          [] row.type = "ipmapping" ->
                 UNION {{With(t, inner(row.int), e) :
                             t \in Kept(IF e = NoIp THEN "internalip" ELSE "ipmapping")} :
                        e \in outer}

-----------------------------------------------------------------------------
(* The kernel *)

\* Addresses are looked for in text, where 10.0.2.2 is also found in 10.0.2.20.
Finds(ip, in) ==
    \/ ip = in
    \/ /\ ip # NoIp /\ in # NoIp
       /\ ip[1] = in[1]
       /\ ip[2] \in {in[2] \div 10, in[2] \div 100}

ExternalIps == {a[2] : a \in alias}

\* The address is on an interface of the engine.
Seen(ip) == \E e \in ExternalIps : Finds(ip, e)

\* validateStatus: what the kernel makes of a network; seen tells if the external address
\* was on an interface when it began.
Status(row, seen) ==
    LET up       == row.id \in vlan
        none     == IF row.id = 1 THEN "nat" ELSE "down"
        Leased(ip) == row.id \in dnsmasq /\ \E l \in leases[row.id] : Finds(ip, l[2])
        Serves(ip) == Leased(ip) \/ row.sys
    IN  CASE row.type = "gateway" -> IF up \/ row.id = 1 THEN "up" ELSE "down"
          [] row.type = "internalip" ->
                 IF ~up THEN none ELSE IF Serves(row.int) THEN "up" ELSE "nat"
          [] row.type = "ipmapping" ->
                 IF ~up THEN none
                 ELSE IF seen /\ Serves(row.int) THEN "up" ELSE "nat"
          [] row.type = "externalip" ->
                 IF <<row.id, row.ext>> \notin proxied THEN none
                 ELSE IF Serves(row.ext) THEN "up"
                 ELSE IF ~row.dom THEN "nat" ELSE "down"

\* The type validateStatus takes a network to be of, by its addresses.
TypeOf(row) ==
    CASE row.type = "gateway"                   -> "gateway"
      [] row.type # "gateway" /\ row.int # NoIp /\ row.ext # NoIp -> "ipmapping"
      [] row.type # "gateway" /\ row.int # NoIp /\ row.ext = NoIp -> "internalip"
      [] row.type # "gateway" /\ row.int = NoIp /\ row.ext # NoIp -> "externalip"
      [] OTHER                                  -> "gateway"

\* removeDHCPAddress: the leases of the address and of the server are released, all others
\* are kept; without any lease left the DHCP server is taken down.
Release(v, ip, servers) ==
    LET kept == {l \in leases[v] : ~Finds(ip, l[2]) /\ l[1] \notin servers}
    IN  /\ leases' = [leases EXCEPT ![v] = kept]
        /\ dnsmasq' = IF kept = {} THEN dnsmasq \ {v} ELSE dnsmasq

\* Mutant of Unconfigure: the alias is left.
UnconfigureRules(row, servers) ==
    /\ dnat' = [e \in Externals |-> IF e = row.ext THEN {} ELSE dnat[e]]
    /\ UNCHANGED <<vlan, alias, proxied, leases, dnsmasq>>

\* Deactivate: the forwarding, the route and the lease of a network go; servers are those
\* the request finds attached to it.  A server is known by its network.
Unconfigure(row, servers) ==
    /\ LET mapped == row.type = "ipmapping" /\ row.int # NoIp /\ Seen(row.ext)
       IN  /\ alias' = IF mapped THEN alias \ {<<row.id, row.ext>>} ELSE alias
           /\ dnat' = IF mapped THEN [dnat EXCEPT ![row.ext] = @ \ {row.int}] ELSE dnat
    /\ proxied' = IF row.type = "externalip" THEN proxied \ {<<row.id, row.ext>>} ELSE proxied
    /\ \/ /\ row.type \in {"internalip", "ipmapping"}
          /\ Release(row.id, row.int, servers)
       \/ /\ row.type = "externalip" /\ servers # {}
          /\ Release(row.id, row.ext, servers)
       \/ /\ row.type = "gateway" \/ (row.type = "externalip" /\ servers = {})
          /\ UNCHANGED <<leases, dnsmasq>>
    /\ UNCHANGED vlan

\* An external address stays forwarded as it was when its network is changed or removed.
Stray(ip) ==
    strays' = strays \cup {e \in {ip} : e # NoIp /\ (e \in ExternalIps \/ dnat[e] # {})}

\* What the forwarding of a network depends on.
Differ(row, other) == \E f \in {"id", "type", "int", "ext"} : row[f] # other[f]

-----------------------------------------------------------------------------
(* Saving *)

\* getObj, then Save: a new network, or a change of one there is.
SaveNew(p) ==
    /\ Request("save")
    /\ \E u \in Users, n \in Nets, asked \in IdAsked \cup {Open}, type \in TypesAsked, sys \in Links,
         i \in IntAsked \cup {Open}, e \in ExtAsked \cup {Open} :
           /\ n \notin DOMAIN reg
           /\ \A q \in Procs : job[q].pc # "idle" => job[q].net # n
           /\ NextId(u, asked) > 1
           /\ Become(p, Job("allocate", u, n,
                  [user |-> u, id |-> NextId(u, asked), type |-> type,
                   int |-> IF i = Open THEN NoIp ELSE Internal(NextId(u, asked), i),
                   ext |-> IF e = Open THEN NoIp ELSE External(e),
                   sys |-> sys, dom |-> FALSE, status |-> "new"]))
    /\ UNCHANGED <<reg, attached, kernelVars, strays>>

SaveOld(p) ==
    /\ Request("save")
    /\ \E u \in Users, n \in DOMAIN reg, type \in TypesAsked, sys \in Links,
         i \in IntAsked \cup {Open}, e \in ExtAsked \cup {Open} :
           /\ reg[n].id > 1
           /\ Become(p, Job("allocate", u, n,
                  [reg[n] EXCEPT !.type = type, !.sys = @ \/ sys,
                                 !.int = IF i = Open THEN @ ELSE Internal(reg[n].id, i),
                                 !.ext = IF e = Open THEN @ ELSE External(e)]))
    /\ UNCHANGED <<reg, attached, kernelVars, strays>>

\* Mutant of Allocate: the id is not looked at again.
AllocateOnce(p) ==
    /\ job[p].pc = "allocate"
    /\ \E picked \in Addresses(job[p].user, job[p].net, job[p].row) :
           Become(p, [job[p] EXCEPT !.pc = "write", !.row = picked])
    /\ UNCHANGED <<reg, attached, kernelVars, boundVars, strays>>

\* Save looks at the register again, at the id first, and picks.  What is left out, as the
\* name, may always have changed.
Allocate(p) ==
    /\ job[p].pc = "allocate"
    /\ LET j   == job[p]
           n   == j.net
           row == [j.row EXCEPT
                      !.user = j.user,
                      !.id = IF n \in DOMAIN reg THEN reg[n].id ELSE NextId(j.user, @),
                      !.status = IF n \in DOMAIN reg /\ reg[n].status # ""
                                 THEN reg[n].status ELSE @]
           allowed ==
               /\ row.id > 1 \/ (row.id = 1 /\ j.user \notin Admins)
               /\ n \in DOMAIN reg => May(j.user, n) /\ row.status # "new"
               /\ \/ j.user \in Admins
                  \/ \A m \in DOMAIN reg : reg[m].id = row.id => reg[m].user = j.user
               /\ row.status \in {"down", "nat", "new"}
       IN  \/ /\ allowed
              /\ \E picked \in Addresses(j.user, n, row) :
                     Become(p, [j EXCEPT !.pc = "write", !.row = picked])
           \/ /\ ~allowed
              /\ Become(p, Idle)
    /\ UNCHANGED <<reg, attached, kernelVars, boundVars, strays>>

\* The row is stored, all but its status and its server, and there may be none to replace.
Write(p) ==
    /\ job[p].pc = "write"
    /\ LET j   == job[p]
           n   == j.net
           old == n \in DOMAIN reg
       IN  /\ reg' = Put(n, [j.row EXCEPT !.status = IF old THEN reg[n].status ELSE "",
                                          !.dom = old /\ reg[n].dom])
           /\ IF old /\ Differ(reg[n], j.row) THEN Stray(reg[n].ext) ELSE UNCHANGED strays
           /\ Wrote(p, n, IF j.row.status = "new" THEN [j EXCEPT !.pc = "validate"] ELSE Idle)
    /\ UNCHANGED <<attached, kernelVars, boundVars>>

-----------------------------------------------------------------------------
(* validateStatus *)

\* The status is set to down first and to what was found afterwards.
Validate(p) ==
    /\ job[p].pc = "validate"
    /\ LET j == job[p]
           n == j.net
       IN  \/ /\ n \in DOMAIN reg
              /\ LET t   == TypeOf(reg[n])
                     row == [reg[n] EXCEPT
                                !.type = t, !.status = "down",
                                !.int = IF reg[n].type = "gateway" /\ reg[n].id > 1
                                        THEN Internal(reg[n].id, 1) ELSE @,
                                !.dom = n \in attached /\ reg[n].user = j.user]
                 IN  /\ reg' = Put(n, row)
                     /\ IF row.int # reg[n].int THEN Stray(row.ext) ELSE UNCHANGED strays
                     /\ Become(p, [j EXCEPT !.pc = "settle", !.row = row, !.seen = Seen(row.ext)])
           \/ /\ n \notin DOMAIN reg
              /\ Become(p, IF j.then = "idle" THEN Idle ELSE [j EXCEPT !.pc = j.then])
              /\ UNCHANGED <<reg, strays>>
    /\ UNCHANGED <<attached, kernelVars, boundVars>>

Settle(p) ==
    /\ job[p].pc = "settle"
    /\ LET j == job[p]
           s == Status(j.row, j.seen)
       IN  /\ reg' = IF j.net \in DOMAIN reg /\ s # "down"
                     THEN Put(j.net, [reg[j.net] EXCEPT !.status = s]) ELSE reg
           /\ Become(p, IF j.then = "idle" THEN Idle ELSE [j EXCEPT !.pc = j.then])
    /\ UNCHANGED <<attached, kernelVars, boundVars, strays>>

\* do_list
List(p) ==
    /\ Request("list")
    /\ \E u \in Users : \E n \in {m \in DOMAIN reg : May(u, m)} :
           Become(p, Job("validate", u, n, reg[n]))
    /\ UNCHANGED <<reg, attached, kernelVars, strays>>

-----------------------------------------------------------------------------
(* Activate, Deactivate, Stop and Remove *)

Activate(p) ==
    /\ Privileged("activate")
    /\ \E u \in Users : \E n \in {m \in DOMAIN reg : May(u, m)} :
           /\ reg[n].id > 1
           /\ ~OverQuota(u, 0)
           /\ reg[n].status \in {"down", "nat"}
           /\ Become(p, [Job("configure", u, n, reg[n]) EXCEPT
                            !.seen = reg[n].ext \in ExternalIps, !.root = TRUE])
    /\ UNCHANGED <<reg, attached, kernelVars, strays>>

\* An alias that is there already is taken to be configured; one that cannot be added is an
\* error that is noticed after all rules are in place, and validateStatus is not called.
Configure(p) ==
    /\ job[p].pc = "configure"
    /\ LET j      == job[p]
           row    == j.row
           n      == j.net
           maps   == row.type = "ipmapping" /\ row.int # NoIp /\ row.ext # NoIp /\ ~j.seen
           served == row.dom /\ row.type # "gateway"
           stale  == n \notin DOMAIN reg \/ Differ(reg[n], row)
       IN  /\ vlan' = vlan \cup {row.id}
           /\ leases' = IF served
                        THEN [leases EXCEPT ![row.id] =
                                 {l \in @ : l[1] # n} \cup
                                 {<<n, IF row.type = "externalip" THEN row.ext ELSE row.int>>}]
                        ELSE leases
           /\ dnsmasq' = IF served THEN dnsmasq \cup {row.id} ELSE dnsmasq
           /\ dnat' = IF maps THEN [dnat EXCEPT ![row.ext] = @ \cup {row.int}] ELSE dnat
           /\ proxied' = IF row.type = "externalip" /\ \A r \in proxied : ~Finds(row.ext, r[2])
                         THEN proxied \cup {<<row.id, row.ext>>} ELSE proxied
           /\ \/ /\ alias' = IF maps THEN alias \cup {<<row.id, row.ext>>} ELSE alias
                 /\ strays' = strays \cup {e \in {row.ext} : stale /\ maps}
                 /\ Become(p, [j EXCEPT !.pc = "validate"])
                 /\ UNCHANGED boundVars
              \/ /\ maps
                 /\ Fault
                 /\ strays' = strays \cup {row.ext}
                 /\ Become(p, Idle)
                 /\ UNCHANGED alias
    /\ UNCHANGED <<reg, attached>>

\* Whatever the status of the network is: the variable that is tested is not set.
Deactivate(p) ==
    /\ Privileged("deactivate")
    /\ \E u \in Users : \E n \in {m \in DOMAIN reg : May(u, m)} :
           /\ reg[n].id > 1
           /\ Unconfigure(reg[n], Servers(u, n))
           /\ Become(p, [Job("validate", u, n, reg[n]) EXCEPT !.root = TRUE])
    /\ UNCHANGED <<reg, attached, strays>>

\* Stop deactivates the user's networks of the VLAN one by one, then takes the VLAN down.
Stop(p) ==
    /\ Privileged("stop")
    /\ \E u \in Users : \E n \in {m \in DOMAIN reg : May(u, m)} :
           Become(p, [Job("stop", u, n, reg[n]) EXCEPT !.todo = Owned(u),
                                                                 !.root = TRUE])
    /\ UNCHANGED <<reg, attached, kernelVars, strays>>

StopOne(p) ==
    /\ job[p].pc = "stop"
    /\ \E n \in job[p].todo :
           LET j    == [job[p] EXCEPT !.todo = @ \ {n}]
               mine == /\ n \in Owned(j.user)
                       /\ reg[n].id = j.row.id
                       /\ reg[n].type # "gateway"
           IN  \/ /\ mine
                  /\ Unconfigure(reg[n], Servers(j.user, n))
                  /\ Become(p, [j EXCEPT !.pc = "validate", !.net = n, !.then = "stop"])
               \/ /\ ~mine
                  /\ Become(p, j)
                  /\ UNCHANGED kernelVars
    /\ UNCHANGED <<reg, attached, boundVars, strays>>

TakeDown(p) ==
    /\ job[p].pc = "stop"
    /\ job[p].todo = {}
    /\ vlan' = vlan \ {job[p].row.id}
    /\ proxied' = {r \in proxied : r[1] # job[p].row.id}
    /\ Become(p, Idle)
    /\ UNCHANGED <<reg, attached, alias, dnat, leases, dnsmasq, boundVars, strays>>

\* Remove: a network without a server may go, in any status if it has no system or if that
\* is forced.
Removable(u, n, forced) ==
    /\ n \in DOMAIN reg
    /\ reg[n].id > 1
    /\ Servers(u, n) = {}
    /\ \/ ~(reg[n].sys /\ reg[n].user = u) \/ forced
       \/ reg[n].status \in {"down", "nat"}
       \/ reg[n].type = "internalip"

\* Without the rights to do more, a web request removes the row only.
Remove ==
    /\ Request("remove")
    /\ \E u \in Users, forced \in BOOLEAN : \E n \in {m \in DOMAIN reg : May(u, m)} :
           /\ Removable(u, n, forced)
           /\ Stray(reg[n].ext)
           /\ reg' = Drop(n)
           /\ job' = Noticed(n)
    /\ UNCHANGED <<attached, kernelVars>>

\* systems.cgi: a network of a system that is removed is deactivated and then removed.
RemoveSystem(p) ==
    /\ Privileged("removesystem")
    /\ \E u \in Users : \E n \in {m \in Owned(u) : reg[m].sys} :
           /\ reg[n].id > 1
           /\ Unconfigure(reg[n], Servers(u, n))
           /\ Become(p, [Job("validate", u, n, reg[n]) EXCEPT !.root = TRUE, !.then = "remove"])
    /\ UNCHANGED <<reg, attached, strays>>

\* The network is among those that keep its VLAN up.
Discard(p) ==
    /\ job[p].pc = "remove"
    /\ LET u == job[p].user
           n == job[p].net
       IN  \/ /\ Removable(u, n, TRUE)
              /\ LET row == reg[n]
                 IN  /\ IF row.type = "gateway" THEN UNCHANGED <<leases, dnsmasq>>
                        ELSE Release(row.id, IF row.type = "externalip" THEN row.ext
                                             ELSE row.int, {})
                     /\ vlan' = vlan \ {v \in {row.id} :
                                    row.status = "nat" /\ \A m \in Owned(u) : reg[m].id # v}
                     /\ proxied' = {r \in proxied : r[1] \in vlan'}
                     /\ Stray(row.ext)
              /\ reg' = Drop(n)
              /\ Wrote(p, n, Idle)
           \/ /\ ~Removable(u, n, TRUE)
              /\ Become(p, Idle)
              /\ UNCHANGED <<reg, vlan, proxied, leases, dnsmasq, strays>>
    /\ UNCHANGED <<attached, alias, dnat, boundVars>>

\* servers.cgi Save: a server is given a network of its user, or another one.
Attach ==
    /\ Request("attach")
    /\ \E n \in DOMAIN reg \ attached :
           /\ attached' = attached \cup {n}
           /\ reg' = Put(n, [reg[n] EXCEPT !.dom = TRUE])
    /\ UNCHANGED <<job, kernelVars, strays>>

Detach ==
    /\ Request("detach")
    /\ \E n \in DOMAIN reg \cap attached :
           /\ attached' = attached \ {n}
           /\ reg' = Put(n, [reg[n] EXCEPT !.dom = FALSE])
    /\ UNCHANGED <<job, kernelVars, strays>>

\* servers.cgi Save: a server moves to another account with its network.  That gets the
\* first VLAN of the account, or a free one, then its new owner, then an address; what is
\* picked is written a while later.  For the history, others that share the VLAN of the
\* account already count as written meanwhile.
Move(p) ==
    /\ Request("move")
    /\ \E n \in DOMAIN reg \cap attached, u \in Users :
           LET id     == NextId(u, Open)
               others == {m \in DOMAIN reg \ {n} :
                             /\ reg[m].id = id /\ reg[m].user # u
                             /\ \E k \in Owned(u) : reg[k].id = id}
           IN  /\ u # reg[n].user
               /\ reg[n].type # "gateway"
               /\ Become(p, [Job("moveid", u, n, reg[n]) EXCEPT
                                !.newid = id, !.during = others, !.then = "readdress"])
    /\ UNCHANGED <<reg, attached, kernelVars, strays>>

MoveId(p) ==
    /\ job[p].pc = "moveid"
    /\ LET j == job[p]
           n == j.net
       IN  /\ reg' = [m \in DOMAIN reg |->
                         IF m = n THEN [reg[m] EXCEPT !.id = j.newid] ELSE reg[m]]
           /\ Stray(IF n \in DOMAIN reg THEN reg[n].ext ELSE NoIp)
           /\ Wrote(p, n, [j EXCEPT !.pc = "moveuser"])
    /\ UNCHANGED <<attached, kernelVars, boundVars>>

\* Deactivate has no rights here, and calls validateStatus unless there is a dhcp-hosts
\* file that it cannot write.
MoveUser(p) ==
    /\ job[p].pc = "moveuser"
    /\ LET j == job[p]
           n == j.net
       IN  /\ reg' = [m \in DOMAIN reg |->
                         IF m = n THEN [reg[m] EXCEPT !.user = j.user] ELSE reg[m]]
           /\ \E pc \in {"validate", "readdress"} : Wrote(p, n, [j EXCEPT !.pc = pc])
    /\ UNCHANGED <<attached, kernelVars, boundVars, strays>>

\* Mutant of Readdress: the address is picked among those of the old owner.
ReaddressOld(p) ==
    /\ job[p].pc = "readdress"
    /\ LET j == job[p]
       IN  Become(p, [j EXCEPT !.pc = "moveint", !.during = {},
                               !.row.int = NextInternal(j.row.user, j.net, j.newid, NoIp)])
    /\ UNCHANGED <<reg, attached, kernelVars, boundVars, strays>>

Readdress(p) ==
    /\ job[p].pc = "readdress"
    /\ LET j == job[p]
       IN  Become(p, [j EXCEPT !.pc = "moveint", !.during = {},
                               !.row.int = NextInternal(j.user, j.net, j.newid, NoIp)])
    /\ UNCHANGED <<reg, attached, kernelVars, boundVars, strays>>

MoveInt(p) ==
    /\ job[p].pc = "moveint"
    /\ LET j == job[p]
           n == j.net
       IN  /\ reg' = [m \in DOMAIN reg |->
                         IF m = n THEN [reg[m] EXCEPT !.int = j.row.int] ELSE reg[m]]
           /\ Stray(IF n \in DOMAIN reg THEN reg[n].ext ELSE NoIp)
           /\ Wrote(p, n, Idle)
    /\ UNCHANGED <<attached, kernelVars, boundVars>>

\* The engine restarts: the registers and the dhcp-hosts files are what is left.
Reboot ==
    /\ Fault
    /\ job' = [p \in Procs |-> Idle]
    /\ vlan' = {}
    /\ alias' = {}
    /\ dnat' = [e \in Externals |-> {}]
    /\ proxied' = {}
    /\ dnsmasq' = {}
    /\ strays' = {}
    /\ UNCHANGED <<reg, attached, leases>>

\* A process that is idle takes the next request.
Serve(p) ==
    /\ job[p].pc = "idle"
    /\ \/ SaveNew(p) \/ SaveOld(p) \/ List(p) \/ Activate(p) \/ Deactivate(p) \/ Stop(p)
       \/ RemoveSystem(p) \/ Move(p)

Proceed(p) ==
    \/ Allocate(p) \/ Write(p) \/ Validate(p) \/ Settle(p) \/ Configure(p)
    \/ StopOne(p) \/ TakeDown(p) \/ Discard(p)
    \/ MoveId(p) \/ MoveUser(p) \/ Readdress(p) \/ MoveInt(p)

Next ==
    \/ \E p \in Procs : Serve(p) \/ Proceed(p)
    \/ Remove \/ Attach \/ Detach
    \/ Reboot

Spec == Init /\ [][Next]_vars

-----------------------------------------------------------------------------
(* Properties *)

Jobs ==
    [pc : {"allocate", "write", "validate", "settle", "configure", "stop", "remove",
           "moveid", "moveuser", "readdress", "moveint"},
     user : Users, net : Nets, row : Rows(Statuses \cup {"new"}), seen : BOOLEAN,
     then : {"idle", "stop", "remove", "readdress"}, todo : SUBSET Nets,
     newid : Vlans, during : SUBSET Nets, root : BOOLEAN]

\* Every row has an owner, an id a VLAN may have and known addresses; no process is at an
\* unknown step; leases, aliases and routes are of known VLANs.
TypeOK ==
    /\ DOMAIN reg \subseteq Nets
    /\ reg \in [DOMAIN reg -> Rows(Statuses)]
    /\ attached \subseteq Nets
    /\ job \in [Procs -> {Idle} \cup Jobs]
    /\ vlan \subseteq Vlans
    /\ alias \subseteq Vlans \X Externals
    /\ dnat \in [Externals -> SUBSET Internals]
    /\ proxied \subseteq Vlans \X Externals
    /\ leases \in [Vlans -> SUBSET (Nets \X (Internals \cup Externals \cup {NoIp}))]
    /\ dnsmasq \subseteq Vlans
    /\ requests \in 0 .. MaxRequests
    /\ faults \in 0 .. MaxFaults
    /\ strays \subseteq Externals

\* What two networks must not share: a VLAN if they have different owners, an external
\* address, an internal address if they have the same owner.
\* A gateway is saved with the addresses it is given, and does not use them.
Connected == {n \in DOMAIN reg : reg[n].type # "gateway"}

\* The networks that have got the VLAN of an account and not yet its owner; they count as
\* no one's.
InTransit == {job[p].net : p \in {q \in Procs : job[q].pc = "moveuser"}}

\* Id 1 stands for none: a server that is moved keeps it when no VLAN is left.
SharedVlans ==
    {reg[n].id : n \in {n \in DOMAIN reg \ InTransit : \E m \in DOMAIN reg \ InTransit :
                            reg[m].id = reg[n].id /\ reg[m].user # reg[n].user}} \ {1}

SharedExternals ==
    {reg[n].ext : n \in {n \in Connected : \E m \in Connected \ {n} :
                             reg[m].ext = reg[n].ext}} \ {NoIp}

SharedInternals ==
    {reg[n].int : n \in {n \in Connected : \E m \in Connected \ {n} :
                             reg[m].int = reg[n].int /\ reg[m].user = reg[n].user}} \ {NoIp}

\* The process that writes its pick in this step; what others wrote while it picked, and
\* whether that, or what they removed, is the network it writes.
Writing(p) == job[p].pc = "write" /\ job'[p].pc # "write"
Raced(p)   == job[p].during \cap DOMAIN reg
Overtaken(p) == job[p].net \in job[p].during

\* The process that gives a network to another user in this step, or would have if a reboot
\* did not cut it short.
Giving(p) == job[p].pc = "moveuser" /\ job'[p].pc \notin {"moveuser", "idle"}
Cut(p)    == job[p].pc = "moveuser" /\ job'[p].pc = "idle"

\* Two users come to share a VLAN only when one saves or is given a network while another
\* request writes one with that VLAN, be it the same network, when an administrator wants
\* it so, or when a reboot comes between the two writes of a move: the search for an id and
\* the check of it keep users apart otherwise (getNextId, Save).
VlansApart ==
    [][\A v \in SharedVlans' \ SharedVlans : \E p \in Procs :
           \/ Writing(p) /\ job[p].user \in Admins
           \/ (Writing(p) \/ Giving(p)) /\ \E m \in Raced(p) : reg[m].id = v
           \/ Cut(p) /\ \E m \in {job[p].net} \cap DOMAIN reg : reg[m].id = v]_vars

\* An external address is given to two networks only by saves that overlap.
ExternalsApart ==
    [][\A e \in SharedExternals' \ SharedExternals : \E p \in Procs :
           Writing(p) /\ \E m \in Raced(p) : reg[m].ext = e]_vars

\* The process that gives a network of its user another internal address in this step, and
\* whether the network has gone to yet another user.
Readdressing(p) == job[p].pc = "moveint" /\ job'[p].pc # "moveint"
MovedOn(p)      == job[p].net \in DOMAIN reg /\ reg[job[p].net].user # job[p].user

\* A save that turns a gateway into something else, or another user's network into one's own.
Converting(p) ==
    /\ Writing(p)
    /\ job[p].net \in DOMAIN reg
    /\ job[p].net \notin Connected \/ reg[job[p].net].user # job[p].user

\* A user gets an internal address for two networks only by saves and moves that overlap,
\* with a server that is moved to the account, by a move that another one overtakes, or when
\* a network that was a gateway or was another user's keeps the address it had.
InternalsApart ==
    [][\A i \in SharedInternals' \ SharedInternals : \E p \in Procs :
           \/ Writing(p) /\ (Overtaken(p) \/ \E m \in Raced(p) : reg[m].int = i)
           \/ Converting(p)
           \/ Giving(p)
           \/ Readdressing(p) /\ (MovedOn(p) \/ \E m \in Raced(p) : reg[m].int = i)]_vars

Served(u) == {n \in Owned(u) \cap Connected : reg[n].ext # NoIp}

\* A user comes to have more external addresses than the quota only by saves that overlap
\* or with a server that is moved to the account.
QuotaKept ==
    [][\A u \in Users \ Admins : Quota > 0 /\ Cardinality(Served(u)') > Quota
               /\ Cardinality(Served(u)) <= Quota =>
           \E p \in Procs :
               \/ Writing(p) /\ Raced(p) \cap Owned(u) # {}
               \/ Giving(p)]_vars

\* While an interface of the engine has the external address of an IP mapping, it leads to
\* its internal address alone, unless it was left behind when a network was changed, moved or
\* removed, or two networks have it.
Routed(e) ==
    \A n \in DOMAIN reg :
        reg[n].type = "ipmapping" /\ reg[n].ext = e /\ e \in ExternalIps
        => dnat[e] = {reg[n].int}

RoutedUnlessLeft == \A e \in Externals \ (strays \cup SharedExternals) : Routed(e)
=============================================================================

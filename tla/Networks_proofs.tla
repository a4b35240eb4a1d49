----------------------------- MODULE Networks_proofs -----------------------------
(***************************************************************************)
(* Theorems about the networks register, for any number of users, of       *)
(* networks and of processes.  What the picks of getNextId,                *)
(* getNextExternalIP and getNextInternalIP promise is an invariant of the  *)
(* processes between a pick and its write; that it still holds when they   *)
(* write, unless another process wrote in between, is what keeps VLANs,    *)
(* addresses and quotas apart.                                             *)
(***************************************************************************)
EXTENDS Networks, FiniteSetTheorems, TLAPS

-----------------------------------------------------------------------------
(* Ids and addresses *)

LEMMA SmallestOne ==
    ASSUME NEW S \in SUBSET Nat, S # {}
    PROVE  Min(S) \in S
<1> DEFINE R == OpToRel(<, Nat)
<1>1. \A y, z \in Nat : y < z => <<y, z>> \in R
  BY Zenon DEF OpToRel
<1> HIDE DEF R
<1>2. PICK x \in S : \A y \in S : ~(<<y, x>> \in R)
  BY NatLessThanWellFounded, WFMin DEF R
<1>3. ASSUME NEW y \in S PROVE x <= y
  <2>1. ~(y < x)
    BY <1>1, <1>2
  <2>2. x \in Nat /\ y \in Nat
    OBVIOUS
  <2> QED
    BY <2>1, <2>2
<1> QED
  BY <1>3 DEF Min

LEMMA NoIpIsNone ==
    /\ NoIp \notin Internals /\ NoIp \notin Externals
    /\ \A v \in Vlans : v \in Nat /\ v # 0
    /\ \A e \in Externals : e[1] = 0 /\ e[2] \in Nat
<1>1. \A v, h : Internal(v, h) # NoIp /\ External(h) # NoIp
  BY DEF Internal, External, NoIp
<1>2. \A e \in Externals : e[1] = 0 /\ e[2] \in Nat
  BY NetworksAssumption DEF Externals, External
<1> QED
  BY <1>1, <1>2, NetworksAssumption DEF Internals, Externals, Vlans

LEMMA InternalIn ==
    ASSUME NEW v \in Vlans, NEW h \in 1 .. IntEnd
    PROVE  Internal(v, h) \in Internals
BY DEF Internals

\* The rows of registered networks.
LEMMA Registered ==
    ASSUME TypeOK, NEW n \in DOMAIN reg
    PROVE  /\ reg[n] \in Rows(Statuses)
           /\ reg[n].user \in Users /\ reg[n].id \in Vlans /\ reg[n].type \in Types
           /\ reg[n].int \in Internals \cup {NoIp} /\ reg[n].ext \in Externals \cup {NoIp}
           /\ n \in Nets
<1>1. reg[n] \in Rows(Statuses) /\ n \in Nets
  BY DEF TypeOK
<1> QED
  BY <1>1 DEF Rows

\* getNextId returns an id a VLAN may have, unless it refuses.
LEMMA NextIdIn ==
    ASSUME TypeOK, NEW u \in Users, NEW asked \in Vlans \cup {Open}
    PROVE  NextId(u, asked) \in Vlans \cup {-1}
<1> DEFINE own    == {reg[n].id : n \in Owned(u)} \ {1}
           others == {reg[n].id : n \in DOMAIN reg \ Owned(u)} \ {1}
           free   == (VlanStart .. VlanEnd - 1) \ others
<1>1. own \subseteq Vlans
  BY Registered DEF Owned
<1>2. free \subseteq Vlans
  BY NetworksAssumption DEF Vlans
<1>3. Vlans \subseteq Nat
  BY NoIpIsNone
<1>4. own # {} => Min(own) \in Vlans
  BY <1>1, <1>3, SmallestOne
<1>5. free # {} => Min(free) \in Vlans
  BY <1>2, <1>3, SmallestOne
<1>6. 1 \in Vlans
  BY DEF Vlans
<1>7. asked \in others => asked # Open
  BY <1>3, Registered, NoIpIsNone DEF Open
<1>8. NextId(u, asked) = CASE asked = Open /\ own # {}              -> Min(own)
                           [] asked = Open /\ own = {} /\ free # {} -> Min(free)
                           [] asked = Open /\ own = {} /\ free = {} -> 1
                           [] asked \in others /\ u \notin Admins   -> -1
                           [] OTHER                                 -> asked
  BY DEF NextId
<1> HIDE DEF own, others, free
<1>9. CASE asked = Open
  BY <1>4, <1>5, <1>6, <1>7, <1>8, <1>9
<1>10. CASE asked # Open
  BY <1>7, <1>8, <1>10
<1> QED
  BY <1>9, <1>10

LEMMA NextIdGiven == ASSUME TypeOK, NEW u \in Users PROVE NextId(u, Open) \in Vlans
<1>1. Open \in Vlans \cup {Open}
  OBVIOUS
<1>2. \A n \in DOMAIN reg : reg[n].id # Open
  BY Registered, NoIpIsNone DEF Open
<1>3. NextId(u, Open) # -1
  <2> DEFINE own    == {reg[n].id : n \in Owned(u)} \ {1}
             others == {reg[n].id : n \in DOMAIN reg \ Owned(u)} \ {1}
             free   == (VlanStart .. VlanEnd - 1) \ others
  <2>1. NextId(u, Open) = CASE own # {}              -> Min(own)
                            [] own = {} /\ free # {} -> Min(free)
                            [] own = {} /\ free = {} -> 1
    BY <1>2 DEF NextId
  <2>2. own \subseteq Nat /\ free \subseteq Nat
    BY Registered, NoIpIsNone, NetworksAssumption DEF Owned
  <2>3. own # {} => Min(own) \in Nat
    BY <2>2, SmallestOne
  <2>4. free # {} => Min(free) \in Nat
    BY <2>2, SmallestOne
  <2> HIDE DEF own, others, free
  <2> QED
    BY <2>1, <2>3, <2>4
<1> QED
  BY <1>1, <1>3, NextIdIn

\* getNextInternalIP returns an address of an internal subnet, or none; one that the user
\* does not have yet, or that of the network itself.
LEMMA NextInternalIn ==
    ASSUME TypeOK, NEW u \in Users, NEW n, NEW id \in Vlans, NEW asked \in Internals \cup {NoIp}
    PROVE  /\ NextInternal(u, n, id, asked) \in Internals \cup {NoIp}
           /\ \/ NextInternal(u, n, id, asked) = NoIp
              \/ \A m \in Owned(u) : reg[m].int # NextInternal(u, n, id, asked)
              \/ asked # NoIp /\ n \in DOMAIN reg /\ NextInternal(u, n, id, asked) = reg[n].int
<1> DEFINE taken == {reg[m].int : m \in Owned(u)}
           net   == IF asked = NoIp THEN id ELSE asked[1]
           free  == {h \in 2 .. IntEnd : Internal(net, h) \notin taken}
           i     == NextInternal(u, n, id, asked)
<1>1. net \in Vlans
  BY DEF Internals, Internal
<1>2. free \subseteq 1 .. IntEnd /\ 1 .. IntEnd \subseteq Nat
  BY NetworksAssumption
<1>3. free # {} => Min(free) \in free
  BY <1>2, SmallestOne
<1>4. i = IF asked # NoIp /\ asked[2] > 1
          THEN IF asked \notin taken THEN asked
               ELSE IF n \in DOMAIN reg THEN reg[n].int ELSE NoIp
          ELSE IF free # {} THEN Internal(net, Min(free)) ELSE NoIp
  BY DEF NextInternal
<1>5. n \in DOMAIN reg => reg[n].int \in Internals \cup {NoIp}
  BY Registered
<1> HIDE DEF i
<1>6. CASE asked # NoIp /\ asked[2] > 1
  <2>1. CASE asked \notin taken
    BY <1>4, <1>6, <2>1 DEF i
  <2>2. CASE asked \in taken
    BY <1>4, <1>5, <1>6, <2>2 DEF i
  <2> QED
    BY <2>1, <2>2
<1>7. CASE ~(asked # NoIp /\ asked[2] > 1)
  <2>1. CASE free # {}
    <3>1. i = Internal(net, Min(free)) /\ Internal(net, Min(free)) \notin taken
      BY <1>3, <1>4, <1>7, <2>1
    <3>2. i \in Internals
      BY <1>1, <1>2, <1>3, <2>1, <3>1, InternalIn
    <3> HIDE DEF free, net
    <3> QED
      BY <3>1, <3>2 DEF i
  <2>2. CASE free = {}
    BY <1>4, <1>7, <2>2 DEF i
  <2> QED
    BY <2>1, <2>2
<1> QED
  BY <1>6, <1>7 DEF i

\* getNextExternalIP returns an address of the range, or none; one that no other network
\* has, and only within the quota.
LEMMA NextExternalIn ==
    ASSUME TypeOK, NEW u \in Users, NEW n, NEW asked \in Externals \cup {NoIp},
           NEW e \in NextExternal(u, n, asked)
    PROVE  /\ e \in Externals \cup {NoIp}
           /\ e # NoIp => /\ ~OverQuota(u, 1)
                          /\ \A m \in DOMAIN reg \ {n} : reg[m].ext # e
BY DEF NextExternal

\* Save keeps the id of a network and gives it addresses of the right kind.
LEMMA AddressesIn ==
    ASSUME TypeOK, NEW u \in Users, NEW n, NEW S, NEW row \in Rows(S),
           NEW r \in Addresses(u, n, row)
    PROVE  /\ r \in Rows(S)
           /\ r.user = row.user /\ r.id = row.id /\ r.status = row.status
           /\ r.type = "externalip" => r.ext # NoIp
           /\ r.type # "gateway" /\ r.ext # NoIp =>
                  /\ ~OverQuota(u, 1)
                  /\ \A m \in DOMAIN reg \ {n} : reg[m].ext # r.ext
           /\ r.type # "gateway" /\ r.int # NoIp =>
                  \/ \A m \in Owned(u) : reg[m].int # r.int
                  \/ n \in DOMAIN reg /\ r.int = reg[n].int
<1>1. /\ row.id \in Vlans /\ row.type \in Types
      /\ row.int \in Internals \cup {NoIp} /\ row.ext \in Externals \cup {NoIp}
  BY DEF Rows
<1> DEFINE With(t, i, e) == [row EXCEPT !.type = t, !.int = i, !.ext = e]
<1>2. ASSUME NEW t \in Types, NEW i \in Internals \cup {NoIp}, NEW e \in Externals \cup {NoIp}
      PROVE  /\ With(t, i, e) \in Rows(S)
             /\ With(t, i, e).user = row.user /\ With(t, i, e).id = row.id
             /\ With(t, i, e).status = row.status
             /\ With(t, i, e).type = t /\ With(t, i, e).int = i /\ With(t, i, e).ext = e
  BY DEF Rows
<1> HIDE DEF With
<1>3. /\ NextInternal(u, n, row.id, row.int) \in Internals \cup {NoIp}
      /\ NextInternal(u, n, row.id, NoIp) \in Internals \cup {NoIp}
      /\ \A e \in NextExternal(u, n, row.ext) : e \in Externals \cup {NoIp}
  BY <1>1, NextInternalIn, NextExternalIn
<1>4. \/ row.type = "gateway" /\ r = row
      \/ \E t \in Types \ {"externalip"}, a \in {row.int, NoIp} :
             r = With(t, NextInternal(u, n, row.id, a), NoIp)
      \/ \E e \in NextExternal(u, n, row.ext) \ {NoIp} :
             r = With("externalip", NoIp, e)
      \/ \E t \in Types \ {"externalip"}, e \in NextExternal(u, n, row.ext) :
             r = With(t, NextInternal(u, n, row.id, row.int), e)
  <2>1. CASE row.type = "gateway"
    BY <2>1 DEF Addresses
  <2>2. CASE row.type = "internalip"
    BY <2>2 DEF Addresses, With, Types
  <2>3. CASE row.type = "externalip"
    BY <2>3 DEF Addresses, With, Types
  <2>4. CASE row.type = "ipmapping"
    <3> DEFINE i == NextInternal(u, n, row.id, row.int)
               K(t) == IF i # NoIp THEN {t}
                       ELSE {"gateway"} \cup {k \in {t} : Dashed(u, n, row.int)}
               T(e) == K(IF e = NoIp THEN "internalip" ELSE "ipmapping")
               outer == NextExternal(u, n, row.ext)
    <3>1. Addresses(u, n, row) = UNION {{With(t, i, e) : t \in T(e)} : e \in outer}
      BY <2>4 DEF Addresses, With
    <3>2. \A e : T(e) \subseteq Types \ {"externalip"}
      BY DEF Types
    <3> HIDE DEF i, T, outer
    <3>3. PICK e \in outer : \E t \in T(e) : r = With(t, i, e)
      BY <3>1
    <3> QED
      BY <3>2, <3>3 DEF i, outer
  <2> QED
    BY <1>1, <2>1, <2>2, <2>3, <2>4 DEF Types
<1>5. CASE row.type = "gateway" /\ r = row
  BY <1>5
<1>6. CASE \E t \in Types \ {"externalip"}, a \in {row.int, NoIp} :
             r = With(t, NextInternal(u, n, row.id, a), NoIp)
  <2>1. PICK t \in Types \ {"externalip"}, a \in {row.int, NoIp} :
            r = With(t, NextInternal(u, n, row.id, a), NoIp)
    BY <1>6
  <2> DEFINE i == NextInternal(u, n, row.id, a)
  <2>2. /\ i \in Internals \cup {NoIp}
        /\ \/ i = NoIp
           \/ \A m \in Owned(u) : reg[m].int # i
           \/ n \in DOMAIN reg /\ i = reg[n].int
    BY <1>1, NextInternalIn
  <2> HIDE DEF i
  <2>3. r = With(t, i, NoIp)
    BY <2>1 DEF i
  <2> QED
    BY <1>2, <2>2, <2>3
<1>7. CASE \E e \in NextExternal(u, n, row.ext) \ {NoIp} : r = With("externalip", NoIp, e)
  <2>1. PICK e \in NextExternal(u, n, row.ext) \ {NoIp} : r = With("externalip", NoIp, e)
    BY <1>7
  <2> QED
    BY <1>1, <1>2, <2>1, NextExternalIn DEF Types
<1>8. CASE \E t \in Types \ {"externalip"}, e \in NextExternal(u, n, row.ext) :
             r = With(t, NextInternal(u, n, row.id, row.int), e)
  <2>1. PICK t \in Types \ {"externalip"}, e \in NextExternal(u, n, row.ext) :
            r = With(t, NextInternal(u, n, row.id, row.int), e)
    BY <1>8
  <2> DEFINE i == NextInternal(u, n, row.id, row.int)
  <2>2. /\ i \in Internals \cup {NoIp}
        /\ \/ i = NoIp
           \/ \A m \in Owned(u) : reg[m].int # i
           \/ n \in DOMAIN reg /\ i = reg[n].int
    BY <1>1, NextInternalIn
  <2> HIDE DEF i
  <2>3. r = With(t, i, e)
    BY <2>1 DEF i
  <2> QED
    BY <1>1, <1>2, <2>2, <2>3, NextExternalIn
<1> QED
  BY <1>4, <1>5, <1>6, <1>7, <1>8

-----------------------------------------------------------------------------
(* Types *)

Slots == {Idle} \cup Jobs

RegisterOK == DOMAIN reg \subseteq Nets /\ reg \in [DOMAIN reg -> Rows(Statuses)]

KernelOK ==
    /\ vlan \subseteq Vlans
    /\ alias \subseteq Vlans \X Externals
    /\ dnat \in [Externals -> SUBSET Internals]
    /\ proxied \subseteq Vlans \X Externals
    /\ leases \in [Vlans -> SUBSET (Nets \X (Internals \cup Externals \cup {NoIp}))]
    /\ dnsmasq \subseteq Vlans

BoundsOK == requests \in 0 .. MaxRequests /\ faults \in 0 .. MaxFaults

LEMMA Parts ==
    TypeOK <=> /\ RegisterOK /\ KernelOK /\ BoundsOK
               /\ attached \subseteq Nets /\ job \in [Procs -> Slots] /\ strays \subseteq Externals
BY DEF TypeOK, RegisterOK, KernelOK, BoundsOK, Slots

LEMMA PartsNext ==
    ASSUME RegisterOK', KernelOK', BoundsOK', attached' \subseteq Nets, job' \in [Procs -> Slots],
           strays' \subseteq Externals
    PROVE  TypeOK'
BY DEF TypeOK, RegisterOK, KernelOK, BoundsOK, Slots

\* A network that is to be reached at an external address itself has one.
Fit(row) == row.type = "externalip" => row.ext # NoIp

Fits ==
    /\ \A n \in DOMAIN reg : Fit(reg[n])
    /\ \A p \in Procs : job[p].pc \in {"write", "configure"} => Fit(job[p].row)

\* Nothing but the jobs changes, and the counts of requests and faults.
LEMMA OnlyJobs ==
    ASSUME TypeOK, job' \in [Procs -> Slots], BoundsOK',
           UNCHANGED <<reg, attached, kernelVars, strays>>
    PROVE  TypeOK'
<1>1. RegisterOK' /\ KernelOK'
  BY Parts DEF RegisterOK, KernelOK, kernelVars
<1> QED
  BY <1>1, Parts, PartsNext

LEMMA Busy ==
    ASSUME TypeOK, NEW p \in Procs, job[p].pc # "idle"
    PROVE  /\ job[p] \in Jobs
           /\ job[p].user \in Users /\ job[p].net \in Nets
           /\ job[p].row \in Rows(Statuses \cup {"new"})
<1>1. job[p] \in Jobs
  BY DEF TypeOK, Idle
<1> QED
  BY <1>1 DEF Jobs

LEMMA AnyRow == ASSUME NEW row \in Rows(Statuses) PROVE row \in Rows(Statuses \cup {"new"})
BY DEF Rows

LEMMA Became ==
    ASSUME TypeOK, NEW p \in Procs, NEW j, Become(p, j)
    PROVE  /\ job'[p] = j /\ \A q \in Procs : q # p => job'[q] = job[q]
           /\ j \in Slots => job' \in [Procs -> Slots]
<1>1. job \in [Procs -> Slots] /\ job' = [job EXCEPT ![p] = j]
  BY Parts DEF Become
<1> QED
  BY <1>1

\* The steps of a process that has picked and not written yet.
Pending == {"write", "moveid", "moveuser", "moveint"}

\* Processes that have picked notice a write, the others do not change.
LEMMA Notices ==
    ASSUME TypeOK, NEW n \in Nets
    PROVE  /\ Noticed(n) \in [Procs -> Slots]
           /\ \A q \in Procs :
                  /\ Noticed(n)[q].pc = job[q].pc
                  /\ job[q].pc \notin Pending => Noticed(n)[q] = job[q]
                  /\ job[q].pc \in Pending =>
                         /\ Noticed(n)[q].user = job[q].user /\ Noticed(n)[q].net = job[q].net
                         /\ Noticed(n)[q].row = job[q].row /\ Noticed(n)[q].newid = job[q].newid
                         /\ Noticed(n)[q].during = job[q].during \cup {n}
<1>1. SUFFICES ASSUME NEW q \in Procs
               PROVE  /\ Noticed(n)[q] \in Slots
                      /\ Noticed(n)[q].pc = job[q].pc
                      /\ job[q].pc \notin Pending => Noticed(n)[q] = job[q]
                      /\ job[q].pc \in Pending =>
                             /\ Noticed(n)[q].user = job[q].user /\ Noticed(n)[q].net = job[q].net
                             /\ Noticed(n)[q].row = job[q].row
                             /\ Noticed(n)[q].newid = job[q].newid
                             /\ Noticed(n)[q].during = job[q].during \cup {n}
  BY DEF Noticed
<1>2. CASE job[q].pc \in Pending
  <2>1. Noticed(n)[q] = [job[q] EXCEPT !.during = @ \cup {n}]
    BY <1>2 DEF Noticed, Pending
  <2>2. job[q] \in Jobs
    BY <1>2, Busy DEF Pending
  <2> QED
    BY <1>2, <2>1, <2>2 DEF Slots, Jobs
<1>3. CASE job[q].pc \notin Pending
  BY <1>3, Parts DEF Noticed, Pending
<1> QED
  BY <1>2, <1>3

LEMMA Writes ==
    ASSUME TypeOK, NEW p \in Procs, NEW n \in Nets, NEW j, Wrote(p, n, j)
    PROVE  /\ job'[p] = j /\ \A q \in Procs : q # p => job'[q] = Noticed(n)[q]
           /\ j \in Slots => job' \in [Procs -> Slots]
<1>1. Noticed(n) \in [Procs -> Slots] /\ job' = [Noticed(n) EXCEPT ![p] = j]
  BY Notices DEF Wrote
<1> QED
  BY <1>1

LEMMA Requested ==
    ASSUME BoundsOK, NEW op
    PROVE  /\ Request(op) => BoundsOK'
           /\ Privileged(op) => BoundsOK'
           /\ Fault => BoundsOK'
BY NetworksAssumption DEF BoundsOK, Request, Privileged, Fault

LEMMA Putting ==
    ASSUME RegisterOK, NEW n \in Nets, NEW row \in Rows(Statuses)
    PROVE  /\ reg' = Put(n, row) =>
                  /\ RegisterOK'
                  /\ DOMAIN reg' = DOMAIN reg \cup {n} /\ reg'[n] = row
                  /\ \A m \in DOMAIN reg : m # n => reg'[m] = reg[m]
           /\ reg' = Drop(n) =>
                  /\ RegisterOK'
                  /\ DOMAIN reg' = DOMAIN reg \ {n}
                  /\ \A m \in DOMAIN reg : m # n => reg'[m] = reg[m]
BY DEF RegisterOK, Put, Drop

LEMMA Straying ==
    ASSUME strays \subseteq Externals, NEW ip \in Externals \cup {NoIp}, Stray(ip)
    PROVE  /\ strays' \subseteq Externals /\ strays \subseteq strays'
           /\ ip # NoIp /\ (ip \in ExternalIps \/ dnat[ip] # {}) => ip \in strays'
BY DEF Stray

\* Deactivate takes rules, aliases, routes and leases away.
LEMMA Unconfigured ==
    ASSUME KernelOK, NEW row \in Rows(Statuses), NEW servers, Unconfigure(row, servers)
    PROVE  KernelOK'
<1>1. /\ row.id \in Vlans /\ row.ext \in Externals \cup {NoIp}
  BY DEF Rows
<1>2. alias' \subseteq alias /\ proxied' \subseteq proxied /\ vlan' = vlan
  BY DEF Unconfigure
<1>3. dnat' \in [Externals -> SUBSET Internals]
  <2>1. CASE row.type = "ipmapping" /\ row.int # NoIp /\ Seen(row.ext)
    BY <2>1 DEF Unconfigure, KernelOK
  <2>2. CASE ~(row.type = "ipmapping" /\ row.int # NoIp /\ Seen(row.ext))
    BY <2>2 DEF Unconfigure, KernelOK
  <2> QED
    BY <2>1, <2>2
<1>4. ASSUME NEW ip, NEW gone, Release(row.id, ip, gone)
      PROVE  /\ leases' \in [Vlans -> SUBSET (Nets \X (Internals \cup Externals \cup {NoIp}))]
             /\ dnsmasq' \subseteq Vlans
  BY <1>1, <1>4 DEF Release, KernelOK
<1>5. /\ leases' \in [Vlans -> SUBSET (Nets \X (Internals \cup Externals \cup {NoIp}))]
      /\ dnsmasq' \subseteq Vlans
  BY <1>4 DEF Unconfigure, KernelOK
<1> QED
  BY <1>2, <1>3, <1>5 DEF KernelOK

\* What Save settles for, and that no check stands against it.
LEMMA Allocated ==
    ASSUME TypeOK, NEW p \in Procs, Allocate(p)
    PROVE  /\ job[p].pc = "allocate" /\ job[p] \in Jobs
           /\ \/ Become(p, Idle)
              \/ \E picked \in Rows(Statuses \cup {"new"}) :
                     /\ Become(p, [job[p] EXCEPT !.pc = "write", !.row = picked])
                     /\ picked.user = job[p].user /\ Fit(picked)
                     /\ \/ job[p].user \in Admins
                        \/ \A m \in DOMAIN reg : reg[m].id = picked.id => reg[m].user = job[p].user
                     /\ picked.type # "gateway" /\ picked.ext # NoIp =>
                            /\ ~OverQuota(job[p].user, 1)
                            /\ \A m \in DOMAIN reg \ {job[p].net} : reg[m].ext # picked.ext
                     /\ picked.type # "gateway" /\ picked.int # NoIp =>
                            \/ \A m \in Owned(job[p].user) : reg[m].int # picked.int
                            \/ job[p].net \in DOMAIN reg /\ picked.int = reg[job[p].net].int
<1> DEFINE j   == job[p]
           n   == j.net
           row == [j.row EXCEPT
                      !.user = j.user,
                      !.id = IF n \in DOMAIN reg THEN reg[n].id ELSE NextId(j.user, @),
                      !.status = IF n \in DOMAIN reg /\ reg[n].status # ""
                                 THEN reg[n].status ELSE @]
<1>1. /\ j.pc = "allocate" /\ j \in Jobs /\ j.user \in Users /\ n \in Nets
      /\ j.row \in Rows(Statuses \cup {"new"})
  BY Busy DEF Allocate
<1>2. j.row.id \in Vlans
  BY <1>1 DEF Rows
<1>3. /\ row.user = j.user
      /\ row.id = IF n \in DOMAIN reg THEN reg[n].id ELSE NextId(j.user, j.row.id)
      /\ row.id # -1 => row \in Rows(Statuses \cup {"new"})
  <2>1. NextId(j.user, j.row.id) \in Vlans \cup {-1}
    BY <1>1, <1>2, NextIdIn
  <2>2. n \in DOMAIN reg => reg[n].id \in Vlans /\ reg[n].status \in Statuses
    BY Registered DEF Rows
  <2> DEFINE id == IF n \in DOMAIN reg THEN reg[n].id ELSE NextId(j.user, j.row.id)
             st == IF n \in DOMAIN reg /\ reg[n].status # "" THEN reg[n].status ELSE j.row.status
  <2>3. /\ id # -1 => id \in Vlans
        /\ st \in Statuses \cup {"new"}
    <3>1. j.row.status \in Statuses \cup {"new"}
      BY <1>1 DEF Rows
    <3> HIDE DEF j, n
    <3>2. id # -1 => id \in Vlans
      BY <2>1, <2>2
    <3>3. st \in Statuses \cup {"new"}
      BY <2>2, <3>1
    <3> QED
      BY <3>2, <3>3
  <2>4. row = [j.row EXCEPT !.user = j.user, !.id = id, !.status = st]
    BY Zenon
  <2> HIDE DEF id, st, row, n, j
  <2>5. row.user = j.user /\ row.id = id /\ (id \in Vlans => row \in Rows(Statuses \cup {"new"}))
    BY <1>1, <2>3, <2>4 DEF Rows
  <2> QED
    BY <2>3, <2>5 DEF id
<1> HIDE DEF row
<1>4. \/ Become(p, Idle)
      \/ /\ row.id # -1
         /\ \/ j.user \in Admins
            \/ \A m \in DOMAIN reg : reg[m].id = row.id => reg[m].user = j.user
         /\ \E picked \in Addresses(j.user, n, row) :
                Become(p, [j EXCEPT !.pc = "write", !.row = picked])
  <2>1. \/ Become(p, Idle)
        \/ /\ row.id > 1 \/ row.id = 1
           /\ \/ j.user \in Admins
              \/ \A m \in DOMAIN reg : reg[m].id = row.id => reg[m].user = j.user
           /\ \E picked \in Addresses(j.user, n, row) :
                  Become(p, [j EXCEPT !.pc = "write", !.row = picked])
    BY Zenon DEF Allocate, row
  <2>2. row.id > 1 \/ row.id = 1 => row.id # -1
    OBVIOUS
  <2> QED
    BY <2>1, <2>2
<1> HIDE DEF j, n
<1>5. ASSUME row.id # -1, NEW picked \in Addresses(j.user, n, row)
      PROVE  /\ picked \in Rows(Statuses \cup {"new"})
             /\ picked.user = j.user /\ picked.id = row.id /\ Fit(picked)
             /\ picked.type # "gateway" /\ picked.ext # NoIp =>
                    /\ ~OverQuota(j.user, 1)
                    /\ \A m \in DOMAIN reg \ {n} : reg[m].ext # picked.ext
             /\ picked.type # "gateway" /\ picked.int # NoIp =>
                    \/ \A m \in Owned(j.user) : reg[m].int # picked.int
                    \/ n \in DOMAIN reg /\ picked.int = reg[n].int
  <2>1. row \in Rows(Statuses \cup {"new"})
    BY <1>3, <1>5
  <2> QED
    BY <1>1, <1>3, <2>1, AddressesIn DEF Fit
<1>6. CASE Become(p, Idle)
  BY <1>1, <1>6 DEF j
<1>7. CASE /\ row.id # -1
           /\ \/ j.user \in Admins
              \/ \A m \in DOMAIN reg : reg[m].id = row.id => reg[m].user = j.user
           /\ \E picked \in Addresses(j.user, n, row) :
                  Become(p, [j EXCEPT !.pc = "write", !.row = picked])
  <2>1. PICK picked \in Addresses(j.user, n, row) :
            Become(p, [j EXCEPT !.pc = "write", !.row = picked])
    BY <1>7
  <2>2. /\ picked \in Rows(Statuses \cup {"new"})
        /\ picked.user = j.user /\ picked.id = row.id /\ Fit(picked)
        /\ picked.type # "gateway" /\ picked.ext # NoIp =>
               /\ ~OverQuota(j.user, 1)
               /\ \A m \in DOMAIN reg \ {n} : reg[m].ext # picked.ext
        /\ picked.type # "gateway" /\ picked.int # NoIp =>
               \/ \A m \in Owned(j.user) : reg[m].int # picked.int
               \/ n \in DOMAIN reg /\ picked.int = reg[n].int
    BY <1>5, <1>7
  <2> QED
    BY <1>1, <1>7, <2>1, <2>2 DEF j, n
<1> QED
  BY <1>4, <1>6, <1>7

LEMMA AllocateTypes == ASSUME TypeOK, NEW p \in Procs, Allocate(p) PROVE TypeOK'
<1>1. job' \in [Procs -> Slots]
  <2>1. Idle \in Slots
    BY DEF Slots
  <2>2. \A picked \in Rows(Statuses \cup {"new"}) :
            [job[p] EXCEPT !.pc = "write", !.row = picked] \in Slots
    <3>1. job[p] \in Jobs
      BY Allocated
    <3> QED
      BY <3>1 DEF Slots, Jobs
  <2> QED
    BY <2>1, <2>2, Allocated, Became
<1> QED
  <2>1. BoundsOK' /\ UNCHANGED <<reg, attached, kernelVars, strays>>
    BY Parts DEF Allocate, boundVars, BoundsOK
  <2> QED
    BY <1>1, <2>1, OnlyJobs

\* A row that keeps its owner, its id and its addresses, but for a gateway that does not use
\* its internal one.
Like(row, old) ==
    /\ row.user = old.user /\ row.id = old.id /\ row.ext = old.ext
    /\ old.type = "gateway" => row.type = "gateway"
    /\ old.type # "gateway" => row.int = old.int
    /\ old.type # "gateway" /\ old.ext # NoIp => row.type # "gateway"
    /\ old.type = "ipmapping" /\ old.int # NoIp /\ old.ext # NoIp => row.type = "ipmapping"
    /\ Fit(old) => Fit(row)

\* A job that is neither about to write a pick nor to set up a network.
Plain(j) == j.pc \notin Pending \cup {"configure"}

\* The process goes on to such a step.
Turns(p) == \E j \in Slots : Become(p, j) /\ Plain(j)

LEMMA Turned ==
    ASSUME TypeOK, NEW p \in Procs, Turns(p)
    PROVE  /\ job' \in [Procs -> Slots] /\ Plain(job'[p])
           /\ \A q \in Procs : q # p => job'[q] = job[q]
BY Became DEF Turns

LEMMA SaveNewTurns ==
    ASSUME TypeOK, NEW p \in Procs, SaveNew(p)
    PROVE  /\ Turns(p) /\ BoundsOK'
           /\ UNCHANGED <<reg, attached, kernelVars, strays>>
<1>1. PICK u \in Users, n \in Nets, asked \in IdAsked \cup {Open}, type \in TypesAsked, sys \in Links,
           i \in IntAsked \cup {Open}, e \in ExtAsked \cup {Open} :
          /\ n \notin DOMAIN reg
          /\ \A q \in Procs : job[q].pc # "idle" => job[q].net # n
          /\ NextId(u, asked) > 1
          /\ Become(p, Job("allocate", u, n,
                 [user |-> u, id |-> NextId(u, asked), type |-> type,
                  int |-> IF i = Open THEN NoIp ELSE Internal(NextId(u, asked), i),
                  ext |-> IF e = Open THEN NoIp ELSE External(e),
                  sys |-> sys, dom |-> FALSE, status |-> "new"]))
  BY Zenon DEF SaveNew
<1> DEFINE id  == NextId(u, asked)
           int == IF i = Open THEN NoIp ELSE Internal(id, i)
           ext == IF e = Open THEN NoIp ELSE External(e)
           row == [user |-> u, id |-> id, type |-> type, int |-> int, ext |-> ext,
                   sys |-> sys, dom |-> FALSE, status |-> "new"]
<1>2. /\ IdAsked \subseteq VlanStart .. VlanEnd /\ IntAsked \subseteq 2 .. IntEnd
      /\ ExtAsked \subseteq ExtStart .. ExtEnd /\ Links \subseteq BOOLEAN
      /\ TypesAsked \subseteq Types
  BY NetworksAssumption
<1>3. id \in Vlans
  <2>1. asked \in Vlans \cup {Open}
    BY <1>2 DEF Vlans
  <2> QED
    BY <1>1, <2>1, NextIdIn
<1> HIDE DEF id
<1>4. int \in Internals \cup {NoIp}
  <2>1. i # Open => i \in 1 .. IntEnd
    BY <1>2, NetworksAssumption
  <2> QED
    BY <1>3, <2>1, InternalIn
<1>5. ext \in Externals \cup {NoIp}
  BY <1>2 DEF Externals, Open
<1> HIDE DEF int, ext
<1>6. row \in Rows(Statuses \cup {"new"})
  BY <1>2, <1>3, <1>4, <1>5 DEF Rows
<1>7. Become(p, Job("allocate", u, n, row))
  BY <1>1 DEF id, int, ext
<1> HIDE DEF row
<1>8. Job("allocate", u, n, row) \in Slots /\ Plain(Job("allocate", u, n, row))
  BY <1>6 DEF Job, Jobs, Vlans, Slots, Plain, Pending
<1> QED
  BY <1>7, <1>8, Parts, Requested DEF SaveNew, Turns

LEMMA SaveOldTurns ==
    ASSUME TypeOK, NEW p \in Procs, SaveOld(p)
    PROVE  /\ Turns(p) /\ BoundsOK'
           /\ UNCHANGED <<reg, attached, kernelVars, strays>>
<1>1. PICK u \in Users, n \in DOMAIN reg, type \in TypesAsked, sys \in Links,
           i \in IntAsked \cup {Open}, e \in ExtAsked \cup {Open} :
          /\ reg[n].id > 1
          /\ Become(p, Job("allocate", u, n,
                 [reg[n] EXCEPT !.type = type, !.sys = @ \/ sys,
                                !.int = IF i = Open THEN @ ELSE Internal(reg[n].id, i),
                                !.ext = IF e = Open THEN @ ELSE External(e)]))
  BY Zenon DEF SaveOld
<1> DEFINE row == [reg[n] EXCEPT !.type = type, !.sys = @ \/ sys,
                                 !.int = IF i = Open THEN @ ELSE Internal(reg[n].id, i),
                                 !.ext = IF e = Open THEN @ ELSE External(e)]
<1>2. i # Open => i \in 1 .. IntEnd
  <2>1. IntEnd \in Nat /\ IntAsked \subseteq 2 .. IntEnd
    BY NetworksAssumption
  <2> QED
    BY <2>1
<1>3. i # Open => Internal(reg[n].id, i) \in Internals
  BY <1>2, Registered, InternalIn
<1>4. e # Open => External(e) \in Externals
  BY NetworksAssumption DEF Externals
<1>5. row \in Rows(Statuses \cup {"new"})
  <2> DEFINE int == IF i = Open THEN reg[n].int ELSE Internal(reg[n].id, i)
             ext == IF e = Open THEN reg[n].ext ELSE External(e)
             all == reg[n].sys \/ sys
  <2>1. /\ reg[n] \in Rows(Statuses) /\ reg[n].sys \in BOOLEAN /\ sys \in BOOLEAN
        /\ type \in Types
        /\ int \in Internals \cup {NoIp} /\ ext \in Externals \cup {NoIp}
    BY <1>3, <1>4, Registered, NetworksAssumption DEF Rows
  <2>2. all \in BOOLEAN
    BY <2>1
  <2>3. row = [reg[n] EXCEPT !.type = type, !.sys = all, !.int = int, !.ext = ext]
    BY Zenon
  <2> HIDE DEF int, ext, all, row
  <2> QED
    BY <2>1, <2>2, <2>3 DEF Rows
<1>6. Become(p, Job("allocate", u, n, row))
  BY <1>1, Zenon DEF row
<1> HIDE DEF row
<1>7. Job("allocate", u, n, row) \in Slots /\ Plain(Job("allocate", u, n, row))
  BY <1>5, Registered DEF Job, Jobs, Vlans, Slots, Plain, Pending
<1> QED
  BY <1>6, <1>7, Parts, Requested DEF SaveOld, Turns

LEMMA Written ==
    ASSUME TypeOK, NEW p \in Procs, Write(p)
    PROVE  /\ job[p].pc = "write" /\ job[p] \in Jobs /\ job[p].net \in Nets
           /\ \E row \in Rows(Statuses), j \in Slots :
                  /\ reg' = Put(job[p].net, row)
                  /\ row.user = job[p].row.user /\ row.id = job[p].row.id
                  /\ row.type = job[p].row.type
                  /\ row.int = job[p].row.int /\ row.ext = job[p].row.ext
                  /\ Wrote(p, job[p].net, j) /\ Plain(j)
                  /\ \/ /\ job[p].net \in DOMAIN reg /\ Differ(reg[job[p].net], row)
                        /\ Stray(reg[job[p].net].ext)
                     \/ /\ job[p].net \notin DOMAIN reg \/ ~Differ(reg[job[p].net], row)
                        /\ strays' = strays
<1> DEFINE j   == job[p]
           n   == j.net
           old == n \in DOMAIN reg
           st  == IF old THEN reg[n].status ELSE ""
           dom == old /\ reg[n].dom
           row == [j.row EXCEPT !.status = st, !.dom = dom]
           k   == IF j.row.status = "new" THEN [j EXCEPT !.pc = "validate"] ELSE Idle
<1>1. /\ j.pc = "write" /\ j \in Jobs /\ n \in Nets /\ j.row \in Rows(Statuses \cup {"new"})
  BY Busy DEF Write
<1>2. st \in Statuses /\ dom \in BOOLEAN
  <2>1. old => reg[n].status \in Statuses /\ reg[n].dom \in BOOLEAN
    BY Registered DEF Rows
  <2> QED
    BY <2>1 DEF Statuses
<1>3. k \in Slots /\ Plain(k)
  <2> HIDE DEF j
  <2>1. [j EXCEPT !.pc = "validate"] \in Slots /\ [j EXCEPT !.pc = "validate"].pc = "validate"
    BY <1>1 DEF Slots, Jobs
  <2> QED
    BY <2>1 DEF Slots, Idle, Plain, Pending
<1>4. reg' = Put(n, row) /\ Wrote(p, n, k)
  BY Zenon DEF Write
<1>5. IF old /\ Differ(reg[n], j.row) THEN Stray(reg[n].ext) ELSE UNCHANGED strays
  BY DEF Write
<1> HIDE DEF j, n, old, st, dom, k
<1>6. /\ row \in Rows(Statuses)
      /\ row.user = j.row.user /\ row.id = j.row.id /\ row.type = j.row.type
      /\ row.int = j.row.int /\ row.ext = j.row.ext
  BY <1>1, <1>2 DEF Rows
<1> HIDE DEF row
<1>7. Differ(reg[n], j.row) <=> Differ(reg[n], row)
  BY <1>6 DEF Differ
<1> QED
  BY <1>1, <1>3, <1>4, <1>5, <1>6, <1>7 DEF j, n, old

LEMMA WriteTypes == ASSUME TypeOK, NEW p \in Procs, Write(p) PROVE TypeOK'
<1>1. job' \in [Procs -> Slots] /\ RegisterOK' /\ strays' \subseteq Externals
  BY Parts, Written, Writes, Putting, Registered, Straying
<1>2. KernelOK' /\ BoundsOK' /\ attached' \subseteq Nets
  BY Parts DEF Write, kernelVars, boundVars, KernelOK, BoundsOK
<1> QED
  BY <1>1, <1>2, PartsNext

\* Where validateStatus returns to.
LEMMA Returns ==
    ASSUME TypeOK, NEW p \in Procs, job[p].pc # "idle"
    PROVE  /\ (IF job[p].then = "idle" THEN Idle ELSE [job[p] EXCEPT !.pc = job[p].then]) \in Slots
           /\ Plain(IF job[p].then = "idle" THEN Idle ELSE [job[p] EXCEPT !.pc = job[p].then])
<1>1. job[p] \in Jobs
  BY Busy
<1>2. CASE job[p].then = "idle"
  BY <1>2 DEF Slots, Idle, Plain, Pending
<1>3. CASE job[p].then # "idle"
  <2>1. /\ [job[p] EXCEPT !.pc = job[p].then] \in Jobs
        /\ [job[p] EXCEPT !.pc = job[p].then].pc = job[p].then
        /\ job[p].then \in {"stop", "remove", "readdress"}
    BY <1>1, <1>3 DEF Jobs
  <2> QED
    BY <1>3, <2>1 DEF Slots, Plain, Pending
<1> QED
  BY <1>2, <1>3

LEMMA Validated ==
    ASSUME TypeOK, NEW p \in Procs, Validate(p)
    PROVE  /\ job[p].pc = "validate"
           /\ Turns(p)
           /\ \/ UNCHANGED <<reg, strays>>
              \/ \E n \in DOMAIN reg, row \in Rows(Statuses) :
                     /\ reg' = Put(n, row) /\ Like(row, reg[n])
                     /\ strays' = strays \/ Stray(reg[n].ext)
<1> DEFINE j   == job[p]
           n   == j.net
           int == IF reg[n].type = "gateway" /\ reg[n].id > 1 THEN Internal(reg[n].id, 1)
                  ELSE reg[n].int
           t   == TypeOf(reg[n])
           dom == n \in attached /\ reg[n].user = j.user
           row == [reg[n] EXCEPT !.type = t, !.status = "down", !.int = int, !.dom = dom]
           k   == [j EXCEPT !.pc = "settle", !.row = row, !.seen = Seen(row.ext)]
<1>1. j.pc = "validate" /\ j \in Jobs
  BY Busy DEF Validate
<1>2. CASE n \in DOMAIN reg
  <2>1. reg' = Put(n, row) /\ Become(p, k)
    BY <1>2, Zenon DEF Validate
  <2>2. strays' = strays \/ Stray(row.ext)
    BY <1>2 DEF Validate
  <2> HIDE DEF n
  <2>3. reg[n] \in Rows(Statuses) /\ reg[n].id \in Vlans /\ reg[n].int \in Internals \cup {NoIp}
    BY <1>2, Registered
  <2>4. /\ int \in Internals \cup {NoIp} /\ t \in Types /\ dom \in BOOLEAN
        /\ reg[n].type # "gateway" => int = reg[n].int
    <3>1. 1 \in 1 .. IntEnd
      BY NetworksAssumption
    <3> QED
      BY <2>3, <3>1, InternalIn DEF TypeOf, Types
  <2>5. /\ reg[n].type = "gateway" => t = "gateway"
        /\ reg[n].type # "gateway" /\ reg[n].ext # NoIp => t # "gateway"
        /\ reg[n].type = "ipmapping" /\ reg[n].int # NoIp /\ reg[n].ext # NoIp => t = "ipmapping"
        /\ t = "externalip" => reg[n].ext # NoIp
    BY DEF TypeOf
  <2> HIDE DEF int, t, dom
  <2>6. /\ row \in Rows(Statuses) /\ row.ext = reg[n].ext
        /\ row.user = reg[n].user /\ row.id = reg[n].id /\ row.type = t /\ row.int = int
    BY <2>3, <2>4 DEF Rows, Statuses
  <2> HIDE DEF row
  <2>7. Like(row, reg[n])
    BY <2>4, <2>5, <2>6 DEF Like, Fit
  <2>8. k \in Slots /\ Plain(k)
    <3>1. Seen(row.ext) \in BOOLEAN
      BY DEF Seen
    <3> DEFINE b == Seen(row.ext)
    <3> HIDE DEF b, j
    <3>2. k = [j EXCEPT !.pc = "settle", !.row = row, !.seen = b]
      BY Zenon DEF b
    <3> HIDE DEF k
    <3>3. k \in Jobs /\ k.pc = "settle"
      BY <1>1, <2>6, <3>1, <3>2, AnyRow DEF Jobs, b
    <3> QED
      BY <3>3 DEF Slots, Plain, Pending
  <2> QED
    BY <1>1, <1>2, <2>1, <2>2, <2>6, <2>7, <2>8 DEF Turns
<1>3. CASE n \notin DOMAIN reg
  <2>1. /\ Become(p, IF j.then = "idle" THEN Idle ELSE [j EXCEPT !.pc = j.then])
        /\ UNCHANGED <<reg, strays>>
    BY <1>3 DEF Validate
  <2> QED
    BY <1>1, <2>1, Returns DEF Turns
<1> QED
  BY <1>2, <1>3

LEMMA ValidateTypes == ASSUME TypeOK, NEW p \in Procs, Validate(p) PROVE TypeOK'
<1>1. job' \in [Procs -> Slots]
  BY Validated, Turned
<1>2. RegisterOK' /\ strays' \subseteq Externals
  <2>1. CASE UNCHANGED <<reg, strays>>
    BY <2>1, Parts DEF RegisterOK
  <2>2. CASE \E n \in DOMAIN reg, row \in Rows(Statuses) :
                 reg' = Put(n, row) /\ (strays' = strays \/ Stray(reg[n].ext))
    BY <2>2, Parts, Registered, Putting, Straying
  <2> QED
    BY <2>1, <2>2, Validated
<1>3. KernelOK' /\ BoundsOK' /\ attached' \subseteq Nets
  BY Parts DEF Validate, kernelVars, boundVars, KernelOK, BoundsOK
<1> QED
  BY <1>1, <1>2, <1>3, PartsNext

LEMMA Settled ==
    ASSUME TypeOK, NEW p \in Procs, Settle(p)
    PROVE  /\ job[p].pc = "settle" /\ UNCHANGED strays
           /\ Turns(p)
           /\ \/ UNCHANGED reg
              \/ \E n \in DOMAIN reg, row \in Rows(Statuses) :
                     reg' = Put(n, row) /\ Like(row, reg[n])
<1> DEFINE j == job[p]
           n == j.net
           s == Status(j.row, j.seen)
           row == [reg[n] EXCEPT !.status = s]
<1>1. /\ j.pc = "settle" /\ UNCHANGED strays
      /\ Become(p, IF j.then = "idle" THEN Idle ELSE [j EXCEPT !.pc = j.then])
  BY DEF Settle
<1>2. \/ UNCHANGED reg
      \/ n \in DOMAIN reg /\ reg' = Put(n, row)
  BY DEF Settle
<1>3. s \in Statuses
  <2>1. j.row \in Rows(Statuses \cup {"new"})
    BY <1>1, Busy
  <2>2. j.row.type \in Types
    BY <2>1 DEF Rows
  <2> HIDE DEF j
  <2> QED
    BY <2>2 DEF Status, Types, Statuses
<1> HIDE DEF n, s
<1>4. ASSUME n \in DOMAIN reg PROVE row \in Rows(Statuses) /\ Like(row, reg[n])
  <2>1. reg[n] \in Rows(Statuses)
    BY <1>4, Registered
  <2> QED
    BY <1>3, <2>1 DEF Rows, Like, Fit
<1> QED
  BY <1>1, <1>2, <1>4, Returns DEF Turns

LEMMA SettleTypes == ASSUME TypeOK, NEW p \in Procs, Settle(p) PROVE TypeOK'
<1>1. job' \in [Procs -> Slots] /\ strays' \subseteq Externals
  BY Settled, Turned, Parts
<1>2. RegisterOK'
  <2>1. CASE UNCHANGED reg
    BY <2>1, Parts DEF RegisterOK
  <2>2. CASE \E n \in DOMAIN reg, row \in Rows(Statuses) : reg' = Put(n, row)
    BY <2>2, Parts, Registered, Putting
  <2> QED
    BY <2>1, <2>2, Settled
<1>3. KernelOK' /\ BoundsOK' /\ attached' \subseteq Nets
  BY Parts DEF Settle, kernelVars, boundVars, KernelOK, BoundsOK
<1> QED
  BY <1>1, <1>2, <1>3, PartsNext

\* A job that starts with a registered network, and what is set in it.
LEMMA Starts ==
    ASSUME TypeOK, NEW u \in Users, NEW n \in DOMAIN reg,
           NEW pc, pc \in {"validate", "stop"}
    PROVE  Job(pc, u, n, reg[n]) \in Jobs /\ Plain(Job(pc, u, n, reg[n]))
<1>1. reg[n] \in Rows(Statuses \cup {"new"}) /\ n \in Nets
  BY Registered, AnyRow
<1> QED
  BY <1>1 DEF Job, Jobs, Vlans, Plain, Pending

LEMMA Sets ==
    ASSUME NEW j \in Jobs, Plain(j), NEW seen \in BOOLEAN, NEW todo \in SUBSET Nets
    PROVE  /\ [j EXCEPT !.seen = seen, !.root = TRUE] \in Slots
           /\ Plain([j EXCEPT !.seen = seen, !.root = TRUE])
           /\ [j EXCEPT !.todo = todo, !.root = TRUE] \in Slots
           /\ Plain([j EXCEPT !.todo = todo, !.root = TRUE])
           /\ [j EXCEPT !.root = TRUE] \in Slots
           /\ Plain([j EXCEPT !.root = TRUE])
           /\ [j EXCEPT !.root = TRUE, !.then = "remove"] \in Slots
           /\ Plain([j EXCEPT !.root = TRUE, !.then = "remove"])
BY DEF Slots, Jobs, Plain, Pending

LEMMA ListTurns ==
    ASSUME TypeOK, NEW p \in Procs, List(p)
    PROVE  /\ Turns(p) /\ BoundsOK'
           /\ UNCHANGED <<reg, attached, kernelVars, strays>>
<1>1. PICK u \in Users, n \in DOMAIN reg : Become(p, Job("validate", u, n, reg[n]))
  BY DEF List
<1>2. Job("validate", u, n, reg[n]) \in Slots /\ Plain(Job("validate", u, n, reg[n]))
  <2>1. reg[n] \in Rows(Statuses \cup {"new"}) /\ n \in Nets
    BY Registered, AnyRow
  <2> QED
    BY <2>1 DEF Job, Jobs, Vlans, Slots, Plain, Pending
<1> QED
  BY <1>1, <1>2, Parts, Requested DEF List, Turns

LEMMA Activated ==
    ASSUME TypeOK, NEW p \in Procs, Activate(p)
    PROVE  /\ BoundsOK' /\ UNCHANGED <<reg, attached, kernelVars, strays>>
           /\ \E n \in DOMAIN reg, j \in Slots :
                  Become(p, j) /\ j.pc = "configure" /\ j.row = reg[n]
<1>1. PICK u \in Users, n \in DOMAIN reg :
          Become(p, [Job("configure", u, n, reg[n]) EXCEPT
                         !.seen = reg[n].ext \in ExternalIps, !.root = TRUE])
  BY DEF Activate
<1> DEFINE b == reg[n].ext \in ExternalIps
           j == [Job("configure", u, n, reg[n]) EXCEPT !.seen = b, !.root = TRUE]
<1>2. b \in BOOLEAN
  OBVIOUS
<1>3. Become(p, j)
  BY <1>1
<1>4. j \in Slots /\ j.pc = "configure" /\ j.row = reg[n]
  <2> HIDE DEF b
  <2>1. reg[n] \in Rows(Statuses \cup {"new"}) /\ n \in Nets
    BY Registered, AnyRow
  <2> QED
    BY <1>2, <2>1 DEF Job, Jobs, Vlans, Slots
<1> QED
  BY <1>3, <1>4, Parts, Requested DEF Activate

LEMMA StopTurns ==
    ASSUME TypeOK, NEW p \in Procs, Stop(p)
    PROVE  /\ Turns(p) /\ BoundsOK'
           /\ UNCHANGED <<reg, attached, kernelVars, strays>>
<1>1. PICK u \in Users, n \in DOMAIN reg :
          Become(p, [Job("stop", u, n, reg[n]) EXCEPT !.todo = Owned(u), !.root = TRUE])
  BY DEF Stop
<1> DEFINE j == [Job("stop", u, n, reg[n]) EXCEPT !.todo = Owned(u), !.root = TRUE]
<1>2. j \in Slots /\ Plain(j)
  <2>1. Job("stop", u, n, reg[n]) \in Jobs /\ Plain(Job("stop", u, n, reg[n]))
    BY Starts
  <2>2. Owned(u) \in SUBSET Nets
    BY DEF Owned, TypeOK
  <2> QED
    BY <2>1, <2>2, Sets
<1> QED
  BY <1>1, <1>2, Parts, Requested DEF Stop, Turns

LEMMA TurnTypes ==
    ASSUME TypeOK, NEW p \in Procs,
           SaveNew(p) \/ SaveOld(p) \/ List(p) \/ Activate(p) \/ Stop(p)
    PROVE  TypeOK'
<1>1. BoundsOK' /\ UNCHANGED <<reg, attached, kernelVars, strays>>
  BY SaveNewTurns, SaveOldTurns, ListTurns, Activated, StopTurns
<1>2. job' \in [Procs -> Slots]
  BY SaveNewTurns, SaveOldTurns, ListTurns, Activated, StopTurns, Turned, Became
<1> QED
  BY <1>1, <1>2, OnlyJobs

LEMMA ConfigureTurns == ASSUME TypeOK, NEW p \in Procs, Configure(p) PROVE Turns(p)
<1>0. job[p] \in Jobs
  BY Busy DEF Configure
<1>1. Idle \in Slots /\ Plain(Idle)
  BY DEF Slots, Idle, Plain, Pending
<1>2. [job[p] EXCEPT !.pc = "validate"] \in Slots /\ Plain([job[p] EXCEPT !.pc = "validate"])
  BY <1>0 DEF Slots, Jobs, Plain, Pending
<1>3. Become(p, Idle) \/ Become(p, [job[p] EXCEPT !.pc = "validate"])
  BY DEF Configure
<1> QED
  BY <1>1, <1>2, <1>3 DEF Turns

LEMMA Configured ==
    ASSUME TypeOK, NEW p \in Procs, Configure(p), Fit(job[p].row)
    PROVE  KernelOK' /\ BoundsOK' /\ strays' \subseteq Externals
<1> DEFINE row  == job[p].row
           maps == row.type = "ipmapping" /\ row.int # NoIp /\ row.ext # NoIp /\ ~job[p].seen
           ip   == IF row.type = "externalip" THEN row.ext ELSE row.int
<1>1. job[p] \in Jobs /\ job[p].net \in Nets /\ row \in Rows(Statuses \cup {"new"})
  BY Busy DEF Configure
<1>2. row.id \in Vlans /\ row.int \in Internals \cup {NoIp} /\ row.ext \in Externals \cup {NoIp}
  BY <1>1 DEF Rows
<1>4. BoundsOK'
  <2>1. UNCHANGED boundVars \/ Fault
    BY DEF Configure
  <2>2. BoundsOK
    BY Parts
  <2> QED
    BY <2>1, <2>2, Requested DEF boundVars, BoundsOK
<1>5. strays' \subseteq Externals
  <2>1. strays \subseteq Externals
    BY Parts
  <2>2. \/ strays' = strays
        \/ maps /\ strays' = strays \cup {row.ext}
    <3>1. \/ \E stale : strays' = strays \cup {e \in {row.ext} : stale /\ maps}
          \/ maps /\ strays' = strays \cup {row.ext}
      BY DEF Configure
    <3> HIDE DEF maps, row
    <3> QED
      BY <3>1
  <2> QED
    BY <1>2, <2>1, <2>2
<1>6. KernelOK
  BY Parts
<1>7. vlan' \subseteq Vlans /\ dnsmasq' \subseteq Vlans
  BY <1>2, <1>6 DEF Configure, KernelOK
<1>8. alias' \subseteq Vlans \X Externals
  <2>1. \/ alias' = alias
        \/ maps /\ alias' = alias \cup {<<row.id, row.ext>>}
    BY DEF Configure
  <2> QED
    BY <1>2, <1>6, <2>1 DEF KernelOK
<1>9. dnat' \in [Externals -> SUBSET Internals]
  <2>1. \/ dnat' = dnat
        \/ maps /\ dnat' = [dnat EXCEPT ![row.ext] = @ \cup {row.int}]
    BY DEF Configure
  <2> HIDE DEF row
  <2> QED
    BY <1>2, <1>6, <2>1 DEF KernelOK
<1>10. proxied' \subseteq Vlans \X Externals
  <2>1. \/ proxied' = proxied
        \/ /\ row.type = "externalip" /\ \A r \in proxied : ~Finds(row.ext, r[2])
           /\ proxied' = proxied \cup {<<row.id, row.ext>>}
    BY DEF Configure
  <2>2. row.type = "externalip" => row.ext \in Externals
    BY <1>2 DEF Fit
  <2> QED
    BY <1>2, <1>6, <2>1, <2>2 DEF KernelOK
<1>11. leases' \in [Vlans -> SUBSET (Nets \X (Internals \cup Externals \cup {NoIp}))]
  <2>1. \/ leases' = leases
        \/ leases' = [leases EXCEPT ![row.id] = {l \in @ : l[1] # job[p].net} \cup {<<job[p].net, ip>>}]
    BY DEF Configure
  <2>2. ip \in Internals \cup Externals \cup {NoIp}
    BY <1>2
  <2> HIDE DEF ip, row
  <2> QED
    BY <1>1, <1>2, <1>6, <2>1, <2>2 DEF KernelOK
<1> QED
  BY <1>4, <1>5, <1>7, <1>8, <1>9, <1>10, <1>11 DEF KernelOK

LEMMA ConfigureTypes ==
    ASSUME TypeOK, NEW p \in Procs, Configure(p), Fit(job[p].row)
    PROVE  TypeOK'
<1>1. RegisterOK' /\ attached' \subseteq Nets
  BY Parts DEF Configure, RegisterOK
<1> QED
  BY <1>1, Configured, ConfigureTurns, Turned, PartsNext

\* Deactivate, and what StopOne and RemoveSystem do of it.
LEMMA Undoes ==
    ASSUME TypeOK, NEW p \in Procs,
           Deactivate(p) \/ StopOne(p) \/ RemoveSystem(p)
    PROVE  /\ Turns(p) /\ BoundsOK' /\ UNCHANGED <<reg, attached, strays>>
           /\ \/ UNCHANGED kernelVars
              \/ \E n \in DOMAIN reg, servers \in SUBSET Nets : Unconfigure(reg[n], servers)
<1>1. \A u, n : Servers(u, n) \in SUBSET Nets
  BY DEF Servers, TypeOK
<1>2. CASE Deactivate(p)
  <2>1. PICK u \in Users, n \in DOMAIN reg :
            /\ Unconfigure(reg[n], Servers(u, n))
            /\ Become(p, [Job("validate", u, n, reg[n]) EXCEPT !.root = TRUE])
    BY <1>2 DEF Deactivate
  <2> DEFINE j == [Job("validate", u, n, reg[n]) EXCEPT !.root = TRUE]
  <2>2. j \in Slots /\ Plain(j)
    <3>1. Job("validate", u, n, reg[n]) \in Jobs /\ Plain(Job("validate", u, n, reg[n]))
      BY Starts
    <3> QED
      BY <3>1, Sets
  <2> QED
    BY <1>1, <1>2, <2>1, <2>2, Parts, Requested DEF Deactivate, Turns
<1>3. CASE RemoveSystem(p)
  <2>1. PICK u \in Users, n \in DOMAIN reg :
            /\ Unconfigure(reg[n], Servers(u, n))
            /\ Become(p, [Job("validate", u, n, reg[n]) EXCEPT !.root = TRUE, !.then = "remove"])
    BY <1>3 DEF RemoveSystem, Owned
  <2> DEFINE j == [Job("validate", u, n, reg[n]) EXCEPT !.root = TRUE, !.then = "remove"]
  <2>2. j \in Slots /\ Plain(j)
    <3>1. Job("validate", u, n, reg[n]) \in Jobs /\ Plain(Job("validate", u, n, reg[n]))
      BY Starts
    <3> QED
      BY <3>1, Sets
  <2> QED
    BY <1>1, <1>3, <2>1, <2>2, Parts, Requested DEF RemoveSystem, Turns
<1>4. CASE StopOne(p)
  <2> DEFINE j(n) == [job[p] EXCEPT !.todo = @ \ {n}]
             k(n) == [j(n) EXCEPT !.pc = "validate", !.net = n, !.then = "stop"]
  <2>1. job[p] \in Jobs /\ job[p].pc = "stop"
    BY <1>4, Busy DEF StopOne
  <2>2. PICK n \in job[p].todo :
            \/ /\ n \in Owned(j(n).user)
               /\ Unconfigure(reg[n], Servers(j(n).user, n))
               /\ Become(p, k(n))
            \/ Become(p, j(n)) /\ UNCHANGED kernelVars
    BY <1>4 DEF StopOne
  <2>3. n \in Nets
    BY <2>1 DEF Jobs
  <2>4. j(n) \in Jobs /\ j(n).pc = "stop"
    BY <2>1, <2>3 DEF Jobs
  <2> HIDE DEF j
  <2>5. k(n) \in Jobs /\ k(n).pc = "validate"
    BY <2>3, <2>4 DEF Jobs
  <2>6. BoundsOK' /\ UNCHANGED <<reg, attached, strays>>
    BY <1>4, Parts DEF StopOne, boundVars, BoundsOK
  <2> HIDE DEF k
  <2>7. CASE Become(p, j(n)) /\ UNCHANGED kernelVars
    BY <2>4, <2>6, <2>7 DEF Turns, Slots, Plain, Pending
  <2>8. CASE n \in Owned(j(n).user) /\ Unconfigure(reg[n], Servers(j(n).user, n)) /\ Become(p, k(n))
    <3>1. n \in DOMAIN reg
      BY <2>8 DEF Owned
    <3> QED
      BY <1>1, <2>5, <2>6, <2>8, <3>1 DEF Turns, Slots, Plain, Pending
  <2> QED
    BY <2>2, <2>7, <2>8
<1> QED
  BY <1>2, <1>3, <1>4

LEMMA UndoTypes ==
    ASSUME TypeOK, NEW p \in Procs, Deactivate(p) \/ StopOne(p) \/ RemoveSystem(p)
    PROVE  TypeOK'
<1>1. KernelOK'
  BY Undoes, Unconfigured, Registered, Parts DEF kernelVars, KernelOK
<1>2. RegisterOK' /\ attached' \subseteq Nets /\ strays' \subseteq Externals
  BY Undoes, Parts DEF RegisterOK
<1> QED
  BY <1>1, <1>2, Undoes, Turned, PartsNext

LEMMA TakeDownTypes == ASSUME TypeOK, NEW p \in Procs, TakeDown(p) PROVE TypeOK' /\ Turns(p)
<1>1. Turns(p)
  BY DEF TakeDown, Turns, Slots, Idle, Plain, Pending
<1>2. RegisterOK' /\ attached' \subseteq Nets /\ strays' \subseteq Externals /\ BoundsOK'
  BY Parts DEF TakeDown, boundVars, BoundsOK, RegisterOK
<1>3. KernelOK'
  BY Parts DEF TakeDown, KernelOK
<1> QED
  BY <1>1, <1>2, <1>3, Turned, PartsNext

LEMMA Removed ==
    ASSUME TypeOK, Remove
    PROVE  /\ \E n \in DOMAIN reg : reg' = Drop(n) /\ job' = Noticed(n) /\ Stray(reg[n].ext)
           /\ BoundsOK' /\ UNCHANGED <<attached, kernelVars>>
BY Parts, Requested DEF Remove

LEMMA RemoveTypes == ASSUME TypeOK, Remove PROVE TypeOK'
<1>1. PICK n \in DOMAIN reg : reg' = Drop(n) /\ job' = Noticed(n) /\ Stray(reg[n].ext)
  BY Removed
<1>2. RegisterOK' /\ job' \in [Procs -> Slots] /\ strays' \subseteq Externals
  BY <1>1, Parts, Registered, Putting, Notices, Straying
<1>3. KernelOK' /\ BoundsOK' /\ attached' \subseteq Nets
  BY Removed, Parts DEF kernelVars, KernelOK
<1> QED
  BY <1>2, <1>3, PartsNext

LEMMA Discarded ==
    ASSUME TypeOK, NEW p \in Procs, Discard(p)
    PROVE  /\ job[p].pc = "remove" /\ KernelOK' /\ BoundsOK' /\ UNCHANGED <<attached, alias, dnat>>
           /\ \/ Turns(p) /\ UNCHANGED <<reg, strays>>
              \/ \E n \in DOMAIN reg : reg' = Drop(n) /\ Wrote(p, n, Idle) /\ Stray(reg[n].ext)
<1> DEFINE u == job[p].user
           n == job[p].net
<1>1. job[p].pc = "remove" /\ BoundsOK' /\ UNCHANGED <<attached, alias, dnat>>
  BY Parts DEF Discard, boundVars, BoundsOK
<1>2. CASE ~Removable(u, n, TRUE)
  <2>1. Become(p, Idle) /\ UNCHANGED <<reg, vlan, proxied, leases, dnsmasq, strays>>
    BY <1>2 DEF Discard
  <2>2. Turns(p)
    BY <2>1 DEF Turns, Slots, Idle, Plain, Pending
  <2> QED
    BY <1>1, <2>1, <2>2, Parts DEF KernelOK
<1>3. CASE Removable(u, n, TRUE)
  <2>1. n \in DOMAIN reg
    BY <1>3 DEF Removable
  <2>2. /\ IF reg[n].type = "gateway" THEN UNCHANGED <<leases, dnsmasq>>
           ELSE Release(reg[n].id, IF reg[n].type = "externalip" THEN reg[n].ext ELSE reg[n].int, {})
        /\ vlan' \subseteq vlan /\ proxied' \subseteq proxied
        /\ Stray(reg[n].ext) /\ reg' = Drop(n) /\ Wrote(p, n, Idle)
    BY <1>3 DEF Discard
  <2>3. /\ leases' \in [Vlans -> SUBSET (Nets \X (Internals \cup Externals \cup {NoIp}))]
        /\ dnsmasq' \subseteq Vlans
    BY <2>1, <2>2, Registered, Parts DEF Release, KernelOK
  <2> HIDE DEF n
  <2> QED
    BY <1>1, <2>1, <2>2, <2>3, Parts DEF KernelOK
<1> QED
  BY <1>2, <1>3

LEMMA DiscardTypes == ASSUME TypeOK, NEW p \in Procs, Discard(p) PROVE TypeOK'
<1>1. CASE Turns(p) /\ UNCHANGED <<reg, strays>>
  BY <1>1, Discarded, Turned, Parts, PartsNext DEF RegisterOK
<1>2. CASE \E n \in DOMAIN reg : reg' = Drop(n) /\ Wrote(p, n, Idle) /\ Stray(reg[n].ext)
  <2>1. PICK n \in DOMAIN reg : reg' = Drop(n) /\ Wrote(p, n, Idle) /\ Stray(reg[n].ext)
    BY <1>2
  <2>2. RegisterOK' /\ strays' \subseteq Externals
    BY <2>1, Parts, Registered, Putting, Straying
  <2>3. job' \in [Procs -> Slots]
    BY <2>1, Registered, Writes DEF Slots
  <2> QED
    BY <2>2, <2>3, Discarded, Parts, PartsNext
<1> QED
  BY <1>1, <1>2, Discarded

LEMMA Linked ==
    ASSUME TypeOK, Attach \/ Detach
    PROVE  /\ \E n \in DOMAIN reg, row \in Rows(Statuses) : reg' = Put(n, row) /\ Like(row, reg[n])
           /\ attached' \subseteq Nets /\ BoundsOK' /\ UNCHANGED <<job, kernelVars, strays>>
<1>1. PICK n \in DOMAIN reg, dom \in BOOLEAN : reg' = Put(n, [reg[n] EXCEPT !.dom = dom])
  BY DEF Attach, Detach
<1>2. [reg[n] EXCEPT !.dom = dom] \in Rows(Statuses) /\ Like([reg[n] EXCEPT !.dom = dom], reg[n])
  <2>1. reg[n] \in Rows(Statuses)
    BY Registered
  <2> QED
    BY <2>1 DEF Rows, Like, Fit
<1>3. attached' \subseteq Nets /\ BoundsOK' /\ UNCHANGED <<job, kernelVars, strays>>
  BY Parts, Registered, Requested DEF Attach, Detach
<1> QED
  BY <1>1, <1>2, <1>3

LEMMA ServerTypes == ASSUME TypeOK, Attach \/ Detach PROVE TypeOK'
<1>1. RegisterOK'
  BY Linked, Parts, Registered, Putting
<1>2. KernelOK' /\ job' \in [Procs -> Slots] /\ strays' \subseteq Externals
  BY Linked, Parts DEF kernelVars, KernelOK
<1> QED
  BY <1>1, <1>2, Linked, PartsNext

\* The steps of a move change one field of one row.
LEMMA Altered ==
    ASSUME TypeOK, NEW n, NEW row, n \in DOMAIN reg => row \in Rows(Statuses),
           reg' = [m \in DOMAIN reg |-> IF m = n THEN row ELSE reg[m]]
    PROVE  /\ RegisterOK' /\ DOMAIN reg' = DOMAIN reg
           /\ \A m \in DOMAIN reg \ {n} : reg'[m] = reg[m]
           /\ n \in DOMAIN reg => reg'[n] = row
BY Parts DEF RegisterOK

LEMMA MoveStarts ==
    ASSUME TypeOK, NEW p \in Procs, Move(p)
    PROVE  /\ BoundsOK' /\ UNCHANGED <<reg, attached, kernelVars, strays>>
           /\ \E k \in Slots :
                  /\ Become(p, k) /\ k.pc = "moveid"
                  /\ k.net \in DOMAIN reg /\ k.user \in Users /\ k.newid = NextId(k.user, Open)
                  /\ k.during = {m \in DOMAIN reg \ {k.net} :
                                     /\ reg[m].id = k.newid /\ reg[m].user # k.user
                                     /\ \E o \in Owned(k.user) : reg[o].id = k.newid}
<1> DEFINE D(n, u, id) == {m \in DOMAIN reg \ {n} : /\ reg[m].id = id /\ reg[m].user # u
                                                    /\ \E o \in Owned(u) : reg[o].id = id}
<1>1. PICK n \in DOMAIN reg, u \in Users :
          Become(p, [Job("moveid", u, n, reg[n]) EXCEPT
                         !.newid = NextId(u, Open), !.during = D(n, u, NextId(u, Open)),
                         !.then = "readdress"])
  BY DEF Move
<1> DEFINE id  == NextId(u, Open)
           dur == D(n, u, id)
           k   == [Job("moveid", u, n, reg[n]) EXCEPT
                       !.newid = id, !.during = dur, !.then = "readdress"]
<1>2. id \in Vlans
  BY NextIdGiven
<1>3. dur \in SUBSET Nets
  BY DEF TypeOK
<1>4. Become(p, k)
  BY <1>1
<1>5. D(n, u, id) = dur
  OBVIOUS
<1>6. reg[n] \in Rows(Statuses \cup {"new"}) /\ n \in Nets
  BY Registered, AnyRow
<1> DEFINE j == Job("moveid", u, n, reg[n])
<1>7. j \in Jobs /\ j.user = u /\ j.net = n /\ j.pc = "moveid"
  BY <1>6 DEF Job, Jobs, Vlans
<1> HIDE DEF id, dur, j
<1>8. /\ k \in Slots /\ k.pc = "moveid" /\ k.net = n /\ k.user = u
      /\ k.newid = id /\ k.during = dur
  <2>1. k = [j EXCEPT !.newid = id, !.during = dur, !.then = "readdress"]
    BY DEF j
  <2> HIDE DEF k
  <2> QED
    BY <1>2, <1>3, <1>7, <2>1 DEF Slots, Jobs
<1>9. BoundsOK' /\ UNCHANGED <<reg, attached, kernelVars, strays>>
  BY Parts, Requested DEF Move
<1> HIDE DEF k
<1> QED
  BY <1>4, <1>8, <1>9 DEF id, dur

LEMMA MovedId ==
    ASSUME TypeOK, NEW p \in Procs, MoveId(p)
    PROVE  LET j == job[p]
               n == job[p].net
           IN  /\ j.pc = "moveid" /\ j \in Jobs /\ n \in Nets
               /\ BoundsOK' /\ RegisterOK' /\ UNCHANGED <<attached, kernelVars>>
               /\ \E k \in Slots :
                      /\ Wrote(p, n, k) /\ k.pc = "moveuser" /\ k.user = j.user /\ k.net = n
                      /\ k.newid = j.newid /\ k.during = j.during
               /\ DOMAIN reg' = DOMAIN reg /\ \A m \in DOMAIN reg \ {n} : reg'[m] = reg[m]
               /\ n \in DOMAIN reg =>
                      /\ reg'[n].user = reg[n].user /\ reg'[n].type = reg[n].type
                      /\ reg'[n].int = reg[n].int /\ reg'[n].ext = reg[n].ext
                      /\ reg'[n].id = j.newid
                      /\ Stray(reg[n].ext)
               /\ strays \subseteq strays' /\ strays' \subseteq Externals
<1> DEFINE j   == job[p]
           n   == j.net
           row == [reg[n] EXCEPT !.id = j.newid]
           k   == [j EXCEPT !.pc = "moveuser"]
<1>1. /\ j.pc = "moveid" /\ j \in Jobs /\ n \in Nets
      /\ BoundsOK' /\ UNCHANGED <<attached, kernelVars>>
  BY Busy, Parts DEF MoveId, boundVars, BoundsOK
<1>2. j.newid \in Vlans
  BY <1>1 DEF Jobs
<1>3. /\ reg' = [m \in DOMAIN reg |-> IF m = n THEN [reg[m] EXCEPT !.id = j.newid] ELSE reg[m]]
      /\ Stray(IF n \in DOMAIN reg THEN reg[n].ext ELSE NoIp) /\ Wrote(p, n, k)
  BY Zenon DEF MoveId
<1>4. /\ k \in Slots /\ k.pc = "moveuser" /\ k.user = j.user /\ k.net = n
      /\ k.newid = j.newid /\ k.during = j.during
  BY <1>1 DEF Slots, Jobs
<1> HIDE DEF n, j
<1>5. n \in DOMAIN reg =>
          /\ row \in Rows(Statuses) /\ row.id = j.newid
          /\ row.user = reg[n].user /\ row.type = reg[n].type
          /\ row.int = reg[n].int /\ row.ext = reg[n].ext
  <2> SUFFICES ASSUME n \in DOMAIN reg
               PROVE  /\ row \in Rows(Statuses) /\ row.id = j.newid
                      /\ row.user = reg[n].user /\ row.type = reg[n].type
                      /\ row.int = reg[n].int /\ row.ext = reg[n].ext
    OBVIOUS
  <2>1. reg[n] \in Rows(Statuses)
    BY Registered
  <2> QED
    BY <1>2, <2>1 DEF Rows
<1>6. reg' = [m \in DOMAIN reg |-> IF m = n THEN row ELSE reg[m]]
  BY <1>3
<1> HIDE DEF row, k
<1>7. /\ RegisterOK' /\ DOMAIN reg' = DOMAIN reg
      /\ \A m \in DOMAIN reg \ {n} : reg'[m] = reg[m]
      /\ n \in DOMAIN reg => reg'[n] = row
  BY <1>5, <1>6, Altered
<1>8. strays \subseteq strays' /\ strays' \subseteq Externals
  BY <1>3, Straying, Registered, Parts
<1> QED
  BY <1>1, <1>3, <1>4, <1>5, <1>7, <1>8 DEF n, j

LEMMA MovedUser ==
    ASSUME TypeOK, NEW p \in Procs, MoveUser(p)
    PROVE  LET j == job[p]
               n == job[p].net
           IN  /\ j.pc = "moveuser" /\ j \in Jobs /\ n \in Nets
               /\ BoundsOK' /\ RegisterOK' /\ UNCHANGED <<attached, kernelVars, strays>>
               /\ \E k \in Slots : Wrote(p, n, k) /\ Plain(k) /\ k.pc # "idle"
               /\ DOMAIN reg' = DOMAIN reg /\ \A m \in DOMAIN reg \ {n} : reg'[m] = reg[m]
               /\ n \in DOMAIN reg =>
                      /\ reg'[n].id = reg[n].id /\ reg'[n].type = reg[n].type
                      /\ reg'[n].int = reg[n].int /\ reg'[n].ext = reg[n].ext
                      /\ reg'[n].user = j.user
<1> DEFINE j   == job[p]
           n   == j.net
           row == [reg[n] EXCEPT !.user = j.user]
<1>1. /\ j.pc = "moveuser" /\ j \in Jobs /\ n \in Nets /\ j.user \in Users
      /\ BoundsOK' /\ UNCHANGED <<attached, kernelVars, strays>>
  BY Busy, Parts DEF MoveUser, boundVars, BoundsOK
<1>2. PICK pc \in {"validate", "readdress"} : Wrote(p, n, [j EXCEPT !.pc = pc])
  BY Zenon DEF MoveUser
<1>3. reg' = [m \in DOMAIN reg |-> IF m = n THEN [reg[m] EXCEPT !.user = j.user] ELSE reg[m]]
  BY Zenon DEF MoveUser
<1> DEFINE k == [j EXCEPT !.pc = pc]
<1>4. k \in Slots /\ Plain(k) /\ k.pc # "idle"
  BY <1>1 DEF Slots, Jobs, Plain, Pending
<1> HIDE DEF n, j
<1>5. n \in DOMAIN reg =>
          /\ row \in Rows(Statuses) /\ row.user = j.user
          /\ row.id = reg[n].id /\ row.type = reg[n].type
          /\ row.int = reg[n].int /\ row.ext = reg[n].ext
  <2> SUFFICES ASSUME n \in DOMAIN reg
               PROVE  /\ row \in Rows(Statuses) /\ row.user = j.user
                      /\ row.id = reg[n].id /\ row.type = reg[n].type
                      /\ row.int = reg[n].int /\ row.ext = reg[n].ext
    OBVIOUS
  <2>1. reg[n] \in Rows(Statuses)
    BY Registered
  <2> QED
    BY <1>1, <2>1 DEF Rows
<1>6. reg' = [m \in DOMAIN reg |-> IF m = n THEN row ELSE reg[m]]
  BY <1>3
<1> HIDE DEF row, k
<1>7. /\ RegisterOK' /\ DOMAIN reg' = DOMAIN reg
      /\ \A m \in DOMAIN reg \ {n} : reg'[m] = reg[m]
      /\ n \in DOMAIN reg => reg'[n] = row
  BY <1>5, <1>6, Altered
<1>8. Wrote(p, n, k)
  BY <1>2 DEF k
<1> QED
  BY <1>1, <1>4, <1>5, <1>7, <1>8 DEF n, j

LEMMA Readdressed ==
    ASSUME TypeOK, NEW p \in Procs, Readdress(p)
    PROVE  /\ BoundsOK' /\ UNCHANGED <<reg, attached, kernelVars, strays>>
           /\ \E k \in Slots :
                  /\ Become(p, k) /\ k.pc = "moveint" /\ k.during = {}
                  /\ k.row.int = NoIp \/ \A m \in Owned(k.user) : reg[m].int # k.row.int
<1> DEFINE j == job[p]
           i == NextInternal(j.user, j.net, j.newid, NoIp)
           k == [j EXCEPT !.pc = "moveint", !.during = {}, !.row.int = i]
<1>1. /\ j \in Jobs /\ j.user \in Users /\ j.row \in Rows(Statuses \cup {"new"})
      /\ BoundsOK' /\ UNCHANGED <<reg, attached, kernelVars, strays>>
  BY Busy, Parts DEF Readdress, boundVars, BoundsOK
<1>2. /\ i \in Internals \cup {NoIp}
      /\ i = NoIp \/ \A m \in Owned(j.user) : reg[m].int # i
  <2>1. j.newid \in Vlans
    BY <1>1 DEF Jobs
  <2> QED
    BY <1>1, <2>1, NextInternalIn
<1>3. Become(p, k)
  BY Zenon DEF Readdress
<1> DEFINE r == [j.row EXCEPT !.int = i]
<1> HIDE DEF i, j
<1>4. r \in Rows(Statuses \cup {"new"}) /\ r.int = i
  BY <1>1, <1>2 DEF Rows
<1>5. k = [j EXCEPT !.pc = "moveint", !.during = {}, !.row = r]
  BY <1>1 DEF Jobs
<1> HIDE DEF r, k
<1>6. k \in Slots /\ k.pc = "moveint" /\ k.during = {} /\ k.row = r /\ k.user = j.user
  BY <1>1, <1>4, <1>5 DEF Slots, Jobs
<1> QED
  BY <1>1, <1>2, <1>3, <1>4, <1>6

LEMMA MovedInt ==
    ASSUME TypeOK, NEW p \in Procs, MoveInt(p)
    PROVE  LET j == job[p]
               n == job[p].net
           IN  /\ j.pc = "moveint" /\ j \in Jobs /\ n \in Nets
               /\ BoundsOK' /\ RegisterOK' /\ UNCHANGED <<attached, kernelVars>>
               /\ \E k \in Slots : Wrote(p, n, k) /\ Plain(k)
               /\ DOMAIN reg' = DOMAIN reg /\ \A m \in DOMAIN reg \ {n} : reg'[m] = reg[m]
               /\ n \in DOMAIN reg =>
                      /\ reg'[n].user = reg[n].user /\ reg'[n].id = reg[n].id
                      /\ reg'[n].type = reg[n].type /\ reg'[n].ext = reg[n].ext
                      /\ reg'[n].int = j.row.int
                      /\ Stray(reg[n].ext)
               /\ strays \subseteq strays' /\ strays' \subseteq Externals
<1> DEFINE j   == job[p]
           n   == j.net
           row == [reg[n] EXCEPT !.int = j.row.int]
<1>1. /\ j.pc = "moveint" /\ j \in Jobs /\ n \in Nets /\ j.row \in Rows(Statuses \cup {"new"})
      /\ BoundsOK' /\ UNCHANGED <<attached, kernelVars>>
  BY Busy, Parts DEF MoveInt, boundVars, BoundsOK
<1>2. j.row.int \in Internals \cup {NoIp}
  BY <1>1 DEF Rows
<1>3. /\ reg' = [m \in DOMAIN reg |-> IF m = n THEN [reg[m] EXCEPT !.int = j.row.int] ELSE reg[m]]
      /\ Stray(IF n \in DOMAIN reg THEN reg[n].ext ELSE NoIp) /\ Wrote(p, n, Idle)
  BY Zenon DEF MoveInt
<1>4. Idle \in Slots /\ Plain(Idle)
  BY DEF Slots, Plain, Pending, Idle
<1> HIDE DEF n, j
<1>5. n \in DOMAIN reg =>
          /\ row \in Rows(Statuses) /\ row.int = j.row.int
          /\ row.user = reg[n].user /\ row.id = reg[n].id
          /\ row.type = reg[n].type /\ row.ext = reg[n].ext
  <2> SUFFICES ASSUME n \in DOMAIN reg
               PROVE  /\ row \in Rows(Statuses) /\ row.int = j.row.int
                      /\ row.user = reg[n].user /\ row.id = reg[n].id
                      /\ row.type = reg[n].type /\ row.ext = reg[n].ext
    OBVIOUS
  <2>1. reg[n] \in Rows(Statuses)
    BY Registered
  <2> QED
    BY <1>2, <2>1 DEF Rows
<1>6. reg' = [m \in DOMAIN reg |-> IF m = n THEN row ELSE reg[m]]
  BY <1>3
<1> HIDE DEF row
<1>7. /\ RegisterOK' /\ DOMAIN reg' = DOMAIN reg
      /\ \A m \in DOMAIN reg \ {n} : reg'[m] = reg[m]
      /\ n \in DOMAIN reg => reg'[n] = row
  BY <1>5, <1>6, Altered
<1>8. strays \subseteq strays' /\ strays' \subseteq Externals
  BY <1>3, Straying, Registered, Parts
<1> QED
  BY <1>1, <1>3, <1>4, <1>5, <1>7, <1>8 DEF n, j

LEMMA MoveTypes ==
    ASSUME TypeOK, NEW p \in Procs,
           Move(p) \/ MoveId(p) \/ MoveUser(p) \/ Readdress(p) \/ MoveInt(p)
    PROVE  TypeOK'
<1>1. CASE Move(p) \/ Readdress(p)
  <2>1. BoundsOK' /\ UNCHANGED <<reg, attached, kernelVars, strays>>
    BY <1>1, MoveStarts, Readdressed
  <2>2. job' \in [Procs -> Slots]
    BY <1>1, MoveStarts, Readdressed, Became
  <2> QED
    BY <2>1, <2>2, OnlyJobs
<1>2. CASE MoveId(p) \/ MoveUser(p) \/ MoveInt(p)
  <2>1. /\ BoundsOK' /\ RegisterOK' /\ UNCHANGED <<attached, kernelVars>>
        /\ job[p].net \in Nets /\ \E k \in Slots : Wrote(p, job[p].net, k)
    BY <1>2, MovedId, MovedUser, MovedInt
  <2>2. job' \in [Procs -> Slots]
    BY <2>1, Writes
  <2>3. strays' \subseteq Externals
    BY <1>2, MovedId, MovedUser, MovedInt, Parts
  <2>4. KernelOK' /\ attached' \subseteq Nets
    BY <2>1, Parts DEF kernelVars, KernelOK
  <2> QED
    BY <2>1, <2>2, <2>3, <2>4, PartsNext
<1> QED
  BY <1>1, <1>2

LEMMA RebootTypes == ASSUME TypeOK, Reboot PROVE TypeOK'
<1>1. RegisterOK' /\ attached' \subseteq Nets /\ strays' \subseteq Externals
  BY Parts DEF Reboot, RegisterOK
<1>2. job' \in [Procs -> Slots]
  BY DEF Reboot, Slots
<1>3. KernelOK'
  BY Parts DEF Reboot, KernelOK
<1>4. BoundsOK'
  BY Parts, Requested DEF Reboot
<1> QED
  BY <1>1, <1>2, <1>3, <1>4, PartsNext

LEMMA TypeStart == Init => TypeOK
BY NetworksAssumption DEF Init, Booted, TypeOK, Externals, Vlans

-----------------------------------------------------------------------------
(* Steps: what they do to the register and to the processes that have picked *)

\* A process that is about to write its pick, or to set up a network, was so before; the
\* networks of S are noticed by those that have picked.
Keeps(q, S) ==
    \/ Plain(job'[q])
    \/ /\ job'[q].pc = job[q].pc /\ job'[q].user = job[q].user
       /\ job'[q].net = job[q].net /\ job'[q].row = job[q].row /\ job'[q].newid = job[q].newid
       /\ job'[q].pc # "configure" => job'[q].during = job[q].during \cup S

\* Nobody picks, and no network comes, goes, or changes its owner or addresses.
Calm ==
    /\ \A q \in Procs : Keeps(q, {})
    /\ \/ UNCHANGED reg
       \/ \E n \in DOMAIN reg, row \in Rows(Statuses) : reg' = Put(n, row) /\ Like(row, reg[n])

\* Only network n is written or removed, and those that have picked notice.
Touched(n) ==
    /\ n \in Nets
    /\ \A q \in Procs : Keeps(q, {n})
    /\ \A m \in DOMAIN reg \ {n} : m \in DOMAIN reg' /\ reg'[m] = reg[m]
    /\ DOMAIN reg' \subseteq DOMAIN reg \cup {n}

LEMMA TurnKeeps == ASSUME TypeOK, NEW p \in Procs, Turns(p) PROVE \A q \in Procs : Keeps(q, {})
BY Turned DEF Keeps, Plain, Pending

LEMMA WriteKeeps ==
    ASSUME TypeOK, NEW p \in Procs, NEW n \in Nets, NEW j, Wrote(p, n, j), Plain(j)
    PROVE  \A q \in Procs : Keeps(q, {n})
BY Writes, Notices DEF Keeps, Plain, Pending

LEMMA NoticeKeeps ==
    ASSUME TypeOK, NEW n \in Nets, job' = Noticed(n)
    PROVE  \A q \in Procs : Keeps(q, {n})
BY Notices DEF Keeps, Plain, Pending

LEMMA TouchPut ==
    ASSUME TypeOK, NEW n \in Nets, NEW row \in Rows(Statuses), \A q \in Procs : Keeps(q, {n}),
           reg' = Put(n, row) \/ reg' = Drop(n)
    PROVE  Touched(n)
<1>1. RegisterOK
  BY Parts
<1> QED
  BY <1>1, Putting DEF Touched

LEMMA Steps ==
    ASSUME TypeOK, Next
    PROVE  \/ Calm
           \/ \E p \in Procs : Activate(p) \/ Allocate(p) \/ Move(p) \/ Readdress(p)
           \/ \E n \in DOMAIN reg : Touched(n) /\ reg' = Drop(n) /\ Stray(reg[n].ext)
           \/ \E p \in Procs : \/ (Write(p) \/ MoveUser(p) \/ MoveInt(p)) /\ Touched(job[p].net)
                               \/ MoveId(p)
<1>1. ASSUME NEW p \in Procs,
             \/ SaveNew(p) \/ SaveOld(p) \/ List(p) \/ Stop(p) \/ Deactivate(p) \/ StopOne(p)
             \/ RemoveSystem(p) \/ TakeDown(p) \/ Validate(p) \/ Settle(p) \/ Configure(p)
      PROVE  Calm
  <2>1. Turns(p)
    <3>1. CASE SaveNew(p) \/ SaveOld(p) \/ List(p) \/ Stop(p)
      BY <3>1, SaveNewTurns, SaveOldTurns, ListTurns, StopTurns
    <3>2. CASE Deactivate(p) \/ StopOne(p) \/ RemoveSystem(p) \/ TakeDown(p)
      BY <3>2, Undoes, TakeDownTypes
    <3>3. CASE Validate(p) \/ Settle(p)
      BY <3>3, Validated, Settled
    <3>4. CASE Configure(p)
      BY <3>4, ConfigureTurns
    <3> QED
      BY <1>1, <3>1, <3>2, <3>3, <3>4
  <2>2. \/ UNCHANGED reg
        \/ \E n \in DOMAIN reg, row \in Rows(Statuses) : reg' = Put(n, row) /\ Like(row, reg[n])
    <3>1. CASE SaveNew(p) \/ SaveOld(p) \/ List(p) \/ Stop(p)
      BY <3>1, SaveNewTurns, SaveOldTurns, ListTurns, StopTurns
    <3>2. CASE Deactivate(p) \/ StopOne(p) \/ RemoveSystem(p)
      BY <3>2, Undoes
    <3>3. CASE Validate(p) \/ Settle(p)
      BY <3>3, Validated, Settled
    <3>4. CASE Configure(p) \/ TakeDown(p)
      BY <3>4 DEF Configure, TakeDown
    <3> QED
      BY <1>1, <3>1, <3>2, <3>3, <3>4
  <2> QED
    BY <2>1, <2>2, TurnKeeps DEF Calm
<1>2. ASSUME Attach \/ Detach PROVE Calm
  BY <1>2, Linked DEF Calm, Keeps
<1>3. ASSUME Reboot PROVE Calm
  BY <1>3 DEF Reboot, Calm, Keeps, Plain, Pending, Idle
<1>4. ASSUME NEW n \in DOMAIN reg, reg' = Drop(n), \A q \in Procs : Keeps(q, {n})
      PROVE  Touched(n)
  BY <1>4, Registered, TouchPut
<1>5. ASSUME Remove
      PROVE  \E n \in DOMAIN reg : Touched(n) /\ reg' = Drop(n) /\ Stray(reg[n].ext)
  BY <1>4, <1>5, Removed, Registered, NoticeKeeps
<1>6. ASSUME NEW p \in Procs, Discard(p)
      PROVE  \/ Calm
             \/ \E n \in DOMAIN reg : Touched(n) /\ reg' = Drop(n) /\ Stray(reg[n].ext)
  <2>1. Plain(Idle)
    BY DEF Plain, Pending, Idle
  <2>2. CASE Turns(p) /\ UNCHANGED <<reg, strays>>
    BY <2>2, TurnKeeps DEF Calm
  <2>3. CASE \E n \in DOMAIN reg : reg' = Drop(n) /\ Wrote(p, n, Idle) /\ Stray(reg[n].ext)
    BY <1>4, <2>1, <2>3, Registered, WriteKeeps
  <2> QED
    BY <1>6, <2>2, <2>3, Discarded
<1>7. ASSUME NEW p \in Procs, Write(p) PROVE Touched(job[p].net)
  BY <1>7, Written, WriteKeeps, TouchPut
<1>8. ASSUME NEW p \in Procs, MoveUser(p) \/ MoveInt(p) PROVE Touched(job[p].net)
  <2>1. PICK k : Wrote(p, job[p].net, k) /\ Plain(k)
    BY <1>8, MovedUser, MovedInt
  <2>2. job[p].net \in Nets
    BY <1>8, MovedUser, MovedInt
  <2>3. \A q \in Procs : Keeps(q, {job[p].net})
    BY <2>1, <2>2, WriteKeeps
  <2>4. DOMAIN reg' = DOMAIN reg /\ \A m \in DOMAIN reg \ {job[p].net} : reg'[m] = reg[m]
    BY <1>8, MovedUser, MovedInt
  <2> QED
    BY <2>2, <2>3, <2>4 DEF Touched
<1> QED
  BY <1>1, <1>2, <1>3, <1>5, <1>6, <1>7, <1>8 DEF Next, Serve, Proceed

\* Rows that others have not touched are as they were.
LEMMA CalmRows ==
    ASSUME TypeOK, Calm
    PROVE  /\ DOMAIN reg' = DOMAIN reg
           /\ \A m \in DOMAIN reg : reg'[m] = reg[m] \/ Like(reg'[m], reg[m])
<1>1. CASE UNCHANGED reg
  BY <1>1
<1>2. CASE \E n \in DOMAIN reg, row \in Rows(Statuses) : reg' = Put(n, row) /\ Like(row, reg[n])
  <2>1. PICK n \in DOMAIN reg, row \in Rows(Statuses) : reg' = Put(n, row) /\ Like(row, reg[n])
    BY <1>2
  <2>2. RegisterOK /\ n \in Nets
    BY Parts, Registered
  <2> QED
    BY <2>1, <2>2, Putting
<1> QED
  BY <1>1, <1>2 DEF Calm

LEMMA FitsKept == ASSUME TypeOK, Fits, Next PROVE Fits'
<1>1. CASE Calm
  <2>1. \A n \in DOMAIN reg' : Fit(reg'[n])
    BY <1>1, CalmRows DEF Fits, Like
  <2>2. \A q \in Procs : job'[q].pc \in {"write", "configure"} => Fit(job'[q].row)
    BY <1>1 DEF Fits, Calm, Keeps, Plain, Pending, Fit
  <2> QED
    BY <2>1, <2>2 DEF Fits, Fit
<1>2. ASSUME NEW p \in Procs, Activate(p) PROVE Fits'
  <2>1. UNCHANGED reg
    BY <1>2, Activated
  <2>2. PICK n \in DOMAIN reg, j \in Slots : Become(p, j) /\ j.pc = "configure" /\ j.row = reg[n]
    BY <1>2, Activated
  <2>3. job'[p] = j /\ \A q \in Procs : q # p => job'[q] = job[q]
    BY <2>2, Became
  <2> QED
    BY <2>1, <2>2, <2>3 DEF Fits, Fit
<1>3. ASSUME NEW p \in Procs, Allocate(p) PROVE Fits'
  <2>1. UNCHANGED reg
    BY <1>3 DEF Allocate
  <2>2. job'[p].pc \in {"write", "configure"} => Fit(job'[p].row)
    <3>1. CASE Become(p, Idle)
      BY <3>1, Became DEF Idle
    <3>2. ASSUME NEW picked, Fit(picked), Become(p, [job[p] EXCEPT !.pc = "write", !.row = picked])
          PROVE  Fit(job'[p].row)
      <4>1. job[p] \in Jobs
        BY <1>3, Allocated
      <4>2. job'[p] = [job[p] EXCEPT !.pc = "write", !.row = picked]
        BY <3>2, Became
      <4> QED
        BY <3>2, <4>1, <4>2 DEF Jobs
    <3> QED
      BY <1>3, <3>1, <3>2, Allocated
  <2>3. \A q \in Procs : q # p => job'[q] = job[q]
    BY <1>3, Allocated, Became
  <2> QED
    BY <2>1, <2>2, <2>3 DEF Fits, Fit
<1>4. ASSUME NEW n \in Nets, Touched(n), n \in DOMAIN reg' => Fit(reg'[n]) PROVE Fits'
  <2>1. \A m \in DOMAIN reg' : Fit(reg'[m])
    BY <1>4 DEF Touched, Fits
  <2>2. \A q \in Procs : job'[q].pc \in {"write", "configure"} => Fit(job'[q].row)
    BY <1>4 DEF Fits, Touched, Keeps, Plain, Pending, Fit
  <2> QED
    BY <2>1, <2>2 DEF Fits, Fit
<1>5. ASSUME NEW n \in DOMAIN reg, Touched(n), reg' = Drop(n) PROVE Fits'
  BY <1>4, <1>5, Registered DEF Drop
<1>6. ASSUME NEW p \in Procs, Write(p), Touched(job[p].net) PROVE Fits'
  <2> DEFINE n == job[p].net
  <2>1. PICK row \in Rows(Statuses) :
            reg' = Put(n, row) /\ row.type = job[p].row.type /\ row.ext = job[p].row.ext
    BY <1>6, Written
  <2>2. n \in Nets /\ job[p].pc = "write"
    BY <1>6, Written
  <2>3. reg'[n] = row
    BY <2>1, <2>2, Putting, Parts
  <2> QED
    BY <1>4, <1>6, <2>1, <2>2, <2>3 DEF Fits, Fit
<1>7. ASSUME NEW p \in Procs, MoveId(p) \/ MoveUser(p) \/ MoveInt(p) PROVE Fits'
  <2>1. \A m \in DOMAIN reg' : /\ m \in DOMAIN reg
                               /\ reg'[m].type = reg[m].type /\ reg'[m].ext = reg[m].ext
    BY <1>7, MovedId, MovedUser, MovedInt
  <2>2. PICK k : Wrote(p, job[p].net, k) /\ k.pc \notin {"write", "configure"}
    BY <1>7, MovedId, MovedUser, MovedInt DEF Plain, Pending
  <2>3. \A q \in Procs : job'[q].pc \in {"write", "configure"} =>
            job[q].pc = job'[q].pc /\ job[q].row = job'[q].row
    <3>1. job[p].net \in Nets
      BY <1>7, MovedId, MovedUser, MovedInt
    <3> QED
      BY <2>2, <3>1, Writes, Notices DEF Pending
  <2> QED
    BY <2>1, <2>3 DEF Fits, Fit
<1>8. ASSUME NEW p \in Procs, Move(p) \/ Readdress(p) PROVE Fits'
  <2>1. UNCHANGED reg
    BY <1>8 DEF Move, Readdress
  <2>2. PICK k : Become(p, k) /\ k.pc \in {"moveid", "moveint"}
    BY <1>8, MoveStarts, Readdressed
  <2>3. job'[p].pc \notin {"write", "configure"} /\ \A q \in Procs : q # p => job'[q] = job[q]
    BY <2>2, Became
  <2> QED
    BY <2>1, <2>3 DEF Fits, Fit
<1> QED
  BY <1>1, <1>2, <1>3, <1>5, <1>6, <1>7, <1>8, Steps

LEMMA FitsStart == Init => Fits
BY DEF Init, Booted, Fits, Idle

LEMMA TypeKept == ASSUME TypeOK, Fits, [Next]_vars PROVE TypeOK'
<1>1. CASE UNCHANGED vars
  BY <1>1 DEF TypeOK, vars, kernelVars, boundVars
<1>2. CASE Next
  <2>1. ASSUME NEW p \in Procs, Serve(p) PROVE TypeOK'
    BY <2>1, TurnTypes, UndoTypes, MoveTypes DEF Serve
  <2>2. ASSUME NEW p \in Procs, Configure(p) PROVE TypeOK'
    <3>1. Fit(job[p].row)
      BY <2>2 DEF Configure, Fits
    <3> QED
      BY <2>2, <3>1, ConfigureTypes
  <2>3. ASSUME NEW p \in Procs, Proceed(p) PROVE TypeOK'
    BY <2>2, <2>3, AllocateTypes, WriteTypes, ValidateTypes, SettleTypes, UndoTypes,
       TakeDownTypes, DiscardTypes, MoveTypes DEF Proceed
  <2> QED
    BY <1>2, <2>1, <2>3, RemoveTypes, ServerTypes, RebootTypes DEF Next
<1> QED
  BY <1>1, <1>2

-----------------------------------------------------------------------------
(* Forwarding *)

\* Network m is to be reached at external address e.
Mapped(m, e) == reg[m].type = "ipmapping" /\ reg[m].ext = e /\ reg[m].int # NoIp

\* What external address e is forwarded to, and each of its aliases, belongs to a network;
\* and that network is forwarded to, unless networks that share the address have stopped it.
Leads(e) ==
    /\ \A i \in dnat[e] : \E m \in DOMAIN reg : Mapped(m, e) /\ reg[m].int = i
    /\ \A v \in Vlans : <<v, e>> \in alias =>
           \E m \in DOMAIN reg :
               /\ Mapped(m, e) /\ reg[m].id = v
               /\ e \in SharedExternals \/ reg[m].int \in dnat[e]

Forwarded == \A e \in Externals \ strays : Leads(e)

\* A row that leads where the old one led.
Alike(row, old) ==
    /\ row.ext = old.ext /\ row.id = old.id
    /\ old.type # "gateway" /\ old.ext # NoIp => row.type # "gateway"
    /\ old.type = "ipmapping" /\ old.int # NoIp /\ old.ext # NoIp =>
           row.type = "ipmapping" /\ row.int = old.int

Stays(e) ==
    \A m \in DOMAIN reg : reg[m].ext = e => m \in DOMAIN reg' /\ Alike(reg'[m], reg[m])

LEMMA LikeIsAlike ==
    ASSUME NEW row, NEW old, Like(row, old) \/ row = old \/ ~Differ(old, row)
    PROVE  Alike(row, old)
BY DEF Like, Alike, Differ

LEMMA SharedStays ==
    ASSUME NEW e \in Externals, Stays(e), e \in SharedExternals
    PROVE  e \in SharedExternals'
<1>1. e # NoIp
  BY NoIpIsNone
<1>2. PICK n \in Connected, m \in Connected : m # n /\ reg[n].ext = e /\ reg[m].ext = e
  BY DEF SharedExternals
<1>3. /\ n \in Connected' /\ m \in Connected' \ {n}
      /\ reg'[n].ext = e /\ reg'[m].ext = e
  BY <1>1, <1>2 DEF Connected, Stays, Alike
<1> QED
  BY <1>1, <1>3 DEF SharedExternals

LEMMA LeadsKept ==
    ASSUME NEW e \in Externals, Leads(e), Stays(e), UNCHANGED <<alias, dnat>>
    PROVE  Leads(e)'
<1>1. e # NoIp
  BY NoIpIsNone
<1>2. ASSUME NEW m \in DOMAIN reg, Mapped(m, e)
      PROVE  m \in DOMAIN reg' /\ Mapped(m, e)' /\ reg'[m].int = reg[m].int /\ reg'[m].id = reg[m].id
  BY <1>1, <1>2 DEF Mapped, Stays, Alike
<1>3. \A i \in dnat'[e] : \E m \in DOMAIN reg' : Mapped(m, e)' /\ reg'[m].int = i
  BY <1>2 DEF Leads
<1>4. ASSUME NEW v \in Vlans, <<v, e>> \in alias'
      PROVE  \E m \in DOMAIN reg' : /\ Mapped(m, e)' /\ reg'[m].id = v
                                    /\ e \in SharedExternals' \/ reg'[m].int \in dnat'[e]
  <2>1. PICK m \in DOMAIN reg : /\ Mapped(m, e) /\ reg[m].id = v
                                /\ e \in SharedExternals \/ reg[m].int \in dnat[e]
    BY <1>4 DEF Leads
  <2> QED
    BY <1>2, <2>1, SharedStays
<1> QED
  BY <1>3, <1>4 DEF Leads

\* An address that nothing is forwarded from and no interface has leads nowhere.
LEMMA UnusedLeads ==
    ASSUME NEW e \in Externals, e \notin ExternalIps, dnat[e] = {}, UNCHANGED <<alias, dnat>>
    PROVE  Leads(e)'
BY DEF Leads, ExternalIps

\* A step that leaves the kernel alone, and notes the address of the network that it changes.
LEMMA RowChanged ==
    ASSUME TypeOK, Forwarded, NEW n \in Nets, UNCHANGED <<alias, dnat>>, strays \subseteq strays',
           \A m \in DOMAIN reg \ {n} : m \in DOMAIN reg' /\ reg'[m] = reg[m],
           n \in DOMAIN reg =>
               \/ n \in DOMAIN reg' /\ Alike(reg'[n], reg[n])
               \/ Stray(reg[n].ext)
    PROVE  Forwarded'
<1> SUFFICES ASSUME NEW e \in Externals, e \notin strays' PROVE Leads(e)'
  BY DEF Forwarded, Externals
<1>1. Leads(e)
  BY DEF Forwarded
<1>2. CASE e \notin ExternalIps /\ dnat[e] = {}
  BY <1>2, UnusedLeads
<1>3. CASE e \in ExternalIps \/ dnat[e] # {}
  <2>1. ASSUME n \in DOMAIN reg, reg[n].ext = e PROVE n \in DOMAIN reg' /\ Alike(reg'[n], reg[n])
    <3>1. ~Stray(reg[n].ext)
      BY <1>3, <2>1, Straying, NoIpIsNone, Parts
    <3> QED
      BY <2>1, <3>1
  <2>2. Stays(e)
    BY <2>1, LikeIsAlike DEF Stays
  <2> QED
    BY <1>1, <2>2, LeadsKept
<1> QED
  BY <1>2, <1>3

\* Deactivate takes away the rule and the alias of one network; that another network has an
\* alias of the address in another VLAN means that they share it.
LEMMA UnconfigureForwards ==
    ASSUME TypeOK, Forwarded, NEW n \in DOMAIN reg, NEW servers, Unconfigure(reg[n], servers),
           UNCHANGED <<reg, strays>>
    PROVE  Forwarded'
<1> DEFINE row    == reg[n]
           mapped == row.type = "ipmapping" /\ row.int # NoIp /\ Seen(row.ext)
<1> SUFFICES ASSUME NEW e \in Externals, e \notin strays' PROVE Leads(e)'
  BY DEF Forwarded, Externals
<1>1. Leads(e) /\ e # NoIp /\ UNCHANGED SharedExternals
  BY NoIpIsNone DEF Forwarded, SharedExternals, Connected
<1>2. CASE mapped
  <2>1. /\ alias' = alias \ {<<row.id, row.ext>>}
        /\ dnat' = [dnat EXCEPT ![row.ext] = @ \ {row.int}]
    BY <1>2 DEF Unconfigure
  <2>2. dnat'[e] = IF e = row.ext THEN dnat[e] \ {row.int} ELSE dnat[e]
    BY <2>1 DEF TypeOK
  <2>3. \A i \in dnat'[e] : \E m \in DOMAIN reg' : Mapped(m, e)' /\ reg'[m].int = i
    <3>1. dnat'[e] \subseteq dnat[e]
      BY <2>2
    <3> QED
      BY <1>1, <3>1 DEF Leads, Mapped
  <2>4. ASSUME NEW v \in Vlans, <<v, e>> \in alias'
        PROVE  \E m \in DOMAIN reg' : /\ Mapped(m, e)' /\ reg'[m].id = v
                                      /\ e \in SharedExternals' \/ reg'[m].int \in dnat'[e]
    <3>1. <<v, e>> \in alias /\ (e = row.ext => v # row.id)
      BY <2>1, <2>4
    <3>2. PICK m \in DOMAIN reg : /\ Mapped(m, e) /\ reg[m].id = v
                                  /\ e \in SharedExternals \/ reg[m].int \in dnat[e]
      BY <1>1, <3>1 DEF Leads
    <3>3. CASE e # row.ext
      BY <1>1, <2>2, <3>2, <3>3 DEF Mapped
    <3>4. CASE e = row.ext
      <4>1. n \in Connected /\ m \in Connected \ {n} /\ reg[m].ext = e /\ reg[n].ext = e
        BY <1>2, <3>1, <3>2, <3>4 DEF Connected, Mapped
      <4>2. e \in SharedExternals
        BY <1>1, <4>1 DEF SharedExternals
      <4> QED
        BY <1>1, <3>2, <4>2 DEF Mapped
    <3> QED
      BY <3>3, <3>4
  <2> QED
    BY <2>3, <2>4 DEF Leads
<1>3. CASE ~mapped
  <2>1. UNCHANGED <<alias, dnat>>
    BY <1>3 DEF Unconfigure
  <2> QED
    BY <1>1, <2>1 DEF Leads, Mapped
<1> QED
  BY <1>2, <1>3

\* Activate sets up the forwarding of a row that it has read; where the network has another
\* one by now, or the alias fails, the address is left behind.
LEMMA ConfigureForwards ==
    ASSUME TypeOK, Forwarded, NEW p \in Procs, Configure(p)
    PROVE  Forwarded'
<1> DEFINE row   == job[p].row
           n     == job[p].net
           maps  == row.type = "ipmapping" /\ row.int # NoIp /\ row.ext # NoIp /\ ~job[p].seen
           stale == n \notin DOMAIN reg \/ Differ(reg[n], row)
<1> SUFFICES ASSUME NEW e \in Externals, e \notin strays' PROVE Leads(e)'
  BY DEF Forwarded, Externals
<1>1. /\ strays \subseteq strays' /\ UNCHANGED reg
      /\ maps => (stale => row.ext \in strays')
      /\ dnat' = IF maps THEN [dnat EXCEPT ![row.ext] = @ \cup {row.int}] ELSE dnat
      /\ \/ alias' = IF maps THEN alias \cup {<<row.id, row.ext>>} ELSE alias
         \/ maps /\ row.ext \in strays' /\ UNCHANGED alias
  <2>1. /\ UNCHANGED reg
        /\ dnat' = IF maps THEN [dnat EXCEPT ![row.ext] = @ \cup {row.int}] ELSE dnat
        /\ \/ /\ alias' = IF maps THEN alias \cup {<<row.id, row.ext>>} ELSE alias
              /\ strays' = strays \cup {f \in {row.ext} : stale /\ maps}
           \/ /\ maps
              /\ strays' = strays \cup {row.ext}
              /\ UNCHANGED alias
    BY DEF Configure
  <2> HIDE DEF maps, stale, row
  <2> QED
    BY <2>1
<1>2. Leads(e) /\ e # NoIp /\ UNCHANGED SharedExternals
  BY <1>1, NoIpIsNone DEF Forwarded, SharedExternals, Connected
<1>3. CASE maps /\ e = row.ext
  <2>1. ~stale
    BY <1>1, <1>3
  <2>2. n \in DOMAIN reg /\ Mapped(n, e) /\ reg[n].id = row.id /\ reg[n].int = row.int
    BY <1>3, <2>1 DEF Differ, Mapped
  <2> HIDE DEF row, n
  <2>3. dnat'[e] = dnat[e] \cup {row.int}
    BY <1>1, <1>3 DEF TypeOK
  <2>4. alias' \subseteq alias \cup {<<row.id, e>>}
    BY <1>1, <1>3
  <2>5. \A i \in dnat'[e] : \E m \in DOMAIN reg' : Mapped(m, e)' /\ reg'[m].int = i
    BY <1>1, <1>2, <2>2, <2>3 DEF Leads, Mapped
  <2>6. ASSUME NEW v \in Vlans, <<v, e>> \in alias'
        PROVE  \E m \in DOMAIN reg' : /\ Mapped(m, e)' /\ reg'[m].id = v
                                      /\ e \in SharedExternals' \/ reg'[m].int \in dnat'[e]
    <3>1. CASE v = row.id
      BY <1>1, <2>2, <2>3, <3>1 DEF Mapped
    <3>2. CASE v # row.id
      <4>1. <<v, e>> \in alias
        BY <2>4, <2>6, <3>2
      <4> QED
        BY <1>1, <1>2, <2>3, <4>1 DEF Leads, Mapped
    <3> QED
      BY <3>1, <3>2
  <2> QED
    BY <2>5, <2>6 DEF Leads
<1>4. CASE ~(maps /\ e = row.ext)
  <2> HIDE DEF row
  <2>1. dnat'[e] = dnat[e]
    BY <1>1, <1>4 DEF TypeOK
  <2>2. \A v \in Vlans : <<v, e>> \in alias' => <<v, e>> \in alias
    BY <1>1, <1>4
  <2> HIDE DEF maps
  <2> QED
    BY <1>1, <1>2, <2>1, <2>2 DEF Leads, Mapped
<1> QED
  BY <1>3, <1>4

LEMMA ForwardedKept == ASSUME TypeOK, Forwarded, Next PROVE Forwarded'
<1>1. ASSUME UNCHANGED <<reg, alias, dnat, strays>> PROVE Forwarded'
  BY <1>1 DEF Forwarded, Leads, Mapped, SharedExternals, Connected
<1>2. ASSUME NEW p \in Procs,
             \/ SaveNew(p) \/ SaveOld(p) \/ List(p) \/ Activate(p) \/ Stop(p)
             \/ Allocate(p) \/ TakeDown(p) \/ Move(p) \/ Readdress(p)
      PROVE  Forwarded'
  <2>1. CASE SaveNew(p) \/ SaveOld(p) \/ List(p) \/ Activate(p) \/ Stop(p)
    BY <1>1, <2>1, SaveNewTurns, SaveOldTurns, ListTurns, Activated, StopTurns DEF kernelVars
  <2>2. CASE Allocate(p) \/ TakeDown(p) \/ Move(p) \/ Readdress(p)
    BY <1>1, <2>2 DEF Allocate, TakeDown, Move, Readdress, kernelVars
  <2> QED
    BY <1>2, <2>1, <2>2
<1>3. ASSUME NEW p \in Procs, Deactivate(p) \/ StopOne(p) \/ RemoveSystem(p) PROVE Forwarded'
  <2>1. UNCHANGED <<reg, strays>>
    BY <1>3, Undoes
  <2>2. CASE UNCHANGED kernelVars
    BY <1>1, <2>1, <2>2 DEF kernelVars
  <2>3. CASE \E n \in DOMAIN reg, servers \in SUBSET Nets : Unconfigure(reg[n], servers)
    BY <2>1, <2>3, UnconfigureForwards
  <2> QED
    BY <1>3, <2>2, <2>3, Undoes
<1>4. ASSUME NEW n \in DOMAIN reg, NEW row \in Rows(Statuses), reg' = Put(n, row),
             UNCHANGED <<alias, dnat>>,
             \/ Alike(row, reg[n]) /\ (strays' = strays \/ Stray(reg[n].ext))
             \/ Stray(reg[n].ext)
      PROVE  Forwarded'
  <2>1. /\ n \in Nets /\ strays \subseteq strays' /\ reg'[n] = row /\ n \in DOMAIN reg'
        /\ \A m \in DOMAIN reg \ {n} : m \in DOMAIN reg' /\ reg'[m] = reg[m]
    BY <1>4, Registered, Putting, Straying, Parts
  <2> QED
    BY <1>4, <2>1, RowChanged
<1>5. ASSUME NEW p \in Procs, Validate(p) \/ Settle(p) PROVE Forwarded'
  <2>1. UNCHANGED <<alias, dnat>>
    BY <1>5 DEF Validate, Settle, kernelVars
  <2>2. \/ UNCHANGED <<reg, strays>>
        \/ \E n \in DOMAIN reg, row \in Rows(Statuses) :
               /\ reg' = Put(n, row) /\ Like(row, reg[n])
               /\ strays' = strays \/ Stray(reg[n].ext)
    BY <1>5, Validated, Settled
  <2> QED
    BY <1>1, <1>4, <2>1, <2>2, LikeIsAlike
<1>6. ASSUME Attach \/ Detach PROVE Forwarded'
  BY <1>4, <1>6, Linked, LikeIsAlike DEF kernelVars
<1>7. ASSUME NEW n \in DOMAIN reg, reg' = Drop(n), Stray(reg[n].ext), UNCHANGED <<alias, dnat>>
      PROVE  Forwarded'
  <2>1. /\ n \in Nets /\ strays \subseteq strays'
        /\ \A m \in DOMAIN reg \ {n} : m \in DOMAIN reg' /\ reg'[m] = reg[m]
    BY <1>7, Registered, Putting, Straying, Parts
  <2> QED
    BY <1>7, <2>1, RowChanged
<1>8. ASSUME Remove PROVE Forwarded'
  BY <1>7, <1>8, Removed DEF kernelVars
<1>9. ASSUME NEW p \in Procs, Discard(p) PROVE Forwarded'
  BY <1>1, <1>7, <1>9, Discarded
<1>10. ASSUME NEW p \in Procs, MoveId(p) \/ MoveInt(p) PROVE Forwarded'
  <2> DEFINE n == job[p].net
  <2>1. /\ n \in Nets /\ UNCHANGED <<alias, dnat>> /\ DOMAIN reg' = DOMAIN reg
        /\ \A m \in DOMAIN reg \ {n} : reg'[m] = reg[m]
        /\ n \in DOMAIN reg => Stray(reg[n].ext)
        /\ strays \subseteq strays'
    BY <1>10, MovedId, MovedInt DEF kernelVars
  <2> HIDE DEF n
  <2> QED
    BY <2>1, RowChanged
<1>11. ASSUME NEW p \in Procs, MoveUser(p) PROVE Forwarded'
  <2> DEFINE n == job[p].net
  <2>1. /\ n \in Nets /\ UNCHANGED <<alias, dnat, strays>> /\ DOMAIN reg' = DOMAIN reg
        /\ \A m \in DOMAIN reg \ {n} : reg'[m] = reg[m]
        /\ n \in DOMAIN reg => /\ reg'[n].id = reg[n].id /\ reg'[n].type = reg[n].type
                               /\ reg'[n].int = reg[n].int /\ reg'[n].ext = reg[n].ext
    BY <1>11, MovedUser DEF kernelVars
  <2>2. n \in DOMAIN reg => Alike(reg'[n], reg[n])
    BY <2>1 DEF Alike
  <2> HIDE DEF n
  <2> QED
    BY <2>1, <2>2, RowChanged
<1>12. ASSUME NEW p \in Procs, Write(p) PROVE Forwarded'
  <2> DEFINE n == job[p].net
  <2>1. UNCHANGED <<alias, dnat>>
    BY <1>12 DEF Write, kernelVars
  <2>2. n \in Nets
    BY <1>12, Written
  <2>3. PICK row \in Rows(Statuses) :
            /\ reg' = Put(n, row)
            /\ \/ n \in DOMAIN reg /\ Stray(reg[n].ext)
               \/ (n \notin DOMAIN reg \/ ~Differ(reg[n], row)) /\ strays' = strays
    BY <1>12, Written
  <2>4. /\ strays \subseteq strays' /\ reg'[n] = row /\ n \in DOMAIN reg'
        /\ \A m \in DOMAIN reg \ {n} : m \in DOMAIN reg' /\ reg'[m] = reg[m]
    <3>1. strays \subseteq strays'
      BY <2>3, Registered, Straying, Parts
    <3> HIDE DEF n
    <3> QED
      BY <2>2, <2>3, <3>1, Putting, Parts
  <2>5. n \in DOMAIN reg => Alike(reg'[n], reg[n]) \/ Stray(reg[n].ext)
    BY <2>3, <2>4, LikeIsAlike
  <2> QED
    BY <2>1, <2>2, <2>4, <2>5, RowChanged
<1>13. ASSUME NEW p \in Procs, Configure(p) PROVE Forwarded'
  BY <1>13, ConfigureForwards
<1>14. ASSUME Reboot PROVE Forwarded'
  BY <1>14 DEF Reboot, Forwarded, Leads
<1> QED
  BY <1>2, <1>3, <1>5, <1>6, <1>8, <1>9, <1>10, <1>11, <1>12, <1>13, <1>14
     DEF Next, Serve, Proceed

LEMMA ForwardedStart == Init => Forwarded
BY DEF Init, Booted, Forwarded, Leads

LEMMA ForwardedRoutes == ASSUME TypeOK, Forwarded PROVE RoutedUnlessLeft
<1> SUFFICES ASSUME NEW e \in Externals, e \notin strays, e \notin SharedExternals,
                    NEW n \in DOMAIN reg,
                    reg[n].type = "ipmapping", reg[n].ext = e, e \in ExternalIps
             PROVE  dnat[e] = {reg[n].int}
  BY DEF RoutedUnlessLeft, Routed
<1>1. Leads(e) /\ e # NoIp
  BY NoIpIsNone DEF Forwarded
<1>2. \A m \in DOMAIN reg : Mapped(m, e) => m = n
  BY <1>1 DEF Mapped, SharedExternals, Connected
<1>3. PICK v \in Vlans : <<v, e>> \in alias
  BY DEF ExternalIps, TypeOK
<1>4. reg[n].int \in dnat[e]
  BY <1>1, <1>2, <1>3 DEF Leads
<1>5. \A i \in dnat[e] : i = reg[n].int
  BY <1>1, <1>2 DEF Leads
<1> QED
  BY <1>4, <1>5

-----------------------------------------------------------------------------
(* Picks *)

\* The networks that count against the quota of a user, but for those of D.
Counted(u, D) == {m \in Owned(u) \ D : reg[m].ext # NoIp}

\* What a process has picked: an id that no other user has, an external address that no other
\* network has and that the quota allows, an internal address that no other network of the
\* user has, or the one the network has already; all this but for the networks that others
\* have written or removed since.
Picked(j) ==
    LET uses == j.row.type # "gateway"
    IN  /\ j.row.user = j.user
        /\ \/ j.user \in Admins
           \/ \A m \in DOMAIN reg \ j.during : reg[m].id = j.row.id => reg[m].user = j.user
        /\ uses /\ j.row.ext # NoIp =>
               \A m \in DOMAIN reg \ (j.during \cup {j.net}) : reg[m].ext # j.row.ext
        /\ uses /\ j.row.ext # NoIp /\ j.user \notin Admins /\ Quota > 0 =>
               Cardinality(Counted(j.user, j.during)) < Quota
        /\ uses /\ j.row.int # NoIp /\ j.net \notin j.during =>
               \/ \A m \in (Connected \cap Owned(j.user)) \ (j.during \cup {j.net}) :
                      reg[m].int # j.row.int
               \/ j.net \in DOMAIN reg /\ (j.net \in Connected => reg[j.net].int = j.row.int)

\* What the move of a server has picked: a VLAN that no other user has, or none, and it is
\* that of the network as soon as it is written; an address that no network of the user has.
Chosen(j) ==
    /\ j.pc \in {"moveid", "moveuser"} =>
           \/ j.newid = 1
           \/ \A m \in DOMAIN reg \ (j.during \cup {j.net}) : reg[m].id = j.newid => reg[m].user = j.user
    /\ j.pc = "moveuser" /\ j.net \in DOMAIN reg \ j.during => reg[j.net].id = j.newid
    /\ j.pc = "moveint" =>
           \/ j.row.int = NoIp
           \/ \A m \in (Connected \cap Owned(j.user)) \ j.during : reg[m].int # j.row.int

Picks ==
    /\ IsFiniteSet(DOMAIN reg)
    /\ \A q \in Procs : (job[q].pc = "write" => Picked(job[q])) /\ Chosen(job[q])

LEMMA CountedIsFinite ==
    ASSUME IsFiniteSet(DOMAIN reg), NEW u, NEW D
    PROVE  IsFiniteSet(Counted(u, D)) /\ Cardinality(Counted(u, D)) \in Nat
<1>1. Counted(u, D) \subseteq DOMAIN reg
  BY DEF Counted, Owned
<1> QED
  BY <1>1, FS_Subset, FS_CardinalityType

\* A pick stays one as long as the networks of S alone are touched, and noticed.
LEMMA PickKept ==
    ASSUME TypeOK, IsFiniteSet(DOMAIN reg), NEW q \in Procs, NEW S,
           job'[q].pc = "write", Keeps(q, S), Picked(job[q]),
           \A m \in DOMAIN reg' \ S : m \in DOMAIN reg,
           \A m \in DOMAIN reg \ S : m \in DOMAIN reg' /\ (reg'[m] = reg[m] \/ Like(reg'[m], reg[m]))
    PROVE  Picked(job[q])'
<1>1. PICK u, n, r, D, E :
          /\ u = job[q].user /\ n = job[q].net /\ r = job[q].row /\ D = job[q].during
          /\ job'[q].user = u /\ job'[q].net = n /\ job'[q].row = r /\ job'[q].during = E
          /\ E = D \cup S
  BY DEF Keeps, Plain, Pending
<1>2. ASSUME NEW m \in DOMAIN reg' \ S
      PROVE  /\ m \in DOMAIN reg
             /\ reg'[m].user = reg[m].user /\ reg'[m].id = reg[m].id /\ reg'[m].ext = reg[m].ext
             /\ m \in Connected' => m \in Connected /\ reg'[m].int = reg[m].int
  BY <1>2 DEF Like, Connected
<1>3. /\ r.user = u
      /\ \/ u \in Admins
         \/ \A m \in DOMAIN reg' \ E : reg'[m].id = r.id => reg'[m].user = u
      /\ r.type # "gateway" /\ r.ext # NoIp =>
             \A m \in DOMAIN reg' \ (E \cup {n}) : reg'[m].ext # r.ext
  BY <1>1, <1>2 DEF Picked
<1>4. r.type # "gateway" /\ r.ext # NoIp /\ u \notin Admins /\ Quota > 0 =>
          Cardinality(Counted(u, E)') < Quota
  <2>1. Counted(u, E)' \subseteq Counted(u, D)
    BY <1>1, <1>2 DEF Counted, Owned
  <2>2. Cardinality(Counted(u, E)') <= Cardinality(Counted(u, D)) /\ Cardinality(Counted(u, E)') \in Nat
    BY <2>1, CountedIsFinite, FS_Subset, FS_CardinalityType
  <2>3. Cardinality(Counted(u, D)) \in Nat /\ Quota \in Int
    BY CountedIsFinite, NetworksAssumption
  <2>4. r.type # "gateway" /\ r.ext # NoIp /\ u \notin Admins /\ Quota > 0 =>
            Cardinality(Counted(u, D)) < Quota
    BY <1>1 DEF Picked
  <2> QED
    BY <2>2, <2>3, <2>4
<1>5. r.type # "gateway" /\ r.int # NoIp /\ n \notin E =>
          \/ \A m \in (Connected' \cap Owned(u)') \ (E \cup {n}) : reg'[m].int # r.int
          \/ n \in DOMAIN reg' /\ (n \in Connected' => reg'[n].int = r.int)
  <2> SUFFICES ASSUME r.type # "gateway", r.int # NoIp, n \notin E
               PROVE  \/ \A m \in (Connected' \cap Owned(u)') \ (E \cup {n}) : reg'[m].int # r.int
                      \/ n \in DOMAIN reg' /\ (n \in Connected' => reg'[n].int = r.int)
    OBVIOUS
  <2>1. CASE \A m \in (Connected \cap Owned(u)) \ (D \cup {n}) : reg[m].int # r.int
    BY <1>1, <1>2, <2>1 DEF Owned, Connected
  <2>2. CASE n \in DOMAIN reg /\ (n \in Connected => reg[n].int = r.int)
    <3>1. n \in DOMAIN reg' \ S
      BY <1>1, <2>2
    <3> QED
      BY <1>2, <2>2, <3>1
  <2> QED
    BY <1>1, <2>1, <2>2 DEF Picked
<1> QED
  BY <1>1, <1>3, <1>4, <1>5 DEF Picked

LEMMA PickMade ==
    ASSUME TypeOK, Picks, NEW p \in Procs, Allocate(p), job'[p].pc = "write"
    PROVE  Picked(job[p])'
<1>1. UNCHANGED reg
  BY DEF Allocate
<1>2. job[p] \in Jobs
  BY Allocated
<1>3. ~Become(p, Idle)
  BY Became DEF Idle
<1>4. PICK picked \in Rows(Statuses \cup {"new"}) :
          /\ Become(p, [job[p] EXCEPT !.pc = "write", !.row = picked])
          /\ picked.user = job[p].user
          /\ \/ job[p].user \in Admins
             \/ \A m \in DOMAIN reg : reg[m].id = picked.id => reg[m].user = job[p].user
          /\ picked.type # "gateway" /\ picked.ext # NoIp =>
                 /\ ~OverQuota(job[p].user, 1)
                 /\ \A m \in DOMAIN reg \ {job[p].net} : reg[m].ext # picked.ext
          /\ picked.type # "gateway" /\ picked.int # NoIp =>
                 \/ \A m \in Owned(job[p].user) : reg[m].int # picked.int
                 \/ job[p].net \in DOMAIN reg /\ picked.int = reg[job[p].net].int
  BY <1>3, Allocated
<1>5. PICK u, n, D :
          /\ u = job[p].user /\ n = job[p].net /\ D = job[p].during
          /\ job'[p].user = u /\ job'[p].net = n /\ job'[p].during = D /\ job'[p].row = picked
  <2>1. job'[p] = [job[p] EXCEPT !.pc = "write", !.row = picked]
    BY <1>4, Became
  <2>2. /\ job'[p].user = job[p].user /\ job'[p].net = job[p].net
        /\ job'[p].during = job[p].during /\ job'[p].row = picked
    BY <1>2, <2>1 DEF Jobs
  <2> QED
    BY <2>2
<1>6. picked.type # "gateway" /\ picked.ext # NoIp /\ u \notin Admins /\ Quota > 0 =>
          Cardinality(Counted(u, D)) < Quota
  <2> SUFFICES ASSUME picked.type # "gateway", picked.ext # NoIp, u \notin Admins, Quota > 0
               PROVE  Cardinality(Counted(u, D)) < Quota
    OBVIOUS
  <2>1. Counted(u, D) \subseteq Counted(u, {}) /\ IsFiniteSet(Counted(u, {}))
    BY CountedIsFinite DEF Counted, Picks
  <2>2. Cardinality(Counted(u, D)) <= Cardinality(Counted(u, {})) /\ Cardinality(Counted(u, D)) \in Nat
        /\ Cardinality(Counted(u, {})) \in Nat
    BY <2>1, FS_Subset, FS_CardinalityType
  <2>3. Used(u) = Cardinality(Counted(u, {}))
    <3>1. Counted(u, {}) = {m \in Owned(u) : reg[m].ext # NoIp}
      BY DEF Counted
    <3> QED
      BY <3>1 DEF Used
  <2>4. ~(Used(u) + 1 > Quota)
    BY <1>4, <1>5 DEF OverQuota
  <2> QED
    BY <2>2, <2>3, <2>4, NetworksAssumption
<1>7. Counted(u, D)' = Counted(u, D) /\ Connected' = Connected /\ Owned(u)' = Owned(u)
  BY <1>1 DEF Counted, Connected, Owned
<1>8. /\ picked.user = u
      /\ u \in Admins \/ \A m \in DOMAIN reg \ D : reg[m].id = picked.id => reg[m].user = u
      /\ picked.type # "gateway" /\ picked.ext # NoIp =>
             \A m \in DOMAIN reg \ (D \cup {n}) : reg[m].ext # picked.ext
      /\ picked.type # "gateway" /\ picked.int # NoIp /\ n \notin D =>
             \/ \A m \in (Connected \cap Owned(u)) \ (D \cup {n}) : reg[m].int # picked.int
             \/ n \in DOMAIN reg /\ (n \in Connected => reg[n].int = picked.int)
  BY <1>4, <1>5 DEF Connected
<1> QED
  BY <1>1, <1>5, <1>6, <1>7, <1>8 DEF Picked

\* What a move has chosen stays so as long as the networks of S alone are touched, and noticed.
LEMMA ChosenKept ==
    ASSUME NEW q \in Procs, NEW S, Keeps(q, S), Chosen(job[q]),
           \A m \in DOMAIN reg' \ S : m \in DOMAIN reg,
           \A m \in DOMAIN reg \ S : m \in DOMAIN reg' /\ (reg'[m] = reg[m] \/ Like(reg'[m], reg[m]))
    PROVE  Chosen(job[q])'
<1>1. CASE Plain(job'[q])
  BY <1>1 DEF Plain, Pending, Chosen
<1>2. CASE job'[q].pc = "configure"
  BY <1>2 DEF Chosen
<1>3. CASE /\ job'[q].pc = job[q].pc /\ job'[q].user = job[q].user
           /\ job'[q].net = job[q].net /\ job'[q].row = job[q].row /\ job'[q].newid = job[q].newid
           /\ job'[q].during = job[q].during \cup S
  <2>1. ASSUME NEW m \in DOMAIN reg' \ S
        PROVE  /\ m \in DOMAIN reg
               /\ reg'[m].user = reg[m].user /\ reg'[m].id = reg[m].id
               /\ m \in Connected' => m \in Connected /\ reg'[m].int = reg[m].int
    BY <2>1 DEF Like, Connected
  <2>2. job'[q].pc \in {"moveid", "moveuser"} =>
            \/ job'[q].newid = 1
            \/ \A m \in DOMAIN reg' \ (job'[q].during \cup {job'[q].net}) :
                   reg'[m].id = job'[q].newid => reg'[m].user = job'[q].user
    BY <1>3, <2>1 DEF Chosen
  <2>3. job'[q].pc = "moveuser" /\ job'[q].net \in DOMAIN reg' \ job'[q].during =>
            reg'[job'[q].net].id = job'[q].newid
    BY <1>3, <2>1 DEF Chosen
  <2>4. job'[q].pc = "moveint" =>
            \/ job'[q].row.int = NoIp
            \/ \A m \in Connected' \ job'[q].during :
                   reg'[m].user = job'[q].user => reg'[m].int # job'[q].row.int
    <3>1. Connected' \subseteq DOMAIN reg'
      BY DEF Connected
    <3> QED
      BY <1>3, <2>1, <3>1 DEF Chosen, Owned
  <2> QED
    BY <2>2, <2>3, <2>4 DEF Chosen, Owned
<1> QED
  BY <1>1, <1>2, <1>3 DEF Keeps

\* The VLAN of a move is one that no other user has, but for those that share it already.
LEMMA MoveChosen ==
    ASSUME TypeOK, NEW p \in Procs, Move(p)
    PROVE  Chosen(job[p])'
<1>1. PICK k \in Slots :
          /\ Become(p, k) /\ k.pc = "moveid"
          /\ k.net \in DOMAIN reg /\ k.user \in Users /\ k.newid = NextId(k.user, Open)
          /\ k.during = {m \in DOMAIN reg \ {k.net} :
                             /\ reg[m].id = k.newid /\ reg[m].user # k.user
                             /\ \E o \in Owned(k.user) : reg[o].id = k.newid}
  BY MoveStarts
<1>2. job'[p] = k /\ UNCHANGED reg
  BY <1>1, MoveStarts, Became
<1> DEFINE u      == k.user
           own    == {reg[m].id : m \in Owned(u)} \ {1}
           others == {reg[m].id : m \in DOMAIN reg \ Owned(u)} \ {1}
           free   == (VlanStart .. VlanEnd - 1) \ others
<1>3. \A m \in DOMAIN reg : reg[m].id # Open
  BY Registered, NoIpIsNone DEF Open
<1>4. k.newid = CASE own # {}              -> Min(own)
                  [] own = {} /\ free # {} -> Min(free)
                  [] own = {} /\ free = {} -> 1
  BY <1>1, <1>3 DEF NextId
<1>5. own \subseteq Nat /\ free \subseteq Nat
  BY Registered, NoIpIsNone, NetworksAssumption DEF Owned
<1>6. own # {} => Min(own) \in own
  BY <1>5, SmallestOne
<1>7. free # {} => Min(free) \in free
  BY <1>5, SmallestOne
<1>8. \/ k.newid = 1
      \/ \A m \in DOMAIN reg \ (k.during \cup {k.net}) : reg[m].id = k.newid => reg[m].user = u
  <2>1. ASSUME k.newid \in own, NEW m \in DOMAIN reg \ (k.during \cup {k.net}),
               reg[m].id = k.newid
        PROVE  reg[m].user = u
    <3>1. \E o \in Owned(u) : reg[o].id = k.newid
      BY <2>1
    <3> HIDE DEF own, others, free
    <3> QED
      BY <1>1, <2>1, <3>1
  <2>2. ASSUME k.newid \in free, k.newid # 1, NEW m \in DOMAIN reg, reg[m].id = k.newid
        PROVE  reg[m].user = u
    BY <2>2 DEF Owned
  <2> HIDE DEF own, others, free
  <2>3. k.newid \in own \/ k.newid \in free \/ k.newid = 1
    BY <1>4, <1>6, <1>7
  <2> QED
    BY <2>1, <2>2, <2>3
<1> HIDE DEF own, others, free
<1> QED
  BY <1>1, <1>2, <1>8 DEF Chosen

LEMMA ReaddressChosen ==
    ASSUME TypeOK, NEW p \in Procs, Readdress(p)
    PROVE  Chosen(job[p])'
<1>1. PICK k \in Slots :
          /\ Become(p, k) /\ k.pc = "moveint" /\ k.during = {}
          /\ k.row.int = NoIp \/ \A m \in Owned(k.user) : reg[m].int # k.row.int
  BY Readdressed
<1>2. job'[p] = k /\ UNCHANGED reg
  BY <1>1, Readdressed, Became
<1>3. \A u : Owned(u)' = Owned(u)
  BY <1>2 DEF Owned
<1> QED
  BY <1>1, <1>2, <1>3 DEF Chosen

\* The move that writes its VLAN; all others notice.
LEMMA MoveIdPicks == ASSUME TypeOK, Picks, NEW p \in Procs, MoveId(p) PROVE Picks'
<1> DEFINE j == job[p]
           n == job[p].net
<1>1. /\ j.pc = "moveid" /\ n \in Nets
      /\ DOMAIN reg' = DOMAIN reg /\ \A m \in DOMAIN reg \ {n} : reg'[m] = reg[m]
      /\ n \in DOMAIN reg => reg'[n].id = j.newid
  BY MovedId
<1>2. PICK k \in Slots : /\ Wrote(p, n, k) /\ k.pc = "moveuser" /\ k.user = j.user /\ k.net = n
                         /\ k.newid = j.newid /\ k.during = j.during
  BY MovedId
<1>3. job'[p] = k /\ \A q \in Procs : q # p => job'[q] = Noticed(n)[q]
  BY <1>1, <1>2, Writes
<1>4. ASSUME NEW q \in Procs, q # p PROVE Keeps(q, {n})
  BY <1>1, <1>3, <1>4, Notices DEF Keeps, Plain, Pending
<1>5. Chosen(job[p])'
  <2>1. Chosen(j)
    BY DEF Picks
  <2>2. \/ k.newid = 1
        \/ \A m \in DOMAIN reg' \ (k.during \cup {k.net}) : reg'[m].id = k.newid => reg'[m].user = k.user
    BY <1>1, <1>2, <2>1 DEF Chosen
  <2>3. k.net \in DOMAIN reg' \ k.during => reg'[k.net].id = k.newid
    BY <1>1, <1>2
  <2> QED
    BY <1>2, <1>3, <2>2, <2>3 DEF Chosen
<1>6. ASSUME NEW q \in Procs, q # p PROVE Chosen(job[q])'
  BY <1>1, <1>4, <1>6, ChosenKept DEF Picks
<1>7. ASSUME NEW q \in Procs, job'[q].pc = "write" PROVE Picked(job[q])'
  <2>1. q # p
    BY <1>2, <1>3, <1>7
  <2>2. Keeps(q, {n})
    BY <1>4, <2>1
  <2>3. job[q].pc = "write"
    BY <1>7, <2>2 DEF Keeps, Plain, Pending
  <2> QED
    BY <1>1, <1>7, <2>2, <2>3, PickKept DEF Picks
<1>8. IsFiniteSet(DOMAIN reg')
  BY <1>1 DEF Picks
<1> QED
  BY <1>5, <1>6, <1>7, <1>8 DEF Picks

LEMMA PicksKept == ASSUME TypeOK, Picks, Next PROVE Picks'
<1>1. CASE Calm
  <2>1. /\ DOMAIN reg' = DOMAIN reg
        /\ \A m \in DOMAIN reg : reg'[m] = reg[m] \/ Like(reg'[m], reg[m])
    BY <1>1, CalmRows
  <2>2. ASSUME NEW q \in Procs, job'[q].pc = "write" PROVE Picked(job[q])'
    <3>1. Keeps(q, {}) /\ job[q].pc = "write"
      BY <1>1, <2>2 DEF Calm, Keeps, Plain, Pending
    <3> QED
      BY <2>1, <2>2, <3>1, PickKept DEF Picks
  <2>3. ASSUME NEW q \in Procs PROVE Chosen(job[q])'
    BY <1>1, <2>1, ChosenKept DEF Picks, Calm
  <2> QED
    BY <2>1, <2>2, <2>3 DEF Picks
<1>2. ASSUME NEW n \in Nets, Touched(n) PROVE Picks'
  <2>1. IsFiniteSet(DOMAIN reg')
    <3>1. IsFiniteSet(DOMAIN reg \cup {n})
      BY FS_AddElement DEF Picks
    <3> QED
      BY <1>2, <3>1, FS_Subset DEF Touched
  <2>2. /\ \A m \in DOMAIN reg' \ {n} : m \in DOMAIN reg
        /\ \A m \in DOMAIN reg \ {n} : m \in DOMAIN reg' /\ reg'[m] = reg[m]
    BY <1>2 DEF Touched
  <2>3. ASSUME NEW q \in Procs, job'[q].pc = "write" PROVE Picked(job[q])'
    <3>1. Keeps(q, {n}) /\ job[q].pc = "write"
      BY <1>2, <2>3 DEF Touched, Keeps, Plain, Pending
    <3> QED
      BY <2>2, <2>3, <3>1, PickKept DEF Picks
  <2>4. ASSUME NEW q \in Procs PROVE Chosen(job[q])'
    BY <1>2, <2>2, ChosenKept DEF Picks, Touched
  <2> QED
    BY <2>1, <2>3, <2>4 DEF Picks
<1>3. ASSUME NEW p \in Procs, UNCHANGED reg, \A q \in Procs : q # p => job'[q] = job[q],
             job'[p].pc = "write" => Picked(job[p])', Chosen(job[p])'
      PROVE  Picks'
  <2>1. ASSUME NEW q \in Procs, q # p, job'[q].pc = "write" PROVE Picked(job[q])'
    <3>1. job[q].pc = "write" /\ job'[q] = job[q]
      BY <1>3, <2>1
    <3>2. Keeps(q, {}) \/ job[q].during # job[q].during \cup {}
      BY <3>1 DEF Keeps
    <3>3. Keeps(q, {})
      BY <3>2
    <3> QED
      BY <1>3, <2>1, <3>1, <3>3, PickKept DEF Picks
  <2>2. ASSUME NEW q \in Procs, q # p PROVE Chosen(job[q])'
    <3>1. Keeps(q, {})
      BY <1>3, <2>2 DEF Keeps
    <3> QED
      BY <1>3, <3>1, ChosenKept DEF Picks
  <2> QED
    BY <1>3, <2>1, <2>2 DEF Picks
<1>4. ASSUME NEW p \in Procs, Allocate(p) PROVE Picks'
  <2>1. UNCHANGED reg
    BY <1>4 DEF Allocate
  <2>2. \A q \in Procs : q # p => job'[q] = job[q]
    BY <1>4, Allocated, Became
  <2>3. job'[p].pc \in {"idle", "write"}
    <3>1. job[p] \in Jobs
      BY <1>4, Allocated
    <3>2. \/ Become(p, Idle)
          \/ \E picked : Become(p, [job[p] EXCEPT !.pc = "write", !.row = picked])
      BY <1>4, Allocated
    <3>3. CASE Become(p, Idle)
      BY <3>3, Became DEF Idle
    <3>4. ASSUME NEW picked, Become(p, [job[p] EXCEPT !.pc = "write", !.row = picked])
          PROVE  job'[p].pc = "write"
      <4>1. job'[p] = [job[p] EXCEPT !.pc = "write", !.row = picked]
        BY <3>4, Became
      <4> QED
        BY <3>1, <4>1 DEF Jobs
    <3> QED
      BY <3>2, <3>3, <3>4
  <2>4. Chosen(job[p])'
    BY <2>3 DEF Chosen
  <2> QED
    BY <1>3, <1>4, <2>1, <2>2, <2>4, PickMade
<1>5. ASSUME NEW p \in Procs, Activate(p) PROVE Picks'
  <2>1. PICK j : Become(p, j) /\ j.pc = "configure"
    BY <1>5, Activated
  <2>2. job'[p].pc = "configure" /\ \A q \in Procs : q # p => job'[q] = job[q]
    BY <2>1, Became
  <2>3. Chosen(job[p])'
    BY <2>2 DEF Chosen
  <2> QED
    BY <1>3, <1>5, <2>2, <2>3, Activated
<1>6. ASSUME NEW p \in Procs, Move(p) \/ Readdress(p) PROVE Picks'
  <2>1. UNCHANGED reg /\ Chosen(job[p])'
    BY <1>6, MoveStarts, Readdressed, MoveChosen, ReaddressChosen
  <2>2. PICK k : Become(p, k) /\ k.pc # "write"
    BY <1>6, MoveStarts, Readdressed
  <2>3. job'[p].pc # "write" /\ \A q \in Procs : q # p => job'[q] = job[q]
    BY <2>2, Became
  <2> QED
    BY <1>3, <2>1, <2>3
<1>7. ASSUME NEW p \in Procs, Write(p) \/ MoveUser(p) \/ MoveInt(p) PROVE job[p].net \in Nets
  BY <1>7, Written, MovedUser, MovedInt
<1> QED
  BY <1>1, <1>2, <1>4, <1>5, <1>6, <1>7, MoveIdPicks, Steps, Registered

LEMMA PicksStart == Init => Picks
BY FS_EmptySet DEF Init, Booted, Picks, Chosen, Idle

-----------------------------------------------------------------------------
(* What the runs check *)

IInv == TypeOK /\ Fits /\ Forwarded /\ Picks

THEOREM Invariant == Spec => []IInv
<1>1. Init => IInv
  BY TypeStart, FitsStart, ForwardedStart, PicksStart DEF IInv
<1>2. IInv /\ [Next]_vars => IInv'
  <2> SUFFICES ASSUME IInv, [Next]_vars PROVE IInv'
    OBVIOUS
  <2>1. TypeOK'
    BY TypeKept DEF IInv
  <2>2. CASE Next
    BY <2>1, <2>2, FitsKept, ForwardedKept, PicksKept DEF IInv
  <2>3. CASE UNCHANGED vars
    <3>1. Fits' /\ Forwarded'
      BY <2>3 DEF IInv, vars, kernelVars, Fits, Fit, Forwarded, Leads, Mapped, SharedExternals,
         Connected
    <3>2. Picks'
      BY <2>3 DEF IInv, vars, Picks, Picked, Chosen, Counted, Owned, Connected
    <3> QED
      BY <2>1, <3>1, <3>2 DEF IInv
  <2> QED
    BY <2>2, <2>3
<1> QED
  BY <1>1, <1>2, PTL DEF Spec

\* Every row has an owner, an id a VLAN may have and known addresses; no process is at an
\* unknown step; leases, aliases and routes are of known VLANs, and only addresses are routed.
THEOREM TypeCorrect == Spec => []TypeOK
<1>1. IInv => TypeOK
  BY DEF IInv
<1> QED
  BY <1>1, Invariant, PTL

\* While an interface of the engine has the external address of an IP mapping, it leads to
\* its internal address alone, unless it was left behind or two networks have it.
THEOREM AddressesLead == Spec => []RoutedUnlessLeft
<1>1. IInv => RoutedUnlessLeft
  BY ForwardedRoutes DEF IInv
<1> QED
  BY <1>1, Invariant, PTL

\* No network comes, and none is given another owner, another id or an address to use.
Fewer ==
    \A m \in DOMAIN reg' :
        /\ m \in DOMAIN reg
        /\ reg'[m].user = reg[m].user /\ reg'[m].id = reg[m].id /\ reg'[m].ext = reg[m].ext
        /\ m \in Connected' => m \in Connected /\ reg'[m].int = reg[m].int

LEMMA FewerShare ==
    ASSUME Fewer
    PROVE  /\ InTransit \subseteq InTransit' => SharedVlans' \subseteq SharedVlans
           /\ SharedExternals' \subseteq SharedExternals
           /\ SharedInternals' \subseteq SharedInternals
           /\ \A u \in Users : Served(u)' \subseteq Served(u)
<1>1. InTransit \subseteq InTransit' => SharedVlans' \subseteq SharedVlans
  BY DEF Fewer, SharedVlans
<1>2. Connected' \subseteq DOMAIN reg'
  BY DEF Connected
<1>3. SharedExternals' \subseteq SharedExternals
  BY <1>2 DEF Fewer, SharedExternals
<1>4. SharedInternals' \subseteq SharedInternals
  BY <1>2 DEF Fewer, SharedInternals
<1>5. \A u \in Users : Served(u)' \subseteq Served(u)
  BY <1>2 DEF Fewer, Served, Owned
<1> QED
  BY <1>1, <1>3, <1>4, <1>5

\* Only a pick that is written, or a server that moves, adds to what networks share.
LEMMA FewerSteps ==
    ASSUME TypeOK, [Next]_vars
    PROVE  \/ Fewer
           \/ \E p \in Procs : \/ Write(p) /\ Touched(job[p].net)
                               \/ MoveId(p) \/ MoveUser(p) \/ MoveInt(p)
<1>1. CASE UNCHANGED reg
  BY <1>1 DEF Fewer, Connected
<1>2. CASE Calm
  BY <1>2, CalmRows DEF Fewer, Connected, Like
<1>3. ASSUME NEW p \in Procs, Activate(p) \/ Allocate(p) \/ Move(p) \/ Readdress(p)
      PROVE  UNCHANGED reg
  BY <1>3 DEF Activate, Allocate, Move, Readdress
<1>4. ASSUME NEW n \in DOMAIN reg, reg' = Drop(n) PROVE Fewer
  BY <1>4 DEF Drop, Fewer, Connected
<1>5. UNCHANGED vars => UNCHANGED reg
  BY DEF vars
<1> QED
  BY <1>1, <1>2, <1>3, <1>4, <1>5, Steps

\* A network stays in transit until it has its owner, or until a reboot.
LEMMA TransitKept ==
    ASSUME TypeOK, [Next]_vars, ~Reboot, ~\E p \in Procs : MoveUser(p)
    PROVE  InTransit \subseteq InTransit'
<1> SUFFICES ASSUME NEW q \in Procs, job[q].pc = "moveuser"
             PROVE  job'[q].pc = "moveuser" /\ job'[q].net = job[q].net
  BY DEF InTransit
<1>1. ASSUME job'[q] = job[q] \/ \E n \in Nets : job'[q] = Noticed(n)[q]
      PROVE  job'[q].pc = "moveuser" /\ job'[q].net = job[q].net
  BY <1>1, Notices DEF Pending
<1>2. ASSUME NEW p \in Procs, job[p].pc # "moveuser",
             \E k : Become(p, k) \/ \E n \in Nets : Wrote(p, n, k)
      PROVE  job'[q] = job[q] \/ \E n \in Nets : job'[q] = Noticed(n)[q]
  <2>1. p # q
    BY <1>2
  <2> QED
    BY <1>2, <2>1, Became, Writes
<1>3. ASSUME NEW p \in Procs, Serve(p)
      PROVE  job[p].pc # "moveuser" /\ \E k : Become(p, k)
  <2>1. job[p].pc # "moveuser"
    BY <1>3 DEF Serve
  <2>2. CASE SaveNew(p) \/ SaveOld(p) \/ List(p) \/ Stop(p) \/ Deactivate(p) \/ RemoveSystem(p)
    BY <2>1, <2>2, SaveNewTurns, SaveOldTurns, ListTurns, StopTurns, Undoes DEF Turns
  <2>3. CASE Activate(p) \/ Move(p)
    BY <2>1, <2>3, Activated, MoveStarts
  <2> QED
    BY <1>3, <2>1, <2>2, <2>3 DEF Serve
<1>4. ASSUME NEW p \in Procs, Proceed(p)
      PROVE  job[p].pc # "moveuser" /\ \E k : Become(p, k) \/ \E n \in Nets : Wrote(p, n, k)
  <2>1. job[p].pc # "moveuser"
    BY <1>4 DEF Proceed, Allocate, Write, Validate, Settle, Configure, StopOne, TakeDown, Discard,
       MoveId, Readdress, MoveInt
  <2>2. CASE Validate(p) \/ Settle(p) \/ Configure(p) \/ StopOne(p) \/ TakeDown(p)
    BY <2>1, <2>2, Validated, Settled, ConfigureTurns, Undoes, TakeDownTypes DEF Turns
  <2>3. CASE Allocate(p) \/ Readdress(p)
    BY <2>1, <2>3, Allocated, Readdressed
  <2>4. CASE Write(p) \/ MoveId(p) \/ MoveInt(p)
    BY <2>1, <2>4, Written, MovedId, MovedInt
  <2>5. CASE Discard(p)
    BY <2>1, <2>5, Discarded, Registered DEF Turns
  <2> QED
    BY <1>4, <2>1, <2>2, <2>3, <2>4, <2>5 DEF Proceed
<1>5. Remove => \E n \in Nets : job'[q] = Noticed(n)[q]
  BY Removed, Registered
<1>6. Attach \/ Detach \/ UNCHANGED vars => job'[q] = job[q]
  BY DEF Attach, Detach, vars
<1> QED
  BY <1>1, <1>2, <1>3, <1>4, <1>5, <1>6 DEF Next

\* The row that Write stores, its pick, and that all other rows stay.
LEMMA WritesPick ==
    ASSUME TypeOK, Picks, NEW p \in Procs, Write(p), Touched(job[p].net)
    PROVE  LET n == job[p].net
               r == job[p].row
           IN  /\ Writing(p) /\ Picked(job[p]) /\ n \in Nets
               /\ DOMAIN reg' = DOMAIN reg \cup {n}
               /\ \A m \in DOMAIN reg \ {n} : reg'[m] = reg[m]
               /\ reg'[n].user = job[p].user /\ reg'[n].id = r.id /\ reg'[n].type = r.type
               /\ reg'[n].int = r.int /\ reg'[n].ext = r.ext
<1> DEFINE n == job[p].net
           r == job[p].row
<1>1. /\ job[p].pc = "write" /\ n \in Nets
      /\ \E row \in Rows(Statuses), j \in Slots :
             /\ reg' = Put(n, row)
             /\ row.user = r.user /\ row.id = r.id
             /\ row.type = r.type /\ row.int = r.int /\ row.ext = r.ext
             /\ Wrote(p, n, j) /\ Plain(j)
  BY Written
<1>2. PICK row \in Rows(Statuses), j \in Slots :
          /\ reg' = Put(n, row)
          /\ row.user = r.user /\ row.id = r.id
          /\ row.type = r.type /\ row.int = r.int /\ row.ext = r.ext
          /\ Wrote(p, n, j) /\ Plain(j)
  BY <1>1
<1>3. job'[p] = j
  BY <1>1, <1>2, Writes
<1>4. Picked(job[p])
  BY <1>1 DEF Picks
<1>5. r.user = job[p].user
  BY <1>4 DEF Picked
<1>6. /\ DOMAIN reg' = DOMAIN reg \cup {n} /\ reg'[n] = row
      /\ \A m \in DOMAIN reg : m # n => reg'[m] = reg[m]
  BY <1>1, <1>2, Putting, Parts
<1> QED
  BY <1>1, <1>2, <1>3, <1>4, <1>5, <1>6 DEF Writing, Plain, Pending


\* What the writes of a move leave as it was.
LEMMA MovesShare ==
    ASSUME TypeOK, NEW p \in Procs, MoveId(p) \/ MoveUser(p) \/ MoveInt(p)
    PROVE  /\ DOMAIN reg' = DOMAIN reg /\ Connected' = Connected
           /\ \A m \in DOMAIN reg \ {job[p].net} : reg'[m] = reg[m]
           /\ SharedExternals' = SharedExternals
           /\ MoveId(p) \/ MoveInt(p) => \A u \in Users : Served(u)' = Served(u)
           /\ MoveId(p) \/ MoveInt(p) => \A m \in DOMAIN reg : reg'[m].user = reg[m].user
           /\ MoveInt(p) \/ MoveUser(p) => \A m \in DOMAIN reg : reg'[m].id = reg[m].id
           /\ MoveId(p) => SharedInternals' = SharedInternals
<1>1. /\ DOMAIN reg' = DOMAIN reg
      /\ \A m \in DOMAIN reg \ {job[p].net} : reg'[m] = reg[m]
      /\ \A m \in DOMAIN reg : reg'[m].type = reg[m].type /\ reg'[m].ext = reg[m].ext
  BY MovedId, MovedUser, MovedInt
<1>2. /\ MoveId(p) \/ MoveInt(p) => \A m \in DOMAIN reg : reg'[m].user = reg[m].user
      /\ MoveInt(p) \/ MoveUser(p) => \A m \in DOMAIN reg : reg'[m].id = reg[m].id
      /\ MoveId(p) => \A m \in DOMAIN reg : reg'[m].int = reg[m].int
  BY MovedId, MovedUser, MovedInt
<1>3. Connected' = Connected /\ Connected \subseteq DOMAIN reg
  BY <1>1 DEF Connected
<1>4. SharedExternals' = SharedExternals
  BY <1>1, <1>3 DEF SharedExternals
<1>5. MoveId(p) \/ MoveInt(p) => \A u \in Users : Served(u)' = Served(u)
  BY <1>1, <1>2, <1>3 DEF Served, Owned
<1>6. MoveId(p) => SharedInternals' = SharedInternals
  BY <1>2, <1>3 DEF SharedInternals
<1> QED
  BY <1>1, <1>2, <1>3, <1>4, <1>5, <1>6

LEMMA Gives ==
    ASSUME TypeOK, NEW p \in Procs, MoveUser(p)
    PROVE  Giving(p) /\ InTransit \subseteq InTransit' \cup {job[p].net}
<1> DEFINE n == job[p].net
<1>1. PICK k : Wrote(p, n, k) /\ Plain(k) /\ k.pc # "idle"
  BY MovedUser
<1>2. job[p].pc = "moveuser" /\ n \in Nets
  BY MovedUser
<1>3. job'[p] = k /\ \A q \in Procs : q # p => job'[q] = Noticed(n)[q]
  BY <1>1, <1>2, Writes
<1>4. Giving(p)
  BY <1>1, <1>2, <1>3 DEF Giving, Plain, Pending
<1>5. ASSUME NEW q \in Procs, q # p, job[q].pc = "moveuser"
      PROVE  job'[q].pc = "moveuser" /\ job'[q].net = job[q].net
  BY <1>2, <1>3, <1>5, Notices DEF Pending
<1> QED
  BY <1>4, <1>5 DEF InTransit

LEMMA VlansStep ==
    ASSUME TypeOK, Picks, [Next]_vars
    PROVE  \A v \in SharedVlans' \ SharedVlans : \E p \in Procs :
               \/ Writing(p) /\ job[p].user \in Admins
               \/ (Writing(p) \/ Giving(p)) /\ \E m \in Raced(p) : reg[m].id = v
               \/ Cut(p) /\ \E m \in {job[p].net} \cap DOMAIN reg : reg[m].id = v
<1> SUFFICES ASSUME NEW v \in SharedVlans' \ SharedVlans
             PROVE  \E p \in Procs :
                        \/ Writing(p) /\ job[p].user \in Admins
                        \/ (Writing(p) \/ Giving(p)) /\ \E m \in Raced(p) : reg[m].id = v
                        \/ Cut(p) /\ \E m \in {job[p].net} \cap DOMAIN reg : reg[m].id = v
  OBVIOUS
<1>1. PICK a \in DOMAIN reg' \ InTransit', b \in DOMAIN reg' \ InTransit' :
          reg'[a].id = v /\ reg'[b].id = v /\ reg'[a].user # reg'[b].user /\ v # 1
  BY DEF SharedVlans
<1>2. ASSUME NEW c \in DOMAIN reg \ InTransit, NEW d \in DOMAIN reg \ InTransit,
             reg[c].id = v, reg[d].id = v
      PROVE  reg[c].user = reg[d].user
  BY <1>1, <1>2 DEF SharedVlans
<1>3. ASSUME NEW p \in Procs, Write(p), Touched(job[p].net), InTransit \subseteq InTransit',
             job[p].user \notin Admins
      PROVE  \E m \in Raced(p) : reg[m].id = v
  <2> DEFINE n == job[p].net
             r == job[p].row
             u == job[p].user
  <2>1. /\ Picked(job[p]) /\ DOMAIN reg' = DOMAIN reg \cup {n}
        /\ \A m \in DOMAIN reg \ {n} : reg'[m] = reg[m]
        /\ reg'[n].user = u /\ reg'[n].id = r.id
    BY <1>3, WritesPick
  <2>2. a = n \/ b = n
    <3> SUFFICES ASSUME a # n, b # n PROVE FALSE
      OBVIOUS
    <3>1. /\ a \in DOMAIN reg \ InTransit /\ b \in DOMAIN reg \ InTransit
          /\ reg'[a] = reg[a] /\ reg'[b] = reg[b]
      BY <1>3, <2>1
    <3> QED
      BY <1>1, <1>2, <3>1
  <2>3. PICK c \in DOMAIN reg \ {n} : r.id = v /\ reg[c].id = v /\ reg[c].user # u
    BY <1>1, <2>1, <2>2
  <2>4. c \in job[p].during
    BY <1>3, <2>1, <2>3 DEF Picked
  <2> QED
    BY <2>3, <2>4 DEF Raced
<1>4. ASSUME NEW p \in Procs, Write(p), Touched(job[p].net) PROVE Writing(p)
  BY <1>4, WritesPick
<1>5. ASSUME NEW p \in Procs, MoveId(p) \/ MoveInt(p), InTransit \subseteq InTransit'
      PROVE  FALSE
  <2>1. /\ DOMAIN reg' = DOMAIN reg
        /\ \A m \in DOMAIN reg \ {job[p].net} : reg'[m] = reg[m]
        /\ \A m \in DOMAIN reg : reg'[m].user = reg[m].user
        /\ MoveInt(p) => \A m \in DOMAIN reg : reg'[m].id = reg[m].id
    BY <1>5, MovesShare
  <2>2. MoveId(p) => job[p].net \in InTransit'
    <3>1. MoveId(p) => job'[p].pc = "moveuser" /\ job'[p].net = job[p].net
      BY MovedId, Writes
    <3> QED
      BY <3>1 DEF InTransit
  <2> QED
    BY <1>1, <1>2, <1>5, <2>1, <2>2
<1>6. ASSUME NEW p \in Procs, MoveUser(p)
      PROVE  Giving(p) /\ \E m \in Raced(p) : reg[m].id = v
  <2> DEFINE n == job[p].net
             u == job[p].user
  <2>1. Giving(p) /\ InTransit \subseteq InTransit' \cup {n}
    BY <1>6, Gives
  <2>2. /\ job[p].pc = "moveuser" /\ DOMAIN reg' = DOMAIN reg
        /\ \A m \in DOMAIN reg \ {n} : reg'[m] = reg[m]
        /\ n \in DOMAIN reg => reg'[n].id = reg[n].id /\ reg'[n].user = u
    BY <1>6, MovedUser
  <2>3. a = n \/ b = n
    <3> SUFFICES ASSUME a # n, b # n PROVE FALSE
      OBVIOUS
    <3>1. /\ a \in DOMAIN reg \ InTransit /\ b \in DOMAIN reg \ InTransit
          /\ reg'[a] = reg[a] /\ reg'[b] = reg[b]
      BY <2>1, <2>2
    <3> QED
      BY <1>1, <1>2, <3>1
  <2>4. n \in DOMAIN reg /\ reg[n].id = v
    BY <1>1, <2>2, <2>3
  <2>5. PICK c \in DOMAIN reg \ {n} : reg[c].id = v /\ reg[c].user # u
    BY <1>1, <2>2, <2>3
  <2>6. CASE n \in job[p].during
    BY <2>1, <2>4, <2>6 DEF Raced
  <2>7. CASE n \notin job[p].during
    <3>1. Chosen(job[p])
      BY DEF Picks
    <3>2. job[p].newid = v
      BY <2>2, <2>4, <2>7, <3>1 DEF Chosen
    <3>3. c \in job[p].during
      BY <1>1, <2>2, <2>5, <3>1, <3>2 DEF Chosen
    <3> QED
      BY <2>1, <2>5, <3>3 DEF Raced
  <2> QED
    BY <2>6, <2>7
<1>7. ASSUME Reboot
      PROVE  \E p \in Procs : Cut(p) /\ \E m \in {job[p].net} \cap DOMAIN reg : reg[m].id = v
  <2>1. UNCHANGED reg
    BY <1>7 DEF Reboot
  <2>2. PICK c \in InTransit : c \in DOMAIN reg /\ reg[c].id = v
    BY <1>1, <1>2, <2>1
  <2>3. PICK p \in Procs : job[p].pc = "moveuser" /\ job[p].net = c
    BY DEF InTransit
  <2>4. Cut(p)
    BY <1>7, <2>3 DEF Reboot, Idle, Cut
  <2> QED
    BY <2>2, <2>3, <2>4
<1>8. InTransit \subseteq InTransit' => ~Fewer
  BY FewerShare
<1> QED
  BY <1>3, <1>4, <1>5, <1>6, <1>7, <1>8, FewerSteps, TransitKept

LEMMA ExternalsStep ==
    ASSUME TypeOK, Picks, [Next]_vars
    PROVE  \A e \in SharedExternals' \ SharedExternals : \E p \in Procs :
               Writing(p) /\ \E m \in Raced(p) : reg[m].ext = e
<1> SUFFICES ASSUME NEW e \in SharedExternals' \ SharedExternals
             PROVE  \E p \in Procs : Writing(p) /\ \E m \in Raced(p) : reg[m].ext = e
  OBVIOUS
<1>1. ~Fewer
  BY FewerShare
<1>2. ASSUME NEW p \in Procs, Write(p), Touched(job[p].net)
      PROVE  Writing(p) /\ \E m \in Raced(p) : reg[m].ext = e
  <2> DEFINE n == job[p].net
             r == job[p].row
  <2>1. /\ Writing(p) /\ Picked(job[p]) /\ DOMAIN reg' = DOMAIN reg \cup {n}
        /\ \A m \in DOMAIN reg \ {n} : reg'[m] = reg[m]
        /\ reg'[n].type = r.type /\ reg'[n].ext = r.ext
    BY <1>2, WritesPick
  <2>2. PICK a \in Connected', b \in Connected' :
            a # b /\ reg'[a].ext = e /\ reg'[b].ext = e /\ e # NoIp
    BY DEF SharedExternals
  <2>3. \A m \in Connected' : m # n => m \in Connected /\ reg'[m].ext = reg[m].ext
    BY <2>1 DEF Connected
  <2>4. a = n \/ b = n
    BY <2>2, <2>3 DEF SharedExternals
  <2>5. r.type # "gateway" /\ r.ext = e
    BY <2>1, <2>2, <2>4 DEF Connected
  <2>6. PICK c \in DOMAIN reg \ {n} : reg[c].ext = e
    BY <2>2, <2>3, <2>4 DEF Connected
  <2>7. c \in job[p].during
    BY <2>1, <2>2, <2>5, <2>6 DEF Picked
  <2> QED
    BY <2>1, <2>6, <2>7 DEF Raced
<1>3. ~\E p \in Procs : MoveId(p) \/ MoveUser(p) \/ MoveInt(p)
  BY MovesShare
<1> QED
  BY <1>1, <1>2, <1>3, FewerSteps


LEMMA InternalsStep ==
    ASSUME TypeOK, Picks, [Next]_vars
    PROVE  \A i \in SharedInternals' \ SharedInternals : \E p \in Procs :
               \/ Writing(p) /\ (Overtaken(p) \/ \E m \in Raced(p) : reg[m].int = i)
               \/ Converting(p)
               \/ Giving(p)
               \/ Readdressing(p) /\ (MovedOn(p) \/ \E m \in Raced(p) : reg[m].int = i)
<1> SUFFICES ASSUME NEW i \in SharedInternals' \ SharedInternals
             PROVE  \E p \in Procs :
                        \/ Writing(p) /\ (Overtaken(p) \/ \E m \in Raced(p) : reg[m].int = i)
                        \/ Converting(p)
                        \/ Giving(p)
                        \/ Readdressing(p) /\ (MovedOn(p) \/ \E m \in Raced(p) : reg[m].int = i)
  OBVIOUS
<1>1. ~Fewer
  BY FewerShare
<1>2. PICK a \in Connected', b \in Connected' :
          /\ a # b /\ reg'[a].int = i /\ reg'[b].int = i /\ i # NoIp
          /\ reg'[a].user = reg'[b].user
  BY DEF SharedInternals
<1>3. ASSUME NEW c \in Connected, NEW d \in Connected, c # d, reg[c].int = i, reg[d].int = i,
             reg[c].user = reg[d].user
      PROVE  FALSE
  BY <1>2, <1>3 DEF SharedInternals
<1>4. ASSUME NEW p \in Procs, Write(p), Touched(job[p].net), ~Overtaken(p), ~Converting(p)
      PROVE  \E m \in Raced(p) : reg[m].int = i
  <2> DEFINE n == job[p].net
             r == job[p].row
             u == job[p].user
  <2>1. /\ Writing(p) /\ Picked(job[p]) /\ DOMAIN reg' = DOMAIN reg \cup {n}
        /\ \A m \in DOMAIN reg \ {n} : reg'[m] = reg[m]
        /\ reg'[n].user = u /\ reg'[n].type = r.type /\ reg'[n].int = r.int
    BY <1>4, WritesPick
  <2>2. \A m \in Connected' : m # n => m \in Connected /\ reg'[m] = reg[m]
    BY <2>1 DEF Connected
  <2>3. a = n \/ b = n
    <3> SUFFICES ASSUME a # n, b # n PROVE FALSE
      OBVIOUS
    <3> QED
      BY <1>2, <1>3, <2>2
  <2>4. r.type # "gateway" /\ r.int = i
    BY <1>2, <2>1, <2>3 DEF Connected
  <2>5. PICK c \in Connected : c # n /\ reg[c].int = i /\ reg[c].user = u
    BY <1>2, <2>1, <2>2, <2>3
  <2>6. n \in DOMAIN reg => n \in Connected /\ reg[n].user = u
    BY <1>4, <2>1 DEF Converting
  <2>7. ~(n \in DOMAIN reg /\ (n \in Connected => reg[n].int = r.int))
    BY <1>3, <2>4, <2>5, <2>6
  <2>8. n \notin job[p].during
    BY <1>4 DEF Overtaken
  <2>9. \A m \in (Connected \cap Owned(u)) \ (job[p].during \cup {n}) : reg[m].int # r.int
    BY <1>2, <2>1, <2>4, <2>7, <2>8 DEF Picked
  <2>10. c \in Owned(u) /\ c \in DOMAIN reg
    BY <2>5 DEF Owned, Connected
  <2>11. c \in job[p].during
    BY <2>4, <2>5, <2>9, <2>10
  <2> QED
    BY <2>5, <2>10, <2>11 DEF Raced
<1>5. ASSUME NEW p \in Procs, MoveInt(p)
      PROVE  Readdressing(p) /\ (MovedOn(p) \/ \E m \in Raced(p) : reg[m].int = i)
  <2> DEFINE n == job[p].net
             u == job[p].user
  <2>1. /\ DOMAIN reg' = DOMAIN reg /\ Connected' = Connected
        /\ \A m \in DOMAIN reg \ {n} : reg'[m] = reg[m]
        /\ \A m \in DOMAIN reg : reg'[m].user = reg[m].user
    BY <1>5, MovesShare
  <2>2. /\ job[p].pc = "moveint" /\ n \in Nets
        /\ n \in DOMAIN reg => reg'[n].int = job[p].row.int
    BY <1>5, MovedInt
  <2>3. Readdressing(p)
    <3>1. PICK k : Wrote(p, n, k) /\ Plain(k)
      BY <1>5, MovedInt
    <3> QED
      BY <2>2, <3>1, Writes DEF Readdressing, Plain, Pending
  <2>4. Connected \subseteq DOMAIN reg
    BY DEF Connected
  <2>5. a = n \/ b = n
    <3> SUFFICES ASSUME a # n, b # n PROVE FALSE
      OBVIOUS
    <3> QED
      BY <1>2, <1>3, <2>1, <2>4
  <2>6. PICK c \in Connected : /\ c # n /\ reg[c].int = i /\ n \in DOMAIN reg /\ reg'[n].int = i
                               /\ reg[c].user = reg[n].user
    BY <1>2, <2>1, <2>4, <2>5
  <2>7. CASE reg[n].user # u
    BY <2>3, <2>6, <2>7 DEF MovedOn
  <2>8. CASE reg[n].user = u
    <3>1. Chosen(job[p])
      BY DEF Picks
    <3>2. c \in Owned(u) /\ c \in DOMAIN reg
      BY <2>4, <2>6, <2>8 DEF Owned
    <3>3. c \in job[p].during
      BY <1>2, <2>2, <2>6, <3>1, <3>2 DEF Chosen
    <3> QED
      BY <2>3, <2>6, <3>2, <3>3 DEF Raced
  <2> QED
    BY <2>7, <2>8
<1>6. ~\E p \in Procs : MoveId(p)
  BY MovesShare
<1>7. ASSUME NEW p \in Procs, MoveUser(p) PROVE Giving(p)
  BY <1>7, Gives
<1>8. ASSUME NEW p \in Procs, Write(p), Touched(job[p].net) PROVE Writing(p)
  BY <1>8, WritesPick
<1> QED
  BY <1>1, <1>4, <1>5, <1>6, <1>7, <1>8, FewerSteps

LEMMA QuotaStep ==
    ASSUME TypeOK, Picks, [Next]_vars, NEW u \in Users \ Admins, Quota > 0,
           Cardinality(Served(u)') > Quota, Cardinality(Served(u)) <= Quota
    PROVE  \E p \in Procs : \/ Writing(p) /\ Raced(p) \cap Owned(u) # {}
                            \/ Giving(p)
<1>1. IsFiniteSet(Served(u)) /\ IsFiniteSet(DOMAIN reg)
  <2>1. Served(u) \subseteq DOMAIN reg
    BY DEF Served, Owned
  <2> QED
    BY <2>1, FS_Subset DEF Picks
<1>2. Quota \in Int
  BY NetworksAssumption
<1>3. ~(Served(u)' \subseteq Served(u))
  <2> SUFFICES ASSUME Served(u)' \subseteq Served(u) PROVE FALSE
    OBVIOUS
  <2>1. Cardinality(Served(u)') <= Cardinality(Served(u)) /\ Cardinality(Served(u)') \in Nat
        /\ Cardinality(Served(u)) \in Nat
    BY <1>1, FS_Subset, FS_CardinalityType
  <2> QED
    BY <1>2, <2>1
<1>4. ~Fewer
  BY <1>3, FewerShare
<1>5. ASSUME NEW p \in Procs, Write(p), Touched(job[p].net)
      PROVE  Writing(p) /\ Raced(p) \cap Owned(u) # {}
  <2> DEFINE n == job[p].net
             r == job[p].row
             D == job[p].during
  <2>1. /\ Writing(p) /\ Picked(job[p]) /\ DOMAIN reg' = DOMAIN reg \cup {n}
        /\ \A m \in DOMAIN reg \ {n} : reg'[m] = reg[m]
        /\ reg'[n].user = job[p].user /\ reg'[n].type = r.type /\ reg'[n].ext = r.ext
    BY <1>5, WritesPick
  <2>2. \A m \in Served(u)' : m # n => m \in Served(u)
    BY <2>1 DEF Served, Owned, Connected
  <2>3. n \in Served(u)'
    BY <1>3, <2>2
  <2>4. job[p].user = u /\ r.type # "gateway" /\ r.ext # NoIp
    BY <2>1, <2>3 DEF Served, Owned, Connected
  <2>5. Cardinality(Counted(u, D)) < Quota
    BY <2>1, <2>4 DEF Picked
  <2> SUFFICES ASSUME Raced(p) \cap Owned(u) = {} PROVE FALSE
    BY <2>1
  <2>6. Served(u) \subseteq Counted(u, D)
    BY DEF Served, Counted, Raced, Owned
  <2>7. Served(u)' \subseteq Counted(u, D) \cup {n}
    BY <2>2, <2>6
  <2>8. IsFiniteSet(Counted(u, D)) /\ Cardinality(Counted(u, D)) \in Nat
    BY <1>1, CountedIsFinite
  <2> DEFINE C == Counted(u, D)
             S == Served(u)'
  <2> HIDE DEF C, S, n
  <2>9. /\ IsFiniteSet(C \cup {n})
        /\ Cardinality(C \cup {n}) = IF n \in C THEN Cardinality(C) ELSE Cardinality(C) + 1
    BY <2>8, FS_AddElement DEF C
  <2>10. IsFiniteSet(S) /\ Cardinality(S) <= Cardinality(C \cup {n}) /\ Cardinality(S) \in Nat
    BY <2>7, <2>9, FS_Subset, FS_CardinalityType DEF C, S
  <2>11. Cardinality(C) \in Nat /\ Cardinality(C) < Quota /\ Cardinality(S) > Quota
    BY <2>5, <2>8 DEF C, S
  <2>12. Cardinality(S) <= Cardinality(C) + 1
    BY <2>9, <2>10, <2>11
  <2> QED
    BY <1>2, <2>10, <2>11, <2>12
<1>6. ~\E p \in Procs : MoveId(p) \/ MoveInt(p)
  BY <1>3, MovesShare
<1>7. ASSUME NEW p \in Procs, MoveUser(p) PROVE Giving(p)
  BY <1>7, Gives
<1> QED
  BY <1>4, <1>5, <1>6, <1>7, FewerSteps

\* Two users come to share a VLAN only when one saves or is given a network while another
\* request writes one with that VLAN, by an administrator, or by a move that a reboot cuts
\* short between its two writes.
THEOREM UsersApart == Spec => VlansApart
<1>1. IInv /\ [Next]_vars =>
          \A v \in SharedVlans' \ SharedVlans : \E p \in Procs :
              \/ Writing(p) /\ job[p].user \in Admins
              \/ (Writing(p) \/ Giving(p)) /\ \E m \in Raced(p) : reg[m].id = v
              \/ Cut(p) /\ \E m \in {job[p].net} \cap DOMAIN reg : reg[m].id = v
  BY VlansStep DEF IInv
<1> QED
  BY <1>1, Invariant, PTL DEF Spec, VlansApart

\* An external address is given to two networks only by saves that overlap.
THEOREM AddressesApart == Spec => ExternalsApart
<1>1. IInv /\ [Next]_vars =>
          \A e \in SharedExternals' \ SharedExternals : \E p \in Procs :
              Writing(p) /\ \E m \in Raced(p) : reg[m].ext = e
  BY ExternalsStep DEF IInv
<1> QED
  BY <1>1, Invariant, PTL DEF Spec, ExternalsApart

\* A user gets an internal address for two networks only by saves that overlap, with a moved
\* server, or with an address that was a gateway's or another user's.
THEOREM ServersApart == Spec => InternalsApart
<1>1. IInv /\ [Next]_vars =>
          \A i \in SharedInternals' \ SharedInternals : \E p \in Procs :
              \/ Writing(p) /\ (Overtaken(p) \/ \E m \in Raced(p) : reg[m].int = i)
              \/ Converting(p)
              \/ Giving(p)
              \/ Readdressing(p) /\ (MovedOn(p) \/ \E m \in Raced(p) : reg[m].int = i)
  BY InternalsStep DEF IInv
<1> QED
  BY <1>1, Invariant, PTL DEF Spec, InternalsApart

\* A user comes to have more external addresses than the quota only by saves that overlap or
\* with a moved server.
THEOREM QuotasKept == Spec => QuotaKept
<1>1. IInv /\ [Next]_vars =>
          \A u \in Users \ Admins : Quota > 0 /\ Cardinality(Served(u)') > Quota
                  /\ Cardinality(Served(u)) <= Quota =>
              \E p \in Procs : \/ Writing(p) /\ Raced(p) \cap Owned(u) # {}
                               \/ Giving(p)
  BY QuotaStep DEF IInv
<1> QED
  BY <1>1, Invariant, PTL DEF Spec, QuotaKept


=============================================================================

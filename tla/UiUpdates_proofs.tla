---------------------------- MODULE UiUpdates_proofs ----------------------------
(***************************************************************************)
(* Theorems about updates, for any number of tabs, of calls of updateUI    *)
(* and of messages.  That there is always an inode for a new file follows  *)
(* from how many of them tabs and tees can hold; that an update is not     *)
(* lost follows from what a tee relies on that no other update meets: the  *)
(* tabs it saw are still at their pipes.                                   *)
(***************************************************************************)
EXTENDS UiUpdates, FiniteSetTheorems, TLAPS

-----------------------------------------------------------------------------
(* Inodes *)

\* A tee holds one inode at most for each of its pipes that it has tried to open.
Spread ==
    \A w \in Writers : \E h \in [Tabs -> {0} \cup Inodes] :
        /\ \A t \in writer[w].todo : h[t] = 0
        /\ writer[w].fds \cup {writer[w].at} \subseteq {h[t] : t \in Tabs} \cup {0}

LEMMA SmallestOne ==
    ASSUME NEW S \in SUBSET Nat, S # {}
    PROVE  Min(S) \in S
<1> DEFINE R == OpToRel(<, Nat)
<1>1. \A y, z \in Nat : y < z => <<y, z>> \in R
  BY Zenon DEF OpToRel
<1> HIDE DEF R
<1>2. PICK x \in S : \A y \in S : ~(<<y, x>> \in R)
  BY NatLessThanWellFounded, WFMin DEF R
<1>3. ASSUME NEW y \in S PROVE x <= y
  <2>1. ~(y < x)
    BY <1>1, <1>2
  <2>2. x \in Nat /\ y \in Nat
    OBVIOUS
  <2> QED
    BY <2>1, <2>2
<1> QED
  BY <1>3 DEF Min

\* There is an inode for the file of a tab that has none.
LEMMA FreshIsNew ==
    ASSUME TypeOK, Spread, NEW s \in Tabs, path[s] = 0
    PROVE  Fresh \in Inodes \ Used
<1> DEFINE k == Cardinality(Writers)
           n == Cardinality(Tabs) * (2 + k)
           D == Tabs \X (1 .. 2 + k)
<1>1. /\ k \in Nat /\ Cardinality(Tabs) \in Nat /\ n \in Nat
      /\ Inodes = 1 .. n
  BY UiUpdatesAssumption, FS_CardinalityType DEF Inodes
<1>2. PICK b \in Bijection(1 .. k, Writers) : TRUE
  BY UiUpdatesAssumption, FS_CardinalityType DEF ExistsBijection
<1>3. /\ b \in [1 .. k -> Writers]
      /\ \A w \in Writers : \E i \in 1 .. k : b[i] = w
  BY <1>2 DEF Bijection, Surjection
<1> DEFINE Covers(w, h) == writer[w].fds \cup {writer[w].at} \subseteq {h[t] : t \in Tabs} \cup {0}
           H == [w \in Writers |-> CHOOSE h \in [Tabs -> {0} \cup Inodes] : Covers(w, h)]
<1>4. \A w \in Writers : H[w] \in [Tabs -> {0} \cup Inodes] /\ Covers(w, H[w])
  <2>1. SUFFICES ASSUME NEW w \in Writers
                 PROVE  H[w] \in [Tabs -> {0} \cup Inodes] /\ Covers(w, H[w])
    OBVIOUS
  <2>2. \E h \in [Tabs -> {0} \cup Inodes] : Covers(w, h)
    BY DEF Spread
  <2>3. H[w] = CHOOSE h \in [Tabs -> {0} \cup Inodes] : Covers(w, h)
    OBVIOUS
  <2> HIDE DEF Covers, H
  <2> QED
    BY <2>2, <2>3
<1> HIDE DEF H
<1> DEFINE F == [d \in D |-> IF d[2] = 1 THEN path[d[1]]
                             ELSE IF d[2] = 2 THEN tab[d[1]].inode
                             ELSE H[b[d[2] - 2]][d[1]]]
<1>5. F \in [D -> 0 .. n]
  <2>1. SUFFICES ASSUME NEW t \in Tabs, NEW i \in 1 .. 2 + k
                 PROVE  F[<<t, i>>] \in 0 .. n
    <3>1. \A d \in D : \E t \in Tabs, i \in 1 .. 2 + k : d = <<t, i>>
      OBVIOUS
    <3> HIDE DEF n
    <3>2. (\A d \in D : F[d] \in 0 .. n) => F \in [D -> 0 .. n]
      OBVIOUS
    <3> HIDE DEF F, D
    <3> QED
      BY <3>1, <3>2
  <2>2. path[t] \in 0 .. n /\ tab[t].inode \in 0 .. n
    BY <1>1 DEF TypeOK
  <2>3. i # 1 /\ i # 2 => H[b[i - 2]][t] \in 0 .. n
    <3>1. i # 1 /\ i # 2 => b[i - 2] \in Writers
      BY <1>1, <1>3
    <3> QED
      BY <1>1, <1>4, <3>1
  <2> QED
    BY <2>2, <2>3
<1>6. ASSUME Inodes \subseteq Used
      PROVE  FALSE
  <2>1. ASSUME NEW y \in 0 .. n
        PROVE  \E d \in D : F[d] = y
    <3>1. /\ 1 \in 1 .. 2 + k /\ 2 \in 1 .. 2 + k
          /\ \A i \in 1 .. k : i + 2 \in 1 .. 2 + k /\ i + 2 # 1 /\ i + 2 # 2 /\ (i + 2) - 2 = i
      BY <1>1
    <3>2. CASE y = 0
      <4>1. <<s, 1>> \in D /\ F[<<s, 1>>] = y
        BY <3>1, <3>2
      <4> QED
        BY <4>1
    <3>3. CASE y # 0
      <4>1. y \in Used
        BY <1>1, <1>6, <3>3
      <4>2. CASE \E t \in Tabs : y = path[t]
        <5>1. PICK t \in Tabs : y = path[t]
          BY <4>2
        <5>2. <<t, 1>> \in D /\ F[<<t, 1>>] = y
          BY <3>1, <5>1
        <5> QED
          BY <5>2
      <4>3. CASE \E t \in Tabs : y = tab[t].inode
        <5>1. PICK t \in Tabs : y = tab[t].inode
          BY <4>3
        <5>2. <<t, 2>> \in D /\ F[<<t, 2>>] = y
          BY <3>1, <5>1
        <5> QED
          BY <5>2
      <4>4. CASE \E w \in Writers : y \in writer[w].fds \cup {writer[w].at}
        <5>1. PICK w \in Writers : y \in writer[w].fds \cup {writer[w].at}
          BY <4>4
        <5>2. PICK t \in Tabs : H[w][t] = y
          BY <1>4, <3>3, <5>1
        <5>3. PICK i \in 1 .. k : b[i] = w
          BY <1>3
        <5>4. <<t, i + 2>> \in D /\ F[<<t, i + 2>>] = y
          BY <3>1, <5>2, <5>3
        <5> QED
          BY <5>4
      <4> QED
        BY <4>1, <4>2, <4>3, <4>4 DEF Used
    <3> QED
      BY <3>2, <3>3
  <2>2. F \in Surjection(D, 0 .. n)
    BY <1>5, <2>1 DEF Surjection
  <2>3. IsFiniteSet(1 .. 2 + k) /\ Cardinality(1 .. 2 + k) = 2 + k
    BY <1>1, FS_Interval
  <2>4. IsFiniteSet(D) /\ Cardinality(D) = n
    BY <2>3, UiUpdatesAssumption, FS_Product
  <2>5. Cardinality(0 .. n) = n + 1
    BY <1>1, FS_Interval
  <2> HIDE DEF F, D, n
  <2>6. Cardinality(0 .. n) <= Cardinality(D)
    BY <2>2, <2>4, FS_Surjection
  <2> QED
    BY <1>1, <2>4, <2>5, <2>6
<1>7. Inodes \ Used # {} /\ Inodes \ Used \in SUBSET Nat
  BY <1>1, <1>6
<1> QED
  BY <1>7, SmallestOne DEF Fresh

-----------------------------------------------------------------------------
(* The inductive invariant *)

TabRecord ==
    [pc : {"ask", "check", "cat", "rm", "listen", "open", "read", "unlink", "exit"},
     inode : {0} \cup Inodes, held : SUBSET Messages, hup : BOOLEAN]

CallRecord ==
    [pc : {"idle", "tee", "append", "hangup"}, msg : SUBSET Messages,
     tabs : SUBSET Tabs, todo : SUBSET Tabs, at : {0} \cup Inodes, fds : SUBSET Inodes]

\* A file is there while it is linked or open.
Files ==
    DOMAIN file \subseteq {path[t] : t \in Tabs} \cup UNION {writer[w].fds : w \in Writers}

\* A call holds pipes only while tee runs, and a message until tee or the orphan file has it.
Calls ==
    \A w \in Writers :
        /\ writer[w].pc # "tee" => /\ writer[w].fds = {} /\ writer[w].at = 0
                                   /\ writer[w].tabs = {} /\ writer[w].todo = {}
        /\ writer[w].pc \in {"idle", "hangup"} => writer[w].msg = {}

\* A tab that waits for its pipe to be opened has nothing yet, and nobody opens the pipe.
Asks ==
    \A t \in Tabs :
        /\ tab[t].pc \in {"ask", "check", "cat", "listen", "open"} => tab[t].held = {}
        /\ tab[t].pc = "open" =>
               /\ tab[t].inode = path[t] /\ path[t] # 0 /\ path[t] \notin DOMAIN file
               /\ \A w \in Writers : path[t] \notin writer[w].fds /\ path[t] # writer[w].at

\* Messages are those updateUI was called with; files have none that met no other.
Sent ==
    /\ \A w \in Writers : writer[w].msg \subseteq sent
    /\ \A t \in Tabs : tab[t].held \subseteq sent
    /\ orphan \subseteq sent
    /\ \A i \in DOMAIN file : file[i] \subseteq exposed

\* An update that is not exposed is the only one on its way.
Lone == \A m, n \in sent : Live(m) /\ Live(n) /\ m # n => m \in exposed

\* What a tee relies on: nobody else is at work, the tabs it has to open are at their pipes,
\* and each pipe it has open is read.
Undisturbed(w) ==
    /\ writer[w].at = 0
    /\ \A v \in Writers \ {w} : writer[v].pc = "idle"
    /\ \A t \in Tabs : ~tab[t].hup
    /\ \A t \in writer[w].todo :
           /\ path[t] # 0 /\ path[t] \notin DOMAIN file
           /\ tab[t].inode = path[t]
           /\ \/ tab[t].pc = "open"
              \/ tab[t].pc = "read" /\ path[t] \in writer[w].fds
    /\ \A i \in writer[w].fds :
           /\ i \notin DOMAIN file
           /\ \E t \in Tabs : tab[t].pc = "read" /\ tab[t].inode = i

Heard ==
    \A w \in Writers :
        writer[w].pc = "tee" /\ ~(writer[w].msg \subseteq exposed) => Undisturbed(w)

IInv ==
    /\ TypeOK /\ Spread /\ Files /\ Calls /\ Asks /\ Sent /\ Lone /\ Heard
    /\ NotLost

LEMMA Records ==
    ASSUME TypeOK
    PROVE  /\ tab \in [Tabs -> TabRecord]
           /\ writer \in [Writers -> CallRecord]
           /\ 0 \notin Inodes
<1>1. 0 \notin Inodes
  BY UiUpdatesAssumption, FS_CardinalityType DEF Inodes
<1> QED
  BY <1>1 DEF TypeOK, TabRecord, CallRecord

LEMMA IInvInit == Init => IInv
<1> SUFFICES ASSUME Init PROVE IInv
  OBVIOUS
<1> USE DEF Init, Asking, Resting
<1>1. TypeOK
  BY UiUpdatesAssumption DEF TypeOK
<1>2. Spread
  <2>1. SUFFICES ASSUME NEW w \in Writers
                 PROVE  \E h \in [Tabs -> {0} \cup Inodes] :
                            /\ \A t \in writer[w].todo : h[t] = 0
                            /\ writer[w].fds \cup {writer[w].at} \subseteq {h[t] : t \in Tabs} \cup {0}
    BY DEF Spread
  <2>2. [t \in Tabs |-> 0] \in [Tabs -> {0} \cup Inodes]
    OBVIOUS
  <2> QED
    BY <2>2
<1>3. Files /\ Calls /\ Asks /\ Sent
  BY DEF Files, Calls, Asks, Sent
<1>4. Lone /\ Heard /\ NotLost
  BY DEF Lone, Heard, NotLost
<1> QED
  BY <1>1, <1>2, <1>3, <1>4 DEF IInv

\* A step of a tab's process that neither begins to read a pipe nor ends while a tee has it
\* open: what it holds, or takes from the orphan file, it keeps, shows or exposes.
LEMMA TabStep ==
    ASSUME IInv, NEW t \in Tabs, NEW j \in TabRecord,
           tab' = [tab EXCEPT ![t] = j],
           UNCHANGED <<writer, sent, sweeps>>,
           UNCHANGED <<path, file>> \/ Unlinked(t),
           j.pc \notin {"open", "read"}, ~j.hup,
           j.pc \in {"ask", "check", "cat", "listen"} => j.held = {},
           \/ tab[t].hup
           \/ tab[t].pc # "open" /\ (tab[t].pc = "read" => OpenFor(tab[t].inode) = {}),
           orphan' \subseteq orphan,
           j.held \subseteq tab[t].held \cup orphan,
           exposed \subseteq exposed', exposed' \subseteq sent,
           shown \subseteq shown', shown' \subseteq sent,
           tab[t].held \subseteq j.held \cup shown' \cup exposed',
           orphan \subseteq orphan' \cup j.held \cup exposed'
    PROVE  IInv'
<1> USE DEF IInv
<1>1. /\ tab \in [Tabs -> TabRecord] /\ tab' \in [Tabs -> TabRecord]
      /\ tab'[t] = j /\ \A u \in Tabs : u # t => tab'[u] = tab[u]
  BY Records
<1>2. /\ DOMAIN file' \subseteq DOMAIN file
      /\ \A i \in DOMAIN file' : file'[i] = file[i]
      /\ \A u \in Tabs : path'[u] \in {path[u], 0} /\ (u # t => path'[u] = path[u])
      /\ path' \in [Tabs -> {0} \cup Inodes]
  BY DEF Unlinked, Kept, TypeOK
<1>3. TypeOK'
  BY <1>1, <1>2 DEF TypeOK, TabRecord
<1>4. Spread' /\ Calls'
  BY DEF Spread, Calls
<1>5. Files'
  BY <1>2 DEF Files, Unlinked, Kept
<1>6. Asks'
  BY <1>1, <1>2 DEF Asks
<1>7. Sent'
  BY <1>1, <1>2 DEF Sent
<1>8. \A m : Live(m)' => Live(m)
  BY <1>1, <1>2 DEF Live
<1>9. Lone'
  BY <1>8 DEF Lone
<1>10. Heard'
  <2>1. SUFFICES ASSUME NEW w \in Writers, writer[w].pc = "tee",
                        ~(writer[w].msg \subseteq exposed'), Undisturbed(w)
                 PROVE  Undisturbed(w)'
    BY DEF Heard
  <2>2. /\ ~tab[t].hup /\ tab[t].pc # "open"
        /\ tab[t].pc = "read" => tab[t].inode \notin writer[w].fds
    BY <2>1 DEF Undisturbed, OpenFor
  <2>3. t \notin writer[w].todo
    BY <2>1, <2>2 DEF Undisturbed
  <2>4. \A i \in writer[w].fds : \E u \in Tabs : tab'[u].pc = "read" /\ tab'[u].inode = i
    BY <1>1, <2>1, <2>2 DEF Undisturbed
  <2>5. \A u \in writer[w].todo : u \in Tabs
    BY DEF TypeOK
  <2> QED
    BY <1>1, <1>2, <2>1, <2>3, <2>4, <2>5 DEF Undisturbed
<1>11. NotLost'
  <2>1. SUFFICES ASSUME NEW m \in sent, m \notin shown' \cup exposed'
                 PROVE  Live(m)'
    BY DEF NotLost
  <2>2. Live(m) /\ \A i \in DOMAIN file : m \notin file[i]
    BY <2>1 DEF NotLost, Sent
  <2> QED
    BY <1>1, <2>1, <2>2 DEF Live
<1> QED
  BY <1>3, <1>4, <1>5, <1>6, <1>7, <1>9, <1>10, <1>11

LEMMA AskStep ==
    ASSUME IInv, NEW t \in Tabs, Subscribe(t) \/ Check(t)
    PROVE  IInv'
<1> DEFINE pc == tab'[t].pc
           j == [tab[t] EXCEPT !.pc = pc]
<1>1. tab \in [Tabs -> TabRecord] /\ tab[t] \in TabRecord
  BY Records DEF IInv
<1>2. /\ tab[t].pc \in {"ask", "check"} /\ ~tab[t].hup
      /\ pc \in {"check", "cat", "listen"}
      /\ tab' = [tab EXCEPT ![t] = j]
      /\ UNCHANGED <<path, file, orphan, writer, sent, shown, exposed, sweeps>>
  BY <1>1 DEF Subscribe, Check, At, Goto, TabRecord
<1>3. tab[t].held = {}
  BY <1>2 DEF IInv, Asks
<1>4. j \in TabRecord /\ j.pc = pc /\ j.held = {} /\ ~j.hup
  BY <1>1, <1>2, <1>3 DEF TabRecord
<1> HIDE DEF j, pc
<1> QED
  BY <1>2, <1>3, <1>4, TabStep DEF IInv, TypeOK

\* The orphan file is shown by the one who reads it.
LEMMA CatOrphanStep ==
    ASSUME IInv, NEW t \in Tabs, CatOrphan(t)
    PROVE  IInv'
<1> DEFINE j == [tab[t] EXCEPT !.pc = "rm", !.held = orphan]
<1>1. tab[t] \in TabRecord /\ orphan \subseteq Messages
  BY Records DEF IInv, TypeOK
<1>2. /\ tab[t].pc = "cat" /\ ~tab[t].hup
      /\ tab' = [tab EXCEPT ![t] = j]
      /\ UNCHANGED <<path, file, orphan, writer, sent, shown, exposed, sweeps>>
  BY DEF CatOrphan, At, Goto
<1>3. tab[t].held = {}
  BY <1>2 DEF IInv, Asks
<1>4. j \in TabRecord /\ j.pc = "rm" /\ j.held = orphan /\ ~j.hup
  BY <1>1, <1>2 DEF TabRecord
<1> HIDE DEF j
<1> QED
  BY <1>2, <1>3, <1>4, TabStep DEF IInv, TypeOK

\* What was appended after it was read is exposed.
LEMMA RemoveOrphanStep ==
    ASSUME IInv, NEW t \in Tabs, RemoveOrphan(t)
    PROVE  IInv'
<1> DEFINE j == [tab[t] EXCEPT !.pc = "unlink"]
<1>1. tab[t] \in TabRecord
  BY Records DEF IInv
<1>2. /\ tab[t].pc = "rm" /\ ~tab[t].hup
      /\ tab' = [tab EXCEPT ![t] = j]
      /\ orphan' = {} /\ exposed' = exposed \cup (orphan \ tab[t].held)
      /\ UNCHANGED <<path, file, writer, sent, shown, sweeps>>
  BY DEF RemoveOrphan, At, Goto
<1>3. j \in TabRecord /\ j.pc = "unlink" /\ j.held = tab[t].held /\ ~j.hup
  BY <1>1, <1>2 DEF TabRecord
<1>4. exposed' \subseteq sent /\ shown \subseteq sent
  BY <1>2 DEF IInv, TypeOK, Sent
<1> HIDE DEF j
<1> QED
  BY <1>2, <1>3, <1>4, TabStep

LEMMA EndOfFileStep ==
    ASSUME IInv, NEW t \in Tabs, EndOfFile(t)
    PROVE  IInv'
<1> DEFINE j == [tab[t] EXCEPT !.pc = "unlink", !.inode = 0]
<1>1. tab[t] \in TabRecord
  BY Records DEF IInv
<1>2. /\ tab[t].pc = "read" /\ ~tab[t].hup /\ OpenFor(tab[t].inode) = {}
      /\ tab' = [tab EXCEPT ![t] = j]
      /\ UNCHANGED <<path, file, orphan, writer, sent, shown, exposed, sweeps>>
  BY DEF EndOfFile, At, Goto
<1>3. j \in TabRecord /\ j.pc = "unlink" /\ j.held = tab[t].held /\ ~j.hup
  BY <1>1, <1>2 DEF TabRecord
<1> HIDE DEF j
<1> QED
  BY <1>2, <1>3, TabStep DEF IInv, TypeOK

LEMMA UnlinkStep ==
    ASSUME IInv, NEW t \in Tabs, Unlink(t)
    PROVE  IInv'
<1> DEFINE j == [tab[t] EXCEPT !.pc = "exit"]
<1>1. tab[t] \in TabRecord
  BY Records DEF IInv
<1>2. /\ tab[t].pc = "unlink" /\ ~tab[t].hup /\ Unlinked(t)
      /\ tab' = [tab EXCEPT ![t] = j]
      /\ UNCHANGED <<orphan, writer, sent, shown, exposed, sweeps>>
  BY DEF Unlink, At, Goto
<1>3. j \in TabRecord /\ j.pc = "exit" /\ j.held = tab[t].held /\ ~j.hup
  BY <1>1, <1>2 DEF TabRecord
<1> HIDE DEF j
<1> QED
  BY <1>2, <1>3, TabStep DEF IInv, TypeOK

\* A response is shown or, if its serial is that of the one before, exposed.
LEMMA ExitStep ==
    ASSUME IInv, NEW t \in Tabs, Exit(t)
    PROVE  IInv'
<1>1. Asking \in TabRecord /\ Asking.pc = "ask" /\ Asking.held = {} /\ ~Asking.hup
  BY DEF Asking, TabRecord
<1>2. /\ tab[t].pc = "exit" /\ ~tab[t].hup
      /\ tab' = [tab EXCEPT ![t] = Asking]
      /\ \/ shown' = shown \cup tab[t].held /\ exposed' = exposed
         \/ exposed' = exposed \cup tab[t].held /\ shown' = shown
      /\ UNCHANGED <<path, file, orphan, writer, sent, sweeps>>
  BY DEF Exit, At, Goto
<1>3. shown' \subseteq sent /\ exposed' \subseteq sent
  BY <1>2 DEF IInv, TypeOK, Sent
<1> QED
  BY <1>1, <1>2, <1>3, TabStep

\* What a process holds that is hung up is exposed.
LEMMA HandleStep ==
    ASSUME IInv, NEW t \in Tabs, Handle(t)
    PROVE  IInv'
<1>1. Asking \in TabRecord /\ Asking.pc = "ask" /\ Asking.held = {} /\ ~Asking.hup
  BY DEF Asking, TabRecord
<1>2. /\ tab[t].hup /\ Unlinked(t)
      /\ tab' = [tab EXCEPT ![t] = Asking]
      /\ exposed' = exposed \cup tab[t].held
      /\ UNCHANGED <<orphan, writer, sent, shown, sweeps>>
  BY DEF Handle, Goto
<1>3. shown \subseteq sent /\ exposed' \subseteq sent
  BY <1>2 DEF IInv, TypeOK, Sent
<1> QED
  BY <1>1, <1>2, <1>3, TabStep

\* A tab opens its pipe, which those that wait to write to it open too, or reads the file
\* that is there instead.
LEMMA ListenStep ==
    ASSUME IInv, NEW t \in Tabs, Listen(t)
    PROVE  IInv'
<1> USE DEF IInv
<1> DEFINE i == IF path[t] = 0 THEN Fresh ELSE path[t]
<1>1. /\ tab \in [Tabs -> TabRecord] /\ writer \in [Writers -> CallRecord]
      /\ tab[t] \in TabRecord /\ 0 \notin Inodes /\ path \in [Tabs -> {0} \cup Inodes]
  BY Records DEF TypeOK
<1>2. /\ i \in Inodes /\ i # 0
      /\ path[t] # 0 => i = path[t]
      /\ path[t] = 0 => /\ \A u \in Tabs : i # path[u]
                        /\ i \notin DOMAIN file
                        /\ \A w \in Writers : i \notin writer[w].fds /\ i # writer[w].at
  BY <1>1, FreshIsNew DEF Used, Files
<1> HIDE DEF i
<1>3. /\ tab[t].pc = "listen" /\ ~tab[t].hup /\ tab[t].held = {}
      /\ path' = [path EXCEPT ![t] = i]
      /\ UNCHANGED <<file, orphan, sent, shown, exposed, sweeps>>
  BY DEF Listen, At, i, Asks
<1>4. CASE /\ i \in DOMAIN file
           /\ tab' = [tab EXCEPT ![t] = [tab[t] EXCEPT !.pc = "unlink", !.held = file[i]]]
           /\ UNCHANGED writer
  <2> DEFINE j == [tab[t] EXCEPT !.pc = "unlink", !.held = file[i]]
  <2>1. file[i] \subseteq exposed /\ file[i] \subseteq Messages /\ exposed \subseteq sent
    BY <1>4 DEF Sent, TypeOK
  <2>2. /\ j \in TabRecord /\ j.pc = "unlink" /\ j.held = file[i] /\ ~j.hup
        /\ path' = path
    BY <1>1, <1>2, <1>3, <1>4, <2>1 DEF TabRecord
  <2> HIDE DEF j
  <2>3. tab'[t] = j /\ \A u \in Tabs : u # t => tab'[u] = tab[u]
    BY <1>1, <1>4 DEF j
  <2>4. TypeOK'
    <3>1. tab' \in [Tabs -> TabRecord]
      BY <1>1, <1>4, <2>2 DEF j
    <3> QED
      BY <1>3, <1>4, <2>2, <3>1 DEF TypeOK, TabRecord
  <2>5. Spread' /\ Files' /\ Calls'
    BY <1>3, <1>4, <2>2 DEF Spread, Files, Calls
  <2>6. Asks' /\ Sent'
    BY <1>3, <1>4, <2>1, <2>2, <2>3 DEF Asks, Sent
  <2>7. \A m : Live(m)' => Live(m)
    BY <1>3, <1>4, <2>2, <2>3 DEF Live
  <2>8. Lone'
    BY <1>3, <2>7 DEF Lone
  <2>9. Heard'
    <3>1. SUFFICES ASSUME NEW w \in Writers, Undisturbed(w) PROVE Undisturbed(w)'
      BY <1>3, <1>4 DEF Heard
    <3>2. t \notin writer[w].todo /\ writer[w].todo \subseteq Tabs
      BY <1>3, <3>1 DEF Undisturbed, TypeOK
    <3>3. \A k \in writer[w].fds : \E u \in Tabs : tab'[u].pc = "read" /\ tab'[u].inode = k
      BY <1>3, <2>3, <3>1 DEF Undisturbed
    <3> QED
      BY <1>3, <1>4, <2>2, <2>3, <3>1, <3>2, <3>3 DEF Undisturbed
  <2>10. NotLost'
    <3>1. SUFFICES ASSUME NEW m \in sent, m \notin shown \cup exposed PROVE Live(m)'
      BY <1>3 DEF NotLost
    <3> QED
      BY <1>3, <1>4, <2>3, <3>1 DEF NotLost, Live
  <2> QED
    BY <2>4, <2>5, <2>6, <2>8, <2>9, <2>10
<1>5. CASE /\ i \notin DOMAIN file
           /\ tab' = [tab EXCEPT ![t] = [tab[t] EXCEPT !.inode = i,
                         !.pc = IF WaitFor(i) \cup OpenFor(i) = {} THEN "open" ELSE "read"]]
           /\ writer' = [w \in Writers |->
                             IF w \in WaitFor(i)
                             THEN [writer[w] EXCEPT !.at = 0, !.fds = @ \cup {i}]
                             ELSE writer[w]]
  <2> DEFINE pc == IF WaitFor(i) \cup OpenFor(i) = {} THEN "open" ELSE "read"
             j == [tab[t] EXCEPT !.inode = i, !.pc = pc]
  <2>1. /\ j \in TabRecord /\ j.held = {} /\ ~j.hup /\ j.inode = i /\ j.pc = pc
        /\ pc \in {"open", "read"}
        /\ pc = "open" => \A w \in Writers : i \notin writer[w].fds /\ i # writer[w].at
    BY <1>1, <1>2, <1>3 DEF TabRecord, WaitFor, OpenFor
  <2> HIDE DEF j, pc
  <2>2. tab'[t] = j /\ \A u \in Tabs : u # t => tab'[u] = tab[u]
    BY <1>1, <1>5 DEF j, pc
  <2>3. ASSUME NEW w \in Writers
        PROVE  /\ writer'[w].pc = writer[w].pc /\ writer'[w].msg = writer[w].msg
               /\ writer'[w].tabs = writer[w].tabs /\ writer'[w].todo = writer[w].todo
               /\ writer'[w] \in CallRecord
               /\ \/ /\ writer[w].at = i /\ writer'[w].at = 0
                     /\ writer'[w].fds = writer[w].fds \cup {i}
                  \/ writer[w].at # i /\ writer'[w] = writer[w]
    <3>1. CASE w \in WaitFor(i)
      <4>1. writer'[w] = [writer[w] EXCEPT !.at = 0, !.fds = @ \cup {i}]
        BY <1>5, <3>1
      <4>2. writer[w] \in CallRecord
        BY <1>1
      <4>3. writer'[w] \in CallRecord
        BY <1>2, <4>1, <4>2 DEF CallRecord
      <4>4. /\ writer'[w].pc = writer[w].pc /\ writer'[w].msg = writer[w].msg
            /\ writer'[w].tabs = writer[w].tabs /\ writer'[w].todo = writer[w].todo
            /\ writer'[w].at = 0 /\ writer'[w].fds = writer[w].fds \cup {i}
        BY <4>1, <4>2 DEF CallRecord
      <4> QED
        BY <3>1, <4>3, <4>4 DEF WaitFor
    <3>2. CASE w \notin WaitFor(i)
      <4>1. writer'[w] = writer[w] /\ writer[w] \in CallRecord
        BY <1>1, <1>5, <3>2
      <4> QED
        BY <3>2, <4>1 DEF WaitFor
    <3> QED
      BY <3>1, <3>2
  <2>4. TypeOK'
    <3>1. tab' \in [Tabs -> TabRecord] /\ path' \in [Tabs -> {0} \cup Inodes]
      BY <1>1, <1>2, <1>3, <1>5, <2>1 DEF j, pc
    <3>2. writer' \in [Writers -> CallRecord]
      BY <1>5, <2>3
    <3> QED
      BY <1>3, <3>1, <3>2 DEF TypeOK, TabRecord, CallRecord
  <2>5. Spread'
    <3>1. SUFFICES ASSUME NEW w \in Writers
                   PROVE  \E h \in [Tabs -> {0} \cup Inodes] :
                              /\ \A u \in writer'[w].todo : h[u] = 0
                              /\ writer'[w].fds \cup {writer'[w].at}
                                     \subseteq {h[u] : u \in Tabs} \cup {0}
      BY DEF Spread
    <3>2. /\ writer'[w].todo = writer[w].todo
          /\ writer'[w].fds \cup {writer'[w].at} \subseteq writer[w].fds \cup {writer[w].at} \cup {0}
      BY <2>3
    <3>3. PICK h \in [Tabs -> {0} \cup Inodes] :
              /\ \A u \in writer[w].todo : h[u] = 0
              /\ writer[w].fds \cup {writer[w].at} \subseteq {h[u] : u \in Tabs} \cup {0}
      BY DEF Spread
    <3> QED
      BY <3>2, <3>3
  <2>6. Files'
    <3>1. \A u \in Tabs : path[u] # 0 => path'[u] = path[u]
      BY <1>1, <1>3 DEF i
    <3>2. \A k \in DOMAIN file : k # 0
      BY <1>1 DEF TypeOK
    <3>3. \A w \in Writers : writer[w].fds \subseteq writer'[w].fds
      BY <2>3
    <3> QED
      BY <1>3, <3>1, <3>2, <3>3 DEF Files
  <2>7. Calls'
    BY <1>2, <2>3 DEF Calls
  <2>8. Asks'
    <3>1. SUFFICES ASSUME NEW u \in Tabs
                   PROVE  /\ tab'[u].pc \in {"ask", "check", "cat", "listen", "open"} =>
                                 tab'[u].held = {}
                          /\ tab'[u].pc = "open" =>
                                 /\ tab'[u].inode = path'[u] /\ path'[u] # 0
                                 /\ path'[u] \notin DOMAIN file'
                                 /\ \A w \in Writers : /\ path'[u] \notin writer'[w].fds
                                                       /\ path'[u] # writer'[w].at
      BY DEF Asks
    <3>2. CASE u = t
      <4>1. path'[u] = i /\ tab'[u] = j
        BY <1>1, <1>3, <2>2, <3>2
      <4>2. j.pc = "open" => \A w \in Writers : i \notin writer'[w].fds /\ i # writer'[w].at
        BY <2>1, <2>3
      <4> QED
        BY <1>2, <1>3, <1>5, <2>1, <4>1, <4>2
    <3>3. CASE u # t
      <4>1. path'[u] = path[u] /\ tab'[u] = tab[u]
        BY <1>3, <2>2, <3>3
      <4> QED
        BY <1>3, <2>3, <4>1 DEF Asks
    <3> QED
      BY <3>2, <3>3
  <2>9. Sent'
    BY <1>3, <2>1, <2>2, <2>3 DEF Sent
  <2>10. \A m : Live(m)' <=> Live(m)
    <3>1. \A u \in Tabs : tab'[u].held = tab[u].held
      BY <1>3, <2>1, <2>2
    <3> QED
      BY <1>3, <2>3, <3>1 DEF Live
  <2>11. Lone' /\ NotLost'
    BY <1>3, <2>10 DEF Lone, NotLost
  <2>12. Heard'
    <3>1. SUFFICES ASSUME NEW w \in Writers, Undisturbed(w) PROVE Undisturbed(w)'
      BY <1>3, <2>3 DEF Heard
    <3>2. t \notin writer[w].todo /\ writer[w].todo \subseteq Tabs
      BY <1>3, <3>1 DEF Undisturbed, TypeOK
    <3>3. writer'[w] = writer[w]
      BY <1>2, <2>3, <3>1 DEF Undisturbed
    <3>4. \A k \in writer[w].fds : \E u \in Tabs : tab'[u].pc = "read" /\ tab'[u].inode = k
      BY <1>3, <2>2, <3>1 DEF Undisturbed
    <3>5. \A v \in Writers \ {w} : writer'[v].pc = "idle"
      BY <2>3, <3>1 DEF Undisturbed
    <3>6. \A u \in Tabs : ~tab'[u].hup
      BY <2>1, <2>2, <3>1 DEF Undisturbed
    <3> QED
      BY <1>3, <2>2, <3>1, <3>2, <3>3, <3>4, <3>5, <3>6 DEF Undisturbed
  <2> QED
    BY <2>4, <2>5, <2>6, <2>7, <2>8, <2>9, <2>11, <2>12
<1>6. \/ /\ i \in DOMAIN file
         /\ tab' = [tab EXCEPT ![t] = [tab[t] EXCEPT !.pc = "unlink", !.held = file[i]]]
         /\ UNCHANGED writer
      \/ /\ i \notin DOMAIN file
         /\ tab' = [tab EXCEPT ![t] = [tab[t] EXCEPT !.inode = i,
                       !.pc = IF WaitFor(i) \cup OpenFor(i) = {} THEN "open" ELSE "read"]]
         /\ writer' = [w \in Writers |->
                           IF w \in WaitFor(i)
                           THEN [writer[w] EXCEPT !.at = 0, !.fds = @ \cup {i}]
                           ELSE writer[w]]
  BY DEF Listen, Goto, i
<1> QED
  BY <1>4, <1>5, <1>6

\* A call that holds no more than it did, and one that takes an inode for a pipe.
LEMMA SpreadKept ==
    ASSUME Spread,
           \A w \in Writers :
               /\ writer'[w].todo \subseteq writer[w].todo
               /\ writer'[w].fds \cup {writer'[w].at} \subseteq writer[w].fds \cup {writer[w].at, 0}
    PROVE  Spread'
<1>1. SUFFICES ASSUME NEW w \in Writers
               PROVE  \E h \in [Tabs -> {0} \cup Inodes] :
                          /\ \A u \in writer'[w].todo : h[u] = 0
                          /\ writer'[w].fds \cup {writer'[w].at} \subseteq {h[u] : u \in Tabs} \cup {0}
  BY DEF Spread
<1>2. PICK h \in [Tabs -> {0} \cup Inodes] :
          /\ \A u \in writer[w].todo : h[u] = 0
          /\ writer[w].fds \cup {writer[w].at} \subseteq {h[u] : u \in Tabs} \cup {0}
  BY DEF Spread
<1> QED
  BY <1>2

LEMMA SpreadExtends ==
    ASSUME Spread, NEW w \in Writers, NEW s \in Tabs \cap writer[w].todo, NEW k \in Inodes,
           \A v \in Writers \ {w} : writer'[v] = writer[v],
           writer'[w].todo = writer[w].todo \ {s},
           writer'[w].fds \cup {writer'[w].at} \subseteq writer[w].fds \cup {writer[w].at, k}
    PROVE  Spread'
<1>1. SUFFICES ASSUME NEW v \in Writers
               PROVE  \E h \in [Tabs -> {0} \cup Inodes] :
                          /\ \A u \in writer'[v].todo : h[u] = 0
                          /\ writer'[v].fds \cup {writer'[v].at} \subseteq {h[u] : u \in Tabs} \cup {0}
  BY DEF Spread
<1>2. PICK h \in [Tabs -> {0} \cup Inodes] :
          /\ \A u \in writer[v].todo : h[u] = 0
          /\ writer[v].fds \cup {writer[v].at} \subseteq {h[u] : u \in Tabs} \cup {0}
  BY DEF Spread
<1>3. CASE v # w
  BY <1>2, <1>3
<1>4. CASE v = w
  <2> DEFINE g == [h EXCEPT ![s] = k]
  <2>1. /\ g \in [Tabs -> {0} \cup Inodes] /\ g[s] = k
        /\ \A u \in Tabs : u # s => g[u] = h[u]
        /\ h[s] = 0
    BY <1>2, <1>4
  <2> HIDE DEF g
  <2>2. \A u \in writer'[v].todo : g[u] = 0
    <3>1. \A u \in writer'[v].todo : u # s /\ h[u] = 0
      BY <1>2, <1>4
    <3>2. \A u : u \notin Tabs => g[u] = h[u]
      BY DEF g
    <3> QED
      BY <2>1, <3>1, <3>2
  <2>3. {h[u] : u \in Tabs} \subseteq {g[u] : u \in Tabs} \cup {0}
    BY <2>1
  <2>4. k \in {g[u] : u \in Tabs}
    BY <2>1
  <2> QED
    BY <1>2, <1>4, <2>1, <2>2, <2>3, <2>4
<1> QED
  BY <1>3, <1>4

\* A message that meets no other is the only one there is.
LEMMA LookStep ==
    ASSUME IInv, NEW w \in Writers, Look(w)
    PROVE  IInv'
<1> USE DEF IInv
<1> DEFINE open == {t \in Tabs : path[t] # 0 /\ Listened(t)}
<1>1. PICK m \in Messages \ sent :
          /\ sent' = sent \cup {m}
          /\ writer' = [writer EXCEPT ![w] =
                [@ EXCEPT !.pc = IF open = {} THEN "append" ELSE "tee",
                          !.msg = {m}, !.tabs = open, !.todo = open]]
          /\ exposed' = IF Quiet(w) THEN exposed ELSE exposed \cup LiveOnes \cup {m}
  BY DEF Look
<1>2. /\ writer[w].pc = "idle"
      /\ UNCHANGED <<path, file, orphan, tab, shown, sweeps>>
  BY DEF Look
<1>3. /\ writer \in [Writers -> CallRecord] /\ writer[w] \in CallRecord
      /\ writer[w].fds = {} /\ writer[w].at = 0 /\ writer[w].msg = {} /\ writer[w].tabs = {}
  BY <1>2, Records DEF Calls
<1>4. /\ writer'[w] \in CallRecord /\ writer'[w].fds = {} /\ writer'[w].at = 0
      /\ writer'[w].msg = {m} /\ writer'[w].tabs = open /\ writer'[w].todo = open
      /\ \/ open = {} /\ writer'[w].pc = "append"
         \/ open # {} /\ writer'[w].pc = "tee"
      /\ \A v \in Writers : v # w => writer'[v] = writer[v]
      /\ writer' \in [Writers -> CallRecord]
  BY <1>1, <1>3 DEF CallRecord
<1>5. LiveOnes \subseteq sent /\ sent \subseteq sent' /\ exposed \subseteq exposed' /\ exposed' \subseteq sent'
  BY <1>1 DEF LiveOnes, TypeOK
<1> HIDE DEF open
<1>6. TypeOK'
  BY <1>1, <1>2, <1>4, <1>5 DEF TypeOK, CallRecord
<1>7. Spread'
  <2>1. SUFFICES ASSUME NEW v \in Writers
                 PROVE  \E h \in [Tabs -> {0} \cup Inodes] :
                            /\ \A u \in writer'[v].todo : h[u] = 0
                            /\ writer'[v].fds \cup {writer'[v].at} \subseteq {h[u] : u \in Tabs} \cup {0}
    BY DEF Spread
  <2>2. CASE v # w
    <3>1. writer'[v] = writer[v]
      BY <1>4, <2>2
    <3>2. PICK h \in [Tabs -> {0} \cup Inodes] :
              /\ \A u \in writer[v].todo : h[u] = 0
              /\ writer[v].fds \cup {writer[v].at} \subseteq {h[u] : u \in Tabs} \cup {0}
      BY DEF Spread
    <3> QED
      BY <3>1, <3>2
  <2>3. CASE v = w
    <3>1. open \subseteq Tabs
      BY DEF open
    <3>2. [u \in Tabs |-> 0] \in [Tabs -> {0} \cup Inodes]
      OBVIOUS
    <3> QED
      BY <1>4, <2>3, <3>1, <3>2
  <2> QED
    BY <2>2, <2>3
<1>8. Files'
  BY <1>2, <1>3, <1>4 DEF Files
<1>9. Calls'
  <2>1. \A v \in Writers : v # w => writer'[v] = writer[v]
    BY <1>4
  <2>2. writer'[w].pc \in {"append", "tee"}
    BY <1>4
  <2>3. writer'[w].pc # "tee" => writer'[w].tabs = {} /\ writer'[w].todo = {}
    BY <1>4
  <2> QED
    BY <1>4, <2>1, <2>2, <2>3 DEF Calls
<1>10. Asks'
  BY <1>2, <1>3, <1>4 DEF Asks
<1>11. Sent'
  BY <1>1, <1>2, <1>4, <1>5 DEF Sent
<1>12. /\ \A n : Live(n)' => Live(n) \/ n = m
       /\ \A n : Live(n) => Live(n)' /\ n \in sent
       /\ Live(m)'
  <2>1. \A n : Live(n)' => Live(n) \/ n = m
    BY <1>2, <1>4 DEF Live
  <2>2. \A n : Live(n) => n \in sent
    BY DEF Live, Sent, TypeOK
  <2>3. \A n : Live(n) => Live(n)'
    BY <1>2, <1>3, <1>4 DEF Live
  <2>4. Live(m)'
    BY <1>4 DEF Live
  <2> QED
    BY <2>1, <2>2, <2>3, <2>4
<1>13. Lone'
  <2>1. CASE Quiet(w)
    <3>1. \A n : ~Live(n)
      BY <1>12, <2>1 DEF Quiet, LiveOnes
    <3> QED
      BY <1>12, <3>1 DEF Lone
  <2>2. CASE ~Quiet(w)
    <3>1. \A n : Live(n)' => n \in exposed'
      BY <1>1, <1>12, <2>2 DEF LiveOnes
    <3> QED
      BY <3>1 DEF Lone
  <2> QED
    BY <2>1, <2>2
<1>14. Heard'
  <2>1. SUFFICES ASSUME NEW v \in Writers, writer'[v].pc = "tee",
                        ~(writer'[v].msg \subseteq exposed')
                 PROVE  Undisturbed(v)'
    BY DEF Heard
  <2>2. CASE v = w
    <3>1. Quiet(w)
      BY <1>1, <1>4, <2>1, <2>2
    <3>2. \A u \in Tabs : ~tab[u].hup
      BY <3>1 DEF Quiet
    <3>3. \A x \in Writers \ {w} : writer'[x].pc = "idle"
      BY <1>4, <3>1 DEF Quiet
    <3>4. \A x \in Writers : writer[x].tabs = {}
      BY <1>2, <3>1 DEF Calls, Quiet
    <3>5. \A u \in open : tab[u].pc = "open" /\ u \in Tabs
      BY <3>4 DEF open, Listened
    <3> QED
      BY <1>2, <1>4, <2>2, <3>2, <3>3, <3>5 DEF Undisturbed, Asks
  <2>3. CASE v # w
    <3>1. writer'[v] = writer[v]
      BY <1>4, <2>3
    <3>2. PICK n \in writer[v].msg : n \notin exposed'
      BY <2>1, <3>1
    <3>3. n \in LiveOnes
      BY <3>2 DEF LiveOnes, Live, Sent
    <3> QED
      BY <1>1, <2>1, <2>3, <3>1, <3>2, <3>3 DEF Quiet
  <2> QED
    BY <2>2, <2>3
<1>15. NotLost'
  <2>1. SUFFICES ASSUME NEW n \in sent', n \notin shown \cup exposed' PROVE Live(n)'
    BY <1>2 DEF NotLost
  <2> QED
    BY <1>1, <1>5, <1>12, <2>1 DEF NotLost
<1> QED
  BY <1>6, <1>7, <1>8, <1>9, <1>10, <1>11, <1>13, <1>14, <1>15

LEMMA AppendStep ==
    ASSUME IInv, NEW w \in Writers, Append(w)
    PROVE  IInv'
<1> USE DEF IInv
<1>1. /\ writer[w].pc = "append"
      /\ orphan' = orphan \cup writer[w].msg
      /\ writer' = [writer EXCEPT ![w] = [Resting EXCEPT !.pc = "hangup"]]
      /\ UNCHANGED <<path, file, tab, sent, shown, exposed, sweeps>>
  BY DEF Append
<1>2. /\ writer \in [Writers -> CallRecord] /\ writer[w] \in CallRecord
      /\ writer[w].fds = {} /\ writer[w].at = 0
  BY <1>1, Records DEF Calls
<1>3. /\ writer'[w] \in CallRecord /\ writer'[w].fds = {} /\ writer'[w].at = 0
      /\ writer'[w].pc = "hangup" /\ writer'[w].msg = {} /\ writer'[w].tabs = {}
      /\ writer'[w].todo = {}
      /\ \A v \in Writers : v # w => writer'[v] = writer[v]
      /\ writer' \in [Writers -> CallRecord]
  BY <1>1, <1>2 DEF CallRecord, Resting
<1>4. TypeOK'
  <2>1. writer[w].msg \subseteq Messages
    BY <1>2 DEF CallRecord
  <2> QED
    BY <1>1, <1>3, <2>1 DEF TypeOK, CallRecord
<1>5. Spread'
  BY <1>3, SpreadKept
<1>6. Files' /\ Calls' /\ Asks'
  BY <1>1, <1>2, <1>3 DEF Files, Calls, Asks
<1>7. Sent'
  BY <1>1, <1>3 DEF Sent
<1>8. \A n : Live(n)' <=> Live(n)
  BY <1>1, <1>3 DEF Live
<1>9. Lone' /\ NotLost'
  BY <1>1, <1>8 DEF Lone, NotLost
<1>10. Heard'
  <2>1. SUFFICES ASSUME NEW v \in Writers, writer'[v].pc = "tee",
                        ~(writer'[v].msg \subseteq exposed')
                 PROVE  FALSE
    BY DEF Heard
  <2>2. v # w /\ writer'[v] = writer[v]
    BY <1>3, <2>1
  <2> QED
    BY <1>1, <2>1, <2>2 DEF Heard, Undisturbed
<1> QED
  BY <1>4, <1>5, <1>6, <1>7, <1>9, <1>10

LEMMA HangUpStep ==
    ASSUME IInv, NEW w \in Writers, HangUp(w)
    PROVE  IInv'
<1> USE DEF IInv
<1>1. /\ writer[w].pc = "hangup"
      /\ writer' = [writer EXCEPT ![w] = Resting]
      /\ tab' = [t \in Tabs |-> [tab[t] EXCEPT !.hup = tab[t].pc # "ask"]]
      /\ UNCHANGED <<path, file, orphan, sent, shown, exposed, sweeps>>
  BY DEF HangUp
<1>2. /\ writer \in [Writers -> CallRecord] /\ tab \in [Tabs -> TabRecord]
      /\ writer[w].fds = {} /\ writer[w].at = 0 /\ writer[w].msg = {}
  BY <1>1, Records DEF Calls
<1>3. /\ writer'[w] = Resting /\ Resting \in CallRecord
      /\ \A v \in Writers : v # w => writer'[v] = writer[v]
      /\ writer' \in [Writers -> CallRecord]
  BY <1>1, <1>2 DEF CallRecord, Resting
<1>4. ASSUME NEW t \in Tabs
      PROVE  /\ tab'[t].pc = tab[t].pc /\ tab'[t].held = tab[t].held
             /\ tab'[t].inode = tab[t].inode
             /\ tab'[t] \in TabRecord
  <2>1. tab[t] \in TabRecord /\ tab'[t] = [tab[t] EXCEPT !.hup = tab[t].pc # "ask"]
    BY <1>1, <1>2
  <2> QED
    BY <2>1 DEF TabRecord
<1>5. TypeOK'
  <2>1. tab' \in [Tabs -> TabRecord]
    BY <1>1, <1>4
  <2> QED
    BY <1>1, <1>3, <2>1 DEF TypeOK, CallRecord, TabRecord
<1>6. Spread'
  BY <1>3, SpreadKept DEF Resting
<1>7. Files' /\ Calls' /\ Asks' /\ Sent'
  <2>1. Files' /\ Calls'
    BY <1>1, <1>2, <1>3 DEF Files, Calls, Resting
  <2>2. /\ \A v \in Writers : /\ writer'[v].fds \subseteq writer[v].fds
                              /\ writer'[v].at \in {writer[v].at, 0}
                              /\ writer'[v].msg \subseteq writer[v].msg
    BY <1>3 DEF Resting
  <2>3. Asks'
    BY <1>1, <1>4, <2>2 DEF Asks
  <2>4. Sent'
    BY <1>1, <1>4, <2>2 DEF Sent
  <2> QED
    BY <2>1, <2>3, <2>4
<1>8. \A n : Live(n)' <=> Live(n)
  BY <1>1, <1>2, <1>3, <1>4 DEF Live, Resting
<1>9. Lone' /\ NotLost'
  BY <1>1, <1>8 DEF Lone, NotLost
<1>10. Heard'
  <2>1. SUFFICES ASSUME NEW v \in Writers, writer'[v].pc = "tee",
                        ~(writer'[v].msg \subseteq exposed')
                 PROVE  FALSE
    BY DEF Heard
  <2>2. v # w /\ writer'[v] = writer[v]
    BY <1>3, <2>1 DEF Resting
  <2> QED
    BY <1>1, <2>1, <2>2 DEF Heard, Undisturbed
<1> QED
  BY <1>5, <1>6, <1>7, <1>9, <1>10

\* A clean-up exposes what is on its way.
LEMMA SweepStep ==
    ASSUME IInv, Sweep
    PROVE  IInv'
<1> USE DEF IInv
<1>1. /\ sweeps < MaxSweeps /\ sweeps' = sweeps + 1
      /\ path' = [t \in Tabs |-> 0] /\ file' = [i \in {} |-> {}] /\ orphan' = {}
      /\ tab' = [t \in Tabs |-> IF tab[t].pc = "open"
                                THEN [tab[t] EXCEPT !.pc = "unlink", !.inode = 0] ELSE tab[t]]
      /\ writer' = [w \in Writers |-> IF writer[w].pc = "tee" THEN Resting ELSE writer[w]]
      /\ exposed' = exposed \cup LiveOnes
      /\ UNCHANGED <<sent, shown>>
  BY DEF Sweep
<1>2. /\ writer \in [Writers -> CallRecord] /\ tab \in [Tabs -> TabRecord]
      /\ Resting \in CallRecord
  BY Records DEF CallRecord, Resting
<1>3. ASSUME NEW t \in Tabs
      PROVE  /\ tab'[t].pc # "open" /\ tab'[t].held = tab[t].held
             /\ tab'[t].pc \in {"unlink", tab[t].pc}
             /\ tab'[t] \in TabRecord
  <2>1. tab[t] \in TabRecord
    BY <1>2
  <2>2. CASE tab[t].pc = "open"
    <3>1. tab'[t] = [tab[t] EXCEPT !.pc = "unlink", !.inode = 0]
      BY <1>1, <2>2
    <3> QED
      BY <2>1, <3>1 DEF TabRecord
  <2>3. CASE tab[t].pc # "open"
    BY <1>1, <2>1, <2>3
  <2> QED
    BY <2>2, <2>3
<1>4. ASSUME NEW w \in Writers
      PROVE  /\ writer'[w] = Resting \/ (writer[w].pc # "tee" /\ writer'[w] = writer[w])
             /\ writer'[w] \in CallRecord /\ writer'[w].pc # "tee"
  BY <1>1, <1>2 DEF Resting
<1>5. LiveOnes \subseteq sent /\ DOMAIN file' = {}
  BY <1>1 DEF LiveOnes
<1>6. TypeOK'
  <2>1. tab' \in [Tabs -> TabRecord] /\ writer' \in [Writers -> CallRecord]
    BY <1>1, <1>3, <1>4
  <2>2. sweeps' \in 0 .. MaxSweeps
    <3>1. sweeps \in 0 .. MaxSweeps /\ MaxSweeps \in Nat
      BY UiUpdatesAssumption DEF TypeOK
    <3>2. sweeps < MaxSweeps /\ sweeps' = sweeps + 1
      BY <1>1
    <3> QED
      BY ONLY <3>1, <3>2
  <2> QED
    BY <1>1, <1>5, <2>1, <2>2 DEF TypeOK, CallRecord, TabRecord
<1>7. Spread'
  BY <1>4, SpreadKept DEF Resting
<1>8. Files' /\ Calls' /\ Asks'
  BY <1>3, <1>4, <1>5 DEF Files, Calls, Asks, Resting
<1>9. Sent'
  BY <1>1, <1>3, <1>4, <1>5 DEF Sent, Resting
<1>10. \A n : Live(n)' => Live(n)
  BY <1>1, <1>3, <1>4, <1>5 DEF Live, Resting
<1>11. Lone'
  BY <1>1, <1>10 DEF Lone
<1>12. Heard'
  BY <1>4 DEF Heard
<1>13. NotLost'
  BY <1>1 DEF NotLost, LiveOnes
<1> QED
  BY <1>6, <1>7, <1>8, <1>9, <1>11, <1>12, <1>13

\* tee opens the next of its pipes or files and holds it, or waits for it.
Takes(w, s, k) ==
    /\ writer' \in [Writers -> CallRecord]
    /\ \A v \in Writers : v # w => writer'[v] = writer[v]
    /\ writer'[w].pc = "tee" /\ writer'[w].msg = writer[w].msg
    /\ writer'[w].todo = writer[w].todo \ {s}
    /\ \/ writer'[w].at = 0 /\ writer'[w].fds = writer[w].fds \cup {k}
       \/ writer'[w].at = k /\ writer'[w].fds = writer[w].fds

LEMMA TeeTakes ==
    ASSUME TypeOK, Spread, Files, Calls, Sent, Heard,
           NEW w \in Writers, writer[w].pc = "tee", writer[w].at = 0,
           NEW s \in Tabs \cap writer[w].todo,
           NEW k \in Inodes, Takes(w, s, k),
           path' \in [Tabs -> {0} \cup Inodes],
           \A t \in Tabs : path[t] # 0 => path'[t] = path[t],
           DOMAIN file' \subseteq DOMAIN file \cup {k},
           k \in DOMAIN file' => k \in {path'[t] : t \in Tabs},
           \A i \in DOMAIN file' : file'[i] = {} \/ (i \in DOMAIN file /\ file'[i] = file[i]),
           tab' \in [Tabs -> TabRecord],
           \A t \in Tabs : tab'[t].held = tab[t].held,
           UNCHANGED <<orphan, sent, shown, exposed, sweeps>>
    PROVE  /\ TypeOK' /\ Spread' /\ Files' /\ Calls' /\ Sent'
           /\ \A m : Live(m)' => Live(m)
           /\ \A m : Live(m) /\ m \notin exposed => Live(m)'
           /\ \A v \in Writers \ {w} : writer[v].pc = "tee" => writer[v].msg \subseteq exposed
<1>1. \A v \in Writers : writer'[v].msg = writer[v].msg
  BY DEF Takes
<1>2. TypeOK'
  <2>1. \A i \in DOMAIN file' : file'[i] \subseteq Messages
    BY DEF TypeOK
  <2>2. DOMAIN file' \subseteq Inodes
    BY DEF TypeOK
  <2> QED
    BY <2>1, <2>2 DEF TypeOK, TabRecord, CallRecord, Takes
<1>3. Spread'
  <2>1. writer'[w].fds \cup {writer'[w].at} \subseteq writer[w].fds \cup {writer[w].at, k}
    BY DEF Takes
  <2>2. \A v \in Writers \ {w} : writer'[v] = writer[v]
    BY DEF Takes
  <2>3. writer'[w].todo = writer[w].todo \ {s}
    BY DEF Takes
  <2> QED
    BY <2>1, <2>2, <2>3, SpreadExtends
<1>4. Files'
  <2>1. \A v \in Writers : writer[v].fds \subseteq writer'[v].fds
    BY DEF Takes
  <2>2. 0 \notin DOMAIN file
    BY Records DEF TypeOK
  <2>3. ASSUME NEW i \in DOMAIN file', i # k
        PROVE  i \in {path'[t] : t \in Tabs} \cup UNION {writer'[v].fds : v \in Writers}
    <3>1. i \in DOMAIN file /\ i # 0
      BY <2>2, <2>3
    <3> QED
      BY <2>1, <3>1 DEF Files
  <2> QED
    BY <2>3 DEF Files
<1>5. Calls'
  BY DEF Calls, Takes
<1>6. Sent'
  BY <1>1 DEF Sent
<1>7. \A m : Live(m)' => Live(m)
  BY <1>1 DEF Live
<1>8. \A m : Live(m) /\ m \notin exposed => Live(m)'
  BY <1>1 DEF Live, Sent
<1>9. \A v \in Writers \ {w} : writer[v].pc = "tee" => writer[v].msg \subseteq exposed
  BY DEF Heard, Undisturbed
<1> QED
  BY <1>2, <1>3, <1>4, <1>5, <1>6, <1>7, <1>8, <1>9

LEMMA TeeOpenStep ==
    ASSUME IInv, NEW w \in Writers, TeeOpen(w)
    PROVE  IInv'
<1> USE DEF IInv
<1>1. /\ writer \in [Writers -> CallRecord] /\ tab \in [Tabs -> TabRecord]
      /\ writer[w] \in CallRecord /\ 0 \notin Inodes
      /\ path \in [Tabs -> {0} \cup Inodes] /\ DOMAIN file \subseteq Inodes
  BY Records DEF TypeOK
<1>2. /\ writer[w].pc = "tee" /\ writer[w].at = 0
      /\ UNCHANGED <<orphan, sent, shown, exposed, sweeps>>
  BY DEF TeeOpen
<1>3. PICK s \in writer[w].todo :
          LET i == path[s]
              j == [writer[w] EXCEPT !.todo = @ \ {s}]
          IN  \/ /\ i = 0
                 /\ path' = [path EXCEPT ![s] = Fresh]
                 /\ file' = [k \in DOMAIN file \cup {Fresh} |-> IF k = Fresh THEN {} ELSE file[k]]
                 /\ writer' = [writer EXCEPT ![w] = [j EXCEPT !.fds = @ \cup {Fresh}]]
                 /\ UNCHANGED tab
              \/ /\ i \in DOMAIN file
                 /\ file' = [file EXCEPT ![i] = {}]
                 /\ writer' = [writer EXCEPT ![w] = [j EXCEPT !.fds = @ \cup {i}]]
                 /\ UNCHANGED <<path, tab>>
              \/ /\ i # 0 /\ i \notin DOMAIN file
                 /\ writer' = [writer EXCEPT ![w] =
                                  IF Readers(i) = {} THEN [j EXCEPT !.at = i]
                                  ELSE [j EXCEPT !.fds = @ \cup {i}]]
                 /\ tab' = [t \in Tabs |-> IF t \in Readers(i) THEN [tab[t] EXCEPT !.pc = "read"]
                                           ELSE tab[t]]
                 /\ UNCHANGED <<path, file>>
  BY DEF TeeOpen
<1> DEFINE i == path[s]
           j == [writer[w] EXCEPT !.todo = @ \ {s}]
<1>4. s \in Tabs \cap writer[w].todo
  BY <1>1 DEF CallRecord
<1>5. /\ j \in CallRecord /\ j.pc = "tee" /\ j.msg = writer[w].msg /\ j.at = 0
      /\ j.todo = writer[w].todo \ {s} /\ j.fds = writer[w].fds /\ j.tabs = writer[w].tabs
  BY <1>1, <1>2 DEF CallRecord
<1> HIDE DEF j
<1>6. ASSUME NEW k \in Inodes
      PROVE  /\ writer' = [writer EXCEPT ![w] = [j EXCEPT !.fds = @ \cup {k}]] =>
                    /\ Takes(w, s, k) /\ writer'[w].at = 0
                    /\ writer'[w].fds = writer[w].fds \cup {k}
             /\ writer' = [writer EXCEPT ![w] = [j EXCEPT !.at = k]] =>
                    /\ Takes(w, s, k) /\ writer'[w].at = k
                    /\ writer'[w].fds = writer[w].fds
  <2> DEFINE f == [j EXCEPT !.fds = @ \cup {k}]
             a == [j EXCEPT !.at = k]
  <2>1. /\ f \in CallRecord /\ f.pc = "tee" /\ f.msg = writer[w].msg /\ f.at = 0
        /\ f.todo = writer[w].todo \ {s} /\ f.fds = writer[w].fds \cup {k}
    BY <1>5 DEF CallRecord
  <2>2. /\ a \in CallRecord /\ a.pc = "tee" /\ a.msg = writer[w].msg /\ a.at = k
        /\ a.todo = writer[w].todo \ {s} /\ a.fds = writer[w].fds
    BY <1>5 DEF CallRecord
  <2> HIDE DEF f, a
  <2>3. writer' = [writer EXCEPT ![w] = f] =>
            /\ Takes(w, s, k) /\ writer'[w].at = 0 /\ writer'[w].fds = writer[w].fds \cup {k}
    BY <1>1, <2>1 DEF Takes
  <2>4. writer' = [writer EXCEPT ![w] = a] =>
            Takes(w, s, k) /\ writer'[w].at = k /\ writer'[w].fds = writer[w].fds
    BY <1>1, <2>2 DEF Takes
  <2> QED
    BY <2>3, <2>4 DEF f, a
<1>7. ASSUME \A m : Live(m)' => Live(m), \A m : Live(m) /\ m \notin exposed => Live(m)'
      PROVE  Lone' /\ NotLost'
  BY <1>2, <1>7 DEF Lone, NotLost
<1>8. ASSUME path[s] = 0 \/ path[s] \in DOMAIN file
      PROVE  writer[w].msg \subseteq exposed
  BY <1>2, <1>8 DEF Heard, Undisturbed
<1>9. ASSUME \A v \in Writers \ {w} : writer[v].pc = "tee" => writer[v].msg \subseteq exposed,
             writer[w].msg \subseteq exposed, NEW k \in Inodes, Takes(w, s, k)
      PROVE  Heard'
  BY <1>2, <1>9 DEF Heard, Takes
<1>10. CASE /\ i = 0
            /\ path' = [path EXCEPT ![s] = Fresh]
            /\ file' = [k \in DOMAIN file \cup {Fresh} |-> IF k = Fresh THEN {} ELSE file[k]]
            /\ writer' = [writer EXCEPT ![w] = [j EXCEPT !.fds = @ \cup {Fresh}]]
            /\ UNCHANGED tab
  <2>1. Fresh \in Inodes \ Used
    BY <1>4, <1>10, FreshIsNew
  <2> DEFINE k == Fresh
  <2> HIDE DEF k
  <2>2. /\ k \in Inodes /\ k \notin DOMAIN file
        /\ \A t \in Tabs : k # path[t]
    BY <2>1 DEF k, Used, Files
  <2>3. /\ path' = [path EXCEPT ![s] = k] /\ path'[s] = k
        /\ file' = [l \in DOMAIN file \cup {k} |-> IF l = k THEN {} ELSE file[l]]
        /\ tab' = tab
        /\ \A t \in Tabs : path[t] # 0 => t # s /\ path'[t] = path[t]
    BY <1>1, <1>4, <1>10 DEF k
  <2>4. Takes(w, s, k) /\ writer'[w].at = 0 /\ writer'[w].fds = writer[w].fds \cup {k}
    BY <1>6, <1>10, <2>2 DEF k
  <2>5. /\ TypeOK' /\ Spread' /\ Files' /\ Calls' /\ Sent'
        /\ \A m : Live(m)' => Live(m)
        /\ \A m : Live(m) /\ m \notin exposed => Live(m)'
        /\ \A v \in Writers \ {w} : writer[v].pc = "tee" => writer[v].msg \subseteq exposed
    <3>1. /\ path' \in [Tabs -> {0} \cup Inodes]
          /\ \A t \in Tabs : path[t] # 0 => path'[t] = path[t]
          /\ DOMAIN file' \subseteq DOMAIN file \cup {k}
          /\ k \in DOMAIN file' => k \in {path'[t] : t \in Tabs}
          /\ \A l \in DOMAIN file' : file'[l] = {} \/ (l \in DOMAIN file /\ file'[l] = file[l])
          /\ tab' \in [Tabs -> TabRecord]
          /\ \A t \in Tabs : tab'[t].held = tab[t].held
      BY <1>1, <1>4, <2>2, <2>3
    <3> QED
      BY <1>2, <1>4, <2>2, <2>4, <3>1, TeeTakes
  <2>6. Asks'
    <3>1. SUFFICES ASSUME NEW t \in Tabs, tab[t].pc = "open"
                   PROVE  /\ tab[t].inode = path'[t] /\ path'[t] # 0 /\ path'[t] \notin DOMAIN file'
                          /\ \A v \in Writers : path'[t] \notin writer'[v].fds /\ path'[t] # writer'[v].at
      BY <2>3 DEF Asks
    <3>2. /\ tab[t].inode = path[t] /\ path[t] # 0 /\ path[t] \notin DOMAIN file
          /\ \A v \in Writers : path[t] \notin writer[v].fds /\ path[t] # writer[v].at
      BY <3>1 DEF Asks
    <3>3. path'[t] = path[t] /\ path[t] # k
      BY <2>2, <2>3, <3>2
    <3> QED
      BY <2>3, <2>4, <3>2, <3>3 DEF Takes
  <2>7. Heard'
    BY <1>8, <1>9, <1>10, <2>2, <2>4, <2>5
  <2> QED
    BY <1>7, <2>5, <2>6, <2>7
<1>11. CASE /\ i \in DOMAIN file
            /\ file' = [file EXCEPT ![i] = {}]
            /\ writer' = [writer EXCEPT ![w] = [j EXCEPT !.fds = @ \cup {i}]]
            /\ UNCHANGED <<path, tab>>
  <2>1. i \in Inodes
    BY <1>1, <1>11
  <2>2. Takes(w, s, i) /\ writer'[w].at = 0 /\ writer'[w].fds = writer[w].fds \cup {i}
    BY <1>6, <1>11, <2>1
  <2>3. /\ TypeOK' /\ Spread' /\ Files' /\ Calls' /\ Sent'
        /\ \A m : Live(m)' => Live(m)
        /\ \A m : Live(m) /\ m \notin exposed => Live(m)'
        /\ \A v \in Writers \ {w} : writer[v].pc = "tee" => writer[v].msg \subseteq exposed
    <3>1. /\ DOMAIN file' = DOMAIN file
          /\ \A l \in DOMAIN file' : file'[l] = {} \/ (l \in DOMAIN file /\ file'[l] = file[l])
          /\ i \in {path'[t] : t \in Tabs}
      BY <1>4, <1>11
    <3> HIDE DEF i
    <3>2. path' = path /\ tab' = tab
      BY <1>11
    <3> QED
      BY <1>1, <1>2, <1>4, <2>1, <2>2, <3>1, <3>2, TeeTakes
  <2>4. Asks'
    <3>1. \A t \in Tabs : path[t] \notin DOMAIN file => path[t] # i
      BY <1>11
    <3> HIDE DEF i
    <3> QED
      BY <1>11, <2>2, <3>1 DEF Asks, Takes
  <2>5. Heard'
    BY <1>8, <1>9, <1>11, <2>1, <2>2, <2>3
  <2> QED
    BY <1>7, <2>3, <2>4, <2>5
<1>12. CASE /\ i # 0 /\ i \notin DOMAIN file
            /\ writer' = [writer EXCEPT ![w] = IF Readers(i) = {} THEN [j EXCEPT !.at = i]
                                               ELSE [j EXCEPT !.fds = @ \cup {i}]]
            /\ tab' = [t \in Tabs |-> IF t \in Readers(i) THEN [tab[t] EXCEPT !.pc = "read"]
                                      ELSE tab[t]]
            /\ UNCHANGED <<path, file>>
  <2>1. i \in Inodes
    BY <1>1, <1>4, <1>12
  <2>2. /\ Takes(w, s, i)
        /\ Readers(i) # {} => writer'[w].at = 0 /\ writer'[w].fds = writer[w].fds \cup {i}
    <3> HIDE DEF i
    <3>1. CASE Readers(i) = {}
      BY <1>6, <1>12, <2>1, <3>1
    <3>2. CASE Readers(i) # {}
      BY <1>6, <1>12, <2>1, <3>2
    <3> QED
      BY <3>1, <3>2
  <2>3. ASSUME NEW t \in Tabs
        PROVE  /\ tab'[t].held = tab[t].held /\ tab'[t].inode = tab[t].inode
               /\ tab'[t].hup = tab[t].hup /\ tab'[t] \in TabRecord
               /\ \/ t \in Readers(i) /\ tab'[t].pc = "read"
                  \/ t \notin Readers(i) /\ tab'[t].pc = tab[t].pc
    <3> HIDE DEF i
    <3>1. tab[t] \in TabRecord
      BY <1>1
    <3>2. CASE t \in Readers(i)
      <4>1. tab'[t] = [tab[t] EXCEPT !.pc = "read"]
        BY <1>12, <3>2
      <4> QED
        BY <3>1, <3>2, <4>1 DEF TabRecord
    <3>3. CASE t \notin Readers(i)
      BY <1>12, <3>1, <3>3
    <3> QED
      BY <3>2, <3>3
  <2>4. /\ TypeOK' /\ Spread' /\ Files' /\ Calls' /\ Sent'
        /\ \A m : Live(m)' => Live(m)
        /\ \A m : Live(m) /\ m \notin exposed => Live(m)'
        /\ \A v \in Writers \ {w} : writer[v].pc = "tee" => writer[v].msg \subseteq exposed
    <3>1. tab' \in [Tabs -> TabRecord]
      BY <1>12, <2>3
    <3>2. path' = path /\ file' = file /\ i \notin DOMAIN file
      BY <1>12
    <3> HIDE DEF i
    <3> QED
      BY <1>1, <1>2, <1>4, <2>1, <2>2, <2>3, <3>1, <3>2, TeeTakes
  <2>5. Asks'
    <3>1. SUFFICES ASSUME NEW t \in Tabs
                   PROVE  /\ tab'[t].pc \in {"ask", "check", "cat", "listen", "open"} =>
                                 tab'[t].held = {}
                          /\ tab'[t].pc = "open" =>
                                 /\ tab'[t].inode = path[t] /\ path[t] # 0
                                 /\ path[t] \notin DOMAIN file
                                 /\ \A v \in Writers : /\ path[t] \notin writer'[v].fds
                                                       /\ path[t] # writer'[v].at
      BY <1>12 DEF Asks
    <3>2. tab'[t].pc \in {"ask", "check", "cat", "listen", "open"} =>
              tab'[t].pc = tab[t].pc /\ t \notin Readers(i)
      BY <2>3
    <3>3. tab'[t].pc = "open" => path[t] # i
      BY <3>2 DEF Readers, Asks
    <3> HIDE DEF i
    <3> QED
      BY <2>2, <2>3, <3>2, <3>3 DEF Asks, Takes
  <2>6. Heard'
    <3>1. CASE writer[w].msg \subseteq exposed
      BY <1>9, <2>1, <2>2, <2>4, <3>1
    <3>2. CASE ~(writer[w].msg \subseteq exposed)
      <4>1. Undisturbed(w)
        BY <1>2, <3>2 DEF Heard
      <4>2. s \in Readers(i) /\ tab[s].inode = i
        BY <1>4, <4>1 DEF Undisturbed, Readers
      <4>3. /\ writer'[w].at = 0 /\ writer'[w].fds = writer[w].fds \cup {i}
            /\ writer'[w].todo = writer[w].todo \ {s}
        BY <2>2, <4>2 DEF Takes
      <4>4. \A t \in Tabs : ~tab'[t].hup
        BY <2>3, <4>1 DEF Undisturbed
      <4>5. \A v \in Writers \ {w} : writer'[v].pc = "idle"
        BY <2>2, <4>1 DEF Undisturbed, Takes
      <4>6. \A k \in writer'[w].fds :
                /\ k \notin DOMAIN file
                /\ \E t \in Tabs : tab'[t].pc = "read" /\ tab'[t].inode = k
        <5>1. /\ tab'[s].pc = "read" /\ tab'[s].inode = i /\ s \in Tabs
              /\ i \notin DOMAIN file
          BY <1>4, <1>12, <2>3, <4>2
        <5>2. \A t \in Tabs : tab[t].pc = "read" => tab'[t].pc = "read" /\ tab'[t].inode = tab[t].inode
          BY <2>3
        <5> HIDE DEF i
        <5> QED
          BY <4>1, <4>3, <5>1, <5>2 DEF Undisturbed
      <4>7. ASSUME NEW t \in writer'[w].todo
            PROVE  /\ path[t] # 0 /\ path[t] \notin DOMAIN file
                   /\ tab'[t].inode = path[t]
                   /\ \/ tab'[t].pc = "open"
                      \/ tab'[t].pc = "read" /\ path[t] \in writer'[w].fds
        <5>1. t \in writer[w].todo /\ t \in Tabs
          BY <1>1, <4>3 DEF CallRecord
        <5>2. /\ path[t] # 0 /\ path[t] \notin DOMAIN file
              /\ tab[t].inode = path[t]
              /\ tab[t].pc = "open" \/ (tab[t].pc = "read" /\ path[t] \in writer[w].fds)
          BY <4>1, <5>1 DEF Undisturbed
        <5>3. CASE t \in Readers(i)
          <6>1. path[t] = i
            BY <5>2, <5>3 DEF Readers
          <6> QED
            BY <2>3, <4>3, <5>1, <5>2, <5>3, <6>1
        <5>4. CASE t \notin Readers(i)
          BY <2>3, <4>3, <5>1, <5>2, <5>4
        <5> QED
          BY <5>3, <5>4
      <4>8. Undisturbed(w)'
        BY <1>12, <4>3, <4>4, <4>5, <4>6, <4>7 DEF Undisturbed
      <4>9. \A v \in Writers \ {w} : writer'[v].pc # "tee"
        BY <4>5
      <4> QED
        BY <4>8, <4>9 DEF Heard
    <3> QED
      BY <3>1, <3>2
  <2> QED
    BY <1>7, <2>4, <2>5, <2>6
<1> QED
  BY <1>3, <1>10, <1>11, <1>12 DEF j

\* tee gives its message away and closes an inode, or all of them.
Drops(w) ==
    /\ writer' \in [Writers -> CallRecord]
    /\ \A v \in Writers : v # w => writer'[v] = writer[v]
    /\ writer'[w].at = 0 /\ writer'[w].todo = {} /\ writer'[w].fds \subseteq writer[w].fds
    /\ \/ writer'[w] = Resting
       \/ writer'[w].pc = "tee" /\ writer'[w].msg = writer[w].msg

LEMMA TeeDrops ==
    ASSUME IInv, NEW w \in Writers, writer[w].pc = "tee", Drops(w),
           tab' \in [Tabs -> TabRecord],
           \A t \in Tabs : /\ tab'[t].pc = tab[t].pc /\ tab'[t].inode = tab[t].inode
                           /\ tab'[t].hup = tab[t].hup
                           /\ tab[t].held \subseteq tab'[t].held
                           /\ tab'[t].held \subseteq tab[t].held \cup writer[w].msg
                           /\ tab[t].pc # "read" => tab'[t].held = tab[t].held,
           DOMAIN file' = DOMAIN file \cap
               ({path[t] : t \in Tabs} \cup UNION {writer'[v].fds : v \in Writers}),
           \A i \in DOMAIN file' : file'[i] \subseteq file[i] \cup (writer[w].msg \cap exposed),
           \A n \in writer[w].msg \ exposed : \E t \in Tabs : n \in tab'[t].held,
           UNCHANGED <<path, orphan, sent, shown, exposed, sweeps>>
    PROVE  IInv'
<1> USE DEF IInv
<1>1. /\ writer \in [Writers -> CallRecord] /\ writer[w] \in CallRecord
      /\ writer[w].msg \subseteq Messages /\ writer[w].msg \subseteq sent
  BY Records DEF CallRecord, Sent
<1>2. \A v \in Writers : /\ writer'[v].fds \subseteq writer[v].fds
                         /\ writer'[v].at \in {writer[v].at, 0}
                         /\ writer'[v].todo \subseteq writer[v].todo
                         /\ writer'[v].msg \subseteq writer[v].msg
  BY DEF Drops, Resting
<1>3. TypeOK'
  <2>1. DOMAIN file' \subseteq Inodes /\ \A i \in DOMAIN file' : file'[i] \subseteq Messages
    BY <1>1 DEF TypeOK
  <2> QED
    BY <2>1 DEF TypeOK, TabRecord, CallRecord, Drops
<1>4. Spread'
  <2>1. \A v \in Writers :
            writer'[v].fds \cup {writer'[v].at} \subseteq writer[v].fds \cup {writer[v].at, 0}
    BY <1>2
  <2> QED
    BY <1>2, <2>1, SpreadKept
<1>5. Files'
  BY DEF Files
<1>6. Calls'
  BY DEF Calls, Drops, Resting
<1>7. Asks'
  BY <1>2 DEF Asks
<1>8. Sent'
  <2>1. \A i \in DOMAIN file' : i \in DOMAIN file /\ file'[i] \subseteq exposed
    BY DEF Sent
  <2> QED
    BY <1>1, <1>2, <2>1 DEF Sent
<1>9. \A n : Live(n)' => Live(n)
  BY <1>2 DEF Live
<1>10. \A n : Live(n) /\ n \notin exposed => Live(n)'
  <2>1. SUFFICES ASSUME NEW n, Live(n), n \notin exposed PROVE Live(n)'
    OBVIOUS
  <2>2. CASE \E v \in Writers : n \in writer[v].msg
    <3>1. PICK v \in Writers : n \in writer[v].msg
      BY <2>2
    <3>2. CASE v = w
      BY <2>1, <3>1, <3>2 DEF Live
    <3>3. CASE v # w
      BY <3>1, <3>3 DEF Live, Drops
    <3> QED
      BY <3>2, <3>3
  <2>3. CASE \E t \in Tabs : n \in tab[t].held
    BY <2>3 DEF Live
  <2>4. CASE n \in orphan
    BY <2>4 DEF Live
  <2> QED
    BY <2>1, <2>2, <2>3, <2>4 DEF Live, Sent
<1>11. Lone' /\ NotLost'
  BY <1>9, <1>10 DEF Lone, NotLost
<1>12. Heard'
  <2>1. SUFFICES ASSUME NEW v \in Writers, writer'[v].pc = "tee",
                        ~(writer'[v].msg \subseteq exposed)
                 PROVE  Undisturbed(v)'
    BY DEF Heard
  <2>2. writer[v].pc = "tee" /\ Undisturbed(v)
    BY <2>1 DEF Heard, Drops, Resting
  <2>3. v = w
    BY <2>2 DEF Undisturbed
  <2>4. \A x \in Writers \ {w} : writer'[x].pc = "idle"
    BY <2>2, <2>3 DEF Undisturbed, Drops
  <2>5. \A i \in writer'[w].fds : i \notin DOMAIN file' /\ \E t \in Tabs : tab'[t].pc = "read" /\ tab'[t].inode = i
    BY <2>2, <2>3 DEF Undisturbed, Drops
  <2>6. writer'[w].at = 0 /\ writer'[w].todo = {} /\ \A t \in Tabs : ~tab'[t].hup
    BY <2>2 DEF Undisturbed, Drops
  <2> QED
    BY <2>3, <2>4, <2>5, <2>6 DEF Undisturbed
<1> QED
  BY <1>3, <1>4, <1>5, <1>6, <1>7, <1>8, <1>11, <1>12

LEMMA TeeWriteStep ==
    ASSUME IInv, NEW w \in Writers, TeeWrite(w)
    PROVE  IInv'
<1> USE DEF IInv
<1>1. /\ writer \in [Writers -> CallRecord] /\ tab \in [Tabs -> TabRecord]
      /\ writer[w] \in CallRecord /\ writer[w].msg \subseteq Messages
  BY Records DEF CallRecord
<1>2. /\ writer[w].pc = "tee" /\ writer[w].at = 0 /\ writer[w].todo = {}
      /\ UNCHANGED <<path, orphan, sent, shown, exposed, sweeps>>
  BY DEF TeeWrite
<1> DEFINE m == writer[w].msg
           Done(i) == writer' = [writer EXCEPT ![w] =
                          IF writer[w].fds = {i} THEN Resting
                          ELSE [writer[w] EXCEPT !.fds = @ \ {i}]]
<1>3. PICK i \in writer[w].fds :
          \/ /\ i \in DOMAIN file
             /\ Done(i)
             /\ file' = Kept([file EXCEPT ![i] = @ \cup m], path, writer')
             /\ UNCHANGED tab
          \/ /\ i \notin DOMAIN file
             /\ \E t \in Readers(i) : tab' = [tab EXCEPT ![t].held = @ \cup m]
             /\ Done(i)
             /\ file' = Kept(file, path, writer')
          \/ /\ i \notin DOMAIN file /\ Readers(i) = {}
             /\ writer' = [writer EXCEPT ![w] = Resting]
             /\ file' = Kept(file, path, writer')
             /\ UNCHANGED tab
  BY DEF TeeWrite
<1>4. Resting \in CallRecord /\ Resting.at = 0 /\ Resting.todo = {} /\ Resting.fds = {}
  BY DEF Resting, CallRecord
<1>5. Done(i) \/ writer' = [writer EXCEPT ![w] = Resting] => Drops(w)
  <2> DEFINE r == [writer[w] EXCEPT !.fds = @ \ {i}]
  <2>1. /\ r \in CallRecord /\ r.at = 0 /\ r.todo = {} /\ r.fds \subseteq writer[w].fds
        /\ r.pc = "tee" /\ r.msg = writer[w].msg
    BY <1>1, <1>2 DEF CallRecord
  <2>2. Done(i) => /\ \A v \in Writers : v # w => writer'[v] = writer[v]
                   /\ writer'[w] = IF writer[w].fds = {i} THEN Resting ELSE r
                   /\ writer' = [v \in Writers |-> writer'[v]]
    BY <1>1
  <2>3. writer' = [writer EXCEPT ![w] = Resting] =>
            /\ \A v \in Writers : v # w => writer'[v] = writer[v]
            /\ writer'[w] = Resting
            /\ writer' = [v \in Writers |-> writer'[v]]
    BY <1>1
  <2> HIDE DEF r, Done
  <2>4. Done(i) => Drops(w)
    <3>1. SUFFICES ASSUME Done(i) PROVE Drops(w)
      OBVIOUS
    <3>2. CASE writer[w].fds = {i}
      BY <1>1, <1>4, <2>2, <3>1, <3>2 DEF Drops
    <3>3. CASE writer[w].fds # {i}
      BY <1>1, <2>1, <2>2, <3>1, <3>3 DEF Drops
    <3> QED
      BY <3>2, <3>3
  <2>5. writer' = [writer EXCEPT ![w] = Resting] => Drops(w)
    BY <1>1, <1>4, <2>3 DEF Drops
  <2> QED
    BY <2>4, <2>5
<1> HIDE DEF Done
<1>6. CASE /\ i \in DOMAIN file /\ Done(i)
           /\ file' = Kept([file EXCEPT ![i] = @ \cup m], path, writer')
           /\ UNCHANGED tab
  <2>1. m \subseteq exposed
    BY <1>2, <1>6 DEF Heard, Undisturbed
  <2>2. /\ DOMAIN file' = DOMAIN file \cap
               ({path[t] : t \in Tabs} \cup UNION {writer'[v].fds : v \in Writers})
        /\ \A k \in DOMAIN file' : file'[k] \subseteq file[k] \cup (m \cap exposed)
    <3> DEFINE g == [file EXCEPT ![i] = @ \cup m]
    <3>1. DOMAIN g = DOMAIN file /\ \A k \in DOMAIN g : g[k] \subseteq file[k] \cup m
      OBVIOUS
    <3> HIDE DEF g
    <3>2. file' = Kept(g, path, writer')
      BY <1>6 DEF g
    <3> QED
      BY <2>1, <3>1, <3>2 DEF Kept
  <2>3. tab' = tab /\ Drops(w)
    BY <1>5, <1>6
  <2> QED
    BY <1>1, <1>2, <2>1, <2>2, <2>3, TeeDrops
<1>7. CASE /\ i \notin DOMAIN file /\ Done(i)
           /\ \E t \in Readers(i) : tab' = [tab EXCEPT ![t].held = @ \cup m]
           /\ file' = Kept(file, path, writer')
  <2>1. PICK t \in Readers(i) : tab' = [tab EXCEPT ![t].held = @ \cup m]
    BY <1>7
  <2>2. t \in Tabs /\ tab[t].pc = "read"
    BY DEF Readers, Asks
  <2> DEFINE r == [tab[t] EXCEPT !.held = @ \cup m]
  <2>3. /\ r \in TabRecord /\ r.pc = tab[t].pc /\ r.inode = tab[t].inode /\ r.hup = tab[t].hup
        /\ r.held = tab[t].held \cup m
    BY <1>1, <2>2 DEF TabRecord
  <2> HIDE DEF r
  <2>4. tab' = [tab EXCEPT ![t] = r]
    BY <1>1, <2>1, <2>2 DEF r
  <2>5. /\ tab' \in [Tabs -> TabRecord] /\ tab'[t] = r
        /\ \A u \in Tabs : u # t => tab'[u] = tab[u]
    BY <1>1, <2>2, <2>3, <2>4
  <2>6. \A u \in Tabs : /\ tab'[u].pc = tab[u].pc /\ tab'[u].inode = tab[u].inode
                        /\ tab'[u].hup = tab[u].hup
                        /\ tab[u].held \subseteq tab'[u].held
                        /\ tab'[u].held \subseteq tab[u].held \cup writer[w].msg
                        /\ tab[u].pc # "read" => tab'[u].held = tab[u].held
    BY <2>2, <2>3, <2>5
  <2>7. \A n \in writer[w].msg \ exposed : \E u \in Tabs : n \in tab'[u].held
    BY <2>2, <2>3, <2>5
  <2>8. /\ DOMAIN file' = DOMAIN file \cap
               ({path[u] : u \in Tabs} \cup UNION {writer'[v].fds : v \in Writers})
        /\ \A k \in DOMAIN file' : file'[k] \subseteq file[k] \cup (writer[w].msg \cap exposed)
    BY <1>7 DEF Kept
  <2>9. Drops(w)
    BY <1>5, <1>7
  <2> QED
    BY <1>2, <2>5, <2>6, <2>7, <2>8, <2>9, TeeDrops
<1>8. CASE /\ i \notin DOMAIN file /\ Readers(i) = {}
           /\ writer' = [writer EXCEPT ![w] = Resting]
           /\ file' = Kept(file, path, writer')
           /\ UNCHANGED tab
  <2>1. m \subseteq exposed
    BY <1>2, <1>8 DEF Heard, Undisturbed, Readers
  <2>2. /\ DOMAIN file' = DOMAIN file \cap
               ({path[u] : u \in Tabs} \cup UNION {writer'[v].fds : v \in Writers})
        /\ \A k \in DOMAIN file' : file'[k] \subseteq file[k] \cup (writer[w].msg \cap exposed)
    BY <1>8 DEF Kept
  <2>3. tab' = tab /\ Drops(w)
    BY <1>5, <1>8
  <2> QED
    BY <1>1, <1>2, <2>1, <2>2, <2>3, TeeDrops
<1> QED
  BY <1>3, <1>6, <1>7, <1>8

-----------------------------------------------------------------------------
(* The theorems *)

LEMMA IInvStep == IInv /\ [Next]_vars => IInv'
<1> SUFFICES ASSUME IInv, [Next]_vars PROVE IInv'
  OBVIOUS
<1>1. ASSUME NEW w \in Writers, UpdateUI(w) PROVE IInv'
  BY <1>1, LookStep, TeeOpenStep, TeeWriteStep, AppendStep, HangUpStep DEF UpdateUI
<1>2. ASSUME NEW t \in Tabs, Serve(t) PROVE IInv'
  BY <1>2, AskStep, CatOrphanStep, RemoveOrphanStep, ListenStep, EndOfFileStep, UnlinkStep,
     ExitStep, HandleStep DEF Serve
<1>3. CASE Sweep
  BY <1>3, SweepStep
<1>4. CASE UNCHANGED vars
  <2>1. UNCHANGED <<path, file, orphan, tab, writer, sent, shown, exposed, sweeps>>
    BY <1>4 DEF vars
  <2>2. TypeOK' /\ Spread' /\ Files' /\ Calls'
    BY <2>1 DEF IInv, TypeOK, Spread, Files, Calls
  <2>3. Asks' /\ Sent'
    BY <2>1 DEF IInv, Asks, Sent
  <2>4. \A m : Live(m)' <=> Live(m)
    BY <2>1 DEF Live
  <2>5. Lone' /\ NotLost'
    BY <2>1, <2>4 DEF IInv, Lone, NotLost
  <2>6. \A w \in Writers : Undisturbed(w)' <=> Undisturbed(w)
    BY <2>1 DEF Undisturbed
  <2>7. Heard'
    BY <2>1, <2>6 DEF IInv, Heard
  <2> QED
    BY <2>2, <2>3, <2>5, <2>7 DEF IInv
<1> QED
  BY <1>1, <1>2, <1>3, <1>4 DEF Next

\* The state of the files, the tabs and the calls has its type; above all there is always an
\* inode for a new file or pipe, however many tabs and tees hold old ones.
THEOREM TypeCorrect == Spec => []TypeOK
<1>1. IInv => TypeOK
  BY DEF IInv
<1> QED
  BY <1>1, IInvInit, IInvStep, PTL DEF Spec

\* An update that meets no other, no clean-up and no equal serial is not lost: until a tab has
\* shown it, a call of updateUI, the orphan file or a process of a tab has it.
THEOREM NothingIsLost == Spec => []NotLost
<1>1. IInv => NotLost
  BY DEF IInv
<1> QED
  BY <1>1, IInvInit, IInvStep, PTL DEF Spec

=============================================================================

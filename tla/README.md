# A formal model of Stabile

Stabile is an engine for private clouds. Perl CGI programs on the engine keep a MySQL register of servers,
images, networks and nodes; a daemon on every node, `movepiston`, carries out what the register asks of it
through libvirt. This directory holds TLA+ modules of the parts in which many processes touch the same
state, TLC instances that check them, and TLAPS proofs of what holds for every instance.

## 1. The system

### Components, their state and operations

| component | code | state | operations | hard because |
|---|---|---|---|---|
| node task mailbox | `cgi/*.cgi`, `piston/piston.cgi`, `support/movepiston` | `nodes.tasks`; `/tmp/badstrokes` on the node | append a line; read, clear and send; execute; replay | unlocked read-modify-write, answers lost, crashes, replays |
| server lifecycle | `cgi/servers.cgi`, `piston/piston.cgi`, `support/movepiston` | `domains` (status, mac, timestamp, statustime), `images.status`, domains of each hypervisor, `/tmp/tombstones` | start, destroy, shutdown, suspend, resume, move, remove, save, list, updateregister; POST; virsh | the register learns of the hypervisors by delayed reports and judges them by age |
| nodes | `cgi/nodes.cgi`, `piston/piston.cgi` | `nodes` (status, maintenance, vms, vmvcpus, action) | maintenance, sleep, wake, carryon, reboot, halt, evacuate, unjoin, wipe, delete, reset | commands race reports and the placement of servers |
| images | `cgi/images.cgi`, `support/steamExec` | `images` (status, master, snap1, mac, storagepool), files | save, clone, master, snapshot, revert, backup, restore, move, convert, inject, remove | long jobs in daemons, a status shared with servers, no locks |
| networks | `cgi/networks.cgi` | `networks` (id, type, internalip, externalip, ports, status), dnsmasq files, iptables, interfaces | save, activate, deactivate, stop, remove | ids and addresses picked first and saved later; files rewritten by many |
| quotas, billing | `servers.cgi`, `images.cgi`, `networks.cgi`, `piston.cgi`, `users.cgi` | `billing_domains`, `billing_images`, `billing_networks` | overQuotas, updateBilling, updateImageBilling | check-then-act, concurrent sums |
| systems | `cgi/systems.cgi` | `systems`, `packages`, monitors | save, buildsystem, upgradesystem, removesystem, monitors | sequences of operations of others, any of which can fail |
| users | `cgi/users.cgi`, `auth/` | `users`, tickets | save, remove, link engine, enable, disable | mostly single writes |
| UI updates | `Stabile.pm` `updateUI`, `cgi/ui_update.cgi` | pipes and files in `/tmp` | push; block and read | orphan file read and then removed |
| dispatcher, jobs | `Stabile.pm` | Gearman queue | process, action, privileged_action(_async) | jobs act on objects read when they were queued |
| statistics, monitors, pressure control | `stats.cgi`, `pistonstats.cgi`, `support/pressurecontrol`, `stabile.alert` | RRD, Graphite | sample, alert | pure I/O |
| web client, installers, stacks, third-party code | `static/`, `support/bootstrapper`, `support/stabile-stacks` | - | - | not part of the engine's logic |

### How they interact

A web request runs in an Apache process. What needs root, as starting a server or activating a network, Apache
hands to Gearman and waits for; `support/pressurecontrol` forks one worker, so these requests are served one
after the other, while saves, lists and reports interleave with them. A handler reads the row of a server from the register
(Tie::DBI, a statement per column, MyISAM tables, hence no transactions), appends a line to the `tasks`
column of a node and sets a transitional status (`starting`, `destroying`, `moving`, ...) with `statustime`.
Every few seconds `movepiston` looks at the domains of its hypervisor and POSTs what it saw. `piston.cgi`
takes the tasks off the column, turns the report into statuses by a table of transitions and ages, and
answers with the tasks. `movepiston` executes these one after the other; the `virsh` commands they need run
in the background. A move is a RECEIVE for the target, which then asks `piston.cgi` by a GET to queue a
MOVE for the node of the register entry. Listing servers has side effects: what has not been heard of for
20 seconds becomes `inactive`.

So three processes write the register without locks, one of them from old observations, and the tasks go
the other way over a text column. This is the core of the engine, and what is modelled first.

### What makes each component correct

* mailbox: a task that was queued is carried out once, in order; what can lose or repeat one is known.
* servers: the image of a server is written by one hypervisor at a time; a server the register has as off is
  up nowhere; the register comes to know what runs; a server that is off can be started.
* nodes: a node that is put to sleep, halted or removed has no servers and no starts on their way;
  evacuation ends with an empty node.
* images: no two jobs, and no job and a server, write an image; after every job, also one that dies, the
  status is one from which the image can be used.
* networks: no two users share a VLAN, no two networks an address; an active network has its interface,
  its lease and its rules, an inactive one none of them.
* billing: what is billed is what was used; quotas hold under concurrent requests.
* UI updates: no message for a session that listens is lost.

`PROJECT.json` lists the hazards, each at its line, with the properties that cover it.

## 2. The plan

Modules in the order of importance; a star marks those that exist.

1. `NodeTasks`*, `NodeTasks_proofs`*: the mailbox, step by step. Composed by nothing: the other modules take
   the mailbox at its best, so that what they find is not due to it. `TaskSequences`*: lemmas about sequences.
2. `ServerLifecycle`*, `ServerLifecycle_proofs`*: register, reports, tasks and virsh. To come: local images,
   upgrading and `locktonode`.
3. `ServerPlacement`*: the abstract specification of servers on nodes, implemented by `ServerLifecycle` for
   servers that are not adrift; the refinement is proved in `ServerLifecycle_proofs`.
4. `Networks`*, `Networks_proofs`*: ids and addresses picked by concurrent saves, activation, servers. To come: the bulk actions and the
   restore after a reboot, ports, DNS.
5. `ImageLifecycle`*, `ImageLifecycle_proofs`*: the status of an image as a lock, with the jobs of the dispatcher
   and of steamExec. To come: clone, move, convert, master; backups on the storage of a node.
6. `NodeLifecycle`*, `NodeLifecycle_proofs`*: maintenance, sleep, wake, evacuation, capacity, with the placement of
   servers. To come: save, several nodes at once (stop, mountstorage).
7. `Billing`*, `Billing_proofs`*: the read-modify-write of billing records. To come: overQuotas of servers and images.
8. `UiUpdates`*, `UiUpdates_proofs`*, then systems and users as far as they do more than call the others.

The theorems there are state every safety property that the passing runs check (sections 3 to 9). What is worth proving next
comes with the extensions above.

## 3. NodeTasks

The mailbox of one node, at the granularity of single register accesses. A line is the request that wrote it.

| module | code |
|---|---|
| `column` | `nodes.tasks`; `open`: the text does not end in a newline, because of the `chop` at `piston.cgi:321` |
| `ReadColumn`, `WriteTask` | `$tasks = ...; $tasks .= "START ...\n"; ... = $tasks` (servers.cgi, nodes.cgi) |
| `CopyColumn`, `ReadColumn`, `WriteMove` | the same for MOVE, `piston.cgi:312-324`, which also copies what the column has |
| `PostRead`, `PostClear`, `Reply`, `ReplyUnread` | the POST, `piston.cgi:268-275` and `753-791`; `Commands` is the loop with the `split` of the wrong variable |
| `TakeLine`, `Perform`, `Nap` | the loop of `updatePistonInfo`, with `badstrokes` written while lines remain (597) |
| `GiveUpWaiting`, `Crash`, `Restart` | an answer that does not arrive, a daemon or host that dies, the replay (309-316) |

A move request reads the column twice because `.=` on a tied column is a read and a write. Writes by
`returntasks` are left out: `movepiston` never fills it (1093 is a comment).

The history variable `disturbed` collects the requests to which something irregular happened, each named by the step
it happens in: an access between a read and a write (`Trampled`), a line swallowed by an open one
(`Swallowed`), lines sent as something else (`Mistaken`), copies, unread answers, crashes. The properties
are about all others, and the mutants show that they are not vacuous. `current` holds the readers whose
copy is up to date; it is what `Trampled` looks at.

| run | instance | result |
|---|---|---|
| `tasks` | a server command, a node command, a move; two faults; fair | `NothingLost`, `NothingRepeated`, `InOrder`, `Delivery` hold; 110,362 states |
| `tasks_sent` | as found | `SentAsWritten` is violated: the `split` at `piston.cgi:760` |

One request of each kind is needed for every way to write and to send a line, and lets each overtake the others. One fault is enough
for each irregularity by itself, two for one after another; the proofs cover any number. By hand: two server commands with a node command and a
move, so that two equals may overtake each other, and one fault (3,088,323 states) gave no counterexample to the safety properties. Fairness: Apache runs a request it has taken to its end (`WF` of `Valve`), `movepiston` loops while
it is up (`WF` of `Piston`). No one is bound to send requests or to start a dead daemon
(`movepiston.service` has no `Restart=`), and `Delivery` does not ask for it.

### What is proved

`NodeTasks_proofs` proves, for any sets of requests and any number of faults, from `RequestsAssumption` only:

* `TypeCorrect`: `Spec => []TypeOK`.
* `NothingIsLost`: `Spec => []NothingLost`.
* `NothingIsRepeated`: `Spec => []NothingRepeated`.
* `OrderIsRight`: `Spec => []InOrder`.

The first two safety properties are not inductive. The invariant `IInv` adds: where the lines of a regular request
can be (the column, `taken`, `doing`, `todo`, `performed`), that they are in one of these places only and
there once; that a reader in `current` has a copy equal to the column; that `badstrokes` is the rest of the
batch or old, in which case a restart disturbs what it repeats. Each action is one step of the proof of
`IInv /\ [Next]_vars => IInv'`.

For `InOrder` the invariant `Order` adds that every sequence of lines has the regular ones in the order in which they
were written (`Sorted`), and that what is carried out, at hand, in the answer, owed and on the column is ahead of one another in
this order (`Ahead`). `TaskSequences` has the lemmas on what appending, taking the first and joining does to
both, so that no induction is needed: sortedness is said of pairs of places. `InOrder` follows with `NothingLost`: what was
written before a line that was carried out can be neither behind it nor lost. `Delivery` is liveness and checked by TLC only.

## 4. ServerLifecycle

Servers between register and hypervisors, with a request as one step and everything else in pieces.

| module | code |
|---|---|
| `reg[s]` | row of `domains`: `status`, `mac`, `seen` = age of `timestamp`, `held` = age of `statustime` |
| `img[s]` | status of the image |
| `nodereg[n]` | status and age of the node |
| `tasks`, `batch`, `bad` | column, lines being executed, badstrokes |
| `report`, `mortuary` | what `dominfo` saw; `%mortuary` with its copy in `/tmp/tombstones` |
| `receiving` | `@receiveuuids` |
| `jobs`, `dom` | virsh commands in the background, domains of the hypervisor |
| `Start` ... `Remove` | the handlers of servers.cgi with `getObj`, `locateTargetNode` (`Targets`) and the quirks of `$mac` |
| `SaveRead`, `SaveWrite` | `Save`: the status is read at 2206, the row is validated and written at 2483 |
| `List`, `UpdateRegister`, `UpdateNodes` | `validateItem`, the two `updateRegister` |
| `Post` | a POST: `Kept` is the table 414-427, `Registered` the row, `Cleaned` the clean-up, `ImageOf` the image |
| `Look`, `Do...`, `AskForMove`, `Nap` | `movepiston`: `dominfo`, one branch per task, the GET of a receiver |
| `Virsh`, `BeginMigration`, `EndMigration`, `GuestOff` | libvirt and the guests (external) |
| `Crash`, `PowerLoss`, `Restart`, `VirshFails` | faults |
| `Tick` | ten seconds; every `movepiston` that is up has POSTed in them |

Abstractions. A request and a POST are one step each: what interleaved accesses do is studied in `NodeTasks`. Save,
which does not go through Gearman, is a step that reads and one that writes; that a POST is served between the check and the
write of another request is not modelled. Images are on shared storage, servers are not
locked to a node, a running node has room; the policies `pack` and `disperse` are a choice of any running node.
`Move` with mac `--` equals naming any other node. PERMITOPEN and MOUNT tasks do not touch servers.
Statuses of sleeping nodes and of maintenance belong to `NodeLifecycle`. The partial row that a late report
re-inserts for a removed server is left out. The open last line after a MOVE is in `NodeTasks` only.
Time is counted in ticks; the thresholds of the code (20 s, 30 s, 120 s, 300 s) are constants in this order, and
ages are counted up to the largest.

### Adrift

`adrift` is the history of what makes register and hypervisors part, each noted by the step it is in. TLC found each by a
counterexample to `SingleHost` or `OffIsOff`, and these are the ways in which the engine loses track of a server:

1. an inactive server is started on another node than its own (`Start`; section 10, `servers.cgi:1789`);
2. listing takes a moving server for inactive (`List`);
3. a POST declares a server off, or its move over, while a START, RECEIVE or MOVE for it is on its way (`GivenUp`);
4. the stale report of a sender is served after the receiver's and registers the server on the node that let it go (`Misplaced`);
5. the daemon looks, or turns to the next task, while a virsh command is still running (`Look`, `NextTask`);
6. DESTROY or SHUTDOWN of a domain that is not there leaves a tombstone (`NextTask`);
7. `badstrokes` is executed again (`Restart`);
8. a server migrates away from a node that still has it in its mortuary, its guest having ignored the shutdown (`EndMigration`);
9. a Save writes a status it read before: it declares off a server that was started meanwhile, brings back or ends a
   move, brings back a removed server, without its node, or calls a server running whose START or other task is still queued
   (`Undone`). Other stale statuses do no harm that a report does not repair.
   The last case was found by the proof, not by a run: it takes four requests. A server is started; a save reads `running`; a
   list finds it not heard of, and it is started again; the save writes `running` over `starting`; a move is thus accepted, which copies the START
   to the column behind the MOVE, and the sender starts what it has just let go.

For servers to which none of these happened the properties hold. The mutants show that they still see
plausible bugs: a start without a look at the status, a destroy that marks the server off at once, a
list that says off for inactive, a clean-up that does not look at the report.

| run | instance (1 server, 2 nodes) | result |
|---|---|---|
| `server_safety` | all eleven operations, an administrator, 3 requests, no faults, symmetric nodes | `SingleHost`, `OffIsOff`, `Implements` hold; 951,231 states |
| `server_faults` | start, destroy, move, list; 3 requests, 1 fault | all three hold; 1.6 million states |
| `server_live` | start, destroy, shutdown, suspend, resume, list; 3 requests; fair | `Discovered`, `Startable` hold; 307,002 states |

### The abstract specification

`ServerPlacement` knows of a server only the node it is up on and whether it is off, on or moving. `Implements`
maps to it: `host` is the node whose hypervisor has the domain, `state` is read off the status in the register
(`shutoff` is off, `moving` is moving, all others are on), `lost` are the servers adrift. A request is an
`Order`, a `BeginMove` or nothing, a virsh command that takes effect is a `Boot` or a `Stop`, the end of a live
migration a `Migrate`, a report or a clean-up a `Settle` or an `EndMove`; everything else is a stutter. What the
refinement adds to the invariants is the steps: a server changes nodes, and comes up, only
while the register has it in a status that allows for it. The mutants are a `move` that does not mark the
server and a list that takes servers not heard of for off ones.

Bounds. No state of one server depends on another but through the lists of tasks, so one server is enough
for the safety of each. Two nodes are a sender and a receiver. Three requests start a server and let two
others cross; larger instances were tried by hand: all operations with a fault (7.4 million states), four requests
(5.0 million states), saves with a fault (2.5 million), and four different thresholds (10 million states) gave no counterexample. The
thresholds of the runs are 1, 1, 2, 2 ticks: every age comparison can come out either way.

Fairness: `movepiston` loops while it is up, virsh commands end, time passes. Guests need not power off
(ACPI may be ignored), nobody has to send requests, a daemon that is down may stay down. `Startable`
holds without faults only: after a crash the clean-up can leave the image of a server that is off `active`
(hazard at `piston.cgi:656`).

### What is proved

`ServerLifecycle_proofs` proves for any sets of servers and nodes, any thresholds and any number of requests and faults,
from `LifecycleAssumption` only:

* `TypeCorrect`: `Spec => []TypeOK`.
* `OneHost`: `Spec => []SingleHost`; `OffIsDown`: `Spec => []OffIsOff`.
* `PlacementKept`: `Spec => Implements`, the refinement.

The invariant `IInv` says of every server that is not adrift where everything stands that is on its way for it (`Good`):

| part | what it says, and why it is needed |
|---|---|
| `Still` | only a node that works has tasks at hand: a node that looks sees what they did |
| `Placed` | what starts or ends a server is queued for the node of its entry, which is in transition: a report that declares it off gives up all of them |
| `Course` | all RECEIVE, MOVE and migrations name one destination, and there is none unless the server moves |
| `Single` | two nodes have the server only while one sends it to the other |
| `Starts` | a START at hand is for the node of the entry and comes before any move |
| `Clear` | a node that reports is not creating the server: otherwise the report were out of date |
| `Ending` | a node told to end a server it no longer has is not about to get it back |
| `Graves`, `Reported` | a node that has buried a server, or says it is off, is its node, and nobody else has it: the clean-up may believe it |

`IInv` was checked by TLC on the runs' instances and with four requests of start, move, save and list (2.3 million states) before it was proved.
A step that queues nothing for a server, lets nothing come up and leaves its entry where it is (`Calm`) keeps all parts at once; what is
left are the steps that do something for the server, one lemma each. The refinement goes through the same steps: `IInv` gives
what the abstract action needs, for instance that the host a server is on when a report settles it is none.

`Discovered` and `Startable` are liveness and checked by TLC only.

## 5. Networks

The networks register, and what it is made into in the kernel of the engine.

| module | code |
|---|---|
| `reg[n]` | row of `networks`: user, id, type, internal and external address, status; `sys`, `dom`: it is linked to a system, a server |
| `attached` | `networkuuid1` of servers; a server has one network and is known by it |
| `vlan`, `alias`, `dnat`, `proxied` | interfaces of the data nic and of the external nic, rules of the nat table (the internal addresses an external one leads to), routes |
| `leases`, `dnsmasq` | `dhcp-hosts-<id>` and the DHCP server that reads it |
| `SaveNew`, `SaveOld`, `Allocate`, `Write` | Save with `getObj`: the look at the register, the pick, the write |
| `NextId`, `NextExternal`, `NextInternal`, `OverQuota` | `getNextId`, `getNextExternalIP`, `getNextInternalIP`, `overQuotas` |
| `List`, `Validate`, `Settle` | `validateStatus`, which writes `down` first and what it found afterwards |
| `Activate`, `Configure`, `Deactivate`, `Stop`, `StopOne`, `TakeDown` | the handlers, their effect on the kernel in `Configure`, `Unconfigure`, `Release` |
| `Remove`, `RemoveSystem`, `Discard` | Remove by a web request, and by the worker for the networks of a system |
| `Attach`, `Detach` | `servers.cgi` where a server is given a network or loses it |
| `Move`, `MoveId`, `MoveUser`, `Readdress`, `MoveInt` | `servers.cgi:2631-2638`, a network that moves with its server: the VLAN is picked, it is written, the owner is written, an address is picked, it is written |

Who may do what. Requests are processes of Apache. `activate`, `deactivate`, `stop` and the removal of a system
are `Privileged`: the worker does them one at a time (the field `root`). Apache has no rights on
interfaces, iptables and `/etc/stabile`, so Remove of a web request takes the row away and nothing else, and the
Deactivate that a move of a server calls changes no kernel state.

`during` is the history of a save or a move: the networks that others wrote between its pick and its write. The action
properties about addresses use it to say which of them overlapped. A move is five steps, and any request may come between them. `strays` is the history of external addresses whose
network was changed, moved or removed while the kernel had something for them, and of failed aliases. A network counts as changed when
the row that is written or configured differs from the one there is in id, type or address (`Differ`).

| run | instance | result |
|---|---|---|
| `networks_safety` | two users, two networks, two processes; all ten requests; one fault; three VLANs, two external addresses, quota 1; symmetric. Three requests from an empty register, or two after `Started` | `RoutedUnlessLeft`, `VlansApart`, `ExternalsApart`, `InternalsApart`, `QuotaKept` hold; 963,529 states |

* `VlansApart`, `ExternalsApart`, `InternalsApart`: a VLAN comes to be shared by users, an address by networks,
  only by a save or a move under which a network was written that has it, be it the same network, and the property names which. A network that
  has got the VLAN of its new account and not yet the owner counts as no one's (`InTransit`); a reboot just then (`Cut`) leaves it
  where it is, with the old owner on the new one's VLAN. Id 1 is no VLAN: when none is left, `getNextId` yields it, `getObj` refuses it for
  a new network, and a network that is moved keeps it. For internal addresses there are other ways: a server is moved to the account with the address it has
  (`Giving`; a new one follows two steps later), a move that another one has overtaken, or a network that was a gateway or another user's
  and keeps the address it had (`Converting`; an address that is asked for and taken is replaced by the registered one, section 10).
* `QuotaKept`: the same of the quota of external addresses.
* `RoutedUnlessLeft`: an external address of an IP mapping leads to the internal address of this network, and to no other, as long as an interface
  has it, unless the address is in `strays` or was given twice. What is behind it: `Configure` sets rules only if the alias is not there
  yet (1455), so whoever takes the alias away must take the rules away, and conversely.

Bounds. Two networks of one user or of two are what can collide; the third VLAN is the one the
search never yields (`n<$vlanend`). Three requests are two saves that race and one more, or save,
activate and change. Two moves that meet would take six, a save and an attachment each; `Started` is the state that such requests lead to: two
networks, each attached to a server, of one user or of two, with the VLANs used up that the search yields. Requests are counted and a process
that has nothing to do stops, hence `CHECK_DEADLOCK FALSE`. In the run a save may ask for host 2; 2 and 20 matter because addresses are looked
for as text (`Finds`). By hand: saves, attachments and moves only, six of them from an empty register, with an id to be asked for and a fault (1,382,532
states) gave no counterexample to `VlansApart` and `InternalsApart`. No liveness is claimed: nothing in this part retries.

### What is proved

`Networks_proofs` proves, for any users, networks and processes, ranges of VLANs and addresses, quota, and number of requests
and faults, from `NetworksAssumption` only: `TypeCorrect` (`TypeOK`), `AddressesLead` (`RoutedUnlessLeft`), `UsersApart` (`VlansApart`),
`AddressesApart` (`ExternalsApart`), `ServersApart` (`InternalsApart`) and `QuotasKept` (`QuotaKept`). They rest on `Invariant`, `Spec => []IInv`, with

* `TypeOK`: among others, that `getNextId` and the searches for addresses return what a network may have, also when
  the ranges are used up;
* `Fits`: a network of type `externalip` has an external address, in the register and in whatever a process is about to write or
  configure. `Activate` does not look;
* `Forwarded`: for an address not in `strays` the kernel's rules come from the register (`Leads`): what is forwarded and each
  alias has a network that asks for it, and is forwarded for it unless networks that share the address took the rules away;
* `Picks`: what a pick promised, a free id, a free address, a quota not used up, still holds when it is written, but for the
  networks in `during`: `Picked` of a save, `Chosen` of a move.

The action properties are then about single steps. A set of what is shared can only grow by a step that writes a network (`Touched`), and
what `Picks` promises of it leaves the networks in `during` to share it with. Users can also come to share a VLAN by a network that is no longer in transit: that is
its new owner's step, or a reboot (`TransitKept`). The proofs changed the properties: they are stronger
than what was checked first (no exception for a save whose own network was overtaken, but for internal addresses), and `InternalsApart`
lists ways that the runs' first bounds did not reach.

## 6. NodeLifecycle

Nodes that are commanded, report, sleep and wake while servers are placed on them.

| module | code |
|---|---|
| `row[n]` | `nodes`: `status`, `maintenance`, `vms` (a server has one processor, so `vmvcpus` is the same) |
| `tasks[n]` | `nodes.tasks`; a START is the server it is for |
| `asked[n]` | requests to `nodes.cgi` that have read the status of the node: how many have read which |
| `serving[n]` | what `piston.cgi` is doing for the node and the status it is going to write, made of a row read before |
| `phase`, `doing`, `look`, `batch`, `drowsy` | `movepiston`: where it is, the command begun, the report, the lines left, idle rounds |
| `jobs`, `dom` | `virsh create` in the background, domains |
| `GetObj`; `Answers`, `Request`, `PutBack` | `getObj`, with which every request for a node begins: the status is read; it is written back (71), and the handler goes by it. `PutBack` are requests that are refused or do something else |
| `Maintenance` ... `Delete`, `List` | handlers of `nodes.cgi`; `Command` with `Accepts` are the seven that queue a line |
| `Fits`, `Available`, `Named`, `Place`, `Start` | `locateTargetNode`, and the START that `servers.cgi` queues |
| `NodeStatus`, `ServePost`, `WritePost`, `AnswerPost` | a POST in `piston.cgi`: tasks and row are read; the status is written (350); when the domains have been gone through `vms` (617), and the tasks are sent |
| `ServeDrowse`, `AnswerDrowse` | a GET with status drowsing: a managed node is powered off if the register has it running or in maintenance (288), any other goes down by itself |
| `Nap`, `Terminate`, `GoDown` | `drowse` (1232-1289), the last POST of a movepiston that is stopped (1822-1836), power off or reboot |

Abstractions. A web request reads in one step and does everything else, from the writing back on, in a second one. Left out are memory (it is counted as
processors are) and what happens inside a node while it boots. A write to a row that was deleted makes it anew. A server is started once; START finds a node that
fits, by the policy or by name. A node is late for `list` when it is off, booting or joining. `wipe` touches
local disks only. A GET takes no tasks. Texts in the column are taken at their best, but for the `split` of
`piston.cgi:760`, which makes a command queued behind another line a line that means nothing (`Sent`).

History. `crossed` are servers that a power-off could not know of: placed and not yet reported when it was asked for, or placed
while it was going on, or hit by a command that means to (halt, delete, reset of a node in trouble, power loss).
`uncounted` are those a report did not have when it replaced the count. `withheld`, `evacuated` are nodes put into
maintenance, `raced` nodes carried on or deleted while a report of them, or another request that had read maintenance, was going to write it.

| property | says |
|---|---|
| `IdlePowerOff` | a power-off meant for an idle node ends no server but those in `crossed` |
| `NotOvercommitted` | no more servers on a node than fit, but for those in `uncounted` |
| `MaintenanceMeant` | a node in maintenance was put there, or is in `raced` |
| `Delivered` | a server that was placed on a node is created there, or is in `crossed`; so a sleeping node is woken |

| run | instance: one node that the engine powers off and on (AMT, IPMI), capacity 1 | result |
|---|---|---|
| `nodes` | two servers, two requests or power losses; symmetric servers | `IdlePowerOff`, `NotOvercommitted`, `MaintenanceMeant` hold; 1,349,993 states |
| `nodes_live` | one server, two requests or power losses; fair | `Delivered` holds; 160,575 states |

Bounds. Nodes share nothing but the servers, each of which is placed on one; two servers are the least that exceed a
capacity; two requests let a command undo or cross another. In the beginning a node may be in maintenance or not, so that
two requests, one that reads the status and one that carries on before it is written back, bring maintenance back without any report. By hand: three requests with one
server and no node in maintenance at first (`MaintenanceMeant`, 1,362,752 states) gave no counterexample.
Fairness: Apache ends a request (`Valve`), movepiston
loops and nodes boot (`Piston`), `virsh create` ends. No administrator has to command, list or press a button.

### What is proved

`NodeLifecycle_proofs` proves `TypeOK`, `MaintenanceMeant`, `NotOvercommitted` and `IdlePowerOff` of `Spec` for any
finite set of servers, any nodes, capacity, and number of events, from `NodeLifecycleAssumption`. The invariants:

* `MaintenanceMeant` needs that the flag `maintenance` is set only for nodes that are withheld, and that a status
  `maintenance` which a request of `piston.cgi` or `nodes.cgi` has read comes from a row that had it, or the node was taken out of it since (`Meant`).
* `NotOvercommitted` needs the count: the servers on a node that are not in `uncounted` are at most `vms` (`Counted`),
  which is at most the capacity.
* `IdlePowerOff` needs where a server can be (`Places`: in the column, in the answer, in the batch, in `jobs`, in `dom` of the
  node it was placed on, in one of them) and that whatever is going to go down has only servers in `crossed` (`Safe`).
  The proof goes through every way in which a command travels from the column to the power switch.

`Delivered` is liveness and checked by TLC only.

## 7. ImageLifecycle

The status of an image is all that keeps its server and the jobs on it apart. One image with its one server.

| module | code |
|---|---|
| `status`, `snap1`, `server` | `images.status`, `images.snap1`, `domains.status` |
| `posting`, `updating` | what a POST has yet to write of the image; the status `updateregister` has read |
| `queue`, `worker` | Gearman and its one worker; `seen`, `Found`: `getObj` believes an administrator's request, which has the status of when it was queued, and reads the row otherwise (`images.cgi:341`) |
| `daemons` | `steamExec` of a backup or restore, with the status to set afterwards |
| `snap`, `vm` | the file, the domain |
| `Inspect`, `Mark`, `Run`, `Done` | Snapshot, Unsnap, Revert: checks with the list of snapshots; status and `snap1`; qemu-img; status. qemu-img may refuse an image in use, or fail, and nobody looks at its result (4279, 4298, 4344, 4356) |
| `Backup`, `Restore`, `Finish` | the same for jobs that are left to `steamExec` |
| `PostUp`, `PostDead`, `PostNone` | `piston.cgi` on a server that runs, has ended (or is not yet believed to have, 417), is not heard of: the status of the server |
| `PostLook`, `PostImage` | then the image: it is looked at, and unless it is being backed up written (509) |
| `ListServers`, `UpdateServers` | `validateItem`, `updateRegister` of `servers.cgi` |
| `UpdateRead`, `UpdateLook`, `UpdateWrite` | `updateRegister` of `images.cgi`: every status is read (548), that of a server asked if it is active (614-653), and every one written (655) |

Left out: clones, moves, conversions, masters, resizing, LVM, removal; paused servers. `updateRegister` of `servers.cgi` is
one step: it does not read the image it writes.

History. A job is in `early` if it began with the image `used`, in the register and to the job, and the server up or on its way; in `dated` if it began
with another status than the image had, as an administrator's may; in `crossed` if somebody else set the status under it, or it began under another one's; in `refused` if qemu-img
would not list or write the image. `failed`: the worker died, or qemu-img could not write a snapshot. `stuck`: a job died, a backup or restore found
the status of another job and sets it again when it ends, or `updateregister` wrote the status of a job that had ended.

| property | says |
|---|---|
| `Alone` | a server is up on an image that is written or backed up only if the job is in `early`, `dated` or `crossed` |
| `SnapshotKnown` | between jobs the register has a snapshot just if the file has one, unless `failed`, or qemu-img refused a job that is in one of these three |
| `Released` | a status of a job is given back, unless `stuck` |

Each of these exemptions is a way the code has, and each is at odds with what the code says (section 10). TLC found them as shortest behaviours:

* `early`: a start is served and a snapshot begins before the node has reported the server; the image is still `used`.
* `dated`: an administrator asks for a start and a snapshot; the server is reported up, its image is `active`, and the snapshot believes the status
  it was asked for with.
* `crossed`: under a backup `updateregister` of the servers sets the image to `used`, and a start is let in.
* `stuck`: a snapshot ends between the reading and the writing of `updateregister` of the images: `snapshotting` is written back when nobody is left to
  reset it, and again every time.

`SnapshotKnown` does not speak of images on a node: there a snapshot that is refused has removed the old one (section 10).

Run `images` checks all of them: an administrator or not, storage of a node or not, with a snapshot at first or without, two requests and one fault; fair; 276,317
states. Two requests are a start and a job, or two jobs that meet; a third is needed for a start between two jobs. By hand: three requests without a fault, all four
properties (4,297,307 states), and two requests and a fault with the server off, on its way or up at first, safety only (10,072,556 states), gave no counterexample.
Fairness: the worker goes on and a daemon that lives ends; nobody needs to list, and nodes need not report.

### What is proved

`ImageLifecycle_proofs` proves `TypeOK`, `Alone` and `SnapshotKnown` of `Spec` for any number of requests and faults. The invariant adds
that requests and jobs have different numbers (`Distinct`); that a daemon not in `crossed` holds the status as its own (`Held`), so that no start is let in under it;
that while the server is up or on its way every job at work is in `early`, `dated` or `crossed` (`Met`), so that qemu-img only refuses those (`Refusals`); and which step of which
job the two flags of the snapshot are at, as long as none was refused (`Recorded`). `Released` is liveness.

## 8. Billing

What a row of a month bills: the average of an amount, kept with the time it was last seen and a marker up to which the average is
settled. One user, one node, one storage pool, one month; memory, real size and backup size are computed as processors and
virtual size are. Averages are fractions; the columns round them.

| module | code |
|---|---|
| `Posted` | a POST of a node: `billing_domains`, `piston.cgi:706-746` |
| `Reported` | `updateImageBilling`, `piston.cgi:979-1028` |
| `Updated` | `updateBilling`, `images.cgi:1494-1559` |
| `Begun` | a row that is the first of the month: before the `Window` (4 hours) it stands for the month from its beginning |
| `Begin`, `Read`, `Write` | a process takes the time, reads amount and row, writes; in the first second of a month it divides by zero and dies |

History. `used` is the amount times the time. `slack` is how far the row may be wrong because of the times in which something
changed between two updates, or an update was slow: the amount in between is not known. `mixed`: two updates
overlapped, in which case one may be lost, or the row may go back in time and average over a negative time.

* `BilledAsUsed` (run `billing`): up to `slack`, images are billed as they were used, through changes, through both ways to move the marker
  (to the present in `images.cgi`, to the time of the row in `piston.cgi`) and through a month that begins; and so are servers that do not change.
* `UsageBilled` (run `billing_servers`, violated): the same of servers that change.

Bounds: four ticks, two changes, three updates, two processes: a change between two updates, an update after it, and two that overlap. By hand: five
ticks (7.5 million states), and amounts to 2 with five updates by one process (5.9 million states) gave no counterexample. No liveness: nothing has to be updated.

### What is proved

`Billing_proofs` proves `TypeCorrect` (`TypeOK`) and `ImagesBilled` (`BilledAsUsed`) of `Spec` for any processes, length of the month, window, amounts,
changes and updates, from `BillingAssumption`. `TypeOK` says that averages have positive denominators: where a second of the month has not passed, the process dies
before it divides.

That a row is right is not inductive: the next average is computed from the marker, not from the average. The invariant says of a row (`Good`), and of what a process is about to write (`MadeGood`),
that three estimates are within the slack: the average at the row's time (`Near`), the marker's average carried on with the amount since, at the row's time and,
if the row has all changes, at present (`Est`). An estimate can be moved to another time for the price of what may have been used between (`EstShift`,
`NearShift`), which is what `slack` is made of, and a new average is as right as the estimate it is made of (`AverageFacts`). `Spanned` has
what is remembered of the usage in order: more time, more usage, by the largest amount at most. The reduction of fractions by their largest common divisor changes no value
(`FractionFacts`). The invariant was checked by TLC first (2,621,807 states).

## 9. UiUpdates

How a change reaches the browsers of a user.

| module | code |
|---|---|
| `path`, `file`, `orphan` | `/tmp/<account>~<session>.tasks`, a pipe or, if `tee` had to make it, a file; `/tmp/<account>.tasks` |
| `writer[w]`: `Look`, `TeeOpen`, `TeeWrite`, `Append`, `HangUp` | `updateUI`: pipes with listeners, `tee`, or the orphan file and a signal |
| `tab[t]`: `Check` ... `Exit`, `Handle` | `ui_update.cgi` and the browser, `subscribe` and `publish` |
| `Sweep` | `pressurecontrol` removes pipes and files, kills those that wait |

Files are inodes since a pipe may be unlinked while some have it open; an inode is free again when the last link and the last open
descriptor are gone (`Kept`), and a new file gets one that is free (`Fresh`). Looking through `/tmp` and the process table is one step. Left out: the set-up
of a session, login and logout, updates for all administrators. `tee` without a reader blocks its caller.

`exposed` is the history of updates that met another one on its way, a clean-up, an equal serial (one in ten thousand), or a process hung up
while it held them. `NotLost`: all others are somewhere until they are shown. `Told`: they are shown. Run `ui` has two tabs, two updates and a clean-up, so that an
update may meet each of these: 276,232 states. By hand: three calls and three updates to one tab (129,848 states). Fairness: browsers ask again
(`subscribe` always sets itself up again), Apache and the shell run on.

### What is proved

`UiUpdates_proofs` proves `TypeCorrect` (`TypeOK`) and `NothingIsLost` (`NotLost`) of `Spec` for any finite sets of tabs and calls and any messages, from
`UiUpdatesAssumption`. Type correctness needs that there is a free inode whenever `tee` makes a file: they are counted
(`FreshIsNew`), each tab holding two and each `tee` one for each of its pipes (`Spread`). `NotLost` needs, beyond who may hold what (`Files`, `Calls`, `Asks`, `Sent`), that an update not
in `exposed` is the only one on its way (`Lone`), and what its `tee` relies on meanwhile (`Undisturbed`): nobody else is at work, the tabs
it has to open are still at their pipes, and the pipes it has open are read. `Told` is liveness.

## 10. Findings, and what else was seen

Each violation run checks one property, quoted from a comment, a help text or a label; its counterexample is a shortest behaviour of the code
that contradicts it. `PROJECT.json` has the lines of the two there are: `tasks_sent` (section 3) and `billing_servers` (section 8).

Seen while modelling and modelled as the code is, without a run of its own:

* `movepiston:597`: `badstrokes` keeps naming the last line of a batch after it was executed; a daemon that dies later executes it again.
* `servers.cgi:1789`: `locateTargetNode` drops the node that Start has chosen for an inactive server (1056 "allow server to start on same node"), unless
  the user is an administrator; the server is placed on any node while it may still run on its own.
* `servers.cgi:168`: a move without a node is handed the node the server is on, and finds no target; 941-943 says it "moves to other node with highest
  availability". An evacuation moves its servers in this way.
* `servers.cgi:2032`: remove accepts an inactive server; 2015 says "Server must be shutoff."
* `servers.cgi:1704`: a server whose create failed stays `starting` until it is destroyed.
* `servers.cgi:1744`: `updateregister` wants 50 seconds for starts, but its last branch makes the server inactive before.
* `servers.cgi:1711` (`imag2`), 2756, 1069 (`net3` is network 2), 1757 (`'inactive '` with a blank): misspelt, and without effect on one image and one network.
* `networks.cgi:2267`: an internal address that is asked for and taken is replaced by the one registered, which may be another network's.
* `networks.cgi:1461`: an alias that cannot be added, with the rules set nevertheless.
* `networks.cgi:2484-2507`: billing by the formula of the finding.
* `nodes.cgi:469`: evacuation sets the status but not the flag, so a report that is being served brings the node back to running;
  208 and 327 say that a node in maintenance is "not available for starting new servers".
* `nodes.cgi:408`: delete asks for a `$status` that is never set, so that any node can be deleted.
* `images.cgi:4281`: on the storage of a node, the snapshot there is is removed before a second one is refused.
* `images.cgi:4292`: the time of a snapshot is registered before qemu-img is called, and its result is not looked at (4344, 4350 likewise): refused or failed, register and image differ.
* `nodes.cgi:71`: `getObj` writes back the status it read, on every request for a node; a carry on or a command in between is undone.
* `servers.cgi:2632`: a network that moves has the new owner's VLAN before it has the new owner; a reboot in between leaves it so.
* `images.cgi:4266`: a snapshot looks at the status of the image only, which a start leaves `used` until the node reports the server (4327 and 4388 likewise);
  4258, 4318 and 4380 say "Image can not be in use by a running server."
* `images.cgi:341`: `getObj` believes the status that came with an administrator's request, which is that of when it was queued.
* `servers.cgi:1735`: `updateregister` frees the image of a server that is off whatever its status, also under a backup, and the server can be started; `images.cgi:4845` says
  "suspend before backing up".
* `images.cgi:655`: `updateregister` writes every status it has read, also that of a job which has ended meanwhile; 590-591 say "When operation is done, status is updated
  by piston.cgi" and "Do nothing".
* `images.cgi:4413`: revert applies `$path1`, another image, where the other branch has the path.
* `images.cgi:4862`: two backups, or a backup during a restore, leave the status of the first when the second has ended.
* `Stabile.pm:773`: the signal also hits processes that hold a response, which is lost; 769 says to "append to orphan tasks file wait a sec", and the sleep is
  commented out.

## 11. What is only model-checked

All liveness (`Delivery`, `Discovered`, `Startable`, `Told`, `Delivered`, `Released`), on the bounds of the runs: the prover does not reach it, and no theorem is about
ENABLED. The violated properties, `SentAsWritten` and `UsageBilled`, are refuted by TLC. Every invariant, the action properties of `Networks` and the refinement
`Implements` are proved.

## 12. Not modelled

* Systems: loops of operations of servers, images and networks, any of which may fail; only the networks of a removed system are in `Networks`.
* Users, accounts, tickets: single writes and calls to a registry outside the repository.
* Statistics, monitors: samples and alerts, on which no decision of the engine depends.
* The web client but for `ui_update.js`, installers, stacks, third-party code. Most of the lines of the repository are these; libraries such as dojo,
  Guacamole and elFinder are vendored.
* Of the components modelled in part: see the notes in `PROJECT.json`.

## 13. Running

    tlc -workers 2 -config NodeTasks.cfg MCNodeTasks
    tlc -workers 2 -config ServerSafety.cfg MCServerLifecycle
    tlc -workers 2 -config NetworksSafety.cfg MCNetworks
    tlc -workers 2 -config NodesAll.cfg MCNodeLifecycle
    tlc -workers 2 -config NodesLive.cfg MCNodeLifecycle
    tlc -workers 2 -config Images.cfg MCImageLifecycle
    tlc -workers 2 -config Billing.cfg MCBilling
    tlc -workers 2 -config UiUpdates.cfg MCUiUpdates
    tlapm NodeTasks_proofs.tla

and so on for `ServerLifecycle_proofs`, `Networks_proofs`, `NodeLifecycle_proofs`, `ImageLifecycle_proofs`, `UiUpdates_proofs`, `Billing_proofs` and `TaskSequences`.

Every run takes between a second and a few minutes, every proof module a few minutes.

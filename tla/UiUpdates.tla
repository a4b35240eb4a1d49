-------------------------------- MODULE UiUpdates --------------------------------
(***************************************************************************)
(* UiUpdates: how a request on the engine tells the browsers of a user     *)
(* what has changed.                                                       *)
(*                                                                         *)
(* A tab of a browser keeps asking ui_update.cgi for news.  The process    *)
(* that serves it blocks on a named pipe of its session.  updateUI looks   *)
(* which pipes have a listener and lets tee write the update to them; if   *)
(* there are none it appends to the orphan file of the user and hangs up   *)
(* all ui_update processes, so that the browsers ask again and are given   *)
(* the file.  Nothing is locked: files are looked for, read and removed in *)
(* separate steps.                                                         *)
(*                                                                         *)
(* One user.  Files are inodes, because a pipe may be unlinked while some  *)
(* have it open.  Looking through /tmp and the process table is one step,  *)
(* as is making a pipe and opening it.  Left out: how a session gets its   *)
(* name, login and logout, updates for all administrators.                 *)
(***************************************************************************)
EXTENDS Integers, FiniteSets, FiniteSetsExt

CONSTANTS
    Tabs,       \* tabs of browsers, each with its session
    Writers,    \* processes that call updateUI
    Messages,   \* updates, each sent once
    MaxSweeps   \* bound on the clean-ups of pressurecontrol

ASSUME UiUpdatesAssumption ==
    /\ IsFiniteSet(Tabs) /\ IsFiniteSet(Writers)
    /\ MaxSweeps \in Nat

VARIABLES
    path,       \* /tmp/<account>~<session>.tasks: the inode, 0 if there is none
    file,       \* inodes of regular files: what they hold
    orphan,     \* /tmp/<account>.tasks, which is there if it holds something
    tab,        \* each tab with the process that serves it
    writer,     \* each call of updateUI
    sent,       \* messages that updateUI was called with
    shown,      \* messages that some tab has published
    exposed,    \* history: messages that met another one, a clean-up or an equal serial
    sweeps      \* clean-ups so far

vars == <<path, file, orphan, tab, writer, sent, shown, exposed, sweeps>>

Inodes == 1 .. Cardinality(Tabs) * (2 + Cardinality(Writers))

\* The tab that is about to ask, and the call that has ended.
Asking  == [pc |-> "ask", inode |-> 0, held |-> {}, hup |-> FALSE]
Resting == [pc |-> "idle", msg |-> {}, tabs |-> {}, todo |-> {}, at |-> 0, fds |-> {}]

Init ==
    /\ path = [t \in Tabs |-> 0]
    /\ file = [i \in {} |-> {}]
    /\ orphan = {}
    /\ tab = [t \in Tabs |-> Asking]
    /\ writer = [w \in Writers |-> Resting]
    /\ sent = {}
    /\ shown = {}
    /\ exposed = {}
    /\ sweeps = 0

-----------------------------------------------------------------------------
(* Files *)

Used  == {path[t] : t \in Tabs} \cup {tab[t].inode : t \in Tabs}
            \cup UNION {writer[w].fds \cup {writer[w].at} : w \in Writers}
Fresh == Min(Inodes \ Used)

\* The files that are still linked or open keep what they hold.
Kept(f, p, ws) ==
    [i \in DOMAIN f \cap ({p[t] : t \in Tabs} \cup UNION {ws[w].fds : w \in Writers}) |-> f[i]]

Unlinked(t) ==
    /\ path' = [path EXCEPT ![t] = 0]
    /\ file' = Kept(file, path', writer)

\* Processes that have a pipe open, or wait for it to be opened at the other end.
Readers(i)  == {t \in Tabs : tab[t].pc \in {"open", "read"} /\ tab[t].inode = i}
OpenFor(i)  == {w \in Writers : i \in writer[w].fds}
WaitFor(i)  == {w \in Writers : writer[w].at = i}

\* Where a message is that has not been shown or lost.
Live(m) ==
    \/ \E w \in Writers : m \in writer[w].msg
    \/ \E t \in Tabs : m \in tab[t].held
    \/ m \in orphan
    \/ \E i \in DOMAIN file : m \in file[i]

LiveOnes == {m \in sent : Live(m)}

-----------------------------------------------------------------------------
(* updateUI *)

\* A pipe has a listener if a command that names it is in the process table: a shell that
\* waits to open it for cat, or a tee.
Listened(t) ==
    \/ tab[t].pc = "open"
    \/ \E w \in Writers : t \in writer[w].tabs

\* No other update is on its way, nor a signal.
Quiet(w) ==
    /\ LiveOnes = {}
    /\ \A v \in Writers \ {w} : writer[v].pc = "idle"
    /\ \A t \in Tabs : ~tab[t].hup

Look(w) ==
    /\ writer[w].pc = "idle"
    /\ LET tabs == {t \in Tabs : path[t] # 0 /\ Listened(t)}
       IN  \E m \in Messages \ sent :
               /\ sent' = sent \cup {m}
               /\ writer' = [writer EXCEPT ![w] =
                     [@ EXCEPT !.pc = IF tabs = {} THEN "append" ELSE "tee",
                               !.msg = {m}, !.tabs = tabs, !.todo = tabs]]
               /\ exposed' = IF Quiet(w) THEN exposed ELSE exposed \cup LiveOnes \cup {m}
    /\ UNCHANGED <<path, file, orphan, tab, shown, sweeps>>

\* tee opens one after the other: a pipe without a reader blocks it, a file that is not
\* there is made, one that is there is emptied.
TeeOpen(w) ==
    /\ writer[w].pc = "tee"
    /\ writer[w].at = 0
    /\ \E s \in writer[w].todo :
           LET i == path[s]
               j == [writer[w] EXCEPT !.todo = @ \ {s}]
           IN  \/ /\ i = 0
                  /\ path' = [path EXCEPT ![s] = Fresh]
                  /\ file' = [k \in DOMAIN file \cup {Fresh} |-> IF k = Fresh THEN {} ELSE file[k]]
                  /\ writer' = [writer EXCEPT ![w] = [j EXCEPT !.fds = @ \cup {Fresh}]]
                  /\ UNCHANGED tab
               \/ /\ i \in DOMAIN file
                  /\ file' = [file EXCEPT ![i] = {}]
                  /\ writer' = [writer EXCEPT ![w] = [j EXCEPT !.fds = @ \cup {i}]]
                  /\ UNCHANGED <<path, tab>>
               \/ /\ i # 0 /\ i \notin DOMAIN file
                  /\ writer' = [writer EXCEPT ![w] =
                                   IF Readers(i) = {} THEN [j EXCEPT !.at = i]
                                   ELSE [j EXCEPT !.fds = @ \cup {i}]]
                  /\ tab' = [t \in Tabs |-> IF t \in Readers(i) THEN [tab[t] EXCEPT !.pc = "read"]
                                            ELSE tab[t]]
                  /\ UNCHANGED <<path, file>>
    /\ UNCHANGED <<orphan, sent, shown, exposed, sweeps>>

\* When all are open it writes to one after the other, and dies of a pipe that nobody reads.
\* A file that was unlinked in the meantime goes when the last tee closes it.
TeeWrite(w) ==
    /\ writer[w].pc = "tee"
    /\ writer[w].at = 0
    /\ writer[w].todo = {}
    /\ LET m == writer[w].msg
           Done(i) == writer' = [writer EXCEPT ![w] =
                          IF writer[w].fds = {i} THEN Resting
                          ELSE [writer[w] EXCEPT !.fds = @ \ {i}]]
       IN  \E i \in writer[w].fds :
               \/ /\ i \in DOMAIN file
                  /\ Done(i)
                  /\ file' = Kept([file EXCEPT ![i] = @ \cup m], path, writer')
                  /\ UNCHANGED tab
               \/ /\ i \notin DOMAIN file
                  /\ \E t \in Readers(i) : tab' = [tab EXCEPT ![t].held = @ \cup m]
                  /\ Done(i)
                  /\ file' = Kept(file, path, writer')
               \/ /\ i \notin DOMAIN file /\ Readers(i) = {}
                  /\ writer' = [writer EXCEPT ![w] = Resting]
                  /\ file' = Kept(file, path, writer')
                  /\ UNCHANGED tab
    /\ UNCHANGED <<path, orphan, sent, shown, exposed, sweeps>>

\* Mutants: it waits a second before it hangs up; it does not hang up.
AppendSleep(w) ==
    /\ writer[w].pc = "append"
    /\ orphan' = orphan \cup writer[w].msg
    /\ writer' = [writer EXCEPT ![w] = [Resting EXCEPT !.pc = "sleep"]]
    /\ UNCHANGED <<path, file, tab, sent, shown, exposed, sweeps>>

HangUpNot(w) ==
    /\ writer[w].pc = "hangup"
    /\ writer' = [writer EXCEPT ![w] = Resting]
    /\ UNCHANGED <<path, file, orphan, tab, sent, shown, exposed, sweeps>>

Append(w) ==
    /\ writer[w].pc = "append"
    /\ orphan' = orphan \cup writer[w].msg
    /\ writer' = [writer EXCEPT ![w] = [Resting EXCEPT !.pc = "hangup"]]
    /\ UNCHANGED <<path, file, tab, sent, shown, exposed, sweeps>>

HangUp(w) ==
    /\ writer[w].pc = "hangup"
    /\ writer' = [writer EXCEPT ![w] = Resting]
    /\ tab' = [t \in Tabs |-> [tab[t] EXCEPT !.hup = tab[t].pc # "ask"]]
    /\ UNCHANGED <<path, file, orphan, sent, shown, exposed, sweeps>>

UpdateUI(w) == Look(w) \/ TeeOpen(w) \/ TeeWrite(w) \/ Append(w) \/ HangUp(w)

-----------------------------------------------------------------------------
(* ui_update.cgi and the browser *)

At(t, pc)  == tab[t].pc = pc /\ ~tab[t].hup
Goto(t, j) == tab' = [tab EXCEPT ![t] = j]

\* subscribe, at once or after a while.
Subscribe(t) ==
    /\ At(t, "ask")
    /\ Goto(t, [tab[t] EXCEPT !.pc = "check"])
    /\ UNCHANGED <<path, file, orphan, writer, sent, shown, exposed, sweeps>>

Check(t) ==
    /\ At(t, "check")
    /\ Goto(t, [tab[t] EXCEPT !.pc = IF orphan # {} THEN "cat" ELSE "listen"])
    /\ UNCHANGED <<path, file, orphan, writer, sent, shown, exposed, sweeps>>

CatOrphan(t) ==
    /\ At(t, "cat")
    /\ Goto(t, [tab[t] EXCEPT !.pc = "rm", !.held = orphan])
    /\ UNCHANGED <<path, file, orphan, writer, sent, shown, exposed, sweeps>>

RemoveOrphan(t) ==
    /\ At(t, "rm")
    /\ orphan' = {}
    /\ exposed' = exposed \cup (orphan \ tab[t].held)
    /\ Goto(t, [tab[t] EXCEPT !.pc = "unlink"])
    /\ UNCHANGED <<path, file, writer, sent, shown, sweeps>>

\* A pipe is made unless there is one, or a file, which is read at once.
Listen(t) ==
    /\ At(t, "listen")
    /\ LET i == IF path[t] = 0 THEN Fresh ELSE path[t]
       IN  /\ path' = [path EXCEPT ![t] = i]
           /\ \/ /\ i \in DOMAIN file
                 /\ Goto(t, [tab[t] EXCEPT !.pc = "unlink", !.held = file[i]])
                 /\ UNCHANGED writer
              \/ /\ i \notin DOMAIN file
                 /\ Goto(t, [tab[t] EXCEPT !.inode = i,
                             !.pc = IF WaitFor(i) \cup OpenFor(i) = {} THEN "open" ELSE "read"])
                 /\ writer' = [w \in Writers |->
                                  IF w \in WaitFor(i)
                                  THEN [writer[w] EXCEPT !.at = 0, !.fds = @ \cup {i}]
                                  ELSE writer[w]]
    /\ UNCHANGED <<file, orphan, sent, shown, exposed, sweeps>>

EndOfFile(t) ==
    /\ At(t, "read")
    /\ OpenFor(tab[t].inode) = {}
    /\ Goto(t, [tab[t] EXCEPT !.pc = "unlink", !.inode = 0])
    /\ UNCHANGED <<path, file, orphan, writer, sent, shown, exposed, sweeps>>

Unlink(t) ==
    /\ At(t, "unlink")
    /\ Unlinked(t)
    /\ Goto(t, [tab[t] EXCEPT !.pc = "exit"])
    /\ UNCHANGED <<orphan, writer, sent, shown, exposed, sweeps>>

\* The response is sent when the process ends.  Its serial is one of ten
\* thousand random numbers, and the browser drops a response with the serial of the one before.
Exit(t) ==
    /\ At(t, "exit")
    /\ \/ shown' = shown \cup tab[t].held /\ UNCHANGED exposed
       \/ exposed' = exposed \cup tab[t].held /\ UNCHANGED shown
    /\ Goto(t, Asking)
    /\ UNCHANGED <<path, file, orphan, writer, sent, sweeps>>

\* Mutant of Handle: all files of the user are removed.
HandleAll(t) ==
    /\ tab[t].hup
    /\ Unlinked(t)
    /\ orphan' = {}
    /\ Goto(t, Asking)
    /\ exposed' = exposed \cup tab[t].held
    /\ UNCHANGED <<writer, sent, shown, sweeps>>

\* handle_signal: the browser is told of the signal and nothing else.
Handle(t) ==
    /\ tab[t].hup
    /\ Unlinked(t)
    /\ Goto(t, Asking)
    /\ exposed' = exposed \cup tab[t].held
    /\ UNCHANGED <<orphan, writer, sent, shown, sweeps>>

Serve(t) ==
    \/ Subscribe(t) \/ Check(t) \/ CatOrphan(t) \/ RemoveOrphan(t) \/ Listen(t)
    \/ EndOfFile(t) \/ Unlink(t) \/ Exit(t) \/ Handle(t)

-----------------------------------------------------------------------------

\* pressurecontrol: files and pipes are removed, shells that wait and tees are killed.
Sweep ==
    /\ sweeps < MaxSweeps
    /\ sweeps' = sweeps + 1
    /\ path' = [t \in Tabs |-> 0]
    /\ file' = [i \in {} |-> {}]
    /\ orphan' = {}
    /\ tab' = [t \in Tabs |-> IF tab[t].pc = "open"
                              THEN [tab[t] EXCEPT !.pc = "unlink", !.inode = 0] ELSE tab[t]]
    /\ writer' = [w \in Writers |-> IF writer[w].pc = "tee" THEN Resting ELSE writer[w]]
    /\ exposed' = exposed \cup LiveOnes
    /\ UNCHANGED <<sent, shown>>

Next ==
    \/ \E w \in Writers : UpdateUI(w)
    \/ \E t \in Tabs : Serve(t)
    \/ Sweep

\* Browsers ask again, Apache runs what it has begun; nobody has to send anything.
Fairness ==
    /\ \A w \in Writers : WF_vars(TeeOpen(w) \/ TeeWrite(w) \/ Append(w) \/ HangUp(w))
    /\ \A t \in Tabs : WF_vars(Serve(t))

Spec == Init /\ [][Next]_vars /\ Fairness

-----------------------------------------------------------------------------
(* Properties *)

TypeOK ==
    /\ path \in [Tabs -> {0} \cup Inodes]
    /\ DOMAIN file \subseteq Inodes /\ \A i \in DOMAIN file : file[i] \subseteq Messages
    /\ orphan \subseteq Messages
    /\ tab \in [Tabs -> [pc : {"ask", "check", "cat", "rm", "listen", "open", "read", "unlink",
                               "exit"},
                         inode : {0} \cup Inodes, held : SUBSET Messages, hup : BOOLEAN]]
    /\ writer \in [Writers -> [pc : {"idle", "tee", "append", "hangup"}, msg : SUBSET Messages,
                               tabs : SUBSET Tabs, todo : SUBSET Tabs,
                               at : {0} \cup Inodes, fds : SUBSET Inodes]]
    /\ sent \subseteq Messages /\ shown \subseteq sent /\ exposed \subseteq sent
    /\ sweeps \in 0 .. MaxSweeps

\* An update that meets no other, no clean-up and no equal serial is not lost.
NotLost == \A m \in sent \ (shown \cup exposed) : Live(m)

\* It is shown by some tab in the end.
Told == \A m \in Messages : m \in sent ~> m \in shown \cup exposed

=============================================================================

----------------------------- MODULE PtyTerminals -----------------------------
(***************************************************************************)
(* Terminals and their processes: the pty thread (zellij-server/src/pty.rs) *)
(* spawns a command for a pane, runs it again, and closes it; the table of  *)
(* terminal ids (os_input_output.rs) names the master end of each pty; the  *)
(* listener of a terminal (terminal_bytes.rs) carries bytes to the screen;  *)
(* the process's waiter tells the screen when it has ended; the pty writer  *)
(* (pty_writer.rs) sets sizes.  The screen and the tab (screen.rs,          *)
(* tab/mod.rs) are here as far as they create, hold, close and size         *)
(* terminal panes, and the client as far as its input thread waits.         *)
(*                                                                          *)
(* One tab, which starts with a layout.  `of' is the request a terminal,    *)
(* a process or a pane is for: the code does not have it, it has ids, and   *)
(* ids are reused.  A size is the area, the number of tiles and the place:  *)
(* all of them are sized anew when one of the three changes.                *)
(***************************************************************************)
EXTENDS Integers, FiniteSets, SequencesExt

CONSTANTS
    Layout,        \* the commands of the new tab's layout
    Commands,      \* the commands the user asks for
    Splits,        \* whether the user splits a pane (TRUE) or opens one
    MaxRequests,   \* bound: requests of the user, new sizes included
    MaxKeys,       \* bound: keys pressed on held panes
    SplitRoom,     \* the number of tiles that leave no room to split one
    FdsReused,     \* a file descriptor that was closed is handed out again at
                   \* once (else other files have taken the number)
    Behind,        \* bound: events of the screen whose resizes are under way
    MaxResumes,    \* bound: unblocking messages under way at a time
    Early,         \* the user acts before the layout is there
    Quick,         \* a process may end before the screen has heard of its pane
    Prompt         \* a process that is hung up ends, and is done with, before
                   \* the next is spawned; the end of a pty is read
                   \* before the end of its process is told

ASSUME BoundsAssumption  == {MaxRequests, MaxKeys, Behind, MaxResumes, SplitRoom} \subseteq Nat
ASSUME FlagsAssumption   == Splits \subseteq BOOLEAN /\ {FdsReused, Early, Quick, Prompt} \subseteq BOOLEAN

(* "shell": the pane closes when it ends; "command": hold_on_close;         *)
(* "suspended": hold_on_start too; "missing" and "typo": the command does   *)
(* not exist, with and without hold_on_close.                               *)
AllCommands == {"shell", "command", "suspended", "missing", "typo"}

ASSUME CommandsAssumption == Layout \in Seq(AllCommands) /\ Commands \subseteq AllCommands

HoldsOnClose(cmd) == cmd \in {"command", "suspended", "missing"}
Exists(cmd)       == cmd \notin {"missing", "typo"}

NoFd == -1

VARIABLES
    table,     \* terminal_id_to_raw_fd
    child,     \* id_to_child_pid
    runs,      \* the processes that were started
    toPty,     \* the channel to the pty thread
    todo,      \* what is left of the pty thread's handler
    toScreen,  \* the channel to the screen, as far as it is about terminals
    toWriter,  \* the channel to the pty writer: the cached resizes of an event
    pending,   \* Tab.is_pending
    buffered,  \* Tab.pending_instructions
    panes,     \* the terminal panes of the tab
    waiting,   \* Tab.pids_waiting_resize
    area,      \* the size of the tab
    shown,     \* the requests the screen has heard of (history)
    blocked,   \* the client's input thread waits
    resumes,   \* UnblockInputThread messages under way to the client
    asked,     \* requests made
    pressed    \* keys pressed

system == <<table, child, runs>>
screen == <<pending, buffered, panes, waiting, area, shown>>
user   == <<blocked, resumes, asked, pressed>>
vars   == <<system, toPty, todo, toScreen, toWriter, screen, user>>

First    == Len(Layout)
Requests == 1 .. First + MaxRequests

-----------------------------------------------------------------------------
(* The operating system *)

(* The master end is the listener's, which closes it when it ends.          *)
HasMaster(run) == run.state # "absent" /\ run.listener # "done"

FreshFd(rs) ==
    LET used == {rs[r].fd : r \in DOMAIN rs} \cup {0}
        open == {rs[r].fd : r \in {q \in DOMAIN rs : HasMaster(rs[q])}}
    IN  IF FdsReused THEN Min((1 .. Max(used) + 1) \ open) ELSE Max(used) + 1

(* A terminal id is one more than the greatest in use.                      *)
NewId(ids) == IF ids = {} THEN 0 ELSE Max(ids) + 1

(* A process and its pty; "absent" where there was no such command.         *)
NewRun(id, of, cmd, fd, tab) ==
    [id |-> id, of |-> of, cmd |-> cmd, fd |-> IF Exists(cmd) THEN fd ELSE NoFd,
     tab |-> tab, hup |-> FALSE, size |-> <<>>, wrote |-> FALSE,
     state |-> IF Exists(cmd) THEN "live" ELSE "absent", listener |-> "none"]

Without(f, x) == Restrict(f, DOMAIN f \ {x})
With(f, x, v) == [y \in DOMAIN f \cup {x} |-> IF y = x THEN v ELSE f[y]]

-----------------------------------------------------------------------------
(* Messages *)

Spawn(cmd, of, split) == [do |-> "spawn", cmd |-> cmd, of |-> of, split |-> split]
ReRun(id, cmd, of)    == [do |-> "rerun", id |-> id, cmd |-> cmd, of |-> of]
Close(id, of)         == [do |-> "close", id |-> id, of |-> of]
NewTab                == [do |-> "new tab"]

Terminal(id, of, cmd) == [id |-> id, of |-> of, cmd |-> cmd]

NewPane(t, split)      == [do |-> "new", panes |-> <<t>>, split |-> split]
ApplyLayout(ts)        == [do |-> "layout", panes |-> ts]
PtyBytes(id, run)      == [do |-> "bytes", id |-> id, run |-> run]
HoldPane(id, run, tab) == [do |-> "hold", id |-> id, run |-> run, tab |-> tab]
ClosePane(id, run)     == [do |-> "exited", id |-> id, run |-> run]
CloseFocused           == [do |-> "close focused"]
Key(key)               == [do |-> "key", key |-> key]
TerminalResize         == [do |-> "resize"]

(* What is left of a handler of the pty thread                              *)
Tell(m)   == <<[step |-> "tell", msg |-> m]>>
Listen(r) == <<[step |-> "listen", run |-> r]>>
Free(id)  == <<[step |-> "free", id |-> id]>>

(* mutant: the terminal id is given back too                                *)
CommandNotFoundFree(id, run, tab) ==
    Tell(PtyBytes(id, run)) \o Tell(HoldPane(id, run, tab)) \o Free(id)

(* send_command_not_found_to_screen                                         *)
CommandNotFound(id, run, tab) == Tell(PtyBytes(id, run)) \o Tell(HoldPane(id, run, tab))

-----------------------------------------------------------------------------
Init ==
    /\ table = <<>> /\ child = <<>> /\ runs = <<>>
    /\ toPty = <<NewTab>> /\ todo = <<>> /\ toScreen = <<>> /\ toWriter = <<>>
    /\ pending = TRUE /\ buffered = <<>> /\ panes = <<>> /\ waiting = {}
    /\ area = 0 /\ shown = {}
    /\ blocked = FALSE /\ resumes = 0 /\ asked = 0 /\ pressed = 0

-----------------------------------------------------------------------------
(* The pty thread *)

(* mutant: the number of the process before                                 *)
StartedOffByOne(s, cmd, of, tab) ==
    LET id == NewId(DOMAIN s.table)
        starts == cmd # "suspended"
    IN  [table |-> With(s.table, id, FreshFd(s.runs)),
         child |-> IF starts /\ Exists(cmd) THEN With(s.child, id, Len(s.runs)) ELSE s.child,
         runs  |-> IF starts THEN Append(s.runs, NewRun(id, of, cmd, FreshFd(s.runs), tab))
                             ELSE s.runs,
         terminals |-> Append(s.terminals, Terminal(id, of, cmd))]

(* Give the command a terminal id and, unless it waits for the user, a pty  *)
(* and a process.                                                           *)
Started(s, cmd, of, tab) ==
    LET id == NewId(DOMAIN s.table)
        fd == FreshFd(s.runs)
        r  == Len(s.runs) + 1
        starts == cmd # "suspended"
    IN  [table |-> With(s.table, id, IF starts /\ Exists(cmd) THEN fd ELSE NoFd),
         child |-> IF starts /\ Exists(cmd) THEN With(s.child, id, r) ELSE s.child,
         runs  |-> IF starts THEN Append(s.runs, NewRun(id, of, cmd, fd, tab)) ELSE s.runs,
         terminals |-> Append(s.terminals, Terminal(id, of, cmd))]

(* apply_run_instruction, for each of a layout's commands                   *)
StartedForLayout(s) ==
    LET started[n \in 0 .. First] ==
            IF n = 0 THEN s ELSE Started(started[n - 1], Layout[n], n, TRUE)
    IN  started[First]

Resources == [table |-> table, child |-> child, runs |-> runs, terminals |-> <<>>]

(* Nothing is left of the processes that were hung up.                      *)
Quiet ==
    \A r \in DOMAIN runs :
        runs[r].hup => runs[r].state = "reported" /\ runs[r].listener = "done"

Takes(do) ==
    /\ todo = <<>> /\ toPty # <<>> /\ Head(toPty).do = do
    /\ toPty' = Tail(toPty)

(* SpawnTerminal, SpawnTerminalVertically and SpawnTerminalHorizontally: a  *)
(* command that does not exist gets its pane only if it holds on close.     *)
PtySpawns ==
    /\ Takes("spawn")
    /\ Prompt => Quiet
    /\ LET m == Head(toPty)
           s == Started(Resources, m.cmd, m.of, FALSE)
           t == Head(s.terminals)
           r == Len(s.runs)
       IN  /\ table' = s.table /\ child' = s.child
           /\ runs' = IF r > Len(runs) /\ Exists(m.cmd)
                      THEN [s.runs EXCEPT ![r].listener = "yes"] ELSE s.runs
           /\ todo' = CASE Exists(m.cmd)      -> Tell(NewPane(t, m.split))
                        [] m.cmd = "missing"  -> Tell(NewPane(t, m.split))
                                                   \o CommandNotFound(t.id, r, FALSE)
                        [] m.cmd = "typo"     -> IF m.split THEN <<>> ELSE Free(t.id)
    /\ UNCHANGED <<toScreen, toWriter, screen, user>>

(* NewTab: all the processes are started, then the screen is told, then     *)
(* the listeners are started.                                               *)
PtySpawnsLayout ==
    /\ Takes("new tab")
    /\ LET s == StartedForLayout(Resources)
           RunOf(i) == CHOOSE r \in DOMAIN s.runs : s.runs[r].of = i
           Rest(i) ==
               LET id == s.terminals[i].id IN
               CASE Layout[i] = "suspended" -> <<>>
                 [] Layout[i] \in {"shell", "command"} -> Listen(RunOf(i))
                 [] Layout[i] = "missing"   -> CommandNotFound(id, RunOf(i), TRUE)
                 [] Layout[i] = "typo"      -> Free(id)
       IN  /\ table' = s.table /\ child' = s.child /\ runs' = s.runs
           /\ todo' = Tell(ApplyLayout(s.terminals))
                        \o FlattenSeq([i \in DOMAIN Layout |-> Rest(i)])
    /\ UNCHANGED <<toScreen, toWriter, screen, user>>

(* Another process takes the terminal id.                                   *)
RerunsCommand(id, cmd, of) ==
    LET fd  == FreshFd(runs)
        run == NewRun(id, of, cmd, fd, FALSE)
    IN  IF Exists(cmd)
        THEN /\ table' = With(table, id, fd)
             /\ child' = With(child, id, Len(runs) + 1)
             /\ runs' = Append(runs, [run EXCEPT !.listener = "yes"])
        ELSE /\ child' = Without(child, id)
             /\ runs' = Append(runs, run)
             /\ UNCHANGED table

(* ReRunCommandInPane and DropToShellInPane                                 *)
PtyReruns ==
    /\ Takes("rerun")
    /\ Prompt => Quiet
    /\ LET m == Head(toPty) IN
       /\ RerunsCommand(m.id, m.cmd, m.of)
       /\ todo' = IF Exists(m.cmd) THEN <<>>
                  ELSE CommandNotFound(m.id, Len(runs'), FALSE)
    /\ UNCHANGED <<toScreen, toWriter, screen, user>>

(* mutant: no signal                                                        *)
ClosesQuietly(id) ==
    /\ runs' = runs
    /\ child' = Without(child, id) /\ table' = Without(table, id)

(* Pty::close_pane: SIGHUP to the process, if there is one, and the id is   *)
(* free again; the listener goes on until the pty is closed.                *)
Closes(id) ==
    /\ runs' = IF id \in DOMAIN child
               THEN [runs EXCEPT ![child[id]].hup = TRUE] ELSE runs
    /\ child' = Without(child, id)
    /\ table' = Without(table, id)

(* mutant: nobody tells the main loop                                       *)
NotResumed == resumes' = resumes

(* UnblockInputThread, to the main loop                                     *)
Resumed == resumes' = Min({resumes + 1, MaxResumes})

PtyCloses ==
    /\ Takes("close")
    /\ Closes(Head(toPty).id)
    /\ Resumed
    /\ UNCHANGED <<todo, toScreen, toWriter, screen, blocked, asked, pressed>>

PtyContinues ==
    /\ todo # <<>> /\ todo' = Tail(todo)
    /\ LET s == Head(todo) IN
       CASE s.step = "tell" ->
                toScreen' = Append(toScreen, s.msg) /\ UNCHANGED system
         [] s.step = "listen" ->
                /\ runs' = [runs EXCEPT ![s.run].listener = "yes"]
                /\ UNCHANGED <<table, child, toScreen>>
         [] s.step = "free" -> Closes(s.id) /\ UNCHANGED toScreen
    /\ UNCHANGED <<toPty, toWriter, screen, user>>

PtyThread ==
    PtySpawns \/ PtySpawnsLayout \/ PtyReruns \/ PtyCloses \/ PtyContinues

-----------------------------------------------------------------------------
(* A process, its waiter and its listener *)

(* It ends; the waiter closes the slave end.                                *)
Ends(r) ==
    /\ runs[r].state = "live"
    /\ Quick \/ runs[r].hup \/ runs[r].of \in shown
    /\ runs' = [runs EXCEPT ![r].state = "ended", ![r].size = <<>>,
          ![r].listener = IF Prompt /\ @ = "yes" THEN "done" ELSE @]
    /\ UNCHANGED <<table, child, toPty, todo, toScreen, toWriter, screen, user>>

(* quit_cb                                                                  *)
Reports(r) ==
    /\ runs[r].state = "ended"
    /\ Prompt => runs[r].listener = "done"
    /\ runs' = [runs EXCEPT ![r].state = "reported"]
    /\ toScreen' = Append(toScreen,
           IF HoldsOnClose(runs[r].cmd) THEN HoldPane(runs[r].id, r, runs[r].tab)
                                        ELSE ClosePane(runs[r].id, r))
    /\ UNCHANGED <<table, child, toPty, todo, toWriter, screen, user>>

(* The first bytes: the later ones change nothing here, and these only if a *)
(* pane waits for them, which takes a key that was pressed before.          *)
ListenerReads(r) ==
    /\ runs[r].listener = "yes" /\ ~runs[r].wrote /\ pressed > 0
    /\ runs' = [runs EXCEPT ![r].wrote = TRUE]
    /\ toScreen' = Append(toScreen, PtyBytes(runs[r].id, r))
    /\ UNCHANGED <<table, child, toPty, todo, toWriter, screen, user>>

ListenerEnds(r) ==
    /\ runs[r].listener = "yes" /\ runs[r].state # "live"
    /\ runs' = [runs EXCEPT ![r].listener = "done"]
    /\ UNCHANGED <<table, child, toPty, todo, toScreen, toWriter, screen, user>>

(* ApplyCachedResizes: in the order of the ids                              *)
WriterApplies ==
    /\ toWriter # <<>> /\ toWriter' = Tail(toWriter)
    /\ LET sizes   == Head(toWriter)
           Sizing(run) == {id \in DOMAIN sizes \cap DOMAIN table : table[id] = run.fd}
       IN  runs' = [r \in DOMAIN runs |->
                       IF runs[r].state = "live" /\ Sizing(runs[r]) # {}
                       THEN [runs[r] EXCEPT !.size = sizes[Max(Sizing(runs[r]))]]
                       ELSE runs[r]]
    /\ UNCHANGED <<table, child, toPty, todo, toScreen, screen, user>>

-----------------------------------------------------------------------------
(* The screen *)

Size(ps, a, id) == <<a, Cardinality(DOMAIN ps), id>>

(* resize_pty! for the panes `of': the cache of the event's resizes is      *)
(* applied when it is over.                                                 *)
Resizes(ps, a, ids) ==
    toWriter' = IF ids = {} THEN toWriter
                ELSE Append(toWriter, [id \in ids |-> Size(ps, a, id)])

(* A pane is added or goes away: all the panes are laid out again.          *)
LayOut(ps) == panes' = ps /\ Resizes(ps, area, DOMAIN ps)

Receives(do) ==
    /\ toScreen # <<>> /\ Head(toScreen).do = do /\ Len(toWriter) <= Behind
    /\ toScreen' = Tail(toScreen)

Pane(t) == [of |-> t.of, cmd |-> t.cmd, held |-> t.cmd = "suspended"]

HasRoom(split) == split => Cardinality(DOMAIN panes) < SplitRoom

ScreenNewPane ==
    /\ Receives("new")
    /\ LET t == Head(toScreen).panes[1] IN
       /\ shown' = shown \cup {t.of}
       /\ IF HasRoom(Head(toScreen).split)
          THEN LayOut(With(panes, t.id, Pane(t))) /\ UNCHANGED toPty
          ELSE /\ toPty' = Append(toPty, Close(t.id, t.of))
               /\ UNCHANGED <<panes, toWriter>>
    /\ Resumed
    /\ UNCHANGED <<system, todo, pending, buffered, waiting, area, blocked, asked, pressed>>

Held(ps, ids) ==
    [id \in DOMAIN ps |-> IF id \in ids THEN [ps[id] EXCEPT !.held = TRUE] ELSE ps[id]]

(* ApplyLayout, and what the tab has been told meanwhile                    *)
ScreenApplyLayout ==
    /\ Receives("layout")
    /\ LET ts == Head(toScreen).panes
           laid == [id \in {ts[i].id : i \in DOMAIN ts} |->
                       Pane(ts[CHOOSE i \in DOMAIN ts : ts[i].id = id])]
       IN  /\ LayOut(Held(laid, {m.id : m \in Range(buffered)}))
           /\ shown' = shown \cup {ts[i].of : i \in DOMAIN ts}
    /\ pending' = FALSE /\ buffered' = <<>>
    /\ Resumed
    /\ UNCHANGED <<system, toPty, todo, waiting, area, blocked, asked, pressed>>

(* HoldPane: the tab is named for the processes of its layout only          *)
ScreenHoldPane ==
    /\ Receives("hold")
    /\ LET m == Head(toScreen) IN
       IF pending
       THEN /\ buffered' = IF m.tab THEN Append(buffered, m) ELSE buffered
            /\ UNCHANGED panes
       ELSE panes' = Held(panes, {m.id}) /\ UNCHANGED buffered
    /\ Resumed
    /\ UNCHANGED <<system, toPty, todo, toWriter, pending, waiting, area, shown,
                   blocked, asked, pressed>>

(* ClosePane: the pty thread is not told.                                   *)
ScreenClosePane ==
    /\ Receives("exited")
    /\ LET id == Head(toScreen).id IN
       IF id \in DOMAIN panes THEN LayOut(Without(panes, id))
                              ELSE UNCHANGED <<panes, toWriter>>
    /\ Resumed
    /\ UNCHANGED <<system, toPty, todo, pending, buffered, waiting, area, shown,
                   blocked, asked, pressed>>

(* CloseFocusedPane                                                         *)
ScreenCloseFocusedPane ==
    /\ Receives("close focused")
    /\ \/ /\ panes = <<>> /\ UNCHANGED <<panes, toWriter, toPty>>
       \/ \E id \in DOMAIN panes :
              /\ LayOut(Without(panes, id))
              /\ toPty' = Append(toPty, Close(id, panes[id].of))
    /\ Resumed
    /\ UNCHANGED <<system, todo, pending, buffered, waiting, area, shown,
                   blocked, asked, pressed>>

ScreenPtyBytes ==
    /\ Receives("bytes")
    /\ LET id == Head(toScreen).id IN
       IF id \in DOMAIN panes
       THEN /\ Resizes(panes, area, {id} \cap waiting)
            /\ waiting' = waiting \ {id}
       ELSE UNCHANGED <<waiting, toWriter>>
    /\ UNCHANGED <<system, toPty, todo, pending, buffered, panes, area, shown, user>>

(* A key for a held pane: enter runs the command again, escape drops to a   *)
(* shell, ctrl-c closes the pane and does not tell the pty thread.          *)
ScreenKey ==
    /\ Receives("key")
    /\ LET key == Head(toScreen).key IN
       \/ /\ \A id \in DOMAIN panes : ~panes[id].held
          /\ UNCHANGED <<panes, waiting, toPty, toWriter>>
       \/ \E id \in DOMAIN panes :
          /\ panes[id].held
          /\ IF key = "ctrl-c"
             THEN LayOut(Without(panes, id)) /\ UNCHANGED <<waiting, toPty>>
             ELSE LET cmd == IF key = "enter" THEN panes[id].cmd ELSE "shell" IN
                  /\ panes' = [panes EXCEPT ![id].held = FALSE, ![id].cmd = cmd]
                  /\ waiting' = waiting \cup {id}
                  /\ toPty' = Append(toPty, ReRun(id, cmd, panes[id].of))
                  /\ UNCHANGED toWriter
    /\ UNCHANGED <<system, todo, pending, buffered, area, shown, user>>

ScreenTerminalResize ==
    /\ Receives("resize")
    /\ area' = area + 1
    /\ Resizes(panes, area + 1, DOMAIN panes)
    /\ UNCHANGED <<system, toPty, todo, pending, buffered, panes, waiting, shown, user>>

ScreenThread ==
    \/ ScreenNewPane \/ ScreenApplyLayout \/ ScreenHoldPane \/ ScreenClosePane
    \/ ScreenCloseFocusedPane \/ ScreenPtyBytes \/ ScreenKey \/ ScreenTerminalResize

-----------------------------------------------------------------------------
(* The client *)

Asks == (Early \/ ~pending) /\ ~blocked /\ blocked' = TRUE /\ asked < MaxRequests /\ asked' = asked + 1

UserOpens(cmd, split) ==
    /\ Asks
    /\ toPty' = Append(toPty, Spawn(cmd, First + asked', split))
    /\ UNCHANGED <<system, todo, toScreen, toWriter, screen, resumes, pressed>>

UserCloses ==
    /\ Asks
    /\ toScreen' = Append(toScreen, CloseFocused)
    /\ UNCHANGED <<system, toPty, todo, toWriter, screen, resumes, pressed>>

UserPresses(key) ==
    /\ (Early \/ ~pending) /\ ~blocked /\ pressed < MaxKeys /\ pressed' = pressed + 1
    /\ \E id \in DOMAIN panes : panes[id].held
    /\ toScreen' = Append(toScreen, Key(key))
    /\ UNCHANGED <<system, toPty, todo, toWriter, screen, blocked, resumes, asked>>

(* The signal listener is a thread of its own: it never waits.              *)
UserResizes ==
    /\ asked < MaxRequests /\ asked' = asked + 1
    /\ toScreen' = Append(toScreen, TerminalResize)
    /\ UNCHANGED <<system, toPty, todo, toWriter, screen, blocked, resumes, pressed>>

User ==
    \/ \E cmd \in Commands, split \in Splits : UserOpens(cmd, split)
    \/ UserCloses
    \/ \E key \in {"enter", "escape", "ctrl-c"} : UserPresses(key)
    \/ UserResizes

(* UnblockInputThread reaches the client.                                   *)
Resumes ==
    /\ resumes > 0 /\ resumes' = resumes - 1 /\ blocked' = FALSE
    /\ UNCHANGED <<system, toPty, todo, toScreen, toWriter, screen, asked, pressed>>

-----------------------------------------------------------------------------
Process(r) == Ends(r) \/ Reports(r) \/ ListenerReads(r) \/ ListenerEnds(r)

Next ==
    \/ PtyThread \/ ScreenThread \/ WriterApplies \/ User \/ Resumes
    \/ \E r \in DOMAIN runs : Process(r)

(* What happens to a process without the user or the command               *)
Settles(r) == Reports(r) \/ ListenerEnds(r) \/ (Prompt /\ runs[r].hup /\ Ends(r))

(* Every thread goes on; a process that was told to hang up ends if Prompt  *)
(* says so, and no other has to.  A process settles in a few steps, so that *)
(* fairness to all of them together is fairness to each.                    *)
Fairness ==
    /\ WF_vars(PtyThread) /\ WF_vars(ScreenThread)
    /\ WF_vars(WriterApplies) /\ WF_vars(Resumes)
    /\ WF_vars(\E r \in DOMAIN runs : Settles(r))

Spec == Init /\ [][Next]_vars /\ Fairness

-----------------------------------------------------------------------------
(* Properties *)

Messages(kinds) == {m \in Range(toScreen) : m.do \in kinds}

TypeOK ==
    /\ DOMAIN table \subseteq Nat /\ DOMAIN child \subseteq Nat
    /\ \A id \in DOMAIN child : child[id] \in DOMAIN runs
    /\ \A r \in DOMAIN runs :
        /\ runs[r].of \in Requests
        /\ runs[r].state \in {"absent", "live", "ended", "reported"}
        /\ runs[r].listener \in {"none", "yes", "done"}
    /\ \A id \in DOMAIN panes :
        panes[id].of \in shown /\ panes[id].cmd \in AllCommands
    /\ shown \subseteq Requests
    /\ blocked \in BOOLEAN /\ pending \in BOOLEAN
    /\ resumes \in 0 .. MaxResumes

AtRest ==
    todo = <<>> /\ toPty = <<>> /\ toScreen = <<>> /\ toWriter = <<>>

(* A pane on the screen has its terminal id to itself: no terminal that is  *)
(* spawned later gets it.  (The code gives an id back in close_pane, which  *)
(* the screen asks for, and which a handler of the pty thread calls itself  *)
(* when a command does not exist.)  And when nothing is under way, every    *)
(* running process knows the size of its own pane (one that was run again,  *)
(* once its pane has seen bytes): however layouts, resizes of the client's  *)
(* terminal, new and closed panes and commands run again were interleaved.  *)
PanesFitTerminals ==
    /\ \A id \in DOMAIN panes : id \in DOMAIN table
    /\ AtRest =>
          \A r \in DOMAIN runs :
              runs[r].state = "live" /\ ~runs[r].hup /\ runs[r].id \notin waiting
                  => runs[r].size = Size(panes, area, runs[r].id)

(* No process but the pane's own, or one whose terminal was closed and that *)
(* lives on, closes or holds a pane: the message of a process names an id,  *)
(* which may be another pane's when the screen gets it.                     *)
OnlyHungUpStray ==
    [][\A id \in DOMAIN panes :
          Receives("exited") \/ Receives("hold") =>
              LET m == Head(toScreen) IN
              m.id = id /\ panes' # panes
                  => runs[m.run].of = panes[id].of \/ runs[m.run].hup]_vars

(* The client's input thread, which waits after most actions, goes on.      *)
InputResumes == blocked ~> ~blocked

-----------------------------------------------------------------------------
(* The panes' life, as PaneLife tells it *)

RunsOf(p) == {r \in DOMAIN runs : runs[r].of = p}

PanesFor(p) == {id \in DOMAIN panes : panes[id].of = p}

AskedFor(do, p) == \E i \in DOMAIN toPty : toPty[i].do = do /\ toPty[i].of = p

PaneOf(p) ==
    IF p \notin shown THEN "none"
    ELSE IF PanesFor(p) = {} THEN "gone"
    ELSE IF \E id \in PanesFor(p) : panes[id].held THEN "held"
    ELSE "open"

IsLive(p) == \E r \in RunsOf(p) : runs[r].state = "live"

ProcessOf(p) ==
    IF p \in shown /\ PanesFor(p) = {}
    THEN IF \E r \in RunsOf(p) : runs[r].state = "live" /\ ~runs[r].hup
               /\ ~AskedFor("close", p)
         THEN "running" ELSE "over"
    ELSE IF AskedFor("rerun", p) THEN "awaited"
    ELSE IF IsLive(p) THEN "running"
    ELSE IF RunsOf(p) # {} THEN "ended" ELSE "none"

Life == INSTANCE PaneLife WITH
    Opened <- Requests,
    life   <- [p \in Requests |-> <<PaneOf(p), ProcessOf(p)>>]

(* What happens to panes and processes here is what PaneLife promises.      *)
PanesLiveAsPromised == Life!Spec

=============================================================================

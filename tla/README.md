# TLA+ specifications of zmate

zmate is zellij 0.39 with an ssh server in front of it. A server process keeps
sessions of terminal panes. Client programs come to it over a local socket, or,
in `zellij ssh`, over ssh channels inside the server process itself. This
directory holds the specifications kept beside that code:

| module | what it is about | for TLC | proofs |
|---|---|---|---|
| `ScreenTabs` | the tabs of a session and the clients that look at them (`struct Screen`) | `MCScreenTabs` | `ScreenTabsProofs`, `ScreenFocusProofs` |
| `ServerLoop` | how clients come to a session and leave it: listener, routers, main loop, and the screen as far as it knows clients | `MCServerLoop` | `ServerLoopProofs` |
| `ServerLocks` | who waits for whom: the two `RwLock`s of the server and the bounded channel to the main loop | `MCServerLocks` | `ServerLocksProofs` |
| `PtyTerminals` | terminals, their processes and the panes that show them: pty thread, listeners, pty writer | `MCPtyTerminals` | `PtyTerminalsProofs` |
| `PaneLife` | what the server promises of such a pane; `PtyTerminals` implements it | | |
| `TerminalGrid` | rows, cursor, scrollback and resizing of one terminal pane | `MCTerminalGrid` | |
| `TabPanes` | which panes a tab has, where, and who looks at which | `MCTabPanes` | `TabPanesProofs` |
| `TiledPaneGrid` | where tiled panes lie: splitting, closing, resizing, rounding | `MCTiledPaneGrid` | |
| `Plugins` | loading, reloading and closing plugins, an instance for each client | `MCPlugins` | `PluginsProofs`, `PluginsOrderProofs` |

`PROJECT.json` lists the runs, the source lines every definition stands for,
the hazards the properties are for, the mutants that show that a property can
fail, and the theorems.

    tlc -config ScreenTabs_orderly.cfg MCScreenTabs.tla
    tlapm ScreenTabsProofs.tla

Section 1 is the inventory, section 2 the plan, sections 3 to 10 describe one
module each, section 11 says what is proved and how, section 12 what is not
modelled.

## 1. Inventory

### The parts and their state

**Server main loop** (`zellij-server/src/lib.rs`). One thread receives
`ServerInstruction`s from a channel of capacity 50. It keeps `session_state`
(`SessionState.clients`: client id to terminal size, `None` until the client
attaches) and `session_data` (`SessionMetaData`: the senders and join handles of
the session's threads, `None` until `NewClient`), each behind an `RwLock` shared
with every router. Operations: `NewClient` starts the session; `AttachClient`
registers a size and tells the screen; `ClientExit`, `RemoveClient`,
`DetachSession`, `SwitchSession`, `KillSession` and `Render(None)` remove
clients; `Render(Some)` and `UnblockInputThread` send to clients, and a failed
send removes the client; `ConnStatus`, `ActiveClients` and `Log` answer a
program that soon leaves; `Error` ends the server. *Correct* if a removal hits
the client it was meant for, every client that goes is forgotten everywhere,
the loop never panics on an absent session or size, and it never stops.

**Listener** (`lib.rs:294-338`). Accepts a connection, takes the least free id
(`new_client`), creates the client's sender, spawns its router.

**Route thread** (`zellij-server/src/route.rs`). One per connection; holds
`session_data` read-locked while it handles a message, turns it into
instructions for the screen, pty, plugins and main loop, writes
`session_state` on a resize, ends on `Quit`, `Detach`, `ClientExited`,
`ConnStatus`, or the end of the stream.

**Server OS interface** (`zellij-server/src/os_input_output.rs`).
`client_senders`: a bounded queue of 5000 messages per client and a thread that
writes them to its socket; `terminal_id_to_raw_fd`: a terminal id is one more
than the greatest in use; the processes behind the terminals and their exit
callbacks; `cached_resizes`.

**Screen thread** (`zellij-server/src/screen.rs`). Owns `Screen`: the tabs by
index, `active_tab_indices` (client to tab), `tab_history`, `connected_clients`,
and, as locals of `screen_thread_main`, `pending_tab_ids` and
`pending_tab_switches`. Some eighty instructions; those that create, close,
switch, break or load tabs and attach or detach clients change this state. A
new tab makes a round trip through the plugin and pty threads before
`ApplyLayout` loads it. An error that a handler returns ends the thread and,
through the panic hook, the server. *Correct* if every client looks at a tab
that exists and is connected to it alone, the tab bar has no holes, switching
does to the right clients what was asked, and no order of requests ends the
thread.

**Tab and panes** (`tab/mod.rs`, `panes/`). Instructions held back while the
tab is loading, tiled, floating, suppressed and fullscreen panes, active panes
per client, swap layouts, the geometry of a tiling (splits, stacks, resizes)
and the character grid of a terminal. *Correct* if every pane is in exactly one
place, every client of the tab has an active pane that exists, tiles cover
the screen without overlap, and what a program writes into a pane is shown in its
order, whatever the user scrolls and resizes.

**Pty thread and pty writer** (`pty.rs`, `terminal_bytes.rs`, `pty_writer.rs`).
Spawn a command for a pane, hold the pane when the command ends, run it again,
drop to a shell, close; carry bytes to the screen and from it. *Correct* if what
a process does happens to its own pane, every process knows the size of its
pane, and every request unblocks the client that waits for it.

**Plugins** (`plugins/`). Load wasm plugins, one instance per client, queue
events for those still loading, run the rest on worker threads. *Correct* if every
client has an instance of every plugin, which runs the last code and knows the
last size and news, and no load or reload is forgotten.

**Background jobs** (`background_jobs.rs`). Animations, the session list,
timers for pane frames.

**Client** (`zellij-client/src/`). Asks for the server's mode, attaches, sends
actions and resizes, waits for `UnblockInputThread` after some of them, leaves
when told `Exit` or when the stream ends.

**Ssh server** (`sshd/src/`). `init_zellij_client` starts a server in the
foreground mode and at once detaches itself; each ssh channel runs a client in
the process; sessions are switched by handing a channel to another client.

### How they interact

Threads of the server share the two locks and otherwise send. The channel to the
main loop is bounded, and so is the one in which the pty thread sends bytes to the
screen; the others are not. Every message names a client by its id,
and ids are reused at once: a message still under way when an id changes hands
reaches the new owner. A client that leaves is removed by its own router's last
message, by a failed send, or by another's request (kill, switch), in any
order. Requests of clients, replies of the plugin and pty threads and exits of
processes reach the screen interleaved. Terminal ids are reused as client ids
are; plugin ids are not.

### What is hard

Reuse of client ids, tab indices and terminal ids while messages name the old
owner; tabs that load while they are closed, switched to, or deserted; locks
taken in two orders, and under a bounded channel; clients that fail at any
step of attaching or leaving; a session that is not there yet, or no longer;
panes that are moved between layers, replaced and hidden while several clients
look at them; rows that move between three buffers and are wrapped anew;
plugin tasks that start while clients come and go.
`PROJECT.json` lists these as hazards, each at its line and with the
properties aimed at it. A property is named there only if a run of it meets the hazard. A hazard without one
has a note that says which property is violated by it, and which constant or
premise of the run excludes it; a note beside a property says which part of the hazard is left out.

## 2. Plan

Done, in this order: `ScreenTabs`, `ServerLoop`, `ServerLocks`, `PtyTerminals`
with `PaneLife`, `TerminalGrid`, `TabPanes`, `Plugins`, `TiledPaneGrid`; proofs of
`ScreenTabs`, `TabPanes`, `ServerLoop`, `ServerLocks`, `Plugins` and `PtyTerminals`.

The modules compose at these seams: a tab of `ScreenTabs` has one bit, `live`
(it has a selectable tiled pane), which is what `TabPanes` is about; a pane of
`TabPanes` is a terminal of `PtyTerminals` and shows a grid of `TerminalGrid`; its
room (`TileRoom`) is what `TiledPaneGrid` is about. `ServerLoop`
keeps of the screen who its clients are. `ServerLocks` has the same handlers as
`ServerLoop`, one lock and one send at a time, without what they do to the
session. `PaneLife` is an abstract specification, and the run `pty_panes` and the
refinement mapping in `PtyTerminals` show that it is implemented.

Left, in the order of what they would say: proofs for
`TiledPaneGrid`, the refinement of
`PaneLife`; stacks and swap layouts, which move panes of `TabPanes` and
`TiledPaneGrid` about by a layout; the channels of `sshd` and the hand-over between
sessions, to be composed with `ServerLoop`.

Runs stay few: one for each question below. Instances that have been looked at
and answered nothing new are not kept, and their results are told in the text.
`CHECK_DEADLOCK FALSE` stands in every configuration: all clients may have left,
a server that is killed has ended, and the bounds end what users do.

## 3. ScreenTabs

**State.** `screen` is `struct Screen` cut down to tabs, active indices,
histories and connected clients; a tab is its position, whether it is pending,
whether it has a selectable tiled pane ("live"), and its connected clients.
`failed` stands for the error that ends the screen thread, `ended` for
`Render(None)` after the last tab. `loading` is the queue of new tabs on their
round trip (the plugin and pty threads handle them in order).

**Actions.** One per instruction; each composes the same operators as the
handler composes methods: `SwitchActiveTab`, `CloseOneTab`, `LoadTab`,
`AttachClient`, and `Render`, which closes tabs that have lost their panes. The
repetition of the handler's trailing `render()` is part of every action whose
handler has it, and absent where the handler has none (`ShellExits`).

**Left out.** Names of tabs, sizes, what panes show. A tab's panes are one bit:
the number of panes matters to tabs only when it drops to nothing. `Bars` says
whether the layout has plugin panes that stay behind when the shells are gone.

**Constants and bounds.** `MaxIndex` bounds tab indices, `MaxHistory` and
`MaxWaiting` (in `MCScreenTabs`) the histories explored and the switches that
wait. With three indices tabs can be closed in front, in the middle and at the
end, and an index can be reused. `LateRequests` and `Overlap` select how
hostile the order of requests is; with `Overlap = FALSE` requests wait until
tabs have loaded and dying tabs are gone.

| run | instance | shows |
|---|---|---|
| `screen_orderly` | 2 clients, 3 indices, not mirrored, no overlap | `OneTabPerClient`, `FailsOnlyWithoutTabs`, `ToggleReturns`, `OneClientMoves` |
| `screen_mirrored` | 2 clients, 2 indices, mirrored, overlapping requests | `TypeOK`, `PositionsContiguous`, `MirroredStep` |
| `screen_focus_pane` | 1 client, 3 indices | **violates** `FocusShowsItsTab`: `focus_pane_with_id` takes a tab's index for its position, and after a tab in front was closed shows another tab |

`OneTabPerClient` is violated when `Overlap` is `TRUE`: a client that visits a
loading tab twice is not connected to it the second time, and keeps its index
when the tab is closed. No run is kept for it.

`MirroredStep` has a premise, `InStep`: the clients are at one tab, have come there by one
way, the tabs list no client that the screen does not count as connected (one that has left, or a pane
focused for it), and only a tab that is loading lists any of them ahead of time. Clients with
different histories are separated by the next `ToggleTab`. When a dead tab is waiting to be closed, the
premise asks besides that the tab they came from is there (`CanReturn`): `ToggleTab` may use up a
stale entry of one client's history, and the `Render` that ends the same instruction then closes the dead
tab and moves the clients by histories that differ. The run stays at two indices, where all
requests may overlap; the theorem of section 11 covers every number of them.

## 4. ServerLoop

**State.** A connection is one run of a client program, with a `Role`: the client
that starts the session, one that attaches, one inside `sshd`,
`init_zellij_client`, a probe (`assert_socket`), `kill_session`. For each: what it
has done, what it has heard first and whether it was told to leave, the id and
state of its router. For the server: the id being registered by the listener
(the registration and the creation of the sender are two steps), `clients`,
`senders`, `session`, the channels `toServer` and `toScreen`, the screen's
clients, tabs and loading tab, and `main`, the removals the current instruction
still has to make. The fields `conn` are not in the code: they remember for
which connection an id was meant, so that a property can say that an id reached
the wrong one. No guard reads them.

**Actions.** One per message a router handles, one per instruction of the main
loop, one per instruction of the screen. A removal is two steps, `DropSender`
and `Unregister`, since routers and listener run between them.

**Merged.** A client sends when its router handles: a message waits in a socket
without effect. The last step of a removal and the announcement to the screen
are one: the main loop is the only one that announces removals. `Exit` and the
drop of the sender are one step for the client: it leaves either way.

**Constants.** `Settings` are the sessions one run looks at, chosen in `Init`: the
role of every connection, whether the server is `sshd`'s (`foreground`), which
clients may be too slow to be written to (`slow`), whose users do something besides
coming and going (`busy`, bounded by `MaxInputs`), whether the last tab may be
closed (`tabsClose`), frames are sent (`draws`) and clients are switched to other
sessions (`switches`). `Early`: clients come and resize while the session is being
started. Everything else is bounded by itself: a connection comes once.

| run | instance | shows |
|---|---|---|
| `loop_orderly` | `Plain`: a client that starts the session, one that attaches and resizes, a probe; ids are reused | `TypeOK`, `RoutersOwnTheirIds`, `ScreenKnowsClients`, `NoStrangerRemoved` |
| `loop_leaving` | `Closing`, `Switching`, `Resizing`: a slow client, the last tab closed, a client sent elsewhere or the slow one resized after its removal; `Ssh`, `SshDrawing`: the server of `sshd`, with a client that kills it or frames that are sent; with fairness | `LoopSurvives`, `LeaversAreFreed` |

Three connections give an id that is freed, taken by a second client and named
by a late message while a third is there. The first three properties of
`loop_orderly` are about clients that leave by their own doing, one session being up.
Outside those limits the code does not keep them: a slow client, one removed by
`SwitchSession` or `KillSession` and one that attaches while the first tab loads
(`Early`) each leave a message under an id that has another owner, or a client
the screen does not know. The notes in the list of hazards say so.

`LoopSurvives` has two parts: the loop panics only of an `unwrap` of a session
that is not there or of a screen that has failed, and in `sshd`'s server, as long
as tabs stay, the loop ends only when it is killed. When the last tab of such a
server is closed the loop outlives it, but the next client cannot be added to a
screen without tabs, whose thread fails and ends the loop.
The combination of `Closing` and `Switching` (291,000 states) adds nothing and
is not in the run.

**Fairness.** Weak fairness of the listener's second step, the main loop, the
screen and of the steps of a router that has something to do: threads of the
operating system that are not blocked. A client that has been told to leave
does, unless it is slow: its program returns from `start_client`. Nothing is
assumed of users: nobody need ever detach or resize.

## 5. ServerLocks

**State.** Readers, writer and waiting writers of the locks `data`
(`session_data`) and `state` (`session_state`); the channel to the main loop; for every
thread the handler it is in and the steps left of it; the registry as far as
it decides which steps follow. A handler is a sequence of steps, read off the
code: take and give back a lock, send, change the registry. Rust's rules for
temporaries decide where a guard ends: `if let Some(x) =
session_state.read().unwrap()...` holds it through the body, a `for` over it
through the loop, a `let` only through the statement. Steps that depend on the
registry (`tell all`, `exit`, `evict`, ...) are replaced by what they expand to
when they are reached.

**The lock.** A reader waits behind a waiting writer, as in the standard
library's futex `RwLock` of the pinned toolchain. `HandlersEnd` relies on it:
with locks that prefer readers, routers that read `session_data` all the time keep the
main loop from ever writing it.

**Left out or merged.** Sends to the screen and plugins never wait. The threads
that `SessionMetaData::drop` joins are one, `Screen`. A change of the registry
is one step with taking the lock and giving it back, and so is a lock that is
taken for one statement that cannot wait: nobody waits for good for a thread
that holds it. The sender's removal and the entry's are one step. Probes and
`NewClient` are left out: the session is up in `Init`.

**Constants.** `Resizing`, `Slow`, `Requests` and `Patient` select who disturbs.
`Patient` is a bound: the session's threads make their next request when the last
one has been handled, where the code may queue many. `QueueSize` is 50 in the
code; 6 never fills with two patient clients, and stands for a channel with room; 1
stands for a full one. Two clients are enough for one to leave while the other
attaches, resizes or is slow: the lock-order inversion needs two threads, the
full channel a third.

| run | instance | shows |
|---|---|---|
| `locks_patient` | room in the channel, a slow client, no resizes, with fairness | `TypeOK`, `HandlersEnd` |
| `locks_contended` | foreground server, slow client, resizing client, channel of 1 | `OnlyKnownDeadlocks` |

`OnlyKnownDeadlocks` names all ways in which the main loop may stop for good:
resize against announcement (lock order inversion), the full channel, and the
loop that sends `UnblockInputThread` to every client (`lib.rs:489`), which still
reads `session_state` when the removal of the one whose send failed wants to write
it: the main loop then waits for itself. Each of the disjuncts is needed. A set of
threads is stuck when each waits for another of the set, so the property is about
partial deadlocks that TLC's own check for deadlock does not see. `HandlersEnd` is
checked without these three causes; from it follows that a client to which a
frame could not be sent is removed.

**Fairness.** Weak fairness of every thread's next step. Strong fairness of
`Join`: the session's threads find their `Exit` behind finitely many
instructions, so the join is over in the end, although the thread may be busy
again and again before.

## 6. PtyTerminals and PaneLife

**State.** One tab that starts with a layout. `table` and `child` are the two maps
of the OS interface, `runs` the processes that were started; `toPty`, `toScreen`
and `toWriter` the channels between the pty thread, the screen and the pty writer;
`todo` what is left of the pty thread's handler; `panes`, `waiting`
(`pids_waiting_resize`), `area`, `pending` and `buffered` what the tab knows;
`blocked` and `resumes` the client's input thread. `of`, the request that a
process or pane is for, is not in the code, which has ids, and reuses them.

**Actions.** The pty thread takes an instruction and goes through its steps; the
screen handles an instruction; the writer applies the cached resizes of an event;
a process ends, its waiter reports it, its listener reads and finds the end; the
user opens, splits, closes, presses a key on a held pane and resizes; an
`UnblockInputThread` arrives.

**Constants.** The commands are a shell, a command whose pane is held when it ends,
one that is suspended at first, and ones that do not exist. `Layout`, `Commands`, `Splits`,
`MaxRequests`, `MaxKeys`, `SplitRoom` bound what users do; `Behind` and
`MaxResumes` what is under way. `FdsReused`, `Quick`, `Early` and `Prompt` select how hostile the
operating system is.

| run | instance | shows |
|---|---|---|
| `pty_panes` | a layout with one command; two requests (splits of a command that does not exist, closes, new sizes) and one key | `TypeOK`, `PanesFitTerminals`, `OnlyHungUpStray`, `InputResumes`, `PanesLiveAsPromised` |

One pane of the layout, one that is asked for and one id given back are what it
takes for a message to name an id with another owner. `PanesLiveAsPromised` is the
refinement: with the mapping at the end of the module every step of the terminals
is a step or a stutter of `PaneLife`, and its liveness (a process gets its pane, its end
is shown, what is run again starts) holds.

Three limits of the run are the code's: with `Quick` a process that ends before the
screen has heard of its pane leaves a pane that stays for good; with `FdsReused`
a held pane's descriptor, closed by the listener, may be another terminal's, which
then gets its size; and a command that does not exist and is asked for without
`hold_on_close` ("typo") is told to nobody: the input thread of the client stays
blocked (`InputResumes`), and a pane that a layout has made for it outlives its
terminal id (`PanesFitTerminals`). Each stands as a constant that the run sets to
the mild value.

**Fairness.** Weak fairness of the pty thread, the screen, the writer, the arrival of
`UnblockInputThread`, and of what the operating system does with a process that has
ended or was told to hang up. No other process ever has to end and no user to act.

## 7. TerminalGrid

**State.** `grid` is `struct Grid`: the rows above the viewport, in it and below
it, the cursor, the saved one, the scroll region and the origin mode (`erasure_mode`), the
alternate screen, the count of scrollback lines; `asked` the size the pane was given; `events` what
waits while the user is scrolled back; `printed` and `handled` (history) say which
character came last. A cell is blank or names the print that wrote it: that is
what it takes to say that text is lost, doubled or out of order.

**Actions.** `Prints`, `Operates` (one operator for each of the methods that escape
sequences call), `Resize` (`change_size`), `Scroll` (keys, drags, clear).

**Sessions.** All operations at once are out of reach, and no program mixes them:
a shell with full-screen programs, a program that draws in place, an editor with scroll regions,
a user with a mouse, and the rare operations that part lines. Every property says, with
`Without(...)`, for which of them the code does not keep it.

| run | instance | shows |
|---|---|---|
| `grid_panes` | five sessions, sizes 2×2, 3×2, 2×3, scroll buffer 2, three prints, three operations, one resize, two scrolls, at most one event waiting | `TypeOK`, `RowsAreInOrder`, `OutputInOrder`, `TextSurvives`, `BottomReached` |

A row of two cells wraps at the third character; two rows and a buffer of two
let a line scroll out of the viewport and out of the buffer; a third row and a
third column join and part what was wrapped.

What the properties leave out is what the code does not keep, and each was seen in
a counterexample:
- The frozen pane: "Scroll down to bottom in focus pane" (`actions.rs:139`,
  `cli.rs:349`) is not kept when the pane grows, or rows join, while the user is scrolled back
  (`grid.rs:709` moves only when the viewport is as long as the pane is high), and
  also without a resize when a wrapped row follows one that is not full.
  `BottomReached` is therefore about panes that have been resized for the last time
  before, and rows that are full.
- CSI 3J, ESC M and scroll regions can leave a wrapped row without the line it goes
  on (`grid.rs:804-812` gives up, 717 panics). `WrapsHaveLines` and `TextSurvives` exclude them.
- A newline on the last line outside a region makes the viewport one row too tall; a
  region may reach beyond the height.
- Erasing and deleting at the right edge (1K, 1J, CSI P) makes rows wider than the
  pane; erasing a whole line (2K) forgets that it was wrapped.
- A dragged selection and a reset end the scrolling without handling what waits:
  excluded from `OutputInOrder`.
- Setting the alternate screen twice drops the main screen.

## 8. TabPanes

**State.** `tab` is `struct Tab`: which panes are tiled, floating and suppressed (and
by which pane), which one each client looks at in both layers, whether floating
panes show, whether a pane fills the screen and what it hides, the bars and which
of them cannot be selected, the clients, `focus_pane_id`, and whether the tab is open,
closed or a handler has failed. `alive` are the terminals whose processes run.

**Actions.** One per request that opens, splits, replaces, closes, suppresses, floats, embeds,
hides, focuses, enlarges or breaks out a pane, adds or removes a client, or draws.

**Abstractions.** `TileRoom` and `FloatRoom` are the numbers of panes that fit.
Which pane is the neighbour, the next, or the one last active is any (`x`, of
`Choices`, stands for the choices of one request). Stacks, swap layouts, `max_panes`,
the geometry and instructions held back while the tab loads are left out. The id of a
pane that is left behind by the tab is not used again.

**Disorder.** Eight kinds of events, listed in the module, come in orders that the code
does not stand; `NeverBroken` is violated with each of them, and each is a
constant, so that the rest of the behaviour can be looked at without it.
`ClientsSeePanes` is violated with "late render", "focus in layout", "late bars" and
"joins bars", its part about fullscreen with "replaced hidden" and the last three.
`OnePlace` and `FloatFocusIsShared` hold under every disorder, which is proved.

| run | instance | shows |
|---|---|---|
| `tab_panes` | 2 clients, 2 terminals, 2 plugins, room for 2 tiles and 2 floating panes, no disorder | `TypeOK`, `NeverBroken`, `OnePlace`, `ClientsSeePanes`, `FloatFocusIsShared`, `PanesSurvive` |

Two clients can look at different panes and one of them can leave; four panes
can be tiled, floating, waiting and a bar at once, and there is a request for which
there is no room. Clients, terminals and plugins are symmetric: the code compares
their numbers only to choose, and what it chooses is any here. The session is not
mirrored in the run; with `Mirrored = TRUE` (87,570 states) everything holds
too. `PanesSurvive` names the six ways in which a running process is left
without a pane: they are the code's, and no other exists.

## 9. Plugins

**State.** `bridge` is `WasmBridge` (the clients it has listed, plugins being loaded, the
reloads put off, cached events and resizes); `running` the `plugin_map`; `cache` the compiled
module; `file` the version of the plugin's file; `tasks` the steps left of each task
(`PluginLoader`) and of the thread itself as it adds a client; `toPlugins` the
`ApplyCachedEvents` under way; `screen` what the screen asked for and was told.
All plugins run one file: plugins of different files meet only in the list of clients.

**Actions.** Requests (`Load`, `Unload`, `Reload`, `ResizePlugin`, `AddClient`,
`RemoveClient`, `Update`); the steps of a task, one for every access to what it
shares; the thread's own; and the tasks that tell an instance news or its size.

| run | instance | shows |
|---|---|---|
| `plugins_clients` | 2 clients, 2 plugins, 2 sizes, 4 requests, modules taken and broken builds, up to the first failure | `TypeOK`, `FailsByMishap`, `ClientsHaveInstances`, `InstancesAreCurrent`, `LoadingEnds` |

Four requests are a plugin started, a client added, a reload and a close or news
meanwhile. `LoadingEnds` says that when no task can go on, nothing is being loaded, put
off or kept: nobody waits for everybody.

**Mishaps.** Two things make a task fail whatever else is kept in order: the file does not
compile ("broken build"), and the compiled module is looked for in the cache while a task or
the thread has it in its hands ("module taken", `plugin_loader.rs:460`: it is taken out, and put back
when an instance has been made). Both happen in the run. `FailsByMishap` says
that the first failure is always one of the two: the module is never lost, and an instance to copy,
clone or reload is always there. After a failure nothing is promised of the plugin, nor of the
clients that come, so `SpecToFailure` ends there (`plugin_loader.rs:372`: the next reload finds no
first instance).

**Disorder.** Seven other kinds of events the code does not stand, each a member of the constant
`Disorder` that the run leaves out. What they break up to the first failure:
"came late" and "closed early" `FailsByMishap`, `ClientsHaveInstances` and
`InstancesAreCurrent`; "deserted" (a reload without any client) `FailsByMishap`; "loaded late",
"late resize", "reordered" and "edited" (`plugin_loader.rs:171`) `InstancesAreCurrent`.
`LoadingEnds` holds with each of them. Besides: an event that is cached forgets for which client
it is (`wasm_bridge.rs:540`), and `remove_client` leaves the client's instances running.

## 10. TiledPaneGrid

**State.** Of every tiled pane its place, its size in cells and its share of the
screen along both axes; the area panes are laid out in, the viewport, the size of the screen; whether
a layout has found no room since (`squeezed`), and whether an error has ended the screen thread (`fatal`).

**Actions.** Splitting, opening a pane where there is room, closing, resizing a
pane (and again, twice as far, if no size changed), resizing the screen.

**Abstractions.** Shares are counted in parts: `Whole` is 100 %, `Step` the 5 % of one
resize; 1600 and 80 divide evenly as often as four panes can be split. The layout of
a row is left to an external solver (cassowary) in the code: here it is
any rounding of the shares that the constraints allow. Stacks, fullscreen and swap
layouts are left out.

| run | instance | shows |
|---|---|---|
| `tiled_panes` | up to 4 panes, with and without a bar, screens of 23×11, 20×12 and 2×12 cells; any splits, and two resizes of panes, new screens or (at most one) closed panes | `TypeOK`, `PanesTile`, `ResizeObeys` |

Four panes are the fewest that are aligned in rows and columns at once; one screen has odd
sizes, and one has no room. Three operations with one screen (84,795 states) were checked once and hold.

Found on the way, and excluded by the properties' premises:
- A screen too small sets `display_area` all the same (`panes/tiled_panes/mod.rs:799-802`);
  the same size again counts as unchanged, and a later resize of a pane is fatal
  (`tab/mod.rs:2102`). `area = screen` in the premises is this.
- "Increase" towards a neighbour may shrink the pane when the side is blocked
  (against `tiled_pane_grid.rs:235-236`): `ResizeObeys` speaks of sides where
  a resize is possible.
- A decrease when an aligned pane is too narrow makes shares that do not add up
  (105 %); later layouts then depend on the order of a `HashSet`, and three
  resizes can make one find no room, which is fatal. `SharesAddUp` in the premises is this.
- With seven panes or more, `discretize_spans` gives one cell to each pane in doubt, so a
  row may overlap or overflow, against "without gaps or overlap"
  (`pane_resizer.rs:92`). This is read off the code: such screens are beyond the run.

## 11. What is proved

Every theorem is checked by TLAPS for all values of the constants that the
`ASSUME`s of its module allow: any number of clients, tabs, panes and
connections, finitely many of each. A theorem with a further premise states it as
an assumption of its own, and the premise is a choice of constants under which a
run checks the same property.

| module | theorem | states |
|---|---|---|
| `ScreenTabsProofs` | `TypeCorrect` | `Spec => []TypeOK` |
| | `ContiguityHolds` | `Spec => []PositionsContiguous` |
| `ScreenFocusProofs` | `ToggleLeadsBack` | not mirrored: `Spec => []ToggleReturns` |
| | `CalmInvariant` | orderly: `Spec => []Calm` |
| | `EveryClientHasOneTab` | orderly: `Spec => []OneTabPerClient` |
| | `ScreenSurvives` | orderly: `Spec => []FailsOnlyWithoutTabs` |
| | `OnlyOneClientMoves` | orderly: `Spec => OneClientMoves` |
| | `MirroredClientsStayTogether` | `Spec => MirroredStep` |
| `TabPanesProofs` | `TypeCorrect` | `Spec => []TypeOK` |
| | `PanesAreInOnePlace` | `Spec => []OnePlace` |
| | `FloatingFocusIsShared` | `Spec => []FloatFocusIsShared` |
| | `NothingBreaks` | no disorder: `Spec => []NeverBroken` |
| | `ClientsSeeTheirPanes` | no disorder: `Spec => []ClientsSeePanes` |
| | `RunningPanesStay` | no disorder: `Spec => PanesSurvive` |
| `ServerLoopProofs` | `TypeCorrect` | `Spec => []TypeOK` |
| | `RoutersOwnIds` | orderly: `Spec => []RoutersOwnTheirIds` |
| | `OnlyAskersAreRemoved` | orderly: `Spec => NoStrangerRemoved` |
| | `ScreenKnowsItsClients` | orderly, one client starts the session: `Spec => []ScreenKnowsClients` |
| | `PanicsAreExcused` | the loop panics only of a session or a screen that is gone |
| | `LoopSurvival` | orderly `sshd`: `Spec => []LoopSurvives` |
| `ServerLocksProofs` | `TypeCorrect` | `Spec => []TypeOK` |
| | `MainAloneNests` | no other thread holds `session_state` over a step or writes `session_data` |
| | `DeadlocksAreKnown` | `Spec => []OnlyKnownDeadlocks` |
| `PluginsProofs` | `TypeCorrect` | `Spec => []TypeOK` |
| `PluginsOrderProofs` | `FailsOnlyByMishap` | calm: `SpecToFailure => FailsByMishap` |
| | `ClientsHaveTheirs` | calm: `SpecToFailure => []ClientsHaveInstances` |
| | `InstancesStayCurrent` | in turn: `SpecToFailure => []InstancesAreCurrent` |
| | `NothingIsLeftOver` | in turn: `SpecToFailure => []NothingIsKept` |
| `PtyTerminalsProofs` | `TypeCorrect` | `Spec => []TypeOK` |
| | `PanesHaveTheirIds` | missing commands of the layout hold on close: a pane has its id in the table |
| | `PanesHearOfTheirOwn` | mild: `Spec => OnlyHungUpStray`, and each pane ends with its own process |

### ScreenTabsProofs

Contiguity, `{positions} = 0..n-1`, is not inductive alone: that closing a tab
leaves no hole needs that no other tab shared its position. The inductive
invariant is therefore `ScreenOK /\ Contiguous /\ Distinct`. Only `AddTab` and
`CloseOneTab` change the bar; every other method is shown to `Keep` it, and a
handler's proof is a chain of these lemmas. Two operators loop over a sequence
(`Without`, `DrainSwitches`). They are recursive functions; since their type cannot
be shown with the library's induction theorems, it is shown by a least
counterexample: `KeptExists` and `AfterExists` establish the function's equations,
and a minimal index at which its value is ill-typed contradicts them. The
assumptions are those of the module: client ids are positive numbers, finitely
many, `MaxIndex` is a natural number, and the flags are Boolean.

### ScreenFocusProofs

`ToggleLeadsBack` follows from the invariant above: what `ToggleTab` pops is what the
switch before pushed, and the position it names is the old tab's alone
(`Distinct`). It holds whatever the order of requests.

The others are about an *orderly* session, `Orderly == ~Mirrored /\ ~LateRequests /\
~Overlap`: requests wait for tabs that load and die. That a client looks at one tab
is not inductive: while a tab loads, its client is listed in it without looking at it.
The inductive invariant `Calm` says besides that the clients of a loaded tab are those
that look at it (`Seats`), that each pending tab is that of one entry of `loading`, in
order (`Waits`), that nothing else is promised to a pending tab (`Listed`), and that at most
one tab is dead, and only when nothing loads (`OneDies`). Every method is proved once
for a screen without pending tabs (`Quiet`), together with three facts that compose:
it brings no tab or client (`Shrinks`), and it takes at most one client away from a tab that
stays (`Alone`). `CloseOneTab` and `Render` are where this
matters: closing a tab moves all its clients, each to the tab its own history names, and
`Alone` speaks of tabs that stay. `NewTab` and `ApplyLayout` are the only instructions that
come while a tab is pending and have proofs of their own.

`MirroredClientsStayTogether` is for every session, orderly or not. What is handed from method to
method is `Level`: all clients look at one tab, have come there by one way, and a tab that has loaded
lists all of them or, if it is another, none. Switching a tab, closing one, attaching a client and
loading a tab each keep it. Two places do not. `DrainSwitches` applies the switches that waited for a tab one
after the other, and clients that come with them have no history; but nothing dies of a switch, so `Whole` is
enough there, which asks only that no tab is dead and all look at one. `ToggleTab` uses up the history of
the client that asked and not that of the others; `PopStaysTogether` shows that the `Render` after it moves
all to the same tab, which is where `CanReturn` is needed.

### TabPanesProofs

`OnePlace` and `FloatFocusIsShared` hold under every disorder. They rest on `Sound`: a
pane is in one layer, or waits for one other pane, and a floating focus, also the one of a
client that has left, is one pane for all and floats. A request is a chain of methods, each
of which `Keeps` that; a pane that is added or comes back is `Nowhere` before.

`NeverBroken` and `ClientsSeePanes` need `Disorder = {}`. Their invariant (`Viewed`) says what a
tab looks like between two requests: the tile that each client looks at, one that has left and may
return included, can be selected, and what fills the screen is what all look at (`Looks`); nothing
waits for a bar but the bar itself, and what cannot be selected is a tile or has hidden itself
(`BarsStay`). Within a request this is broken and mended: the lemmas about closing say whose focus
is lost, those about focusing that every client has one again. All of it is for both values of
`Mirrored`.

`PanesSurvive` is about one step, from a tab that is `Ready` (the two invariants above). Each method
`Holds` all panes but those it names: closing a pane loses that one and, when it does not show, what
waited for it; adding one loses nothing if there is room; replacing one keeps it waiting, and since
the replacement can be selected the tab does not close around it, which is where order is needed. What
strays in a step is then read off its methods (`StraysAreLost`).

### ServerLoopProofs

`TypeOK` needs that a new client finds an id among `1 .. Cardinality(Conns)`: the ids in use
belong to different connections, none of which is the new one (`IdsAreKept`), so there are fewer of
them than connections. Around it stands what types the messages under way (`Typed`).

`RoutersOwnTheirIds` is about *orderly* sessions: `~Early`, and settings without slow clients,
`sshd`'s server, a last tab that closes, switched clients, and the roles "init" and "kill". The
inductive invariant (`Calm`) says that whatever is on its way to the loop and removes a client was sent
by that client's own router, as its last message (`RequestsAreOwn`), and that the removal under way is
of the client that asked (`RemovalIsOwn`): no id changes hands while it is named somewhere, and
`NoStrangerRemoved` follows.

`ScreenKnowsClients` is about the screen's clients at the end of its queue, a recursive function. Its equations
and what a message more or less does to it (`AfterOneMore`, `AfterTheFirst`) are shown by a
least counterexample, as in `ScreenTabsProofs`; after that the proof speaks of `After` alone. The premise
besides `Orderly` is `OneCreator`: one client at most starts the session, as a second `zellij` finds the
socket and attaches. The invariant (`Known`) adds to `Calm` that a client comes once, before it leaves and
under an id still its own (`ComesOnce`), so the screen is told to add it before it is told to forget it and no
`RemoveClient` for an older owner of the id follows; that `NewClient` comes once; and that until the first
tab is loaded nobody but the creator is there, as the others see a session only when the screen has a tab
(`SessionStarts`, `TabStarts`). That last part is what `ApplyLayout` needs, which adds the creator without
being told: it is the one client that has attached, or it has left and the screen was told so too early,
the case for which `ScreenForgets` excuses creators of tabs.

`LoopSurvives` has two parts. `PanicsAreExcused` proves the first for all settings. The second, about
`sshd`'s server while its tabs stay, is proved when `~Early` and no client of such a server is slow or
"new" (`SshOrderly`, which the settings of `loop_leaving` satisfy): what needs a session stands behind
the `NewClient` that starts it (`Prepared`), and nothing takes the session or the screen away while the
loop runs (`Steady`).

### ServerLocksProofs

Here the theorems hold for all constants: any clients, slow or resizing, both kinds of server, any
capacity of the channel, patient threads or not. The idea is that a handler is a *path*: before each
of its steps the thread holds one of four things (no guard, `session_state`, `session_data` to read,
`session_data` to write), and `Goes` says which step leads from which holding to which. `Path` is closed under
concatenation, `Tail` and `FlattenSeq`, so every handler and everything a step expands to is shown to be a
path by its text. The invariant says that what a thread holds, according to the locks, is where a path
of its remaining steps to "nothing held" begins (`Works`), that who waits for a lock is about to write it, and
that a new client's router is not at work before the listener has entered it. `TypeOK` follows: a
thread without steps holds nothing.

`OnlyKnownDeadlocks` is then read off the holdings. Nobody but the main loop holds `session_state` or writes
`session_data`, so the main loop never waits where it reads; where it wants to write `session_data`, the
reader is a router that gives it back, sends, or is in a `TerminalResize`; where it wants to write
`session_state`, it is itself the reader, which `Goes` allows in `UnblockInputThread` only. Each case is one
of the known ways or a thread that waits for nobody. That the main loop does come to the end of its handlers
(`HandlersEnd`) is liveness and stays with TLC.

### PluginsProofs and PluginsOrderProofs

`TypeOK` holds under every disorder. What a task has left to do is a `Line`: a step that makes
an instance is followed by the one that puts it in the map, and the last step tells the
thread. So a task holds a module just when it is about to put one, and knows the size then. The
counters of events stay within the requests, those that are cached or put off included
(`Bounds`): an event that is kept is counted once, when it is kept or when it is given to the
instances.

`FailsOnlyByMishap` and `ClientsHaveTheirs` are about *calm* sessions, up to the first failure. `Calm` allows
the two mishaps of section 9, and late resizes, news that overtake each other and an edited
file, which touch what an instance knows and not whether it is there. It leaves out "came late",
"closed early" and "deserted", which break `FailsByMishap`, and "loaded late", since a reload is alone in the proof; with
that one both stay with TLC. The invariant holds until a mishap (`StepsInOrder`): who fails has its last
step still to do, so that nothing is settled when the behaviour ends there (`GivenUp`). The hard part is that what a client has is put together by the
tasks of the plugins and by the thread at once, each by a list taken before. The invariant counts an
instance as had when it is in the map *or* a task will put it there (`Has`), and a client as
listed when the thread will list it (`Listed`). Then every plugin either has its first instance
still to be cloned or is had by all who are listed (`AllHave`), and what has a pane is
what is had (`OpenHave`). A step finds what it needs in the map, or an earlier step of the same task
puts it there (`AllFine`); the compiled module is in the cache or in a task's hands as soon as
anything runs, so that whoever does not find it meets one who has it (`ModuleStays`); tasks and `ApplyCachedEvents` under way are for different plugins, and
who reloads is alone (`AllTidy`, `Apart`); and a reload that is put off finds a client to begin with
(`SomeoneIsThere`). When nothing is under way `Has` is the map and `Listed` the connected clients,
which is `ClientsHaveInstances`. `NoneIsNoInstance` and `NoneIsNoNews` say that Rust's `None` is
neither a plugin nor a list of events.

`InstancesAreCurrent` needs that nothing but the mishaps is out of order (`InTurn`): section 9 names the kinds that
break it. The invariant `CurrentInv` adds to the one above, in
five parts, what is still to come. `KeptWhileLoading`: events and sizes are kept for a plugin
exactly while a task works for it or its `ApplyCachedEvents` is on its way (`Covered`), and a reload is put
off only as long as something is being loaded. `SizesAreKnown`: of the resizes that an instance's tasks will
still try, the one with the largest number is the size of the pane, or it is too late and the
instance has that size already (`EndsAt`); each number is given once, so trying them in any order
ends there. `NewsIsKnown`: the last news is among those an instance will be told, or it was told it last,
unless the screen has been asked to say it again or a task will ask it. `CodeIsNew`: what runs an
older file is about to be made anew (`Renewed`), unless a reload is put off, and the module that others take is the new one,
since the first plugin of a reload compiles before they do. `NewcomerAlone`: nobody hears
of a client before it has its copies. When nothing is under way nothing is covered, no step is left, and each
part says of an instance what `InstancesAreCurrent` does. `NothingIsLeftOver` is the part of `LoadingEnds` that
does not speak of `ENABLED`.

### PtyTerminalsProofs

What the layout starts, and what is told of it, is put together by folds, which the prover cannot follow.
They are shown equal to recursive functions, whose equations hold by a least counterexample as
in `ScreenTabsProofs` (`FlatExists`, `StartedExists`). `TypeInv` adds to the types that the
layout is the first thing the pty thread hears of, when nothing has been started yet (`Fresh`).

`PanesHaveTheirIds` counts *claims*: pairs of a terminal id and the request it was given out for. A claim
is on the screen (`OnScreen`), about to be closed (`ToClose`), on its way to the screen (`Coming`) or being
started (`Starting`), and in one of these places only. No two claims share an id or a request (`OneToOne`), and
each id that is claimed is in the table, so that the next terminal gets another. Requests are numbered, and
a number that is used does not come again (`NumbersOK`). The premise `LayoutHolds` is needed: a pane that a layout
has made for a missing command that does not hold outlives its id.

`PanesHearOfTheirOwn` is about *mild* systems (`Mild`): a process that was hung up is done with before the next
spawn (`Prompt`), none ends before its pane is shown (`~Quick`), and `LayoutHolds`. The invariant `LifeInv` adds
whose process a message is about: a process that has not been reported is the child in its claim's terminal, or
was hung up and its id is free (`RunsOK`); when its last message is taken, no pane but its own has the id
(`MailOK`); one process at most is at work for a request (`OneAtATime`); a held pane has none (`HeldOK`), and a
command is run again only then (`RerunsOK`); and the layout is applied once, before anything else is shown
(`LayoutOnce`). The theorem says more than `OnlyHungUpStray`, which lets a process that was hung up close another's
pane, as it may without `Prompt`.

### What stays with TLC

- *Liveness under fairness* (`LeaversAreFreed`, `HandlersEnd`, `InputResumes`, the liveness
  of `PaneLife` in `PanesLiveAsPromised`) and `LoadingEnds`, which speaks of `ENABLED`: out of
  the prover's reach.
- *Induction over data*: what a recursive definition computes for every input cannot be shown,
  since the library's induction theorems take an operator as a parameter. This concerns
  `TerminalGrid` (rows are joined and split by folds) and the layouts of `TiledPaneGrid`.
- In `PtyTerminals`: that panes fit their terminals (the half of `PanesFitTerminals` about sizes),
  `OnlyHungUpStray` without the premises above, and the refinement of `PaneLife`.

## 12. What is not modelled

Everything `not_modelled` in `PROJECT.json`, with the reason. In short: background
jobs are timers; rendering, parsing, configuration, the plugin API, the user
interfaces of the default plugins and developer tooling keep no state whose order of
events matters, and stay with the unit tests. Of the router, `route_action` is a
table from actions to instructions and appears only where an action ends the router
or reaches the main loop. `ActiveClients` and `Log` change nothing.

Of the parts that are modelled, these are not: the mouse, search, marking, renaming,
stacks and swap layouts of a tab; wide characters, styles, sixel, insert mode and tab stops of the grid;
workers, permissions, pipes and downloads of plugins; editors and the session layout of the pty
thread; the channels of `sshd` and the hand-over between sessions.

------------------------------ MODULE ServerLocks -----------------------------
(***************************************************************************)
(* Who waits for whom in the server: the two RwLocks session_data and      *)
(* session_state, and the bounded channel to the main loop, as the main    *)
(* loop and the listener (zellij-server/src/lib.rs), the router threads    *)
(* (route.rs) and the screen thread use them.                              *)
(*                                                                         *)
(* A thread's work is a sequence of steps, `todo': the locks its handler   *)
(* takes and gives back, in the order of the code (a guard lives as long   *)
(* as the statement, the if let body or the for loop it is a temporary     *)
(* of), its blocking sends, and the changes of the client registry that    *)
(* decide which steps follow.  The channels to the screen and the plugins  *)
(* are unbounded: a send to them never waits and is left out.              *)
(*                                                                         *)
(* What the instructions do to the session is the subject of ServerLoop.   *)
(***************************************************************************)
EXTENDS Naturals, FiniteSets, SequencesExt

CONSTANTS
    Clients,     \* clients; each names its router thread too
    First,       \* the one that started the session
    NoThread,
    Foreground,  \* start_server(.., foreground): the server of sshd
    Slow,        \* clients whose ClientSender may run out of buffer space
    Resizing,    \* clients whose terminal changes its size
    Requests,    \* what the session's threads ask the main loop for
    QueueSize,   \* capacity of the channel to the main loop (50 in the code)
    Patient      \* bound: the session's threads ask again only when their last
                 \* request has been handled

ASSUME ClientsAssumption == IsFiniteSet(Clients) /\ First \in Clients
ASSUME SubsetsAssumption == Slow \subseteq Clients /\ Resizing \subseteq Clients
ASSUME FlagsAssumption   == {Foreground, Patient} \subseteq BOOLEAN
ASSUME RequestsAssumption == Requests \subseteq {"render", "unblock", "close", "switch"}
ASSUME QueueAssumption   == QueueSize \in Nat \ {0}

Main     == "main"
Listener == "listener"
Screen   == "screen"    \* and every other thread SessionMetaData joins
Threads  == {Main, Listener, Screen} \cup Clients

Locks == {"data", "state"}

ASSUME ThreadsAssumption ==
    NoThread \notin Threads /\ {Main, Listener, Screen} \cap Clients = {}

VARIABLES
    readers,   \* the threads that read each lock
    writer,    \* the thread that writes it
    waiting,   \* the writers that wait for it
    queue,     \* the channel to the main loop
    doing,     \* the handler each thread is in
    todo,      \* what is left of it
    clients,   \* SessionState.clients
    sized,     \* those of them with a size
    senders    \* client_senders

locks    == <<readers, writer, waiting>>
registry == <<clients, sized, senders>>
vars     == <<locks, queue, doing, todo, registry>>

Instruction ==
    [kind : {"attach", "exit", "remove", "detach", "switch", "unblock",
             "render", "close", "kill"},
     who  : SUBSET Clients]

Msg(kind, who) == [kind |-> kind, who |-> who]

-----------------------------------------------------------------------------
(* Steps *)

Step(do, on) == <<[do |-> do, on |-> on]>>

Read(l)   == Step("read", l)
Write(l)  == Step("write", l)
Free(l)   == Step("free", l)
Glance(l) == Step("glance", l)    \* read it and give it back at once
Touch(l)  == Step("touch", l)     \* write it and give it back at once
Send(m)   == Step("send", m)
Tell(c)   == Step("tell", c)

(* Changes of the registry: each is session_state.write() for one statement. *)
SetSize(c)      == Step("size", c)
RemoveClient(c) == Step("drop", c)    \* remove_client!

(* if let Some(min_size) = session_state.read()..: the guard lives through  *)
(* the body, which takes session_data                                       *)
AnnounceSize == Read("state") \o Step("announce", Main) \o Free("state")

(* The screen and the plugins are told, each under session_data.write().    *)
Announce == AnnounceSize \o Touch("data") \o Touch("data")

(* mutant: one guard for both sends, and another taken under it             *)
DepartKeepingGuard(c) ==
    RemoveClient(c) \o AnnounceSize \o Write("data") \o Touch("data") \o Free("data")

Depart(c) == RemoveClient(c) \o Announce

Each(Op(_), order) == FlattenSeq([i \in DOMAIN order |-> Op(order[i])])

(* `*session_data.write().unwrap() = None' joins the session's threads      *)
Shutdown ==
    Write("data") \o Step("join", Screen) \o Free("data") \o Step("return", Main)

(* The handlers of the main loop *)
HandleAttach(c) ==
    Read("data") \o SetSize(c) \o Glance("state") \o Tell(c) \o Free("data")

HandleUnblock == Read("state") \o Step("tell all", Main) \o Free("state")

HandleExit(c) == IF Foreground THEN Read("state") \o Step("exit", c) ELSE Depart(c)

HandleRemove(c) == Glance("state") \o Depart(c)

HandleDetach(order) == Each(Depart, order)

HandleSwitch(c) == Announce \o Tell(c) \o RemoveClient(c)

HandleRender(order) == Glance("state") \o Each(Tell, order)

HandleRenderNone == Read("state") \o Step("last tab", Main)

HandleKill == Read("state") \o Step("evict", Main) \o Shutdown

Handler(m) ==
    CASE m.kind = "attach"  -> {HandleAttach(c) : c \in m.who}
      [] m.kind = "unblock" -> {HandleUnblock}
      [] m.kind = "exit"    -> {HandleExit(c) : c \in m.who}
      [] m.kind = "remove"  -> {HandleRemove(c) : c \in m.who}
      [] m.kind = "detach"  -> {HandleDetach(order) : order \in SetToSeqs(m.who)}
      [] m.kind = "switch"  -> {HandleSwitch(c) : c \in m.who}
      [] m.kind = "render"  -> {HandleRender(order) : order \in SetToSeqs(m.who)}
      [] m.kind = "close"   -> {HandleRenderNone}
      [] m.kind = "kill"    -> {HandleKill}

(* The registered clients, each removed after session_state is given back   *)
EvictAll ==
    {Free("state") \o Each(RemoveClient, order) : order \in SetToSeqs(clients)}

DetachAll == Free("state") \o Send(Msg("detach", clients))

(* mutant: clients are detached in a loop over the registry                 *)
CloseLastTabUnderGuard ==
    {Each(Depart, order) \o Free("state") : order \in SetToSeqs(clients)}

CloseLastTab == IF Foreground THEN {DetachAll} ELSE EvictAll

Exit(c) ==
    IF Cardinality(clients) = 1 THEN DetachAll ELSE Free("state") \o Depart(c)

(* send_to_client! removes the client when the send fails.                  *)
SendToClient(c) ==
    {<<>>} \cup {RemoveClient(d) : d \in {c} \cap Slow \cap senders}

(* What a step that looks at the registry or at a client turns into         *)
Expansion(s) ==
    CASE s.do = "tell"     -> SendToClient(s.on)
      [] s.do = "tell all" -> {Each(Tell, order) : order \in SetToSeqs(clients)}
      [] s.do = "announce" -> {IF sized = {} THEN <<>> ELSE Touch("data")}
      [] s.do = "exit"     -> {Exit(s.on)}
      [] s.do = "evict"    -> EvictAll
      [] s.do = "last tab" -> CloseLastTab

Expanding == {"tell", "tell all", "announce", "exit", "evict", "last tab"}

-----------------------------------------------------------------------------
(* Threads at work *)

Idle(t) == doing[t] = "idle"
Gone    == doing[Main] = "gone"
Now(t) == todo[t][1]

Does(t, what) == ~Gone /\ todo[t] # <<>> /\ Now(t).do = what

(* t goes on with these steps *)
Continue(t, steps) ==
    /\ todo' = [todo EXCEPT ![t] = steps]
    /\ doing' = [doing EXCEPT ![t] = IF steps = <<>> THEN "idle" ELSE @]

Proceed(t) == Continue(t, Tail(todo[t]))

Begin(t, what, steps) ==
    /\ ~Gone
    /\ Idle(t)
    /\ doing' = [doing EXCEPT ![t] = IF steps = <<>> THEN @ ELSE what]
    /\ todo' = [todo EXCEPT ![t] = steps]

(* std::sync::RwLock: a reader waits behind a waiting writer too.           *)
MayRead(l)  == writer[l] = NoThread /\ waiting[l] = {}
MayWrite(l) == writer[l] = NoThread /\ readers[l] = {}

Changing == {"size", "drop", "enter"}

Reads(t)  == Does(t, "read") \/ Does(t, "glance")
Writes(t) == \E what \in {"write", "touch"} \cup Changing : Does(t, what)

(* The lock that t's step takes                                             *)
Wanted(t) == IF Now(t).do \in Changing THEN "state" ELSE Now(t).on

TakeRead(t) ==
    /\ Reads(t)
    /\ MayRead(Wanted(t))
    /\ readers' = IF Now(t).do = "glance" THEN readers
                  ELSE [readers EXCEPT ![Now(t).on] = @ \cup {t}]
    /\ Proceed(t)
    /\ UNCHANGED <<writer, waiting, queue, registry>>

TakeWrite(t) ==
    /\ Does(t, "write") \/ Does(t, "touch")
    /\ MayWrite(Wanted(t))
    /\ writer' = IF Now(t).do = "touch" THEN writer
                 ELSE [writer EXCEPT ![Now(t).on] = t]
    /\ waiting' = [waiting EXCEPT ![Now(t).on] = @ \ {t}]
    /\ Proceed(t)
    /\ UNCHANGED <<readers, queue, registry>>

WaitToWrite(t) ==
    /\ Writes(t)
    /\ ~MayWrite(Wanted(t))
    /\ t \notin waiting[Wanted(t)]
    /\ waiting' = [waiting EXCEPT ![Wanted(t)] = @ \cup {t}]
    /\ UNCHANGED <<readers, writer, queue, doing, todo, registry>>

Unlock(t) ==
    /\ Does(t, "free")
    /\ LET l == Now(t).on IN
         IF writer[l] = t
         THEN writer' = [writer EXCEPT ![l] = NoThread] /\ UNCHANGED readers
         ELSE readers' = [readers EXCEPT ![l] = @ \ {t}] /\ UNCHANGED writer
    /\ Proceed(t)
    /\ UNCHANGED <<waiting, queue, registry>>

(* to_server.send(..) waits while the channel is full.                      *)
SendToServer(t) ==
    /\ Does(t, "send")
    /\ Len(queue) < QueueSize
    /\ queue' = Append(queue, Now(t).on)
    /\ Proceed(t)
    /\ UNCHANGED <<locks, registry>>

(* The three changes of the registry                                        *)
Update(t, what) ==
    /\ Does(t, what)
    /\ MayWrite("state")
    /\ waiting' = [waiting EXCEPT !["state"] = @ \ {t}]
    /\ UNCHANGED <<readers, writer, queue>>

SetClientSize(t) ==
    /\ Update(t, "size")
    /\ clients' = clients \cup {Now(t).on}
    /\ sized' = sized \cup {Now(t).on}
    /\ Proceed(t)
    /\ UNCHANGED senders

(* os_input.remove_client has dropped the sender just before.               *)
DropClient(t) ==
    /\ Update(t, "drop")
    /\ clients' = clients \ {Now(t).on}
    /\ sized' = sized \ {Now(t).on}
    /\ senders' = senders \ {Now(t).on}
    /\ Proceed(t)

Expand(t) ==
    /\ \E what \in Expanding : Does(t, what)
    /\ \E steps \in Expansion(Now(t)) : Continue(t, steps \o Tail(todo[t]))
    /\ UNCHANGED <<locks, queue, registry>>

-----------------------------------------------------------------------------
(* The main loop *)

Receive ==
    /\ queue # <<>>
    /\ \E steps \in Handler(Head(queue)) :
         Begin(Main, Head(queue).kind, steps)
    /\ queue' = Tail(queue)
    /\ UNCHANGED <<locks, registry>>

(* SessionMetaData::drop: the threads have been told to exit, and do so     *)
(* when they come to that instruction.                                      *)
Join ==
    /\ Does(Main, "join")
    /\ Idle(Screen)
    /\ todo' = [todo EXCEPT ![Main] = Tail(@)]
    /\ doing' = [doing EXCEPT ![Screen] = "gone"]
    /\ UNCHANGED <<locks, queue, registry>>

(* start_server returns, and the process ends.                              *)
Return ==
    /\ Does(Main, "return")
    /\ todo' = [todo EXCEPT ![Main] = <<>>]
    /\ doing' = [doing EXCEPT ![Main] = "gone"]
    /\ UNCHANGED <<locks, queue, registry>>

(* The listener: session_state.write().new_client(), os_input.new_client,   *)
(* and a router thread that waits for the first message                     *)
Accept(c) ==
    /\ doing[c] = "away"
    /\ Begin(Listener, "accept", Step("enter", c))
    /\ UNCHANGED <<locks, queue, registry>>

EnterClient(c) ==
    /\ Update(Listener, "enter")
    /\ Now(Listener).on = c
    /\ clients' = clients \cup {c}
    /\ senders' = senders \cup {c}
    /\ todo' = [todo EXCEPT ![Listener] = <<>>]
    /\ doing' = [doing EXCEPT ![Listener] = "idle", ![c] = "connected"]
    /\ UNCHANGED sized

-----------------------------------------------------------------------------
(* Router threads: session_data is read-locked while a message is handled   *)

UnderSession(steps) == Read("data") \o steps \o Free("data")

Report(kind, c) == Send(Msg(kind, {c}))

AttachMessage(c) == UnderSession(Report("attach", c))

(* mutant: the route loop ends without giving session_data back             *)
LastMessageWithoutFree(kind, c) ==
    Read("data") \o Report(kind, c) \o Step("leave", c)

LastMessage(kind, c) == UnderSession(Report(kind, c)) \o Step("leave", c)

(* The first message is AttachClient, or KillSession: kill_session of       *)
(* sessions.rs sends nothing else, and its stream ends.                     *)
RouteFirstMessage(c) ==
    /\ ~Gone
    /\ doing[c] = "connected"
    /\ \/ /\ doing' = [doing EXCEPT ![c] = "attach"]
          /\ todo' = [todo EXCEPT ![c] = AttachMessage(c)]
       \/ /\ doing' = [doing EXCEPT ![c] = "leave"]
          /\ todo' = [todo EXCEPT ![c] = UnderSession(Report("kill", c))
                                            \o Report("remove", c) \o Step("leave", c)]
    /\ UNCHANGED <<locks, queue, registry>>

RouteResize(c) ==
    /\ c \in Resizing
    /\ Begin(c, "resize",
             UnderSession(SetSize(c) \o Glance("state")))
    /\ UNCHANGED <<locks, queue, registry>>

(* An Action, or a message for the screen                                   *)
RouteAction(c) ==
    /\ Begin(c, "action", UnderSession(<<>>))
    /\ UNCHANGED <<locks, queue, registry>>

(* ClientExited, a SwitchToMode that cannot be sent, Quit and Detach end    *)
(* the route loop.                                                          *)
RouteLast(c) ==
    /\ \E kind \in {"remove", "exit", "detach"} :
         Begin(c, "leave", LastMessage(kind, c))
    /\ UNCHANGED <<locks, queue, registry>>

(* None: the stream has ended                                               *)
RouteEndOfStream(c) ==
    /\ Begin(c, "leave", Report("remove", c) \o Step("leave", c))
    /\ UNCHANGED <<locks, queue, registry>>

Leave(c) ==
    /\ Does(c, "leave")
    /\ todo' = [todo EXCEPT ![c] = <<>>]
    /\ doing' = [doing EXCEPT ![c] = "left"]
    /\ UNCHANGED <<locks, queue, registry>>

-----------------------------------------------------------------------------
(* The session's threads: frames, input unblocked, the last tab closed, a   *)
(* client sent to another session by a plugin                               *)

ScreenSends ==
    /\ Patient => /\ doing[Main] \notin Requests
                  /\ \A i \in DOMAIN queue : queue[i].kind \notin Requests
    /\ \E m \in {Msg("render", sized), Msg("unblock", {}), Msg("close", {})}
                \cup {Msg("switch", {c}) : c \in sized} :
         m.kind \in Requests /\ Begin(Screen, m.kind, Send(m))
    /\ UNCHANGED <<locks, queue, registry>>

-----------------------------------------------------------------------------
(* The session has been started by First, and First is attached.            *)
Init ==
    /\ readers = [l \in Locks |-> {}]
    /\ writer = [l \in Locks |-> NoThread]
    /\ waiting = [l \in Locks |-> {}]
    /\ queue = <<>>
    /\ doing = [t \in Threads |-> IF t \in Clients \ {First} THEN "away" ELSE "idle"]
    /\ todo = [t \in Threads |-> <<>>]
    /\ clients = {First}
    /\ sized = {First}
    /\ senders = {First}

(* What t does when it is not kept waiting                                  *)
Run(t) ==
    \/ TakeRead(t) \/ TakeWrite(t) \/ WaitToWrite(t) \/ Unlock(t)
    \/ SendToServer(t)
    \/ SetClientSize(t) \/ DropClient(t)
    \/ Expand(t)

Next ==
    \/ \E t \in Threads : Run(t)
    \/ Receive \/ Join \/ Return
    \/ ScreenSends
    \/ \E c \in Clients :
         \/ Accept(c) \/ EnterClient(c)
         \/ RouteFirstMessage(c) \/ RouteResize(c) \/ RouteAction(c)
         \/ RouteLast(c) \/ RouteEndOfStream(c) \/ Leave(c)

Spec == Init /\ [][Next]_vars

(* Every thread runs; the session's threads come to their Exit.             *)
Fairness ==
    /\ \A t \in Threads : WF_vars(Run(t))
    /\ WF_vars(Receive) /\ SF_vars(Join) /\ WF_vars(Return)
    /\ \A c \in Clients : WF_vars(EnterClient(c)) /\ WF_vars(Leave(c))

FairSpec == Spec /\ Fairness

-----------------------------------------------------------------------------
(* Properties *)

(* A lock has one writer or readers, and only threads inside a handler hold *)
(* one or wait for one: no early return leaves a guard behind.              *)
TypeOK ==
    /\ doing \in [Threads -> {"idle", "away", "connected", "attach", "resize",
                    "action", "leave", "left", "accept", "exit", "remove",
                    "detach", "switch", "unblock", "render", "close", "kill", "gone"}]
    /\ queue \in Seq(Instruction) /\ Len(queue) <= QueueSize
    /\ sized \subseteq clients /\ clients \subseteq Clients /\ senders \subseteq Clients
    /\ \A l \in Locks :
         /\ writer[l] # NoThread => readers[l] = {}
         /\ \A t \in readers[l] \cup waiting[l] \cup ({writer[l]} \ {NoThread}) :
              todo[t] # <<>>

(* The threads t cannot go on without                                       *)
WaitsFor(t) ==
    CASE todo[t] = <<>> -> {}
      [] Reads(t) /\ ~MayRead(Wanted(t)) ->
           waiting[Wanted(t)] \cup ({writer[Wanted(t)]} \ {NoThread})
      [] Writes(t) /\ ~MayWrite(Wanted(t)) ->
           readers[Wanted(t)] \cup ({writer[Wanted(t)]} \ {NoThread})
      [] Does(t, "send") /\ Len(queue) = QueueSize -> {Main}
      [] Does(t, "join") /\ ~Idle(Screen) -> {Screen}
      [] OTHER -> {}

(* The main loop will never go on: it is one of some threads each of which  *)
(* waits for another of them.                                               *)
LoopStuck ==
    /\ WaitsFor(Main) # {}
    /\ \E S \in SUBSET Threads :
         Main \in S /\ \A t \in S : WaitsFor(t) \cap S # {}

(* What can stop the main loop for good:                                    *)
(* - it holds session_state and wants session_data, which a router that     *)
(*   handles a TerminalResize holds while it wants session_state;           *)
(* - the channel is full, and the loop sends to itself, waits for a router  *)
(*   that sends with session_data in hand, or joins a thread that sends;    *)
(* - it reads session_state to send UnblockInputThread to every client, a   *)
(*   send fails, and it wants to write session_state to remove the client.  *)
(* There is no other way.                                                   *)
OnlyKnownDeadlocks ==
    LoopStuck =>
        \/ \E c \in readers["data"] : doing[c] = "resize"
        \/ /\ Len(queue) = QueueSize
           /\ \/ Does(Main, "send")
              \/ Does(Main, "join")
              \/ \E c \in readers["data"] : Does(c, "send")
        \/ doing[Main] = "unblock" /\ Main \in readers["state"]

(* While no terminal changes its size, every client takes its               *)
(* UnblockInputThread and the channel has room, every handler of the main   *)
(* loop comes to its end, however often routers read session_data           *)
(* meanwhile: it relies on a waiting writer keeping new readers out, and on *)
(* the handlers that nest the two locks (lib.rs:439-487, 513, 547, 588,     *)
(* 681) being all the main loop's own.  So a client to which sending failed *)
(* is removed ("failed to send to client, remove it", lib.rs:184).          *)
HandlersEnd == doing[Main] # "idle" ~> doing[Main] \in {"idle", "gone"}

=============================================================================

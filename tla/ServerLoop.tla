------------------------------ MODULE ServerLoop ------------------------------
(***************************************************************************)
(* How clients come to a session and leave it: the listener, the router    *)
(* threads and the main loop of zellij-server/src/lib.rs and route.rs, the *)
(* ClientSenders of os_input_output.rs, and the screen as far as it knows  *)
(* clients.                                                                *)
(*                                                                         *)
(* A connection is one run of a client program.  The server gives it a     *)
(* client id, the least number not in use, and every thread names clients  *)
(* by id: an instruction that is still under way when an id changes hands  *)
(* reaches the new owner.  The fields called "conn" are not in the code:   *)
(* they remember for which connection an id was meant.                     *)
(*                                                                         *)
(* A client's message is sent when its router handles it.  Locks and the   *)
(* capacities of channels are the subject of ServerLocks.                  *)
(***************************************************************************)
EXTENDS Integers, FiniteSets, Sequences

CONSTANTS
    Conns,       \* connections
    NoConn,      \* no connection
    Settings,    \* what sessions may be like: see Setting
    Sizes,       \* terminal sizes
    Early,       \* clients come, and resize, while the session is being started
    MaxInputs    \* bound: how often Busy users resize, switch modes and give
                 \* commands, together

(* "new" starts the session, "attach" and "ssh" attach to it ("new" and     *)
(* "attach" ask for the server mode first), "init" is sshd's                *)
(* init_zellij_client, "probe" is assert_socket of sessions.rs, "kill" is   *)
(* kill_session.                                                            *)
Roles == {"new", "attach", "ssh", "init", "probe", "kill", "nobody"}

NoSize == 0

(* One kind of session and its clients: role is the program behind each     *)
(* connection, "nobody" for none; foreground, start_server(.., foreground), the  *)
(* server of sshd; slow, connections whose ClientSender may run out of      *)
(* buffer space; busy, those whose users do what MaxInputs bounds;          *)
(* tabsClose, the last tab may be closed; draws, the screen sends frames;   *)
(* switches bounds how often the session-manager plugin switches a client   *)
(* to another session.                                                      *)
Setting ==
    [role : [Conns -> Roles], foreground : BOOLEAN,
     slow : SUBSET Conns, busy : SUBSET Conns, tabsClose : BOOLEAN,
     draws : BOOLEAN, switches : Nat]

ASSUME ConnsAssumption == IsFiniteSet(Conns) /\ NoConn \notin Conns
ASSUME SettingsAssumption == Settings \subseteq Setting
ASSUME SizesAssumption == Sizes \subseteq Nat \ {NoSize} /\ Sizes # {}
ASSUME BoundAssumption == Early \in BOOLEAN /\ MaxInputs \in Nat

VARIABLES
    setting,   \* the session this is: never changes
    client,    \* what the client program has done
    heard,     \* the first message it received, and whether it was told to leave
    id,        \* the id its router thread works under
    router,    \* its router thread
    arriving,  \* the connection between session_state.new_client and
               \* os_input.new_client in the listener, or NoConn
    clients,   \* SessionState.clients
    senders,   \* client_senders
    session,   \* session_data is Some
    toServer, toScreen,
    screen,    \* the screen thread: the clients with an active tab, its size,
               \* the state of its tabs, the client an ApplyLayout on its way
               \* names, and whether the thread runs
    main,      \* the removals the current instruction still has to make
    loop,      \* "running", or how the main loop ended
    measured,  \* the size a router is about to announce, or NoSize
    inputs     \* counts towards MaxInputs and setting.switches

vars == <<setting, client, heard, id, router, arriving, clients, senders, session,
          toServer, toScreen, screen, main, loop, measured, inputs>>

serverVars == <<setting, arriving, clients, senders, session, toScreen, screen, main, loop,
                measured>>

Role       == setting.role
Foreground == setting.foreground
Slow       == setting.slow
Busy       == setting.busy
TabsClose  == setting.tabsClose
Draws      == setting.draws

Registered == DOMAIN clients

(* min_client_terminal_size, a size being one number; NoSize for None *)
MinSize(cs) ==
    LET sizes == {cs[k].size : k \in DOMAIN cs} \ {NoSize}
    IN  IF sizes = {} THEN NoSize ELSE CHOOSE s \in sizes : \A t \in sizes : s <= t

(* Mutant: one more than the number of clients. *)
FreshIdByCount(cs) == Cardinality(DOMAIN cs) + 1

(* Mutant: ids start at 0. *)
FreshIdFromZero(cs) == CHOOSE k \in 0 .. Cardinality(DOMAIN cs) :
                  k \notin DOMAIN cs /\ \A j \in 0 .. k - 1 : j \in DOMAIN cs

(* SessionState::new_client: the least id not in use *)
FreshId(cs) == CHOOSE k \in 1 .. Cardinality(DOMAIN cs) + 1 :
                  k \notin DOMAIN cs /\ \A j \in 1 .. k - 1 : j \in DOMAIN cs

Put(f, k, v)   == [j \in DOMAIN f \cup {k} |-> IF j = k THEN v ELSE f[j]]
Drop(f, k)     == [j \in DOMAIN f \ {k} |-> f[j]]

(* set_client_size: inserts the id even when it is not registered *)
SetClientSize(cs, k, s, c) ==
    Put(cs, k, [conn |-> IF k \in DOMAIN cs THEN cs[k].conn ELSE c, size |-> s])

(* The orders in which a HashMap may give its keys *)
Orders(S) == {o \in [1 .. Cardinality(S) -> S] :
                \A i, j \in DOMAIN o : o[i] = o[j] => i = j}

(* send_to_client for every id of K: an id without a sender is nobody's,    *)
(* and no error.                                                            *)
Tell(h, K, what) ==
    [c \in Conns |->
       IF \E k \in K \cap DOMAIN senders : senders[k] = c
       THEN [first |-> IF h[c].first = "nothing" THEN what ELSE h[c].first,
             bye   |-> h[c].bye \/ what = "bye"]
       ELSE h[c]]

TooSlow(k) == k \in DOMAIN senders /\ senders[k] \in Slow

(* A thread panics, or its main function returns an error: handle_panic     *)
(* sends Error to the main loop.                                            *)
Panicking == [kind |-> "Error", conn |-> NoConn]

NewScreen(size) == [clients |-> <<>>, size |-> size, tabs |-> "none",
                    loading |-> <<>>, up |-> TRUE]

Idle == [ids |-> <<>>, half |-> FALSE, announce |-> FALSE, asker |-> NoConn,
         next |-> "running"]

Init ==
    /\ setting \in Settings
    /\ client = [c \in Conns |-> "away"]
    /\ heard = [c \in Conns |-> [first |-> "nothing", bye |-> FALSE]]
    /\ id = [c \in Conns |-> 0]
    /\ router = [c \in Conns |-> "none"]
    /\ arriving = NoConn
    /\ clients = <<>> /\ senders = <<>>
    /\ session = FALSE
    /\ toServer = <<>> /\ toScreen = <<>>
    /\ screen = NewScreen(NoSize)
    /\ main = Idle /\ loop = "running"
    /\ measured = [c \in Conns |-> NoSize]
    /\ inputs = 0

----------------------------------------------------------------------------
(* The listener thread. *)

Accept(c) ==
    /\ loop = "running" /\ arriving = NoConn /\ client[c] = "away"
    /\ Role[c] # "nobody"
    /\ \/ Early \/ Role[c] \in {"new", "init"}
       \/ session /\ screen.tabs \in {"loaded", "closed"}
    /\ LET k == FreshId(clients)
       IN  /\ clients' = Put(clients, k, [conn |-> c, size |-> NoSize])
           /\ id' = [id EXCEPT ![c] = k]
    /\ client' = [client EXCEPT ![c] = "connected"]
    /\ arriving' = c
    /\ UNCHANGED <<heard, router, setting, senders, session, toServer, toScreen, screen,
                   main, loop, measured, inputs>>

(* os_input.new_client, then the router is spawned.  A sender that is       *)
(* replaced is dropped, which tells its client Exit(Disconnect).            *)
Welcome ==
    /\ loop = "running" /\ arriving # NoConn
    /\ heard' = Tell(heard, {id[arriving]}, "bye")
    /\ senders' = Put(senders, id[arriving], arriving)
    /\ router' = [router EXCEPT ![arriving] = "on"]
    /\ arriving' = NoConn
    /\ UNCHANGED <<setting, client, id, clients, session, toServer, toScreen, screen,
                   main, loop, measured, inputs>>

----------------------------------------------------------------------------
(* The router threads: route_thread_main and the part of route_action that  *)
(* ends it.  Each action is one message of the client.                      *)

Routing(c) == loop = "running" /\ router[c] = "on" /\ measured[c] = NoSize

Terminal(c) == Role[c] \in {"new", "attach", "ssh"}

(* c's router passes messages on to the main loop and, with "ends", breaks  *)
(* out of its loop; the client goes on to phase.                            *)
Route(c, phase, ends, msgs) ==
    /\ Routing(c)
    /\ client' = [client EXCEPT ![c] = phase]
    /\ router' = [router EXCEPT ![c] = IF ends THEN "done" ELSE "on"]
    /\ toServer' = toServer \o msgs
    /\ UNCHANGED <<heard, id, inputs>> /\ UNCHANGED serverVars

About(kind, c)      == [kind |-> kind, id |-> id[c], conn |-> c]
Sized(kind, c, s)   == [kind |-> kind, id |-> id[c], conn |-> c, size |-> s]
Detaching(c, ids)   == [kind |-> "DetachSession", ids |-> ids, conn |-> c]

RouteServerMode(c) ==
    /\ Role[c] \in {"new", "attach"} /\ client[c] = "connected"
    /\ Route(c, "asked", FALSE, <<About("Mode", c)>>)

(* The client takes whatever came first for the answer to ServerMode.       *)
RouteFirstMessage(c) ==
    /\ \/ Role[c] \in {"new", "attach"} /\ client[c] = "asked"
          /\ heard[c].first # "nothing"
       \/ Role[c] = "ssh" /\ client[c] = "connected"
    /\ \E s \in Sizes :
         Route(c, "attached", FALSE,
               <<Sized(IF Role[c] = "new" THEN "NewClient" ELSE "AttachClient", c, s)>>)

(* init_zellij_client: NewClient, then DetachSession([1]), 1 being its own  *)
(* id if it was the first to connect.                                       *)
RouteInit(c) ==
    /\ Role[c] = "init" /\ client[c] = "connected"
    /\ \E s \in Sizes :
         Route(c, "attached", TRUE, <<Sized("NewClient", c, s), Detaching(c, <<1>>)>>)

RouteConnStatus(c) ==
    /\ Role[c] = "probe" /\ client[c] = "connected"
    /\ Route(c, "asked", TRUE, <<About("ConnStatus", c)>>)

(* kill_session sends one message and closes the stream.                    *)
RouteKillSession(c) ==
    /\ Role[c] = "kill" /\ client[c] = "connected"
    /\ Route(c, "left", FALSE, <<[kind |-> "KillSession", conn |-> c]>>)

(* Mutant: the router does not break. *)
RouteDetachAndStay(c) ==
    /\ Terminal(c) /\ client[c] = "attached"
    /\ Route(c, "attached", FALSE, <<Detaching(c, <<id[c]>>)>>)

(* Action::Detach, or Ctrl-D in a session of sshd: DetachSession(vec![])    *)
RouteDetach(c) ==
    /\ Terminal(c) /\ client[c] = "attached"
    /\ Route(c, "attached", TRUE, <<Detaching(c, <<id[c]>>)>>)

(* Action::Quit; an action is ignored while there is no session.            *)
RouteQuit(c) ==
    /\ session /\ Terminal(c) /\ client[c] = "attached"
    /\ Route(c, "attached", TRUE, <<About("ClientExit", c)>>)

(* A client that has been told Exit or SwitchSession says ClientExited.     *)
RouteClientExited(c) ==
    /\ Terminal(c) /\ client[c] = "attached" /\ heard[c].bye
    /\ Route(c, "left", TRUE, <<About("RemoveClient", c)>>)

(* The stream ends: the client is gone without a word.                      *)
RouteEndOfStream(c) ==
    /\ Routing(c) /\ client[c] = "left"
    /\ heard' = Tell(heard, {id[c]}, "bye")
    /\ router' = [router EXCEPT ![c] = "done"]
    /\ toServer' = Append(toServer, About("RemoveClient", c))
    /\ UNCHANGED <<client, id, inputs>> /\ UNCHANGED serverVars

(* A client that needs no router any more to leave: a probe with its        *)
(* answer, init_zellij_client, a terminal told to leave; or one that dies.  *)
Leave(c) ==
    /\ loop = "running" /\ router[c] = "done" /\ client[c] # "left"
    /\ heard[c].first # "nothing" \/ Role[c] = "init"
    /\ Terminal(c) => heard[c].bye
    /\ client' = [client EXCEPT ![c] = "left"]
    /\ UNCHANGED <<heard, id, router, inputs, toServer>> /\ UNCHANGED serverVars

Die(c) ==
    /\ loop = "running" /\ client[c] \notin {"away", "left"} /\ Role[c] # "init"
    /\ client' = [client EXCEPT ![c] = "left"]
    /\ UNCHANGED <<heard, id, router, inputs, toServer>> /\ UNCHANGED serverVars

(* TerminalResize, with session_data read-locked from here to the next      *)
(* action: the new size is stored and the least size read, ...  A later     *)
(* reading would only be fresher.                                           *)
RouteResize(c, s) ==
    /\ Routing(c) /\ Terminal(c) /\ client[c] = "attached"
    /\ Early \/ session
    /\ c \in Busy /\ inputs < MaxInputs /\ inputs' = inputs + 1
    /\ clients' = SetClientSize(clients, id[c], s, c)
    /\ measured' = [measured EXCEPT ![c] = MinSize(clients')]
    /\ UNCHANGED <<client, heard, id, router, arriving, setting, senders, session, toServer,
                   toScreen, screen, main, loop>>

(* ... and announced to the screen.  Without a session or a screen this is  *)
(* an error that ends the router.                                           *)
RouteResizeAnnounce(c) ==
    /\ loop = "running" /\ measured[c] # NoSize
    /\ measured' = [measured EXCEPT ![c] = NoSize]
    /\ IF session /\ screen.up
       THEN /\ toScreen' = Append(toScreen, [kind |-> "TerminalResize", size |-> measured[c]])
            /\ UNCHANGED <<router, toServer>>
       ELSE /\ router' = [router EXCEPT ![c] = "done"]
            /\ toServer' = Append(toServer, Panicking)
            /\ UNCHANGED toScreen
    /\ UNCHANGED <<client, heard, id, arriving, clients, setting, senders, session, screen,
                   main, loop, inputs>>

(* Action::SwitchToMode: the router itself answers.                         *)
RouteSwitchToMode(c) ==
    /\ session /\ Routing(c) /\ Terminal(c) /\ client[c] = "attached"
    /\ c \in Busy /\ inputs < MaxInputs /\ inputs' = inputs + 1
    /\ \/ heard' = Tell(heard, {id[c]}, "other") /\ UNCHANGED <<router, toServer>>
       \/ /\ TooSlow(id[c])
          /\ router' = [router EXCEPT ![c] = "done"]
          /\ toServer' = Append(toServer, About("RemoveClient", c))
          /\ UNCHANGED heard
    /\ UNCHANGED <<client, id>> /\ UNCHANGED serverVars

(* An action that the screen answers with unblock_input                     *)
RouteCommand(c) ==
    /\ session /\ screen.up /\ Routing(c) /\ Terminal(c) /\ client[c] = "attached"
    /\ c \in Busy /\ inputs < MaxInputs /\ inputs' = inputs + 1
    /\ toScreen' = Append(toScreen, [kind |-> "Command"])
    /\ UNCHANGED <<client, heard, id, router, arriving, clients, setting, senders, session,
                   toServer, screen, main, loop, measured>>

----------------------------------------------------------------------------
(* The main loop.  Takes(kind) receives an instruction; a handler that has  *)
(* clients to remove leaves them in main, and the next instruction waits    *)
(* until they are removed.                                                  *)

Takes(kind) ==
    /\ loop = "running" /\ main = Idle
    /\ toServer # <<>> /\ Head(toServer).kind = kind

Msg == Head(toServer)

(* session_data.write() waits for the routers that hold it.                 *)
NobodyReadsSession == \A c \in Conns : measured[c] = NoSize

Removal(ids, announce, next) ==
    IF ids = <<>> /\ next = "running" THEN Idle
    ELSE [ids |-> ids, half |-> FALSE, announce |-> announce,
          asker |-> Msg.conn, next |-> next]

RemoveOne(k)  == Removal(<<k>>, TRUE, "running")

(* Mutant: the screen is told only if a size is left. *)
AnnouncementWithSize(cs, k) ==
    IF MinSize(cs) = NoSize THEN <<>>
    ELSE <<[kind |-> "TerminalResize", size |-> MinSize(cs)],
           [kind |-> "RemoveClient", id |-> k]>>

(* What the screen is told of the removal of k *)
Announcement(cs, k) ==
    (IF MinSize(cs) = NoSize THEN <<>>
     ELSE <<[kind |-> "TerminalResize", size |-> MinSize(cs)]>>)
    \o <<[kind |-> "RemoveClient", id |-> k]>>

(* Handlers that only send and remove *)
Dispatch(h, m) ==
    /\ toServer' = Tail(toServer) /\ heard' = h /\ main' = m
    /\ UNCHANGED <<client, id, router, arriving, clients, setting, senders, session, toScreen,
                   screen, loop, measured, inputs>>

(* The main thread panics, or waits for itself. *)
EndLoop(how) ==
    /\ toServer' = Tail(toServer) /\ loop' = how
    /\ UNCHANGED <<client, heard, id, router, arriving, clients, setting, senders, session,
                   toScreen, screen, main, measured, inputs>>

HandleNewClient ==
    /\ Takes("NewClient") /\ NobodyReadsSession
    /\ toServer' = Tail(toServer)
    /\ session' = TRUE
    /\ screen' = NewScreen(Msg.size)
    /\ toScreen' = <<[kind |-> "NewTab", id |-> Msg.id, conn |-> Msg.conn]>>
    /\ clients' = SetClientSize(clients, Msg.id, Msg.size, Msg.conn)
    /\ UNCHANGED <<client, heard, id, router, arriving, setting, senders, main, loop,
                   measured, inputs>>

(* The session must have been started; the answer, the mode to start in, is *)
(* sent with send_to_client!.                                               *)
HandleAttachClient ==
    /\ Takes("AttachClient")
    /\ IF ~session \/ ~screen.up THEN EndLoop("panicked")
       ELSE /\ toServer' = Tail(toServer)
            /\ clients' = SetClientSize(clients, Msg.id, Msg.size, Msg.conn)
            /\ toScreen' = toScreen \o
                 <<[kind |-> "TerminalResize", size |-> MinSize(clients')],
                   [kind |-> "AddClient", id |-> Msg.id, conn |-> Msg.conn]>>
            /\ \/ heard' = Tell(heard, {Msg.id}, "other") /\ main' = Idle
               \/ /\ TooSlow(Msg.id) /\ UNCHANGED heard
                  /\ main' = Removal(<<Msg.id>>, FALSE, "running")
            /\ UNCHANGED <<client, id, router, arriving, setting, senders, session, screen,
                           loop, measured, inputs>>

(* Broadcast, with session_state read-locked: the removal that a failed     *)
(* send asks for waits for the lock for ever.                               *)
HandleUnblockInputThread ==
    /\ Takes("UnblockInputThread")
    /\ \/ Dispatch(Tell(heard, Registered, "other"), Idle)
       \/ (\E k \in Registered : TooSlow(k)) /\ EndLoop("hung")

(* "In the ssh mode, when there is only one client": DetachSession goes to  *)
(* the end of the loop's own queue.                                         *)
RequeueDetach(ids) ==
    /\ toServer' = Append(Tail(toServer), Detaching(NoConn, ids))
    /\ UNCHANGED <<client, heard, id, router, arriving, clients, setting, senders, session,
                   toScreen, screen, main, loop, measured, inputs>>

(* Mutant: the only client of a foreground server is not detached. *)
HandleClientExitForgetting ==
    /\ Takes("ClientExit")
    /\ IF Foreground /\ Cardinality(Registered) = 1 THEN Dispatch(heard, Idle)
       ELSE Dispatch(heard, RemoveOne(Msg.id))

HandleClientExit ==
    /\ Takes("ClientExit")
    /\ IF Foreground /\ Cardinality(Registered) = 1
       THEN \E o \in Orders(Registered) : RequeueDetach(o)
       ELSE Dispatch(heard, RemoveOne(Msg.id))

HandleRemoveClient == Takes("RemoveClient") /\ Dispatch(heard, RemoveOne(Msg.id))

HandleDetachSession ==
    Takes("DetachSession") /\ Dispatch(heard, Removal(Msg.ids, TRUE, "running"))

HandleKillSession ==
    /\ Takes("KillSession")
    /\ \E o \in Orders(Registered) : Dispatch(heard, Removal(o, FALSE, "killed"))

HandleError ==
    /\ Takes("Error")
    /\ \E o \in Orders(Registered) : Dispatch(heard, Removal(o, FALSE, "error"))

(* Render(Some(frames)): whoever cannot take its frame is removed.          *)
HandleRender ==
    /\ Takes("Render")
    /\ \E lost \in SUBSET {k \in Msg.frames : TooSlow(k)} :
       \E o \in Orders(lost) :
         Dispatch(Tell(heard, Msg.frames \ lost, "other"), Removal(o, FALSE, "running"))

(* Render(None): the last tab is closed. *)
HandleRenderNone ==
    /\ Takes("RenderNone")
    /\ \E o \in Orders(Registered) :
         IF Foreground THEN RequeueDetach(o)
         ELSE Dispatch(heard, Removal(o, FALSE, "running"))

HandleConnStatus ==
    /\ Takes("ConnStatus")
    /\ Dispatch(Tell(heard, {Msg.id}, "connected"), Removal(<<Msg.id>>, FALSE, "running"))

HandleMode ==
    /\ Takes("Mode")
    /\ \/ Dispatch(Tell(heard, {Msg.id}, "mode"), Idle)
       \/ TooSlow(Msg.id) /\ Dispatch(heard, Idle)

(* The screen is told first, with the size the leaving client still counts  *)
(* for; when the client cannot be told, it is removed twice.                *)
HandleSwitchSession ==
    /\ Takes("SwitchSession") /\ NobodyReadsSession
    /\ IF ~screen.up THEN EndLoop("panicked")
       ELSE /\ toServer' = Tail(toServer)
            /\ toScreen' = toScreen \o Announcement(clients, Msg.id)
            /\ \/ /\ heard' = Tell(heard, {Msg.id}, "bye")
                  /\ main' = Removal(<<Msg.id>>, FALSE, "running")
               \/ /\ TooSlow(Msg.id) /\ UNCHANGED heard
                  /\ main' = Removal(<<Msg.id, Msg.id>>, FALSE, "running")
            /\ UNCHANGED <<client, id, router, arriving, clients, setting, senders, session,
                           screen, loop, measured, inputs>>

(* remove_client!: first the sender, whose client thereby hears             *)
(* Exit(Disconnect) if it has not been told Exit before, ...                *)
DropSender ==
    /\ loop = "running" /\ main.ids # <<>> /\ ~main.half
    /\ heard' = Tell(heard, {Head(main.ids)}, "bye")
    /\ senders' = Drop(senders, Head(main.ids))
    /\ main' = [main EXCEPT !.half = TRUE]
    /\ UNCHANGED <<setting, client, id, router, arriving, clients, session, toServer,
                   toScreen, screen, loop, measured, inputs>>

(* Mutant: the least size is unwrapped. *)
UnregisterUnwrapping ==
    /\ loop = "running" /\ main.half
    /\ main.announce => NobodyReadsSession
    /\ clients' = Drop(clients, Head(main.ids))
    /\ main' = [main EXCEPT !.half = FALSE, !.ids = Tail(@)]
    /\ IF main.announce /\ (MinSize(clients') = NoSize \/ ~(session /\ screen.up))
       THEN loop' = "panicked" /\ UNCHANGED toScreen
       ELSE /\ toScreen' = IF main.announce
                           THEN toScreen \o Announcement(clients', Head(main.ids))
                           ELSE toScreen
            /\ UNCHANGED loop
    /\ UNCHANGED <<client, heard, id, router, arriving, setting, senders, session, toServer,
                   screen, measured, inputs>>

(* ... then the id, and the screen is told with the size that is left.      *)
Unregister ==
    /\ loop = "running" /\ main.half
    /\ main.announce => NobodyReadsSession
    /\ clients' = Drop(clients, Head(main.ids))
    /\ main' = IF Len(main.ids) = 1 /\ main.next = "running" THEN Idle
               ELSE [main EXCEPT !.half = FALSE, !.ids = Tail(@)]
    /\ IF main.announce /\ ~(session /\ screen.up)
       THEN loop' = "panicked" /\ UNCHANGED toScreen
       ELSE /\ toScreen' = IF main.announce
                           THEN toScreen \o Announcement(clients', Head(main.ids))
                           ELSE toScreen
            /\ UNCHANGED loop
    /\ UNCHANGED <<client, heard, id, router, arriving, setting, senders, session, toServer,
                   screen, measured, inputs>>

(* KillSession and Error break out of the loop. *)
FinishInstruction ==
    /\ loop = "running" /\ main # Idle /\ main.ids = <<>>
    /\ main' = Idle /\ loop' = main.next
    /\ UNCHANGED <<client, heard, id, router, arriving, clients, setting, senders, session,
                   toServer, toScreen, screen, measured, inputs>>

----------------------------------------------------------------------------
(* The screen thread, as far as it knows clients (the rest is ScreenTabs).  *)

Frames(s) == IF Draws /\ s.tabs = "loaded" /\ DOMAIN s.clients # {}
             THEN <<[kind |-> "Render", frames |-> DOMAIN s.clients, conn |-> NoConn]>>
             ELSE <<>>

Unblocking == <<[kind |-> "UnblockInputThread", conn |-> NoConn]>>

(* The screen is s from now on, and the main loop gets msgs. *)
ScreenBecomes(s, msgs) ==
    /\ screen' = s /\ toServer' = toServer \o msgs
    /\ UNCHANGED <<client, heard, id, router, arriving, clients, setting, senders, session,
                   main, loop, measured, inputs>>

ScreenTakes(kind) ==
    /\ loop = "running" /\ screen.up
    /\ toScreen # <<>> /\ Head(toScreen).kind = kind
    /\ toScreen' = Tail(toScreen)

ScreenResizes ==
    /\ ScreenTakes("TerminalResize")
    /\ ScreenBecomes([screen EXCEPT !.size = Head(toScreen).size], Frames(screen))

ScreenNewTab ==
    /\ ScreenTakes("NewTab")
    /\ ScreenBecomes([screen EXCEPT !.tabs = "loading",
                        !.loading = <<[id |-> Head(toScreen).id,
                                       conn |-> Head(toScreen).conn]>>], <<>>)

(* ApplyLayout: the tab is loaded, for its creator, or, if that is not (or  *)
(* no longer) at an active tab, for the first client, or, if there is none, *)
(* for the creator after all.                                               *)
ScreenApplyLayout ==
    /\ loop = "running" /\ screen.up /\ screen.loading # <<>>
    /\ LET new  == Head(screen.loading)
           s    == [screen EXCEPT !.tabs = "loaded", !.loading = <<>>,
                      !.clients = IF @ = <<>> THEN Put(@, new.id, new.conn) ELSE @]
       IN  ScreenBecomes(s, Unblocking \o Frames(s))
    /\ UNCHANGED toScreen

(* add_client fails when there is no tab, and with it the screen thread.    *)
ScreenAddClient ==
    /\ ScreenTakes("AddClient")
    /\ IF screen.tabs = "closed"
       THEN ScreenBecomes([screen EXCEPT !.up = FALSE], <<Panicking>>)
       ELSE LET s == [screen EXCEPT !.clients =
                        Put(@, Head(toScreen).id, Head(toScreen).conn)]
            IN  ScreenBecomes(s, Frames(s))

ScreenRemoveClient ==
    /\ ScreenTakes("RemoveClient")
    /\ LET s == [screen EXCEPT !.clients = Drop(@, Head(toScreen).id)]
       IN  ScreenBecomes(s, Frames(s))

ScreenCommand ==
    /\ ScreenTakes("Command")
    /\ ScreenBecomes(screen, Unblocking \o Frames(screen))

(* close_tab_at_index for the last tab *)
ScreenClosesLastTab ==
    /\ loop = "running" /\ TabsClose /\ screen.up /\ screen.tabs = "loaded"
    /\ ScreenBecomes([screen EXCEPT !.tabs = "closed", !.clients = <<>>],
                     <<[kind |-> "RenderNone", conn |-> NoConn]>>)
    /\ UNCHANGED toScreen

(* A client picks another session in its session-manager plugin.            *)
PluginSwitchesSession(k) ==
    /\ loop = "running" /\ screen.up /\ k \in DOMAIN screen.clients
    /\ inputs < setting.switches /\ inputs' = inputs + 1
    /\ toServer' = Append(toServer, [kind |-> "SwitchSession", id |-> k,
                                     conn |-> screen.clients[k]])
    /\ UNCHANGED <<client, heard, id, router, arriving, clients, setting, senders, session,
                   toScreen, screen, main, loop, measured>>

----------------------------------------------------------------------------
Router(c) ==
    \/ RouteServerMode(c)
    \/ RouteFirstMessage(c)
    \/ RouteInit(c)
    \/ RouteConnStatus(c)
    \/ RouteKillSession(c)
    \/ RouteDetach(c)
    \/ RouteQuit(c)
    \/ RouteClientExited(c)
    \/ RouteEndOfStream(c)
    \/ \E s \in Sizes : RouteResize(c, s)
    \/ RouteResizeAnnounce(c)
    \/ RouteSwitchToMode(c)
    \/ RouteCommand(c)

MainLoop ==
    \/ HandleNewClient
    \/ HandleAttachClient
    \/ HandleUnblockInputThread
    \/ HandleClientExit
    \/ HandleRemoveClient
    \/ HandleDetachSession
    \/ HandleKillSession
    \/ HandleError
    \/ HandleRender
    \/ HandleRenderNone
    \/ HandleConnStatus
    \/ HandleMode
    \/ HandleSwitchSession
    \/ DropSender
    \/ Unregister
    \/ FinishInstruction

ScreenThread ==
    \/ ScreenResizes
    \/ ScreenNewTab
    \/ ScreenApplyLayout
    \/ ScreenAddClient
    \/ ScreenRemoveClient
    \/ ScreenCommand

Next ==
    \/ \E c \in Conns : Accept(c)
    \/ Welcome
    \/ \E c \in Conns : Router(c) \/ Leave(c) \/ Die(c)
    \/ MainLoop
    \/ ScreenThread
    \/ ScreenClosesLastTab
    \/ \E k \in 1 .. Cardinality(Conns) : PluginSwitchesSession(k)

Spec == Init /\ [][Next]_vars

(* The server's threads keep running, and so does a client that has been    *)
(* told to leave or has nothing left to wait for; what a user does, or that *)
(* a client dies, is not promised.                                          *)
Fairness ==
    /\ WF_vars(Welcome)
    /\ WF_vars(MainLoop)
    /\ WF_vars(ScreenThread)
    /\ \A c \in Conns :
         /\ WF_vars(RouteResizeAnnounce(c))
         /\ WF_vars(RouteEndOfStream(c))
         /\ WF_vars(RouteServerMode(c) \/ RouteFirstMessage(c) \/ RouteInit(c)
                      \/ RouteConnStatus(c) \/ RouteKillSession(c))
         /\ WF_vars(c \notin Slow /\ RouteClientExited(c))
         /\ WF_vars(c \notin Slow /\ Leave(c))

FairSpec == Spec /\ Fairness

----------------------------------------------------------------------------
(* Properties. *)

Ids == 1 .. Cardinality(Conns)

(* The shape of the state. *)
TypeOK ==
    /\ setting \in Settings
    /\ client \in [Conns -> {"away", "connected", "asked", "attached", "left"}]
    /\ heard \in [Conns -> [first : {"nothing", "mode", "connected", "other", "bye"},
                            bye : BOOLEAN]]
    /\ id \in [Conns -> Ids \cup {0}]
    /\ router \in [Conns -> {"none", "on", "done"}]
    /\ arriving \in Conns \cup {NoConn}
    /\ Registered \subseteq Ids
    /\ clients \in [Registered -> [conn : Conns, size : Sizes \cup {NoSize}]]
    /\ DOMAIN senders \subseteq Ids /\ senders \in [DOMAIN senders -> Conns]
    /\ DOMAIN screen.clients \subseteq Ids
    /\ screen.clients \in [DOMAIN screen.clients -> Conns]
    /\ screen.size \in Sizes \cup {NoSize}
    /\ measured \in [Conns -> Sizes \cup {NoSize}]
    /\ main.ids \in Seq(Ids)
    /\ loop \in {"running", "killed", "error", "panicked", "hung"}

(* While clients leave by their own doing, a router works under an id that  *)
(* is its own client's, in SessionState and among the senders: what it      *)
(* asks for happens to its own client and to nobody else.                   *)
RoutersOwnTheirIds ==
    loop = "running" =>
        \A c \in Conns : router[c] = "on" =>
            /\ id[c] \in Registered /\ clients[id[c]].conn = c
            /\ id[c] \in DOMAIN senders /\ senders[id[c]] = c

(* ... and nobody loses the session because an id changed hands: a client   *)
(* is removed only at the request of its own router.                        *)
NoStrangerRemoved ==
    [][\A k \in Registered :
         k \notin DOMAIN clients' \/ clients'[k].conn # clients[k].conn
            => main.asker = clients[k].conn]_vars

(* What the screen makes of a message about clients                         *)
Told(cs, m) ==
    CASE m.kind = "AddClient"    -> Put(cs, m.id, m.conn)
      [] m.kind = "RemoveClient" -> Drop(cs, m.id)
      [] OTHER                   -> cs

(* The clients of the screen once it has handled what it has been sent.     *)
Expected ==
    LET after[n \in 0 .. Len(toScreen)] ==
          IF n = 0 THEN screen.clients ELSE Told(after[n - 1], toScreen[n])
    IN  after[Len(toScreen)]

BeingRemoved == {main.ids[n] : n \in DOMAIN main.ids}

(* The screen forgets the clients that have left: it draws frames for no    *)
(* one but registered clients and the creators of tabs.                     *)
ScreenForgets ==
    \A k \in DOMAIN Expected \ BeingRemoved :
        \/ k \in Registered /\ clients[k].conn = Expected[k]
        \/ Role[Expected[k]] \in {"new", "init"}

Attached(c) ==
    /\ client[c] = "attached" /\ router[c] = "on"
    /\ \A n \in DOMAIN toServer :
         toServer[n].kind \in {"NewClient", "AttachClient"} => toServer[n].conn # c

(* The screen knows, or will know once it has handled what it has been      *)
(* sent, the clients that have attached and stay, and those that have left  *)
(* it forgets.                                                              *)
ScreenKnowsClients ==
    /\ ScreenForgets
    /\ loop = "running" /\ screen.tabs = "loaded" =>
          \A c \in Conns : Attached(c) =>
              id[c] \in DOMAIN Expected /\ Expected[id[c]] = c

(* Once the session is up, the main loop never panics, whatever clients do  *)
(* and in whatever order they leave, as long as the screen lives; and "to   *)
(* ensure that loop does not exit", clients of sshd's server come and go    *)
(* and the server stays, until it is killed.                                *)
LoopSurvives ==
    /\ loop = "panicked" => ~session \/ ~screen.up
    /\ Foreground /\ ~TabsClose => loop \in {"running", "killed"}

(* The id of a client that is gone, or has no router any more, becomes      *)
(* free, however it went; and a client that asked to leave is told to: its  *)
(* terminal is not left behind in a session that does not listen to it.     *)
LeaversAreFreed ==
    \A c \in Conns :
        client[c] = "left" \/ router[c] = "done" ~>
            \/ loop # "running"
            \/ /\ \A k \in Registered : clients[k].conn # c
               /\ Terminal(c) => heard[c].bye

=============================================================================

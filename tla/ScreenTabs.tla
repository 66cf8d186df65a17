----------------------------- MODULE ScreenTabs -----------------------------
(***************************************************************************)
(* The tabs of a session and the clients that look at them: struct Screen  *)
(* of zellij-server/src/screen.rs, driven by screen_thread_main.           *)
(*                                                                         *)
(* Every action is one instruction handled by the screen thread, with all  *)
(* the calls its handler makes.  The handlers compose the same few methods *)
(* (switch_active_tab, close_tab_at_index, render, ...), so the methods are*)
(* operators from a screen record to a screen record and an action is a    *)
(* composition of them.  A method that returns Err through `?` makes       *)
(* screen_thread_main return: the record's "failed" field is set and the   *)
(* thread handles nothing any more.                                        *)
(***************************************************************************)
EXTENDS Integers, FiniteSets, Sequences

CONSTANTS
    Clients,      \* client ids, positive integers (ClientId is a u16)
    MaxIndex,     \* bound: no tab is created with a larger index
    Mirrored,     \* the option mirror_session
    Bars,         \* the layout has unselectable plugin panes beside the shell
    LateRequests, \* requests of clients the screen does not know (CLI actions
                  \* and requests that arrive after RemoveClient) are handled
    Overlap       \* requests are handled while a tab loads, or while a tab
                  \* whose last shell has exited waits for the next render

ASSUME ClientsAssumption == Clients \subseteq Nat \ {0} /\ IsFiniteSet(Clients)
ASSUME BoundAssumption   == MaxIndex \in Nat
ASSUME FlagsAssumption   == {Mirrored, Bars, LateRequests, Overlap} \subseteq BOOLEAN

VARIABLES
    screen,           \* the Screen: see ScreenOK
    loading,          \* NewTab requests on their way through the plugin and the
                      \* pty thread, each to come back as an ApplyLayout
    pending_tab_ids,  \* locals of screen_thread_main
    pending_tab_switches

vars == <<screen, loading, pending_tab_ids, pending_tab_switches>>

Indices   == 0 .. MaxIndex
Positions == 0 .. MaxIndex + 1

(* A Tab: its position in the tab bar, is_pending, whether it has a        *)
(* selectable tiled pane, and the clients connected to it.                 *)
Tabs == [position : Nat, pending : BOOLEAN, live : BOOLEAN,
         clients : SUBSET Clients]

NoClient == 0

----------------------------------------------------------------------------
(* Reading a screen. *)

LeastOf(S) == CHOOSE x \in S : \A y \in S : x <= y

TabIndices(s) == DOMAIN s.tabs
Attached(s)   == DOMAIN s.active

HasActiveTab(s, c) == c \in Attached(s) /\ s.active[c] \in TabIndices(s)

(* The client a request of c acts for: c itself, else the first client, if  *)
(* there is one.  Its active tab need not exist.                            *)
Actor(s, c) ==
    IF HasActiveTab(s, c) THEN c
    ELSE IF Attached(s) = {} THEN NoClient ELSE LeastOf(Attached(s))

History(s, c) == IF c \in DOMAIN s.history THEN s.history[c] ELSE <<>>

(* h without the entries that are i (Vec::retain); a function rather than   *)
(* SelectSeq so that the proofs can unfold it.                              *)
Without(h, i) ==
    LET kept[k \in 0 .. Len(h)] ==
          IF k = 0 THEN <<>>
          ELSE IF h[k] = i THEN kept[k - 1] ELSE Append(kept[k - 1], h[k])
    IN  kept[Len(h)]

HasPanes(t) == t.live \/ (Bars /\ ~t.pending)

Dead(s) == {i \in TabIndices(s) : ~s.tabs[i].live /\ ~s.tabs[i].pending}

NewTabIndex(s) ==
    IF TabIndices(s) = {} THEN 0
    ELSE 1 + (CHOOSE i \in TabIndices(s) : \A j \in TabIndices(s) : j <= i)

----------------------------------------------------------------------------
(* Methods of Tab and Screen. *)

Fail(s) == [s EXCEPT !.failed = TRUE]

(* Tab::add_client for every client of C: a tab with neither clients nor    *)
(* panes says "no panes here, bye bye" and takes nobody.                    *)
AddClients(t, C) ==
    IF t.clients = {} /\ ~HasPanes(t) THEN t
    ELSE [t EXCEPT !.clients = @ \cup C]

(* Tab::remove_client, or drain_connected_clients, for every client of C *)
RemoveClients(t, C) == [t EXCEPT !.clients = @ \ C]

(* Mutant: the new tab is pushed on the history instead of the old one. *)
UpdateClientTabFocusPushingNew(s, C, i) ==
    [s EXCEPT
       !.active  = [c \in DOMAIN @ \cup C |-> IF c \in C THEN i ELSE @[c]],
       !.history = [c \in DOMAIN @ \cup (C \cap Attached(s)) |->
                      IF c \in C \cap Attached(s)
                      THEN Append(Without(History(s, c), i), i)
                      ELSE @[c]]]

UpdateClientTabFocus(s, C, i) ==
    [s EXCEPT
       !.active  = [c \in DOMAIN @ \cup C |-> IF c \in C THEN i ELSE @[c]],
       !.history = [c \in DOMAIN @ \cup (C \cap Attached(s)) |->
                      IF c \in C \cap Attached(s)
                      THEN Append(Without(History(s, c), i), s.active[c])
                      ELSE @[c]]]

(* Mutant: the clients are not drained from the tab they leave. *)
MoveClientsWithoutDraining(s, src, dst, C) ==
    [s EXCEPT !.tabs[dst] = AddClients(@, C)]

MoveClientsBetweenTabs(s, src, dst, C) ==
    LET drained == [s EXCEPT !.tabs[src] = RemoveClients(@, C)]
    IN  [drained EXCEPT !.tabs[dst] = AddClients(@, C)]

(* Mutant: a switch takes everybody along in every session. *)
SwitchActiveTabOfEverybody(s, pos, c) ==
    LET found == {i \in TabIndices(s) : s.tabs[i].position = pos}
        cur   == s.active[c]
        new   == LeastOf(found)
    IN  IF found = {} \/ ~HasActiveTab(s, c) THEN s
        ELSE IF s.tabs[cur].position = pos THEN s
        ELSE UpdateClientTabFocus(
               MoveClientsBetweenTabs(s, cur, new, s.tabs[cur].clients), s.connected, new)

(* Mutant: in a mirrored session only the client that asked is focused on   *)
(* the new tab.                                                             *)
SwitchActiveTabOfOne(s, pos, c) ==
    LET found == {i \in TabIndices(s) : s.tabs[i].position = pos}
        cur   == s.active[c]
        new   == LeastOf(found)
    IN  IF found = {} \/ ~HasActiveTab(s, c) THEN s
        ELSE IF s.tabs[cur].position = pos THEN s
        ELSE UpdateClientTabFocus(
               MoveClientsBetweenTabs(s, cur, new, s.tabs[cur].clients), {c}, new)

(* switch_active_tab up to its render(): the tab that now shows, or nothing *)
SwitchActiveTab(s, pos, c) ==
    LET found == {i \in TabIndices(s) : s.tabs[i].position = pos}
        cur   == s.active[c]
        new   == LeastOf(found)
    IN  IF found = {} \/ ~HasActiveTab(s, c) THEN s
        ELSE IF s.tabs[cur].position = pos THEN s
        ELSE IF Mirrored
             THEN UpdateClientTabFocus(
                    MoveClientsBetweenTabs(s, cur, new, s.tabs[cur].clients),
                    s.connected, new)
             ELSE UpdateClientTabFocus(
                    MoveClientsBetweenTabs(s, cur, new, {c}), {c}, new)

(* move_clients_from_closed_tab: s no longer has the tab, C were its clients *)
MoveClientsFromClosedTab(s, C) ==
    LET prev(c) == History(s, c)
        home(c) == IF prev(c) # <<>> /\ prev(c)[Len(prev(c))] \in TabIndices(s)
                   THEN prev(c)[Len(prev(c))]
                   ELSE LeastOf(TabIndices(s))
    IN  [s EXCEPT
           !.active  = [c \in DOMAIN @ \cup C |-> IF c \in C THEN home(c) ELSE @[c]],
           !.history = [c \in DOMAIN @ \cup C |->
                          IF c \notin C THEN @[c]
                          ELSE IF prev(c) = <<>> THEN <<>>
                          ELSE SubSeq(prev(c), 1, Len(prev(c)) - 1)],
           !.tabs    = [i \in DOMAIN @ |->
                          LET here == {c \in C : home(c) = i}
                          IN  IF here = {} THEN @[i] ELSE AddClients(@[i], here)]]

(* Mutants: every tab that is left, or none, moves down in the tab bar. *)
CloseOneTabMovingAll(s, i) ==
    LET rest == [s EXCEPT !.tabs = [j \in DOMAIN @ \ {i} |-> @[j]]]
        move == MoveClientsFromClosedTab(rest, s.tabs[i].clients)
    IN  IF i \notin TabIndices(s) THEN Fail(s)
        ELSE IF TabIndices(rest) = {} THEN [rest EXCEPT !.active = <<>>, !.ended = TRUE]
        ELSE [move EXCEPT !.tabs = [j \in DOMAIN @ |-> [@[j] EXCEPT !.position = @ - 1]]]

CloseOneTabLeavingAHole(s, i) ==
    LET rest == [s EXCEPT !.tabs = [j \in DOMAIN @ \ {i} |-> @[j]]]
    IN  IF i \notin TabIndices(s) THEN Fail(s)
        ELSE IF TabIndices(rest) = {} THEN [rest EXCEPT !.active = <<>>, !.ended = TRUE]
        ELSE MoveClientsFromClosedTab(rest, s.tabs[i].clients)

(* the tab bar closes the gap at position p *)
MoveDown(t, p) == IF t.position > p THEN [t EXCEPT !.position = @ - 1] ELSE t

(* close_tab_at_index up to its render() *)
CloseOneTab(s, i) ==
    LET gone == s.tabs[i]
        rest == [s EXCEPT !.tabs = [j \in DOMAIN @ \ {i} |-> @[j]]]
        move == MoveClientsFromClosedTab(rest, gone.clients)
    IN  IF i \notin TabIndices(s) THEN Fail(s)
        ELSE IF TabIndices(rest) = {}
        THEN [rest EXCEPT !.active = <<>>, !.ended = TRUE]
        ELSE [move EXCEPT !.tabs = [j \in DOMAIN @ |-> MoveDown(@[j], gone.position)]]

(* render() closes every tab that has lost its selectable tiled panes.      *)
(* Closing the first of several renders again and so closes the others; the *)
(* outer loop then closes them a second time, and that is an error.         *)
Render(s) ==
    IF s.failed \/ Dead(s) = {} THEN s
    ELSE IF Cardinality(Dead(s)) = 1 THEN CloseOneTab(s, LeastOf(Dead(s)))
    ELSE Fail(s)

CloseTabAtIndex(s, i) == Render(CloseOneTab(s, i))

AddTab(s, i, c) ==
    LET who == IF Actor(s, c) = NoClient THEN c ELSE Actor(s, c)
        tab == [position |-> Cardinality(TabIndices(s)), pending |-> TRUE,
                live |-> FALSE, clients |-> {who}]
    IN  [s EXCEPT !.tabs = [j \in DOMAIN @ \cup {i} |-> IF j = i THEN tab ELSE @[j]]]

SwitchTabBy(s, c, step) ==
    LET n == Cardinality(TabIndices(s))
        d == Actor(s, c)
    IN  IF HasActiveTab(s, d)
        THEN SwitchActiveTab(s, (s.tabs[s.active[d]].position + n + step) % n, d)
        ELSE s

GoToTab(s, t, c) == SwitchActiveTab(s, IF t = 0 THEN 0 ELSE t - 1, c)

(* The GoToTab requests that waited, in the order in which they are drained *)
DrainSwitches(s, n, order) ==
    LET after[k \in 0 .. n] ==
          IF k = 0 THEN s ELSE GoToTab(after[k - 1], order[k][1], order[k][2])
    IN  after[n]

(* get_previous_tab and the switch to it: the last entry of the history is  *)
(* used up, whether or not its tab still exists.                            *)
PopHistory(s, c) ==
    LET h    == s.history[c]
        prev == h[Len(h)]
        pop  == [s EXCEPT !.history[c] = SubSeq(@, 1, Len(@) - 1)]
    IN  IF h = <<>> THEN s
        ELSE IF prev \notin TabIndices(s) THEN pop
        ELSE SwitchActiveTab(pop, s.tabs[prev].position, c)

(* Mutant: without other clients the new one is put on tab 0, unchecked. *)
AttachClientToTabZero(s, c) ==
    LET home  == IF Attached(s) # {} THEN s.active[LeastOf(Attached(s))] ELSE 0
        known == [s EXCEPT
                    !.active    = [d \in DOMAIN @ \cup {c} |-> IF d = c THEN home ELSE @[d]],
                    !.history   = [d \in DOMAIN @ \cup {c} |-> IF d = c THEN <<>> ELSE @[d]],
                    !.connected = @ \cup {c}]
    IN  IF home \notin TabIndices(s) THEN Fail(known)
        ELSE [known EXCEPT !.tabs[home] = AddClients(@, {c})]

(* Screen::add_client *)
AttachClient(s, c) ==
    LET home == IF Attached(s) # {} THEN s.active[LeastOf(Attached(s))]
                ELSE LeastOf(TabIndices(s))
        hist == IF DOMAIN s.history = {} THEN <<>>
                ELSE s.history[LeastOf(DOMAIN s.history)]
        known == [s EXCEPT
                    !.active    = [d \in DOMAIN @ \cup {c} |-> IF d = c THEN home ELSE @[d]],
                    !.history   = [d \in DOMAIN @ \cup {c} |-> IF d = c THEN hist ELSE @[d]],
                    !.connected = @ \cup {c}]
    IN  IF Attached(s) = {} /\ TabIndices(s) = {} THEN Fail(s)
        ELSE IF home \notin TabIndices(s) THEN Fail(known)
        ELSE [known EXCEPT !.tabs[home] = AddClients(@, {c})]

DetachClient(s, c) ==
    [s EXCEPT
       !.tabs      = [i \in DOMAIN @ |-> RemoveClients(@[i], {c})],
       !.active    = [d \in DOMAIN @ \ {c} |-> @[d]],
       !.history   = [d \in DOMAIN @ \ {c} |-> @[d]],
       !.connected = @ \ {c}]

(* Screen::apply_layout up to its render() *)
LoadTab(s, i, c) ==
    LET who     == IF Actor(s, c) = NoClient THEN c ELSE Actor(s, c)
        src     == s.active[who]
        shows   == HasActiveTab(s, who)
        leaving == IF ~shows THEN {} ELSE IF Mirrored THEN s.tabs[src].clients ELSE {who}
        drained == IF ~shows THEN s
                   ELSE [s EXCEPT !.tabs[src] = RemoveClients(@, leaving)]
        focus   == IF Mirrored THEN UpdateClientTabFocus(drained, s.connected, i)
                   ELSE IF shows THEN UpdateClientTabFocus(drained, {who}, i)
                   ELSE drained
        loaded  == [focus EXCEPT
                      !.tabs[i] = AddClients([@ EXCEPT !.pending = FALSE, !.live = TRUE],
                                             leaving)]
    IN  IF i \notin TabIndices(s) THEN s
        ELSE IF who \in Attached(loaded) THEN loaded ELSE AttachClient(loaded, who)

SetLive(s, i, v) == [s EXCEPT !.tabs[i].live = v]

----------------------------------------------------------------------------
(* The instructions of screen_thread_main. *)

Init ==
    /\ screen = [tabs |-> <<>>, active |-> <<>>, history |-> <<>>,
                 connected |-> {}, failed |-> FALSE, ended |-> FALSE]
    /\ loading = <<>>
    /\ pending_tab_ids = {}
    /\ pending_tab_switches = {}

Settled == \A i \in TabIndices(screen) : screen.tabs[i].live /\ ~screen.tabs[i].pending

Running == ~screen.failed /\ (Overlap \/ Settled)

(* the first client's NewTab instructions, one for every tab of the layout *)
Starting(c) ==
    /\ screen.connected = {} /\ ~screen.ended
    /\ \A i \in TabIndices(screen) :
         screen.tabs[i].pending /\ screen.tabs[i].clients = {c}

(* c asks for something *)
Asks(c) == Running /\ (LateRequests \/ c \in Attached(screen))

Unchanged == UNCHANGED <<loading, pending_tab_ids, pending_tab_switches>>

NewTab(c) ==
    /\ ~screen.failed /\ (Overlap \/ Dead(screen) = {})
    /\ LateRequests \/ c \in Attached(screen) \/ Starting(c)
    /\ NewTabIndex(screen) <= MaxIndex /\ Len(loading) <= MaxIndex
    /\ LET i == NewTabIndex(screen)
       IN  /\ screen' = AddTab(screen, i, c)
           /\ pending_tab_ids' = pending_tab_ids \cup {i}
           /\ loading' = Append(loading, [index |-> i, client |-> c])
    /\ UNCHANGED pending_tab_switches

(* GoToTabName with create: the name is not that of a tab (it is, in which  *)
(* case the handler is GoToTab on that tab) and the new tab's index is not  *)
(* put into pending_tab_ids.                                                *)
CreateNamedTab(c) ==
    /\ Asks(c) /\ Attached(screen) # {} /\ Len(loading) <= MaxIndex
    /\ LET who == IF c \in Attached(screen) THEN c ELSE LeastOf(Attached(screen))
           s   == Render(screen)
           i   == NewTabIndex(s)
       IN  IF s.failed THEN screen' = s /\ UNCHANGED loading
           ELSE /\ i <= MaxIndex
                /\ screen' = AddTab(s, i, who)
                /\ loading' = Append(loading, [index |-> i, client |-> who])
    /\ UNCHANGED <<pending_tab_ids, pending_tab_switches>>

GoToNamedTab(c, i) ==
    /\ Asks(c) /\ Attached(screen) # {} /\ i \in TabIndices(screen)
    /\ LET who == IF c \in Attached(screen) THEN c ELSE LeastOf(Attached(screen))
       IN  screen' = Render(SwitchActiveTab(screen, screen.tabs[i].position, who))
    /\ Unchanged

(* break_pane: one of several panes of the focused tab becomes a tab of its *)
(* own.  It is an error to ask for it with no tab or no pane in focus.      *)
BreakPane(c) ==
    /\ Asks(c)
    /\ NewTabIndex(screen) <= MaxIndex /\ Len(loading) <= MaxIndex
    /\ LET i == NewTabIndex(screen)
       IN  IF HasActiveTab(screen, c) /\ screen.tabs[screen.active[c]].live
           THEN /\ screen' = SetLive(AddTab(screen, i, c), i, TRUE)
                /\ loading' = Append(loading, [index |-> i, client |-> c])
           ELSE screen' = Fail(screen) /\ UNCHANGED loading
    /\ UNCHANGED <<pending_tab_ids, pending_tab_switches>>

(* break_pane_to_new_tab: the focused pane moves to the neighbouring tab;   *)
(* "last" says that it was the only selectable tiled pane of its tab.       *)
BreakPaneSideways(c, step, last) ==
    /\ Asks(c)
    /\ LET src   == screen.active[c]
           taken == IF last THEN SetLive(screen, src, FALSE) ELSE screen
           shown == Render(SwitchTabBy(taken, c, step))
       IN  screen' =
             IF ~HasActiveTab(screen, c) \/ ~screen.tabs[src].live THEN Fail(screen)
             ELSE IF Cardinality(TabIndices(screen)) = 1 THEN Render(screen)
             ELSE IF shown.failed \/ ~HasActiveTab(shown, c) THEN Fail(shown)
             ELSE Render(SetLive(shown, shown.active[c], TRUE))
    /\ Unchanged

SwitchTab(c, step) ==
    /\ Asks(c)
    /\ screen' = Render(SwitchTabBy(screen, c, step))
    /\ Unchanged

(* MoveFocusLeftOrPreviousTab and its mirror image, at the tab's edge       *)
MoveFocusOverEdge(c, step) ==
    /\ Asks(c)
    /\ LET s == SwitchTabBy(screen, c, step)
       IN  screen' = IF s = screen THEN s ELSE Render(s)
    /\ Unchanged

GoToTabRequest(c, t) ==
    /\ Asks(c)
    /\ IF Attached(screen) # {} /\ pending_tab_ids = {}
       THEN LET who == IF c \in Attached(screen) THEN c ELSE LeastOf(Attached(screen))
            IN  screen' = Render(GoToTab(screen, t, who)) /\ UNCHANGED pending_tab_switches
       ELSE /\ pending_tab_switches' = pending_tab_switches \cup {<<t, c>>}
            /\ UNCHANGED screen
    /\ UNCHANGED <<loading, pending_tab_ids>>

ToggleTab(c) ==
    /\ Asks(c)
    /\ screen' = IF c \in DOMAIN screen.history THEN Render(PopHistory(screen, c))
                 ELSE Fail(screen)
    /\ Unchanged

CloseTab(c) ==
    /\ Asks(c)
    /\ screen' = IF Actor(screen, c) = NoClient THEN Render(screen)
                 ELSE CloseTabAtIndex(screen, screen.active[Actor(screen, c)])
    /\ Unchanged

(* focus_pane_with_id for a pane of tab i: go_to_tab is given the index of  *)
(* the tab, not its position.                                               *)
FocusPane(s, c, i) ==
    LET shown == Render(GoToTab(s, i + 1, c))
    IN  IF GoToTab(s, i + 1, c) = s THEN s
        ELSE IF i \notin TabIndices(shown) THEN Fail(shown)
        ELSE shown

FocusPaneWithId(c, i) ==
    /\ Asks(c) /\ i \in TabIndices(screen) /\ HasPanes(screen.tabs[i])
    /\ screen' = FocusPane(screen, c, i)
    /\ Unchanged

(* AddClient: the main loop attaches a client, focused on nothing special,  *)
(* on a pane of tab i, or on a tab by number.                               *)
AddClient(c, how, i) ==
    /\ Running /\ c \notin Attached(screen) \cup screen.connected
    /\ \A k \in DOMAIN loading : loading[k].client # c
    /\ LET s == AttachClient(screen, c)
           t == CASE how = "plain" -> s
                  [] how = "pane"  -> FocusPane(s, c, i)
                  [] how = "tab"   -> GoToTab(s, i, c)
       IN  screen' = IF s.failed THEN s ELSE Render(t)
    /\ how = "pane" => i \in TabIndices(screen) /\ HasPanes(screen.tabs[i])
    /\ how = "plain" => i = 0
    /\ Unchanged

RemoveClient(c) ==
    /\ Running /\ (LateRequests \/ c \in screen.connected)
    /\ screen' = Render(DetachClient(screen, c))
    /\ Unchanged

(* NewPane: the pty thread opened a shell for c *)
NewPane(c) ==
    /\ Asks(c)
    /\ LET d == Actor(screen, c)
       IN  screen' = Render(IF HasActiveTab(screen, d)
                            THEN SetLive(screen, screen.active[d], TRUE)
                            ELSE screen)
    /\ Unchanged

(* CloseFocusedPane of the last selectable tiled pane of a tab *)
CloseFocusedPane(c) ==
    /\ Asks(c)
    /\ LET d == Actor(screen, c)
       IN  screen' = Render(IF HasActiveTab(screen, d)
                            THEN SetLive(screen, screen.active[d], FALSE)
                            ELSE screen)
    /\ Unchanged

(* ClosePane(id, None): the last shell of a loaded tab exited.  This handler *)
(* does not render.                                                          *)
ShellExits(i) ==
    /\ Running /\ i \in TabIndices(screen)
    /\ screen.tabs[i].live /\ ~screen.tabs[i].pending
    /\ screen' = SetLive(screen, i, FALSE)
    /\ Unchanged

(* Render, or any other instruction whose handler only renders *)
RenderRequest ==
    /\ ~screen.failed /\ Dead(screen) # {}
    /\ screen' = Render(screen)
    /\ Unchanged

(* ApplyLayout: the oldest NewTab comes back.  When no tab is pending any   *)
(* more, the switches that waited are made, in the order of a HashSet drain.*)
ApplyLayout ==
    /\ ~screen.failed /\ loading # <<>>
    /\ LET new  == Head(loading)
           s    == Render(LoadTab(screen, new.index, new.client))
           left == pending_tab_ids \ {new.index}
           n    == Cardinality(pending_tab_switches)
       IN  /\ loading' = Tail(loading)
           /\ pending_tab_ids' = left
           /\ IF s.failed \/ left # {} \/ n = 0
              THEN screen' = s /\ UNCHANGED pending_tab_switches
              ELSE /\ pending_tab_switches' = {}
                   /\ \E order \in [1 .. n -> pending_tab_switches] :
                        /\ \A i, j \in 1 .. n : order[i] = order[j] => i = j
                        /\ screen' = Render(DrainSwitches(s, n, order))

Request(c) ==
    \/ NewTab(c)
    \/ CreateNamedTab(c)
    \/ \E i \in Indices : GoToNamedTab(c, i)
    \/ BreakPane(c)
    \/ \E step \in {-1, 1}, last \in BOOLEAN : BreakPaneSideways(c, step, last)
    \/ \E step \in {-1, 1} : SwitchTab(c, step)
    \/ \E step \in {-1, 1} : MoveFocusOverEdge(c, step)
    \/ \E t \in Positions : GoToTabRequest(c, t)
    \/ ToggleTab(c)
    \/ CloseTab(c)
    \/ \E i \in Indices : FocusPaneWithId(c, i)
    \/ NewPane(c)
    \/ CloseFocusedPane(c)

Next ==
    \/ \E c \in Clients : Request(c)
    \/ \E c \in Clients, how \in {"plain", "pane", "tab"}, i \in Positions :
         AddClient(c, how, i)
    \/ \E c \in Clients : RemoveClient(c)
    \/ \E i \in Indices : ShellExits(i)
    \/ RenderRequest
    \/ ApplyLayout

Spec == Init /\ [][Next]_vars

----------------------------------------------------------------------------
(* Properties. *)

(* The shape of the state. *)
ScreenOK(s) ==
    /\ TabIndices(s) \subseteq Indices
    /\ Attached(s) \subseteq Clients
    /\ DOMAIN s.history \subseteq Clients
    /\ s \in [tabs      : [TabIndices(s) -> Tabs],
              active    : [Attached(s) -> Indices],
              history   : [DOMAIN s.history -> Seq(Indices)],
              connected : SUBSET Clients,
              failed    : BOOLEAN,
              ended     : BOOLEAN]

TypeOK ==
    /\ ScreenOK(screen)
    /\ loading \in Seq([index : Indices, client : Clients])
    /\ pending_tab_ids \subseteq Indices
    /\ pending_tab_switches \subseteq Positions \X Clients

(* The positions in the tab bar are always 0 .. n - 1, without holes or     *)
(* duplicates, however tabs are created and closed: switch_tab_next steps   *)
(* modulo the number of tabs and finds the tab by its position.             *)
Contiguous(s) ==
    {s.tabs[i].position : i \in TabIndices(s)} = 0 .. Cardinality(TabIndices(s)) - 1

PositionsContiguous == Contiguous(screen)

(* "The indices of this Screen's active Tabs": a client of the screen looks *)
(* at a tab that exists, is connected to it, and to no other loaded tab: it *)
(* receives that tab's output and no other's.                               *)
OneTabPerClient ==
    TabIndices(screen) # {} /\ ~screen.failed =>
        \A c \in Attached(screen) :
            /\ screen.active[c] \in TabIndices(screen)
            /\ \A i \in TabIndices(screen) :
                  /\ i = screen.active[c] => c \in screen.tabs[i].clients
                  /\ c \in screen.tabs[i].clients /\ ~screen.tabs[i].pending
                       => i = screen.active[c]

(* The toggle-tab key undoes a switch: whatever has been created, closed or *)
(* left before, it leads back to the tab the client came from.              *)
ToggleReturns ==
    \A c \in Attached(screen), p \in Positions :
        LET there == SwitchActiveTab(screen, p, c)
        IN  there # screen => PopHistory(there, c).active[c] = screen.active[c]

(* Mirrored clients are in step when all are at one tab, and came there by  *)
(* one way; the screen knows of no others, and only a tab that is loading   *)
(* lists some of them before they come.                                    *)
Mirroring(s) ==
    /\ s.connected = Attached(s) /\ DOMAIN s.history \subseteq Attached(s)
    /\ \A c, d \in Attached(s) :
         s.active[c] = s.active[d] /\ History(s, c) = History(s, d)
    /\ \A c \in Attached(s) : s.active[c] \in TabIndices(s)
    /\ \A i \in TabIndices(s) :
         LET here == {c \in Attached(s) : s.active[c] = i}
         IN  /\ here \subseteq s.tabs[i].clients
             /\ s.tabs[i].clients \subseteq
                   IF s.tabs[i].pending THEN Attached(s) ELSE here

(* The tab a client came from is there, and is another than the one it is at. *)
CanReturn(s, c) ==
    LET h == History(s, c)
    IN  h # <<>> => h[Len(h)] \in TabIndices(s) \ {s.active[c]}

Together(s) == \A c, d \in Attached(s) : s.active[c] = s.active[d]

(* No instruction separates mirrored clients that are in step, whatever is  *)
(* loading: not even one that closes a tab whose last shell has ended, as   *)
(* long as no tab they came from is missing then.                          *)
InStep(s) ==
    Mirroring(s) /\ (Dead(s) = {} \/ \A c \in Attached(s) : CanReturn(s, c))

MirroredStep ==
    [][Mirrored /\ InStep(screen) => Together(screen')]_vars

(* Each user has their own cursor: no instruction moves two clients away    *)
(* from tabs that stay, unless it makes switches that waited.               *)
MovedAway(c) ==
    /\ c \in Attached(screen) /\ c \in DOMAIN screen'.active
    /\ screen'.active[c] # screen.active[c]
    /\ screen.active[c] \in DOMAIN screen'.tabs \ Dead(screen)

OneClientMoves ==
    [][~Mirrored /\ pending_tab_switches = {}
         => \A c, d \in Clients : MovedAway(c) /\ MovedAway(d) => c = d]_vars

(* The screen thread only dies of an attach to a session without tabs.      *)
FailsOnlyWithoutTabs == screen.failed => TabIndices(screen) = {}

(* Focusing a pane shows the client the tab that the pane is in.            *)
FocusShowsItsTab ==
    [][\A c \in Clients, i \in Indices :
         FocusPaneWithId(c, i) /\ HasActiveTab(screen, c) =>
            c \in DOMAIN screen'.active /\ screen'.active[c] = i]_vars
=============================================================================

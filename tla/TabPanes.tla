------------------------------ MODULE TabPanes ------------------------------
(***************************************************************************)
(* The panes of one tab (struct Tab, TiledPanes, FloatingPanes and         *)
(* ActivePanes of zellij-server): which are tiled, floating or suppressed, *)
(* which one each client looks at, and the one that fills the screen.      *)
(*                                                                         *)
(* Geometry is reduced to what decides where a pane goes: how many fit     *)
(* (TileRoom, FloatRoom), whether a tile is left to grow over a closed     *)
(* one, and which is the neighbour or the one last active, which is any    *)
(* other.  Stacks, swap layouts and --max-panes, which move panes about    *)
(* or close some more, are left out.  The tab has been loaded; what is     *)
(* held back until then is in ScreenTabs.                                  *)
(***************************************************************************)
EXTENDS Integers, FiniteSets

CONSTANTS
    Clients,     \* the users that may look at the tab
    Terminals,   \* ids of terminal panes
    Plugins,     \* ids of plugin panes: bars of the layout, or opened by users
    TileRoom,    \* the number of tiles, without bars, that fit on the screen
    FloatRoom,   \* the number of floating panes that fit
    Mirrored,    \* session_is_mirrored
    Disorder,    \* the disorderly events that happen, a subset of Disorders
    None         \* Option::None, for panes and clients

Panes == Terminals \cup Plugins

(* What may come in an order that the code does not stand:                 *)
(*   "late render"      a shell ends and a request comes before the screen *)
(*                      draws, which closes a tab that has nothing left    *)
(*   "deserted"         the last client leaves a tab in fullscreen         *)
(*   "replaced hidden"  a pane behind the one in fullscreen is replaced    *)
(*   "focus in layout"  the layout names the pane to focus                 *)
(*   "nothing to break" a client breaks out a pane while none is active in *)
(*                      the layer that shows                               *)
(*   "focus nested"     a pane that waits for an editor, and is an editor  *)
(*                      for which another pane waits, is asked for         *)
(*   "late bars"        a bar makes itself unselectable in fullscreen      *)
(*   "joins bars"       a client comes to a deserted tab of plugins only   *)
Disorders == {"late render", "deserted", "replaced hidden", "focus in layout",
              "nothing to break", "focus nested", "late bars", "joins bars"}
Happens(disorder) == disorder \in Disorder

ASSUME TabAssumption ==
    /\ IsFiniteSet(Clients) /\ IsFiniteSet(Panes)
    /\ Terminals # {}
    /\ Terminals \cap Plugins = {}
    /\ None \notin Panes \cup Clients
    /\ TileRoom \in Nat \ {0} /\ FloatRoom \in Nat
    /\ Mirrored \in BOOLEAN
    /\ Disorder \subseteq Disorders

VARIABLES
    tab,      \* struct Tab
    alive     \* the terminals whose process runs, as the pty thread knows

vars == <<tab, alive>>

Maybe(S) == S \cup {None}
Tabs == [
    tiled: SUBSET Panes,                     \* tiled_panes.panes
    floating: SUBSET Panes,                  \* floating_panes.panes
    suppressed: [Panes -> Maybe(Panes)],     \* by the pane that stands for it
    tiledFocus: [Clients -> Maybe(Panes)],   \* tiled_panes.active_panes
    floatFocus: [Clients -> Maybe(Panes)],   \* floating_panes.active_panes
    shows: BOOLEAN,                          \* floating_panes.show_panes
    full: BOOLEAN,                           \* fullscreen_is_active
    hidden: SUBSET Panes,                    \* panes_to_hide
    bars: SUBSET Plugins,                    \* tab bar, status bar
    passive: SUBSET Plugins,                 \* bars that are not selectable
    clients: SUBSET Clients,                 \* connected_clients
    focusId: Maybe(Panes),                   \* focus_pane_id
    status: {"open", "closed", "broken", "mislabelled"}]

Waiting(t) == {t.suppressed[e] : e \in Panes} \ {None}
Here(t) == t.tiled \cup t.floating \cup Waiting(t)
Selectable(t) == t.tiled \ t.passive
Nobody == [c \in Clients |-> None]

-----------------------------------------------------------------------------
(* Choices the code makes by something that is left out: the first client   *)
(* of a hash set, and the pane that comes first in a map, was active last  *)
(* or is the neighbour on a side.                                          *)
Firsts(t) == IF t.clients = {} THEN {None} ELSE t.clients
Choices(t) == [pane: t.tiled \cup t.floating, client: Firsts(t)]
(* Only who is the first client matters, and only to a tab in fullscreen.   *)
ClientChoices(t) ==
    [pane: {None}, client: IF t.full THEN Firsts(t) ELSE {None}]
Prefer(S, x) == IF x.pane \in S THEN x.pane ELSE CHOOSE p \in S : TRUE

(* A panic, or an error that a handler returns: the screen thread ends.     *)
Broken(t) == [t EXCEPT !.status = "broken"]

(* The clients in D look at p.                                             *)
Looking(focus, D, p) == [c \in Clients |-> IF c \in D THEN p ELSE focus[c]]
At(focus, p) == {c \in Clients : focus[c] = p}

-----------------------------------------------------------------------------
(* Tiled panes                                                             *)

(* unset_fullscreen unwraps the first client, its pane and the hidden ones. *)
UnsetFullscreen(t, x) ==
    IF ~t.full THEN t
    ELSE IF \/ x.client = None
            \/ t.tiledFocus[x.client] \notin t.tiled
            \/ ~(t.hidden \subseteq t.tiled)
    THEN Broken(t)
    ELSE [t EXCEPT !.full = FALSE, !.hidden = {}]

FocusTiled(t, p, c, x) ==
    LET Look(u) == [u EXCEPT !.tiledFocus =
                        Looking(@, IF Mirrored THEN {c} \cup u.clients ELSE {c}, p)]
    IN  Look(IF p \in t.hidden THEN UnsetFullscreen(t, x) ELSE t)

FocusTiledIfNotFocused(t, p, c, x) ==
    FocusTiled(t, IF t.tiledFocus[c] = None THEN p ELSE t.tiledFocus[c], c, x)

MoveOutOfTiled(t, p, x) ==
    LET heirs == Selectable(t) \ t.hidden
    IN  [t EXCEPT !.tiledFocus =
            CASE At(@, p) = {} -> @
              [] At(@, p) # {} /\ heirs # {} ->
                   Looking(@, At(@, p), Prefer(heirs, x))
              [] OTHER -> Nobody]

(* mutant: the clients of the pane stay with it                            *)
RemoveTiledOnly(t, p, x) ==
    IF p \notin t.tiled THEN Broken(t) ELSE [t EXCEPT !.tiled = @ \ {p}]

(* The space of the pane is filled by another tile, or there is none and    *)
(* all clients lose their pane.                                            *)
RemoveTiled(t, p, x) ==
    LET rest == [t EXCEPT !.tiled = @ \ {p}]
    IN  IF p \notin t.tiled THEN Broken(t)
        ELSE IF Selectable(rest) # {} THEN MoveOutOfTiled(rest, p, x)
        ELSE [rest EXCEPT !.tiledFocus = Nobody]

HasTileRoom(t) == Cardinality(t.tiled \ t.bars) < TileRoom

(* The clients move, even when the pane to be replaced is not there.        *)
ReplaceTiled(t, old, new) ==
    [t EXCEPT !.tiled = IF old \in @ THEN (@ \ {old}) \cup {new} ELSE @,
              !.tiledFocus = Looking(@, At(@, old), new)]

ToggleFullscreenOf(t, c, x) ==
    LET p == t.tiledFocus[c]
    IN  IF p = None THEN t
        ELSE IF t.full THEN UnsetFullscreen(t, x)
        ELSE IF Selectable(t) \subseteq {p} THEN t
        ELSE IF p \notin t.tiled THEN Broken(t)
        ELSE [t EXCEPT !.full = TRUE, !.hidden = Selectable(t) \ {p},
                       !.tiledFocus = Looking(@, t.clients, p)]

(* Every connected client moves, mirrored or not.                          *)
FocusNextTile(t, c, x) ==
    IF t.tiledFocus[c] \notin Selectable(t) THEN Broken(t)
    ELSE LET others == Selectable(t) \ {t.tiledFocus[c]}
         IN  [t EXCEPT !.tiledFocus =
                 Looking(@, t.clients, IF others = {} THEN t.tiledFocus[c]
                                       ELSE Prefer(others, x))]

(* The tile on a side, if there is one: whether there is depends on x.      *)
MoveTiledFocus(t, c, x) ==
    IF t.tiledFocus[c] \in t.tiled /\ x.pane \in Selectable(t) \ {t.tiledFocus[c]}
    THEN FocusTiled(t, x.pane, c, x)
    ELSE t

-----------------------------------------------------------------------------
(* Floating panes: all connected clients look at the same one              *)

(* mutant: the client moves alone                                          *)
FocusFloatingAlone(t, p, c) == [t EXCEPT !.floatFocus = Looking(@, {c}, p)]

FocusFloating(t, p, c) ==
    [t EXCEPT !.floatFocus = Looking(@, {c} \cup t.clients, p)]

Show(t) == [t EXCEPT !.shows = TRUE]
Hide(t) == [t EXCEPT !.shows = FALSE]

RemoveFloating(t, p, x) ==
    LET rest == t.floating \ {p}
    IN  [t EXCEPT !.floating = rest,
                  !.shows = @ /\ rest # {},
                  !.floatFocus =
                      CASE At(@, p) = {} -> @
                        [] At(@, p) # {} /\ rest # {} ->
                             Looking(@, At(@, p) \cup t.clients, Prefer(rest, x))
                        [] OTHER -> Looking(@, At(@, p), None)]

ReplaceFloating(t, old, new) ==
    [t EXCEPT !.floating = IF old \in @ THEN (@ \ {old}) \cup {new} ELSE @,
              !.floatFocus = Looking(@, At(@, old), new)]

MoveFloatingFocus(t, c, x) ==
    LET p == t.floatFocus[c]
    IN  CASE p = None -> [t EXCEPT !.floatFocus = Nobody]
          [] p # None /\ p \in t.floating /\ x.pane \in t.floating \ {p} ->
               FocusFloating(t, x.pane, c)
          [] OTHER -> [t EXCEPT !.floatFocus = Looking(@, t.clients, p)]

-----------------------------------------------------------------------------
(* Both layers                                                             *)

Layer(t) == IF t.shows THEN t.floating ELSE t.tiled
ActivePane(t, c) == IF t.shows THEN t.floatFocus[c] ELSE t.tiledFocus[c]

(* A pane for which there is no room is dropped.                           *)
AddFloating(t, p) ==
    IF Cardinality(t.floating) < FloatRoom
    THEN [t EXCEPT !.floating = @ \cup {p},
                   !.floatFocus = Looking(@, t.clients, p)]
    ELSE t

AddTiled(t, p, c, x) ==
    LET Add(u) == [u EXCEPT !.tiled = @ \cup {p}]
        Put(u) == IF ~(HasTileRoom(u) \/ u.tiled = {}) THEN u
                  ELSE IF c = None THEN Add(u)
                  ELSE FocusTiled(Add(u), p, c, x)
    IN  Put(UnsetFullscreen(t, x))

(* mutant: the pane that waited is not put back                            *)
ForgetSuppressed(t, e) == [t EXCEPT !.suppressed[e] = None]

(* mutant: it is put back and goes on waiting                               *)
KeepSuppressed(t, e) ==
    IF t.shows THEN ReplaceFloating(t, e, t.suppressed[e])
    ELSE ReplaceTiled(t, e, t.suppressed[e])

(* The pane that waited takes the place of e if e is in the layer that is   *)
(* shown, and is dropped if not.                                           *)
ReplaceWithSuppressed(t, e) ==
    LET old  == t.suppressed[e]
        rest == [t EXCEPT !.suppressed[e] = None]
    IN  IF t.shows THEN ReplaceFloating(rest, e, old)
        ELSE ReplaceTiled(rest, e, old)

ClosePane(t, p, ignoreSuppressed, x) ==
    IF ~ignoreSuppressed /\ t.suppressed[p] # None
    THEN ReplaceWithSuppressed(t, p)
    ELSE IF p \in t.floating THEN RemoveFloating(t, p, x)
    ELSE RemoveTiled(UnsetFullscreen(t, x), p, x)

(* render() closes a tab without a tile that can be selected.               *)
Render(t) ==
    IF t.status = "open" /\ Selectable(t) = {}
    THEN [t EXCEPT !.status = "closed"] ELSE t

(* CloseTab tells the pty thread of the panes of the two layers.            *)
StillAlive(t, running) ==
    IF t.status = "closed" THEN running \ (t.tiled \cup t.floating) ELSE running

Becomes(t, running) == tab' = t /\ alive' = StillAlive(t, running)

-----------------------------------------------------------------------------
(* Clients come and go                                                     *)

Init ==
    \E c \in Clients, first \in Terminals,
       bars \in SUBSET Plugins,
       id \in IF Happens("focus in layout") THEN Maybe(Terminals) ELSE {None} :
        /\ id \in {None, first}
        /\ alive = {first}
        /\ tab = [bars |-> bars, tiled |-> {first} \cup bars, floating |-> {},
                  suppressed |-> [e \in Panes |-> None],
                  tiledFocus |-> Looking(Nobody, {c}, first),
                  floatFocus |-> Nobody,
                  shows |-> FALSE, full |-> FALSE, hidden |-> {},
                  passive |-> {}, clients |-> {c}, focusId |-> id,
                  status |-> "open"]

(* The first client of a tab gets the pane the layout names or the one with *)
(* the smallest id, terminals before plugins; the others what one of those  *)
(* there looks at, in both layers; and each what it looked at before.       *)
AddClient(t, c, x) ==
    LET visible  == t.tiled \ t.hidden
        smallest == Prefer(IF visible \cap Terminals # {}
                           THEN visible \cap Terminals ELSE visible, x)
        floats   == {t.floatFocus[d] : d \in Clients} \ {None}
        float(u) == IF floats = {} THEN u
                    ELSE FocusFloating(u, IF u.floatFocus[c] # None
                                          THEN u.floatFocus[c]
                                          ELSE Prefer(floats, x), c)
        tile(u)  == LET p == u.tiledFocus[x.client]
                    IN  IF p = None THEN u
                        ELSE FocusTiledIfNotFocused(u, p, c, x)
        Join(u)  == [u EXCEPT !.clients = @ \cup {c}]
        first == IF t.focusId # None THEN t.focusId ELSE smallest
    IN  IF t.clients # {} THEN Join(tile(float(t)))
        ELSE IF t.tiled = {} THEN t
        ELSE IF t.focusId = None /\ visible = {} THEN Broken(t)
        ELSE Join(FocusTiledIfNotFocused(t, first, c, x))

JoinsBars(t, c) ==
    /\ t.clients = {} /\ t.tiledFocus[c] = None
    /\ (t.tiled \ t.hidden) \cap Terminals = {}

Come(c, x) ==
    /\ c \notin tab.clients
    /\ Happens("joins bars") \/ ~JoinsBars(tab, c)
    /\ Becomes(Render(AddClient(tab, c, x)), alive)

RemoveClient(t, c) == [t EXCEPT !.clients = @ \ {c}, !.focusId = None]
DrainClient(t, c)  == [t EXCEPT !.clients = IF Mirrored THEN {} ELSE @ \ {c}]

Leave(c) == c \in tab.clients /\ Becomes(Render(RemoveClient(tab, c)), alive)
GoToOtherTab(c) ==
    /\ c \in tab.clients
    /\ Becomes(Render(DrainClient(tab, c)), alive)

-----------------------------------------------------------------------------
(* Panes open                                                              *)

Fresh(p) ==
    p \notin alive \cup Here(tab) \cup tab.bars /\ tab.suppressed[p] = None

(* mutant: a plugin is taken for a terminal                                *)
StartedAny(p) == alive \cup {p}

Started(p) == alive \cup ({p} \cap Terminals)

OpenPane(t, p, float, c, x) ==
    LET Put(u) == IF u.shows THEN AddFloating(u, p) ELSE AddTiled(u, p, c, x)
    IN  Put(CASE float = "float" -> Show(t)
              [] float = "tile" -> Hide(t)
              [] OTHER -> t)

NewTerminal(p, float, c, x) ==
    /\ p \in Terminals /\ Fresh(p)
    /\ c \in tab.clients \/ (c = None /\ float = "float")
    /\ Becomes(Render(OpenPane(tab, p, float, c, x)), Started(p))

AddPlugin(p, float, x) ==
    /\ p \in Plugins /\ Fresh(p)
    /\ Becomes(OpenPane(tab, p, float, None, x), alive)

(* To the right or down.  A split is not made while floating panes show, and *)
(* its process goes on; if the pane is too small the process is closed.     *)
SplitPane(t, p, c, fits, x) ==
    LET Put(u) == IF fits /\ u.tiledFocus[c] \in u.tiled /\ HasTileRoom(u)
                  THEN FocusTiled([u EXCEPT !.tiled = @ \cup {p}], p, c, x)
                  ELSE u
    IN  IF t.shows THEN t
        ELSE Put(IF t.full THEN ToggleFullscreenOf(t, c, x) ELSE t)

Split(p, c, fits, x) ==
    /\ p \in Terminals /\ Fresh(p) /\ c \in tab.clients
    /\ LET t == SplitPane(tab, p, c, fits, x)
       IN  Becomes(Render(t),
                   IF tab.shows \/ p \in t.tiled THEN Started(p) ELSE alive)

(* The editor takes the place of the pane the client looks at.              *)
OpenInPlaceEditor(p, c) ==
    /\ p \in Terminals /\ Fresh(p) /\ c \in tab.clients
    /\ LET old == ActivePane(tab, c)
           Replaced(t) == IF t.shows THEN ReplaceFloating(t, old, p)
                          ELSE ReplaceTiled(t, old, p)
           Kept(t) == IF old \in Layer(tab)
                      THEN [t EXCEPT !.suppressed[p] = old] ELSE t
       IN  Becomes(Render(IF old = None THEN tab ELSE Kept(Replaced(tab))),
                   Started(p))

(* A command or a plugin takes the place of a pane that is named by its id. *)
ReplacePane(old, p) ==
    /\ Fresh(p) /\ old \in Here(tab) \ tab.bars
    /\ Happens("replaced hidden") \/ old \notin tab.hidden
    /\ LET Replaced(t) == IF old \in t.floating
                          THEN ReplaceFloating(t, old, p)
                          ELSE ReplaceTiled(t, old, p)
           Kept(t) == IF old \in tab.floating \cup tab.tiled
                      THEN [t EXCEPT !.suppressed[p] = old] ELSE t
       IN  Becomes(Render(Kept(Replaced(tab))), Started(p))

-----------------------------------------------------------------------------
(* Panes close                                                             *)

(* The handler of ClosePane does not draw; something else soon does.        *)
Soon(t) == IF Happens("late render") THEN t ELSE Render(t)
Draw == Selectable(tab) = {} /\ Becomes(Render(tab), alive)

CloseAnywhere(t, p, x) ==
    IF p \in t.tiled \cup t.floating THEN ClosePane(t, p, FALSE, x) ELSE t

HiddenIsReplaced(p) == p \in tab.hidden /\ tab.suppressed[p] # None

ShellExits(p, x) ==
    /\ p \in alive
    /\ Happens("replaced hidden") \/ ~HiddenIsReplaced(p)
    /\ Becomes(Soon(CloseAnywhere(tab, p, x)), alive \ {p})

(* A plugin asks for a pane to be closed: the pty thread is not told.       *)
CloseTerminalPane(p, x) ==
    /\ p \in (tab.tiled \cup tab.floating) \ tab.bars
    /\ Happens("replaced hidden") \/ ~HiddenIsReplaced(p)
    /\ Becomes(Soon(CloseAnywhere(tab, p, x)), alive)

CloseFocusedPane(c, x) ==
    LET p == IF tab.shows /\ tab.floatFocus[c] # None THEN tab.floatFocus[c]
             ELSE tab.tiledFocus[c]
    IN  /\ c \in tab.clients /\ p # None
        /\ Becomes(Render(ClosePane(tab, p, FALSE, x)), alive \ {p})

(* break_pane_to_new_tab goes with the pane; break_pane leaves the client   *)
(* here until the new tab is loaded.                                        *)
BreakPane(c, toOther, x) ==
    LET p == ActivePane(tab, c)
        here == IF tab.suppressed[p] # None THEN p \in Layer(tab) ELSE TRUE
        closed == ClosePane(tab, p, FALSE, x)
    IN  /\ c \in tab.clients
        /\ Happens("nothing to break") \/ p # None
        /\ IF p = None THEN Becomes(Broken(tab), alive)
           ELSE /\ \/ toOther
                   \/ Cardinality(Selectable(tab)) > 1
                   \/ tab.shows /\ tab.floating # {}
                /\ Becomes(IF ~here THEN Broken(tab)
                           ELSE IF ~toOther THEN closed
                           ELSE Render(DrainClient(closed, c)),
                           alive \ {p})

-----------------------------------------------------------------------------
(* Panes move, hide and get the focus                                      *)

TogglePane(t, c, x) ==
    IF t.shows
    THEN LET p == t.floatFocus[c]
         IN  IF p = None \/ ~(HasTileRoom(t) \/ t.tiled = {}) THEN t
             ELSE AddTiled(Hide(ClosePane(t, p, TRUE, x)), p, c, x)
    ELSE LET p == t.tiledFocus[c]
         IN  IF p = None \/ Cardinality(Selectable(t)) <= 1 THEN t
             ELSE AddFloating(Show(ClosePane(t, p, TRUE, x)), p)

TogglePaneEmbedOrFloating(c, x) ==
    /\ c \in tab.clients
    /\ Becomes(Render(TogglePane(UnsetFullscreen(tab, x), c, x)), alive)

(* When there is none to show, one is asked for: see NewTerminal.           *)
ToggleFloatingPanes(c, x) ==
    /\ c \in tab.clients
    /\ LET Focused(t) == IF t.floating = {} \/ t.floatFocus[c] # None THEN t
                         ELSE FocusFloating(t, Prefer(t.floating, x), c)
       IN  Becomes(Render(IF tab.shows THEN Hide(tab) ELSE Focused(Show(tab))),
                   alive)

ToggleFullscreen(c, x) ==
    /\ c \in tab.clients /\ ~tab.shows
    /\ Becomes(Render(ToggleFullscreenOf(tab, c, x)), alive)

(* With a pane in fullscreen, the next one takes its place.                 *)
FocusNextPane(c, x) ==
    /\ c \in tab.clients /\ Selectable(tab) \cup tab.floating # {}
    /\ LET Moved(t) == FocusNextTile(t, c, x)
           Full(t)  == ToggleFullscreenOf(t, c, x)
       IN  Becomes(Render(IF tab.full THEN Full(Moved(UnsetFullscreen(tab, x)))
                          ELSE Moved(tab)), alive)

MoveFocus(c, x) ==
    /\ c \in tab.clients
    /\ LET Moved(t) == MoveTiledFocus(t, c, x)
           Full(t)  == ToggleFullscreenOf(t, c, x)
       IN  Becomes(Render(IF tab.shows THEN MoveFloatingFocus(tab, c, x)
                          ELSE IF tab.full
                          THEN Full(Moved(UnsetFullscreen(tab, x)))
                          ELSE Moved(tab)), alive)

(* A click: on a floating pane that shows, or on a tile beside them.        *)
Click(c, p, x) ==
    /\ c \in tab.clients
    /\ \/ /\ tab.shows /\ p \in tab.floating
          /\ Becomes(Render(FocusFloating(tab, p, c)), alive)
       \/ /\ p \in Selectable(tab) \ tab.hidden
          /\ Becomes(Render(Hide(FocusTiled(tab, p, c, x))), alive)

(* A pane that has hidden itself comes back; the key it is kept under is   *)
(* taken for its id.                                                       *)
FocusWithId(t, p, float, c, x) ==
    LET Out(u) == [u EXCEPT !.suppressed[p] = None]
    IN  IF p \in t.tiled THEN Hide(FocusTiled(t, p, c, x))
        ELSE IF p \in t.floating THEN Show(FocusFloating(t, p, c))
        ELSE IF t.suppressed[p] = None THEN t
        ELSE IF t.suppressed[p] # p THEN [t EXCEPT !.status = "mislabelled"]
        ELSE IF float THEN AddFloating(Show(Out(t)), p)
        ELSE AddTiled(Hide(Out(t)), p, c, x)

FocusPaneWithId(p, float, c, x) ==
    /\ c \in tab.clients /\ p \in Here(tab) \ tab.bars
    /\ \/ Happens("focus nested")
       \/ p \in tab.tiled \cup tab.floating \/ tab.suppressed[p] \in {p, None}
    /\ Becomes(FocusWithId(tab, p, float, c, x), alive)

(* hide_self: the plugin is kept under its own id.                          *)
SuppressPane(p, x) ==
    /\ p \in Plugins \cap (tab.tiled \cup tab.floating)
    /\ LET closed == ClosePane(tab, p, TRUE, x)
       IN  Becomes(Render([closed EXCEPT !.suppressed[p] = p]), alive)

(* A bar makes itself unselectable when it has been loaded.                 *)
SetPaneUnselectable(b, x) ==
    /\ b \in (tab.tiled \cap tab.bars) \ tab.passive
    /\ Happens("late bars") \/ ~(tab.full /\ b \notin tab.hidden)
    /\ LET t == [tab EXCEPT !.passive = @ \cup {b}]
       IN  Becomes(Render(MoveOutOfTiled(t, b, x)), alive)

-----------------------------------------------------------------------------
Floats == {"float", "tile", "either"}

StepOfPanes ==
    \E x \in Choices(tab) :
        \/ \E c \in Clients :
              \/ Come(c, x)
              \/ CloseFocusedPane(c, x)
              \/ \E toOther \in BOOLEAN : BreakPane(c, toOther, x)
              \/ TogglePaneEmbedOrFloating(c, x)
              \/ ToggleFloatingPanes(c, x)
              \/ FocusNextPane(c, x)
              \/ MoveFocus(c, x)
        \/ \E p \in Terminals : ShellExits(p, x)
        \/ \E p \in Panes : CloseTerminalPane(p, x) \/ SuppressPane(p, x)
        \/ \E b \in Plugins : SetPaneUnselectable(b, x)

StepOfOnePane ==
    \E x \in ClientChoices(tab), p \in Panes :
        \/ \E c \in tab.clients :
              \/ ToggleFullscreen(c, x)
              \/ Click(c, p, x)
              \/ \E float \in BOOLEAN : FocusPaneWithId(p, float, c, x)
              \/ \E fits \in BOOLEAN : Split(p, c, fits, x)
        \/ \E float \in Floats :
              \/ \E c \in Maybe(tab.clients) : NewTerminal(p, float, c, x)
              \/ AddPlugin(p, float, x)

Move ==
    \/ StepOfPanes
    \/ StepOfOnePane
    \/ \E c \in Clients : Leave(c) \/ GoToOtherTab(c)
    \/ \E c \in Clients, p \in Terminals : OpenInPlaceEditor(p, c)
    \/ \E p \in Panes, old \in Panes : ReplacePane(old, p)
    \/ Draw

Next ==
    /\ tab.status = "open"
    /\ Move
    /\ Happens("deserted") \/ ~(tab'.full /\ tab'.clients = {})

Spec == Init /\ [][Next]_vars

-----------------------------------------------------------------------------
TypeOK == tab \in Tabs /\ alive \subseteq Terminals

(* No request ends the screen thread (by unwrap() or an error), and none    *)
(* files a pane under the id of another.                                   *)
NeverBroken == tab.status \in {"open", "closed"}

(* Every pane of the tab is in one place: tiled, floating, or waiting for   *)
(* one other pane, whatever is toggled, replaced, hidden and closed.       *)
Apart(t) ==
    /\ t.tiled \cap t.floating = {}
    /\ \A e \in Panes : t.suppressed[e] \notin t.tiled \cup t.floating
    /\ \A e, f \in Panes :
          t.suppressed[e] # None /\ t.suppressed[e] = t.suppressed[f] => e = f
OnePlace == tab.status = "open" => Apart(tab)

(* Every client of a tab that can be looked at looks at a pane of it.  What *)
(* fills the screen is what every client looks at, and the rest of the      *)
(* tiles is hidden.                                                         *)
ClientsSeePanes ==
    tab.status = "open" =>
        /\ Selectable(tab) # {} =>
              \A c \in tab.clients : tab.tiledFocus[c] \in Selectable(tab)
        /\ tab.full =>
              /\ tab.hidden \subseteq tab.tiled
              /\ \A c \in tab.clients :
                    tab.tiledFocus[c] \in tab.tiled \ tab.hidden
                    /\ Selectable(tab) \ {tab.tiledFocus[c]} \subseteq tab.hidden

(* All clients look at the same floating pane ("due to z_index issues").    *)
FloatFocusIsShared ==
    tab.status = "open" =>
        \A c, d \in tab.clients :
            tab.floatFocus[c] # None /\ tab.floatFocus[d] # None =>
                /\ tab.floatFocus[c] = tab.floatFocus[d]
                /\ tab.floatFocus[c] \in tab.floating

(* A pane whose process runs stays with the tab until it is closed or taken *)
(* elsewhere, unless                                                       *)
(*   there is no room for it;                                              *)
(*   it waited for an editor that closes while the other layer shows;      *)
(*   it waited for a plugin, which hides itself;                           *)
(*   it was split off while floating panes show, or put in place of a pane *)
(*     that waits or of none;                                              *)
(*   a plugin closes it;                                                   *)
(*   it waits when the last tile closes.                                   *)
NoRoom == Cardinality(tab.floating) >= FloatRoom \/ ~HasTileRoom(tab)
LeftWaiting(p) ==
    \E e \in Panes :
        /\ tab.suppressed[e] = p
        /\ \/ e \notin Layer(tab)
           \/ tab'.suppressed[e] = e
           \/ tab'.status = "closed"
Homeless(t, running) == running \ (IF t.status = "closed" THEN {} ELSE Here(t))
PanesSurvive ==
    [][tab'.status \in {"open", "closed"} =>
         \A p \in Homeless(tab', alive') \ Homeless(tab, alive) :
            \/ NoRoom
            \/ p \in alive /\ LeftWaiting(p)
            \/ /\ tab.shows
               /\ \E c \in Clients, x \in ClientChoices(tab) : Split(p, c, TRUE, x)
            \/ \E c \in Clients :
                  ActivePane(tab, c) \notin Layer(tab) /\ OpenInPlaceEditor(p, c)
            \/ \E old \in Waiting(tab) : ReplacePane(old, p)
            \/ \E x \in Choices(tab) : CloseTerminalPane(p, x)]_vars

=============================================================================

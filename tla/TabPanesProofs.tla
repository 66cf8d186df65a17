--------------------------- MODULE TabPanesProofs ---------------------------
(***************************************************************************)
(* TabPanes, for any clients and panes, however many fit, mirrored or not: *)
(* type correctness, that every pane is in one place, and that the clients *)
(* share the floating pane they look at, whatever disorder there is; and,  *)
(* when there is none, that nothing breaks, that every client looks at a   *)
(* pane of the tab, and that running panes stay.                           *)
(*                                                                         *)
(* Two more facts make the first part (Sound) inductive.  The floating     *)
(* focus of a client that has left is still that of a pane of the layer,   *)
(* because it counts when the client returns.  And a pane that a method    *)
(* puts somewhere was nowhere: it is new, or it has just been taken out.   *)
(*                                                                         *)
(* The second part (Viewed) needs of the tiles that also those who have    *)
(* left look at one that can be selected, that what fills the screen is    *)
(* what all look at, and that the bars of the layout are never replaced:   *)
(* what cannot be selected is a tile or has hidden itself under its own id. *)
(*                                                                         *)
(* The third (Strays) follows a pane through the methods of one request:   *)
(* each Holds all panes but those it names.                                *)
(***************************************************************************)
EXTENDS TabPanes, FiniteSetTheorems, TLAPS

FocusIsFloating(t) ==
    \A c \in Clients : t.floatFocus[c] # None => t.floatFocus[c] \in t.floating

FocusIsOne(t) ==
    \A c, d \in t.clients :
        t.floatFocus[c] # None /\ t.floatFocus[d] # None =>
            t.floatFocus[c] = t.floatFocus[d]

(* A tab as the invariant wants it, or one with which the thread ended.     *)
Sound(t) ==
    /\ t \in Tabs
    /\ t.status = "open" => Apart(t) /\ FocusIsFloating(t) /\ FocusIsOne(t)

(* The pane is nowhere in the tab.                                         *)
Nowhere(t, p) == t.status = "open" => p \notin Here(t)

(* u has the panes and clients of t, and is not mended if t is broken.      *)
Keeps(t, u) ==
    /\ u \in Tabs
    /\ u.tiled = t.tiled /\ u.floating = t.floating
    /\ u.suppressed = t.suppressed
    /\ u.floatFocus = t.floatFocus
    /\ u.clients = t.clients
    /\ u.status = "open" => t.status = "open"

----------------------------------------------------------------------------
(* Choices and focus                                                        *)

LEMMA PreferIsMember ==
    ASSUME NEW S, NEW x, S # {}
    PROVE  Prefer(S, x) \in S
BY DEF Prefer

LEMMA ChoiceOfClient ==
    ASSUME NEW t, NEW x \in Choices(t) \cup ClientChoices(t)
    PROVE  t.clients # {} /\ x \in Choices(t) => x.client \in t.clients
BY DEF Choices, ClientChoices, Firsts

LEMMA LookingType ==
    ASSUME NEW f \in [Clients -> Maybe(Panes)], NEW D, NEW p \in Maybe(Panes)
    PROVE  /\ Looking(f, D, p) \in [Clients -> Maybe(Panes)]
           /\ \A c \in Clients : Looking(f, D, p)[c] = IF c \in D THEN p ELSE f[c]
BY DEF Looking

LEMMA NobodyType == Nobody \in [Clients -> Maybe(Panes)]
BY DEF Nobody, Maybe

LEMMA KeepsSound ==
    ASSUME NEW t, NEW u, Sound(t), Keeps(t, u)
    PROVE  Sound(u)
BY DEF Sound, Keeps, Apart, FocusIsFloating, FocusIsOne

LEMMA KeepsNowhere ==
    ASSUME NEW t, NEW u, NEW p, Keeps(t, u), Nowhere(t, p)
    PROVE  Nowhere(u, p)
BY DEF Keeps, Nowhere, Here, Waiting

LEMMA KeepsKeeps ==
    ASSUME NEW t, NEW u, NEW v, Keeps(t, u), Keeps(u, v)
    PROVE  Keeps(t, v)
BY DEF Keeps

LEMMA KeepsItself == ASSUME NEW t \in Tabs PROVE Keeps(t, t)
BY DEF Keeps

----------------------------------------------------------------------------
(* Methods that keep the panes and the clients                              *)

LEMMA TiledFocusReplaced ==
    ASSUME NEW t \in Tabs, NEW f \in [Clients -> Maybe(Panes)]
    PROVE  Keeps(t, [t EXCEPT !.tiledFocus = f])
BY DEF Keeps, Tabs

LEMMA BrokenKeeps ==
    ASSUME NEW t \in Tabs
    PROVE  Keeps(t, Broken(t))
BY DEF Keeps, Broken, Tabs

LEMMA UnsetFullscreenKeeps ==
    ASSUME NEW t \in Tabs, NEW x
    PROVE  Keeps(t, UnsetFullscreen(t, x))
BY BrokenKeeps, KeepsItself DEF Keeps, UnsetFullscreen, Tabs

LEMMA FocusTiledKeeps ==
    ASSUME NEW t \in Tabs, NEW p \in Panes, NEW c, NEW x
    PROVE  Keeps(t, FocusTiled(t, p, c, x))
<1>. DEFINE u == IF p \in t.hidden THEN UnsetFullscreen(t, x) ELSE t
            D == IF Mirrored THEN {c} \cup u.clients ELSE {c}
<1>1. Keeps(t, u)  BY UnsetFullscreenKeeps, KeepsItself
<1>2. u \in Tabs /\ u.tiledFocus \in [Clients -> Maybe(Panes)]
  BY <1>1 DEF Keeps, Tabs
<1>3. Looking(u.tiledFocus, D, p) \in [Clients -> Maybe(Panes)]
  BY <1>2, LookingType DEF Maybe
<1>4. FocusTiled(t, p, c, x)
        = [u EXCEPT !.tiledFocus = Looking(u.tiledFocus, D, p)]
  BY DEF FocusTiled
<1>5. Keeps(u, [u EXCEPT !.tiledFocus = Looking(u.tiledFocus, D, p)])
  BY <1>2, <1>3, TiledFocusReplaced
<1>. HIDE DEF u, D
<1>. QED  BY <1>1, <1>4, <1>5, KeepsKeeps

LEMMA FocusTiledIfNotFocusedKeeps ==
    ASSUME NEW t \in Tabs, NEW p \in Panes, NEW c \in Clients, NEW x
    PROVE  Keeps(t, FocusTiledIfNotFocused(t, p, c, x))
<1>1. t.tiledFocus[c] # None => t.tiledFocus[c] \in Panes
  BY DEF Tabs, Maybe
<1>. QED  BY <1>1, FocusTiledKeeps DEF FocusTiledIfNotFocused

LEMMA MoveOutOfTiledKeeps ==
    ASSUME NEW t \in Tabs, NEW p, NEW x
    PROVE  Keeps(t, MoveOutOfTiled(t, p, x))
<1>. DEFINE heirs == Selectable(t) \ t.hidden
            f == CASE At(t.tiledFocus, p) = {} -> t.tiledFocus
                   [] At(t.tiledFocus, p) # {} /\ heirs # {} ->
                        Looking(t.tiledFocus, At(t.tiledFocus, p), Prefer(heirs, x))
                   [] OTHER -> Nobody
<1>1. heirs \subseteq Panes /\ t.tiledFocus \in [Clients -> Maybe(Panes)]
  BY DEF Selectable, Tabs
<1>2. heirs # {} => Prefer(heirs, x) \in Maybe(Panes)
  BY <1>1, PreferIsMember DEF Maybe
<1>3. f \in [Clients -> Maybe(Panes)]
  BY <1>1, <1>2, LookingType, NobodyType
<1>4. MoveOutOfTiled(t, p, x) = [t EXCEPT !.tiledFocus = f]
  BY DEF MoveOutOfTiled
<1>. QED  BY <1>3, <1>4, TiledFocusReplaced

LEMMA ToggleFullscreenOfKeeps ==
    ASSUME NEW t \in Tabs, NEW c \in Clients, NEW x
    PROVE  Keeps(t, ToggleFullscreenOf(t, c, x))
<1>. DEFINE p == t.tiledFocus[c]
            f == Looking(t.tiledFocus, t.clients, p)
<1>1. p \in Maybe(Panes) /\ t.tiledFocus \in [Clients -> Maybe(Panes)]
  BY DEF Tabs
<1>2. f \in [Clients -> Maybe(Panes)]  BY <1>1, LookingType
<1>3. Keeps(t, [t EXCEPT !.full = TRUE, !.hidden = Selectable(t) \ {p},
                         !.tiledFocus = f])
  BY <1>2 DEF Keeps, Tabs, Selectable
<1>. QED
  BY <1>3, UnsetFullscreenKeeps, BrokenKeeps, KeepsItself DEF ToggleFullscreenOf

LEMMA FocusNextTileKeeps ==
    ASSUME NEW t \in Tabs, NEW c \in Clients, NEW x
    PROVE  Keeps(t, FocusNextTile(t, c, x))
<1>. DEFINE others == Selectable(t) \ {t.tiledFocus[c]}
            p == IF others = {} THEN t.tiledFocus[c] ELSE Prefer(others, x)
            f == Looking(t.tiledFocus, t.clients, p)
<1>1. /\ t.tiledFocus[c] \in Maybe(Panes) /\ others \subseteq Panes
      /\ t.tiledFocus \in [Clients -> Maybe(Panes)]
  BY DEF Tabs, Selectable
<1>2. p \in Maybe(Panes)  BY <1>1, PreferIsMember DEF Maybe
<1>. HIDE DEF p
<1>3. f \in [Clients -> Maybe(Panes)]  BY <1>1, <1>2, LookingType
<1>4. FocusNextTile(t, c, x) \in {Broken(t), [t EXCEPT !.tiledFocus = f]}
  BY DEF FocusNextTile, p
<1>. QED  BY <1>3, <1>4, TiledFocusReplaced, BrokenKeeps

LEMMA MoveTiledFocusKeeps ==
    ASSUME NEW t \in Tabs, NEW c \in Clients, NEW x
    PROVE  Keeps(t, MoveTiledFocus(t, c, x))
<1>1. Selectable(t) \subseteq Panes  BY DEF Selectable, Tabs
<1>. QED  BY <1>1, FocusTiledKeeps, KeepsItself DEF MoveTiledFocus

LEMMA ShowsKeeps ==
    ASSUME NEW t \in Tabs
    PROVE  Keeps(t, Show(t)) /\ Keeps(t, Hide(t))
BY DEF Keeps, Show, Hide, Tabs

LEMMA RenderKeeps ==
    ASSUME NEW t \in Tabs
    PROVE  Keeps(t, Render(t))
BY DEF Keeps, Render, Tabs

----------------------------------------------------------------------------
(* Methods that move, add and remove panes                                  *)

(* What is enough for a sound tab, field by field. *)
LEMMA SoundFields ==
    ASSUME NEW t, Sound(t)
    PROVE  /\ t \in Tabs
           /\ t.tiled \in SUBSET Panes /\ t.floating \in SUBSET Panes
           /\ t.suppressed \in [Panes -> Maybe(Panes)]
           /\ t.tiledFocus \in [Clients -> Maybe(Panes)]
           /\ t.floatFocus \in [Clients -> Maybe(Panes)]
           /\ t.clients \in SUBSET Clients
           /\ t.shows \in BOOLEAN
BY DEF Sound, Tabs

LEMMA RemoveTiledSound ==
    ASSUME NEW t, Sound(t), NEW p \in Panes, NEW x
    PROVE  LET u == RemoveTiled(t, p, x)
           IN  /\ Sound(u)
               /\ u.suppressed = t.suppressed
               /\ u.floating = t.floating /\ u.clients = t.clients
               /\ u.status = "open" => /\ t.status = "open"
                                       /\ p \in t.tiled
                                       /\ u.tiled = t.tiled \ {p}
<1>. DEFINE rest == [t EXCEPT !.tiled = @ \ {p}]
<1>1. /\ rest \in Tabs
      /\ rest.tiled = t.tiled \ {p} /\ rest.floating = t.floating
      /\ rest.suppressed = t.suppressed /\ rest.floatFocus = t.floatFocus
      /\ rest.clients = t.clients /\ rest.status = t.status
  BY DEF Sound, Tabs
<1>2. Sound(rest)
  BY <1>1 DEF Sound, Apart, FocusIsFloating, FocusIsOne
<1>. HIDE DEF rest
<1>3. Keeps(rest, MoveOutOfTiled(rest, p, x))
  BY <1>1, MoveOutOfTiledKeeps
<1>4. Keeps(rest, [rest EXCEPT !.tiledFocus = Nobody])
  BY <1>1, TiledFocusReplaced, NobodyType
<1>5. CASE p \notin t.tiled
  <2>1. RemoveTiled(t, p, x) = Broken(t)
    BY <1>5 DEF RemoveTiled
  <2>2. Broken(t).status = "broken"  BY SoundFields DEF Broken, Tabs
  <2>3. Keeps(t, Broken(t))  BY SoundFields, BrokenKeeps
  <2>4. Sound(Broken(t))  BY <2>3, KeepsSound
  <2>. QED  BY <2>1, <2>2, <2>3, <2>4 DEF Keeps
<1>6. CASE p \in t.tiled
  <2>1. RemoveTiled(t, p, x) \in {MoveOutOfTiled(rest, p, x),
                                  [rest EXCEPT !.tiledFocus = Nobody]}
    BY <1>6 DEF RemoveTiled, rest
  <2>2. Keeps(rest, RemoveTiled(t, p, x))  BY <2>1, <1>3, <1>4
  <2>. QED  BY <2>2, <1>1, <1>2, <1>6, KeepsSound DEF Keeps
<1>. QED  BY <1>5, <1>6

LEMMA ReplaceTiledSound ==
    ASSUME NEW t, Sound(t), NEW old, NEW p \in Panes, Nowhere(t, p)
    PROVE  LET u == ReplaceTiled(t, old, p)
           IN  /\ Sound(u)
               /\ u.status = t.status /\ u.clients = t.clients
               /\ u.suppressed = t.suppressed /\ u.floating = t.floating
               /\ u.tiled = IF old \in t.tiled
                            THEN (t.tiled \ {old}) \cup {p} ELSE t.tiled
<1>. DEFINE u == ReplaceTiled(t, old, p)
            f == Looking(t.tiledFocus, At(t.tiledFocus, old), p)
            S == IF old \in t.tiled THEN (t.tiled \ {old}) \cup {p} ELSE t.tiled
<1>1. f \in [Clients -> Maybe(Panes)] /\ S \in SUBSET Panes
  BY SoundFields, LookingType DEF Maybe
<1>0. u = [t EXCEPT !.tiled = S, !.tiledFocus = f] /\ t \in Tabs
  BY SoundFields DEF ReplaceTiled
<1>. HIDE DEF u, f, S
<1>2. /\ u \in Tabs
      /\ u.status = t.status /\ u.clients = t.clients
      /\ u.suppressed = t.suppressed /\ u.floating = t.floating
      /\ u.floatFocus = t.floatFocus
      /\ u.tiled = S
  BY <1>0, <1>1 DEF Tabs
<1>3. p \in Panes /\ p # None  BY TabAssumption
<1>4. Sound(u)
  BY <1>2, <1>3, SoundFields
     DEF Sound, Nowhere, Here, Waiting, Apart, FocusIsFloating, FocusIsOne, S
<1>. QED  BY <1>2, <1>4 DEF u, S

LEMMA FocusFloatingSound ==
    ASSUME NEW t, Sound(t), NEW c \in Clients,
           NEW p \in Panes, t.status = "open" => p \in t.floating
    PROVE  LET u == FocusFloating(t, p, c)
           IN  /\ Sound(u)
               /\ u.status = t.status /\ u.clients = t.clients
               /\ u.suppressed = t.suppressed /\ u.floating = t.floating
               /\ u.tiled = t.tiled
               /\ \A d \in {c} \cup t.clients : u.floatFocus[d] = p
<1>. DEFINE u == FocusFloating(t, p, c)
            f == Looking(t.floatFocus, {c} \cup t.clients, p)
<1>1. /\ f \in [Clients -> Maybe(Panes)]
      /\ \A d \in Clients : f[d] = IF d \in {c} \cup t.clients THEN p
                                   ELSE t.floatFocus[d]
  BY SoundFields, LookingType DEF Maybe
<1>0. u = [t EXCEPT !.floatFocus = f] /\ t \in Tabs
  BY SoundFields DEF FocusFloating
<1>. HIDE DEF f, u
<1>2. /\ u \in Tabs
      /\ u.status = t.status /\ u.clients = t.clients
      /\ u.suppressed = t.suppressed /\ u.floating = t.floating
      /\ u.floatFocus = f /\ u.tiled = t.tiled
  BY <1>0, <1>1 DEF Tabs
<1>3. Sound(u)
  BY <1>1, <1>2, SoundFields DEF Sound, Apart, FocusIsFloating, FocusIsOne
<1>. QED  BY <1>1, <1>2, <1>3, SoundFields DEF u

LEMMA RemoveFloatingSound ==
    ASSUME NEW t, Sound(t), NEW p \in Panes, NEW x
    PROVE  LET u == RemoveFloating(t, p, x)
           IN  /\ Sound(u)
               /\ u.status = t.status /\ u.clients = t.clients
               /\ u.suppressed = t.suppressed /\ u.tiled = t.tiled
               /\ u.floating = t.floating \ {p}
<1>. DEFINE u == RemoveFloating(t, p, x)
            rest == t.floating \ {p}
            b == t.shows /\ rest # {}
            heir == Prefer(rest, x)
            f == CASE At(t.floatFocus, p) = {} -> t.floatFocus
                   [] At(t.floatFocus, p) # {} /\ rest # {} ->
                        Looking(t.floatFocus, At(t.floatFocus, p) \cup t.clients, heir)
                   [] OTHER -> Looking(t.floatFocus, At(t.floatFocus, p), None)
<1>1. rest \in SUBSET Panes /\ b \in BOOLEAN /\ None \in Maybe(Panes)
  BY SoundFields DEF Maybe
<1>2. /\ u = [t EXCEPT !.floating = rest, !.shows = b, !.floatFocus = f]
      /\ t \in Tabs /\ t.floatFocus \in [Clients -> Maybe(Panes)]
  BY SoundFields DEF RemoveFloating
<1>3. rest # {} => heir \in rest
  BY PreferIsMember
<1>. HIDE DEF u, b, heir
<1>4. CASE At(t.floatFocus, p) = {}
  <2>1. f = t.floatFocus  BY <1>4
  <2>. HIDE DEF f
  <2>2. /\ u \in Tabs
        /\ u.tiled = t.tiled /\ u.floating = rest
        /\ u.suppressed = t.suppressed /\ u.floatFocus = f
        /\ u.clients = t.clients /\ u.status = t.status
    BY <1>1, <1>2, <2>1 DEF Tabs
  <2>3. Sound(u)
    BY <1>4, <2>1, <2>2, SoundFields
       DEF Sound, Apart, FocusIsFloating, FocusIsOne, At
  <2>. QED  BY <2>2, <2>3 DEF u
<1>5. CASE At(t.floatFocus, p) # {} /\ rest # {}
  <2>1. f = Looking(t.floatFocus, At(t.floatFocus, p) \cup t.clients, heir)
    BY <1>5
  <2>. HIDE DEF f
  <2>2. heir \in Maybe(Panes)  BY <1>1, <1>3, <1>5 DEF Maybe
  <2>3. /\ f \in [Clients -> Maybe(Panes)]
        /\ \A c \in Clients : f[c] = IF c \in At(t.floatFocus, p) \cup t.clients
                                     THEN heir ELSE t.floatFocus[c]
    BY <2>1, <2>2, SoundFields, LookingType
  <2>4. /\ u \in Tabs
        /\ u.tiled = t.tiled /\ u.floating = rest
        /\ u.suppressed = t.suppressed /\ u.floatFocus = f
        /\ u.clients = t.clients /\ u.status = t.status
    BY <1>1, <1>2, <2>3 DEF Tabs
  <2>5. Sound(u)
    BY <1>3, <1>5, <2>3, <2>4, SoundFields
       DEF Sound, Apart, FocusIsFloating, FocusIsOne, At
  <2>. QED  BY <2>4, <2>5 DEF u
<1>6. CASE At(t.floatFocus, p) # {} /\ rest = {}
  <2>1. f = Looking(t.floatFocus, At(t.floatFocus, p), None)
    BY <1>6
  <2>. HIDE DEF f
  <2>2. /\ f \in [Clients -> Maybe(Panes)]
        /\ \A c \in Clients : f[c] = IF c \in At(t.floatFocus, p)
                                     THEN None ELSE t.floatFocus[c]
    BY <1>1, <2>1, SoundFields, LookingType
  <2>3. /\ u \in Tabs
        /\ u.tiled = t.tiled /\ u.floating = rest
        /\ u.suppressed = t.suppressed /\ u.floatFocus = f
        /\ u.clients = t.clients /\ u.status = t.status
    BY <1>1, <1>2, <2>2 DEF Tabs
  <2>4. Sound(u)
    BY <1>6, <2>2, <2>3, SoundFields
       DEF Sound, Apart, FocusIsFloating, FocusIsOne, At
  <2>. QED  BY <2>3, <2>4 DEF u
<1>. QED  BY <1>4, <1>5, <1>6

LEMMA ReplaceFloatingSound ==
    ASSUME NEW t, Sound(t), NEW old \in Panes, NEW p \in Panes, Nowhere(t, p)
    PROVE  LET u == ReplaceFloating(t, old, p)
           IN  /\ Sound(u)
               /\ u.status = t.status /\ u.clients = t.clients
               /\ u.suppressed = t.suppressed /\ u.tiled = t.tiled
               /\ u.floating = IF old \in t.floating
                               THEN (t.floating \ {old}) \cup {p} ELSE t.floating
<1>. DEFINE u == ReplaceFloating(t, old, p)
            f == Looking(t.floatFocus, At(t.floatFocus, old), p)
            S == IF old \in t.floating
                 THEN (t.floating \ {old}) \cup {p} ELSE t.floating
<1>1. S \in SUBSET Panes /\ p # None /\ old # None
  BY SoundFields, TabAssumption
<1>2. /\ f \in [Clients -> Maybe(Panes)]
      /\ \A c \in Clients : f[c] = IF t.floatFocus[c] = old THEN p
                                   ELSE t.floatFocus[c]
  BY SoundFields, LookingType DEF Maybe, At
<1>3. u = [t EXCEPT !.floating = S, !.floatFocus = f] /\ t \in Tabs
  BY SoundFields DEF ReplaceFloating
<1>. HIDE DEF u, f, S
<1>4. /\ u \in Tabs
      /\ u.status = t.status /\ u.clients = t.clients
      /\ u.suppressed = t.suppressed /\ u.tiled = t.tiled
      /\ u.floatFocus = f /\ u.floating = S
  BY <1>1, <1>2, <1>3 DEF Tabs
<1>5. Sound(u)
  BY <1>1, <1>2, <1>4, SoundFields
     DEF Sound, Nowhere, Here, Waiting, Apart, FocusIsFloating, FocusIsOne, S
<1>. QED  BY <1>4, <1>5 DEF u, S

LEMMA MoveFloatingFocusSound ==
    ASSUME NEW t, Sound(t), NEW c \in t.clients, NEW x
    PROVE  Sound(MoveFloatingFocus(t, c, x))
<1>. DEFINE p == t.floatFocus[c]
            f == Looking(t.floatFocus, t.clients, p)
<1>1. /\ t \in Tabs /\ c \in Clients /\ p \in Maybe(Panes)
      /\ t.floatFocus \in [Clients -> Maybe(Panes)]
  BY SoundFields
<1>2. CASE p = None
  <2>1. MoveFloatingFocus(t, c, x) = [t EXCEPT !.floatFocus = Nobody]
    BY <1>2 DEF MoveFloatingFocus
  <2>2. LET u == [t EXCEPT !.floatFocus = Nobody]
        IN  /\ u \in Tabs
            /\ u.tiled = t.tiled /\ u.floating = t.floating
            /\ u.suppressed = t.suppressed
            /\ \A d \in Clients : u.floatFocus[d] = None
            /\ u.clients = t.clients /\ u.status = t.status
    BY <1>1, NobodyType DEF Tabs, Nobody
  <2>. QED
    BY <2>1, <2>2, SoundFields DEF Sound, Apart, FocusIsFloating, FocusIsOne
<1>3. CASE p # None /\ p \in t.floating /\ x.pane \in t.floating \ {p}
  <2>1. MoveFloatingFocus(t, c, x) = FocusFloating(t, x.pane, c)
    BY <1>3 DEF MoveFloatingFocus
  <2>2. x.pane \in Panes /\ x.pane \in t.floating  BY <1>3, SoundFields
  <2>. QED  BY <1>1, <2>1, <2>2, FocusFloatingSound
<1>4. CASE p # None /\ ~(p \in t.floating /\ x.pane \in t.floating \ {p})
  <2>1. MoveFloatingFocus(t, c, x) = [t EXCEPT !.floatFocus = f]
    BY <1>4 DEF MoveFloatingFocus
  <2>2. /\ f \in [Clients -> Maybe(Panes)]
        /\ \A d \in Clients : f[d] = IF d \in t.clients THEN p ELSE t.floatFocus[d]
    BY <1>1, LookingType
  <2>. HIDE DEF f
  <2>3. LET u == [t EXCEPT !.floatFocus = f]
        IN  /\ u \in Tabs
            /\ u.tiled = t.tiled /\ u.floating = t.floating
            /\ u.suppressed = t.suppressed /\ u.floatFocus = f
            /\ u.clients = t.clients /\ u.status = t.status
    BY <1>1, <2>2 DEF Tabs
  <2>. QED
    BY <1>1, <1>4, <2>1, <2>2, <2>3, SoundFields
       DEF Sound, Apart, FocusIsFloating, FocusIsOne
<1>. QED  BY <1>2, <1>3, <1>4

LEMMA AddFloatingSound ==
    ASSUME NEW t, Sound(t), NEW p \in Panes, Nowhere(t, p)
    PROVE  Sound(AddFloating(t, p))
<1>. DEFINE f == Looking(t.floatFocus, t.clients, p)
            S == t.floating \cup {p}
            u == [t EXCEPT !.floating = S, !.floatFocus = f]
<1>1. /\ t \in Tabs /\ S \in SUBSET Panes /\ p # None
      /\ t.clients \subseteq Clients
  BY SoundFields, TabAssumption
<1>2. /\ f \in [Clients -> Maybe(Panes)]
      /\ \A d \in Clients : f[d] = IF d \in t.clients THEN p ELSE t.floatFocus[d]
  BY SoundFields, LookingType DEF Maybe
<1>3. AddFloating(t, p) \in {t, u}
  BY DEF AddFloating
<1>. HIDE DEF f, S
<1>4. /\ u \in Tabs
      /\ u.tiled = t.tiled /\ u.floating = S
      /\ u.suppressed = t.suppressed /\ u.floatFocus = f
      /\ u.clients = t.clients /\ u.status = t.status
  BY <1>1, <1>2 DEF Tabs
<1>. HIDE DEF u
<1>5. Sound(u)
  BY <1>1, <1>2, <1>4
     DEF Sound, Nowhere, Here, Waiting, Apart, FocusIsFloating, FocusIsOne, S
<1>. QED  BY <1>3, <1>5

LEMMA AddTiledSound ==
    ASSUME NEW t, Sound(t), NEW p \in Panes, Nowhere(t, p),
           NEW c \in Clients \cup {None}, NEW x
    PROVE  Sound(AddTiled(t, p, c, x))
<1>. DEFINE u == UnsetFullscreen(t, x)
            v == [u EXCEPT !.tiled = @ \cup {p}]
<1>1. Keeps(t, u)  BY SoundFields, UnsetFullscreenKeeps
<1>2. Sound(u) /\ Nowhere(u, p) /\ p # None
  BY <1>1, KeepsSound, KeepsNowhere, TabAssumption
<1>3. u \in Tabs  BY <1>2, SoundFields
<1>4. \/ AddTiled(t, p, c, x) \in {u, v}
      \/ AddTiled(t, p, c, x) = FocusTiled(v, p, c, x)
  BY DEF AddTiled
<1>. HIDE DEF u
<1>5. /\ v \in Tabs
      /\ v.tiled = u.tiled \cup {p} /\ v.floating = u.floating
      /\ v.suppressed = u.suppressed /\ v.floatFocus = u.floatFocus
      /\ v.clients = u.clients /\ v.status = u.status
  BY <1>3 DEF Tabs
<1>. HIDE DEF v
<1>6. Sound(v)
  BY <1>2, <1>5
     DEF Sound, Nowhere, Here, Waiting, Apart, FocusIsFloating, FocusIsOne
<1>7. Keeps(v, FocusTiled(v, p, c, x))
  BY <1>5, FocusTiledKeeps
<1>. QED  BY <1>2, <1>4, <1>6, <1>7, KeepsSound

(* A pane that waited is taken out, to be put elsewhere. *)
LEMMA TakenOutSound ==
    ASSUME NEW t, Sound(t), NEW e \in Panes, t.suppressed[e] # None
    PROVE  LET u == [t EXCEPT !.suppressed[e] = None]
           IN  /\ Sound(u)
               /\ t.suppressed[e] \in Panes
               /\ Nowhere(u, t.suppressed[e])
<1>. DEFINE old == t.suppressed[e]
            u == [t EXCEPT !.suppressed[e] = None]
<1>1. /\ t \in Tabs /\ old \in Panes /\ None \in Maybe(Panes)
      /\ t.suppressed \in [Panes -> Maybe(Panes)]
  BY SoundFields DEF Maybe
<1>2. /\ u \in Tabs
      /\ u.tiled = t.tiled /\ u.floating = t.floating
      /\ u.suppressed = [t.suppressed EXCEPT ![e] = None]
      /\ u.floatFocus = t.floatFocus
      /\ u.clients = t.clients /\ u.status = t.status
  BY <1>1 DEF Tabs
<1>. HIDE DEF u, old
<1>3. /\ \A f \in Panes : u.suppressed[f] = IF f = e THEN None
                                            ELSE t.suppressed[f]
      /\ None \notin t.tiled \cup t.floating
  BY <1>1, <1>2, SoundFields, TabAssumption
<1>4. Sound(u)
  BY <1>2, <1>3 DEF Sound, Apart, FocusIsFloating, FocusIsOne
<1>5. Nowhere(u, old)
  BY <1>1, <1>2, <1>3 DEF Sound, Apart, Nowhere, Here, Waiting, old
<1>. QED  BY <1>1, <1>4, <1>5 DEF u, old

LEMMA ReplaceWithSuppressedSound ==
    ASSUME NEW t, Sound(t), NEW e \in Panes, t.suppressed[e] # None
    PROVE  Sound(ReplaceWithSuppressed(t, e))
<1>. DEFINE old == t.suppressed[e]
            rest == [t EXCEPT !.suppressed[e] = None]
<1>1. ReplaceWithSuppressed(t, e) \in
        {ReplaceFloating(rest, e, old), ReplaceTiled(rest, e, old)}
  BY DEF ReplaceWithSuppressed
<1>2. Sound(rest) /\ old \in Panes /\ Nowhere(rest, old)
  BY TakenOutSound
<1>. HIDE DEF rest, old
<1>3. Sound(ReplaceFloating(rest, e, old))
  BY <1>2, ReplaceFloatingSound
<1>4. Sound(ReplaceTiled(rest, e, old))
  BY <1>2, ReplaceTiledSound
<1>. QED  BY <1>1, <1>3, <1>4

(* Closing a pane, or taking it out to put it elsewhere. *)
LEMMA ClosePaneSound ==
    ASSUME NEW t, Sound(t), NEW p \in Panes, NEW b \in BOOLEAN, NEW x
    PROVE  LET u == ClosePane(t, p, b, x)
           IN  Sound(u) /\ (b => Nowhere(u, p))
<1>. DEFINE v == UnsetFullscreen(t, x)
<1>1. Keeps(t, v)  BY SoundFields, UnsetFullscreenKeeps
<1>2. Sound(v)  BY <1>1, KeepsSound
<1>3. CASE ~b /\ t.suppressed[p] # None
  BY <1>3, ReplaceWithSuppressedSound DEF ClosePane
<1>4. CASE ~(~b /\ t.suppressed[p] # None) /\ p \in t.floating
  <2>1. ClosePane(t, p, b, x) = RemoveFloating(t, p, x)
    BY <1>4 DEF ClosePane
  <2>. QED
    BY <1>4, <2>1, RemoveFloatingSound DEF Sound, Apart, Nowhere, Here, Waiting
<1>5. CASE ~(~b /\ t.suppressed[p] # None) /\ p \notin t.floating
  <2>1. ClosePane(t, p, b, x) = RemoveTiled(v, p, x)
    BY <1>5 DEF ClosePane
  <2>. HIDE DEF v
  <2>. QED
    BY <1>1, <1>2, <1>5, <2>1, RemoveTiledSound
       DEF Keeps, Sound, Apart, Nowhere, Here, Waiting
<1>. QED  BY <1>3, <1>4, <1>5

LEMMA RenderSound ==
    ASSUME NEW t, Sound(t)
    PROVE  Sound(Render(t))
BY SoundFields, RenderKeeps, KeepsSound

LEMMA ClientsGoSound ==
    ASSUME NEW t, Sound(t), NEW c
    PROVE  Sound(RemoveClient(t, c)) /\ Sound(DrainClient(t, c))
<1>1. t \in Tabs /\ t.clients \subseteq Clients /\ None \in Maybe(Panes)
  BY SoundFields DEF Maybe
<1>2. LET u == RemoveClient(t, c)
      IN  /\ u \in Tabs
          /\ u.tiled = t.tiled /\ u.floating = t.floating
          /\ u.suppressed = t.suppressed /\ u.floatFocus = t.floatFocus
          /\ u.clients = t.clients \ {c} /\ u.status = t.status
  BY <1>1 DEF RemoveClient, Tabs
<1>3. LET u == DrainClient(t, c)
      IN  /\ u \in Tabs
          /\ u.tiled = t.tiled /\ u.floating = t.floating
          /\ u.suppressed = t.suppressed /\ u.floatFocus = t.floatFocus
          /\ u.clients \subseteq t.clients /\ u.status = t.status
  BY <1>1 DEF DrainClient, Tabs
<1>. QED  BY <1>2, <1>3 DEF Sound, Apart, FocusIsFloating, FocusIsOne

(* A client may join that looks at the floating pane of the others, or at   *)
(* none.                                                                    *)
LEMMA JoinSound ==
    ASSUME NEW t, Sound(t), NEW c \in Clients,
           t.status = "open" =>
               \A d \in t.clients :
                   t.floatFocus[c] # None /\ t.floatFocus[d] # None =>
                       t.floatFocus[c] = t.floatFocus[d]
    PROVE  Sound([t EXCEPT !.clients = @ \cup {c}])
<1>. DEFINE u == [t EXCEPT !.clients = @ \cup {c}]
<1>1. t \in Tabs /\ t.clients \subseteq Clients  BY SoundFields
<1>2. /\ u \in Tabs
      /\ u.tiled = t.tiled /\ u.floating = t.floating
      /\ u.suppressed = t.suppressed /\ u.floatFocus = t.floatFocus
      /\ u.clients = t.clients \cup {c} /\ u.status = t.status
  BY <1>1 DEF Tabs
<1>. HIDE DEF u
<1>3. Sound(u)
  BY <1>2 DEF Sound, Apart, FocusIsFloating, FocusIsOne
<1>. QED  BY <1>3 DEF u

LEMMA AddClientSound ==
    ASSUME NEW t, Sound(t), NEW c \in Clients, NEW x \in Choices(t)
    PROVE  Sound(AddClient(t, c, x))
<1>. DEFINE visible  == t.tiled \ t.hidden
            smallest == Prefer(IF visible \cap Terminals # {}
                               THEN visible \cap Terminals ELSE visible, x)
            floats   == {t.floatFocus[d] : d \in Clients} \ {None}
            q == IF t.floatFocus[c] # None THEN t.floatFocus[c]
                 ELSE Prefer(floats, x)
            v == IF floats = {} THEN t ELSE FocusFloating(t, q, c)
            w == LET p == v.tiledFocus[x.client]
                 IN  IF p = None THEN v ELSE FocusTiledIfNotFocused(v, p, c, x)
            first == IF t.focusId # None THEN t.focusId ELSE smallest
            Join(u) == [u EXCEPT !.clients = @ \cup {c}]
<1>1. t \in Tabs /\ t.floatFocus \in [Clients -> Maybe(Panes)]
  BY SoundFields
<1>2. CASE t.clients # {}
  <2>1. x.client \in t.clients /\ x.client \in Clients
    BY <1>2, ChoiceOfClient, SoundFields
  <2>2. floats \subseteq Panes
        /\ (t.status = "open" => floats \subseteq t.floating)
    BY <1>1 DEF Maybe, Sound, FocusIsFloating
  <2>3. floats # {} => q \in floats
    BY PreferIsMember
  <2>4. /\ Sound(v)
        /\ v.clients = t.clients
        /\ \A d \in t.clients :
              v.floatFocus[c] # None /\ v.floatFocus[d] # None =>
                  v.floatFocus[c] = v.floatFocus[d]
    <3>1. CASE floats = {}
      <4>1. \A d \in Clients : t.floatFocus[d] = None  BY <3>1
      <4>. QED  BY <3>1, <4>1
    <3>2. CASE floats # {}
      <4>1. v = FocusFloating(t, q, c)  BY <3>2
      <4>. HIDE DEF v, q, floats
      <4>. QED  BY <2>2, <2>3, <3>2, <4>1, FocusFloatingSound
    <3>. QED  BY <3>1, <3>2
  <2>. HIDE DEF v
  <2>5. v \in Tabs /\ v.tiledFocus \in [Clients -> Maybe(Panes)]
    BY <2>4, SoundFields
  <2>6. Keeps(v, w)
    BY <2>1, <2>5, FocusTiledIfNotFocusedKeeps, KeepsItself DEF Maybe
  <2>7. AddClient(t, c, x) = Join(w)
    BY <1>2 DEF AddClient, v
  <2>. HIDE DEF w
  <2>8. Sound(w)  BY <2>4, <2>6, KeepsSound
  <2>. QED  BY <2>4, <2>6, <2>7, <2>8, JoinSound DEF Keeps
<1>3. CASE t.clients = {} /\ (t.tiled = {} \/ (t.focusId = None /\ visible = {}))
  <2>1. AddClient(t, c, x) \in {t, Broken(t)}
    BY <1>3 DEF AddClient
  <2>. QED  BY <1>1, <2>1, BrokenKeeps, KeepsSound
<1>4. CASE t.clients = {} /\ t.tiled # {} /\ ~(t.focusId = None /\ visible = {})
  <2>1. AddClient(t, c, x) = Join(FocusTiledIfNotFocused(t, first, c, x))
    BY <1>4 DEF AddClient
  <2>2. visible \subseteq Panes /\ t.focusId \in Maybe(Panes)
    BY <1>1 DEF Tabs
  <2>3. t.focusId = None => smallest \in visible
    BY <1>4, PreferIsMember
  <2>4. first \in Panes
    BY <2>2, <2>3 DEF Maybe
  <2>. HIDE DEF first
  <2>. DEFINE u == FocusTiledIfNotFocused(t, first, c, x)
  <2>5. Keeps(t, u)
    BY <1>1, <2>4, FocusTiledIfNotFocusedKeeps
  <2>. HIDE DEF u
  <2>6. Sound(u)  BY <2>5, KeepsSound
  <2>7. u.clients = {}  BY <1>4, <2>5 DEF Keeps
  <2>. QED  BY <2>1, <2>6, <2>7, JoinSound DEF u
<1>. QED  BY <1>2, <1>3, <1>4

LEMMA OpenPaneSound ==
    ASSUME NEW t, Sound(t), NEW p \in Panes, Nowhere(t, p), NEW float,
           NEW c \in Clients \cup {None}, NEW x
    PROVE  Sound(OpenPane(t, p, float, c, x))
<1>. DEFINE u == CASE float = "float" -> Show(t)
                   [] float = "tile" -> Hide(t)
                   [] OTHER -> t
<1>1. Keeps(t, u)  BY SoundFields, ShowsKeeps, KeepsItself
<1>2. OpenPane(t, p, float, c, x) \in {AddFloating(u, p), AddTiled(u, p, c, x)}
  BY DEF OpenPane
<1>. HIDE DEF u
<1>3. Sound(u) /\ Nowhere(u, p)  BY <1>1, KeepsSound, KeepsNowhere
<1>. QED  BY <1>2, <1>3, AddFloatingSound, AddTiledSound

LEMMA SplitPaneSound ==
    ASSUME NEW t, Sound(t), NEW p \in Panes, Nowhere(t, p), NEW c \in Clients,
           NEW fits, NEW x
    PROVE  Sound(SplitPane(t, p, c, fits, x))
<1>. DEFINE u == IF t.full THEN ToggleFullscreenOf(t, c, x) ELSE t
            v == [u EXCEPT !.tiled = @ \cup {p}]
<1>1. Keeps(t, u)  BY SoundFields, ToggleFullscreenOfKeeps, KeepsItself
<1>2. SplitPane(t, p, c, fits, x) \in {t, u, FocusTiled(v, p, c, x)}
  BY DEF SplitPane
<1>. HIDE DEF u
<1>3. Sound(u) /\ Nowhere(u, p) /\ p # None
  BY <1>1, KeepsSound, KeepsNowhere, TabAssumption
<1>4. u \in Tabs  BY <1>3, SoundFields
<1>5. /\ v \in Tabs
      /\ v.tiled = u.tiled \cup {p} /\ v.floating = u.floating
      /\ v.suppressed = u.suppressed /\ v.floatFocus = u.floatFocus
      /\ v.clients = u.clients /\ v.status = u.status
  BY <1>4 DEF Tabs
<1>. HIDE DEF v
<1>6. Sound(v)
  BY <1>3, <1>5
     DEF Sound, Nowhere, Here, Waiting, Apart, FocusIsFloating, FocusIsOne
<1>7. Keeps(v, FocusTiled(v, p, c, x))
  BY <1>5, FocusTiledKeeps
<1>. QED  BY <1>2, <1>3, <1>6, <1>7, KeepsSound

LEMMA TogglePaneSound ==
    ASSUME NEW t, Sound(t), NEW c \in Clients, NEW x
    PROVE  Sound(TogglePane(t, c, x))
<1>1. t.floatFocus[c] \in Maybe(Panes) /\ t.tiledFocus[c] \in Maybe(Panes)
  BY SoundFields
<1>2. CASE t.shows
  <2>. DEFINE p == t.floatFocus[c]
              u == ClosePane(t, p, TRUE, x)
  <2>1. \/ TogglePane(t, c, x) = t
        \/ p # None /\ TogglePane(t, c, x) = AddTiled(Hide(u), p, c, x)
    BY <1>2 DEF TogglePane
  <2>2. ASSUME p # None PROVE Sound(AddTiled(Hide(u), p, c, x))
    <3>1. p \in Panes  BY <1>1, <2>2 DEF Maybe
    <3>. HIDE DEF p
    <3>2. Sound(u) /\ Nowhere(u, p)  BY <3>1, ClosePaneSound
    <3>. HIDE DEF u
    <3>3. Keeps(u, Hide(u))  BY <3>2, SoundFields, ShowsKeeps
    <3>. QED  BY <3>1, <3>2, <3>3, KeepsSound, KeepsNowhere, AddTiledSound
  <2>. QED  BY <2>1, <2>2
<1>3. CASE ~t.shows
  <2>. DEFINE p == t.tiledFocus[c]
              u == ClosePane(t, p, TRUE, x)
  <2>1. \/ TogglePane(t, c, x) = t
        \/ p # None /\ TogglePane(t, c, x) = AddFloating(Show(u), p)
    BY <1>3 DEF TogglePane
  <2>2. ASSUME p # None PROVE Sound(AddFloating(Show(u), p))
    <3>1. p \in Panes  BY <1>1, <2>2 DEF Maybe
    <3>. HIDE DEF p
    <3>2. Sound(u) /\ Nowhere(u, p)  BY <3>1, ClosePaneSound
    <3>. HIDE DEF u
    <3>3. Keeps(u, Show(u))  BY <3>2, SoundFields, ShowsKeeps
    <3>. QED  BY <3>1, <3>2, <3>3, KeepsSound, KeepsNowhere, AddFloatingSound
  <2>. QED  BY <2>1, <2>2
<1>. QED  BY <1>2, <1>3

LEMMA FocusWithIdSound ==
    ASSUME NEW t, Sound(t), NEW p \in Panes, NEW float \in BOOLEAN,
           NEW c \in Clients, NEW x
    PROVE  Sound(FocusWithId(t, p, float, c, x))
<1>. DEFINE out == [t EXCEPT !.suppressed[p] = None]
<1>1. t \in Tabs  BY SoundFields
<1>2. CASE p \in t.tiled
  <2>1. FocusWithId(t, p, float, c, x) = Hide(FocusTiled(t, p, c, x))
    BY <1>2 DEF FocusWithId
  <2>2. Sound(FocusTiled(t, p, c, x))  BY <1>1, FocusTiledKeeps, KeepsSound
  <2>. QED  BY <2>1, <2>2, SoundFields, ShowsKeeps, KeepsSound
<1>3. CASE p \notin t.tiled /\ p \in t.floating
  <2>1. FocusWithId(t, p, float, c, x) = Show(FocusFloating(t, p, c))
    BY <1>3 DEF FocusWithId
  <2>2. Sound(FocusFloating(t, p, c))  BY <1>3, FocusFloatingSound
  <2>. QED  BY <2>1, <2>2, SoundFields, ShowsKeeps, KeepsSound
<1>4. CASE p \notin t.tiled /\ p \notin t.floating /\ t.suppressed[p] = p
  <2>1. FocusWithId(t, p, float, c, x) \in
          {AddFloating(Show(out), p), AddTiled(Hide(out), p, c, x)}
    BY <1>4, TabAssumption DEF FocusWithId
  <2>2. Sound(out) /\ Nowhere(out, p)
    BY <1>4, TakenOutSound, TabAssumption
  <2>. HIDE DEF out
  <2>3. Keeps(out, Show(out)) /\ Keeps(out, Hide(out))
    BY <2>2, SoundFields, ShowsKeeps
  <2>4. /\ Sound(Show(out)) /\ Nowhere(Show(out), p)
        /\ Sound(Hide(out)) /\ Nowhere(Hide(out), p)
    BY <2>2, <2>3, KeepsSound, KeepsNowhere
  <2>. QED  BY <2>1, <2>4, AddFloatingSound, AddTiledSound
<1>5. CASE p \notin t.tiled /\ p \notin t.floating /\ t.suppressed[p] # p
  <2>1. FocusWithId(t, p, float, c, x) \in {t, [t EXCEPT !.status = "mislabelled"]}
    BY <1>5 DEF FocusWithId
  <2>2. Keeps(t, [t EXCEPT !.status = "mislabelled"])
    BY <1>1 DEF Keeps, Tabs
  <2>. QED  BY <2>1, <2>2, KeepsSound
<1>. QED  BY <1>2, <1>3, <1>4, <1>5

----------------------------------------------------------------------------
(* The actions                                                              *)

Inv == Sound(tab) /\ alive \subseteq Terminals

LEMMA BecomesSound ==
    ASSUME NEW t, Sound(t), NEW running \in SUBSET Terminals, Becomes(t, running)
    PROVE  Inv'
<1>1. StillAlive(t, running) \subseteq Terminals  BY DEF StillAlive
<1>2. tab' = t /\ alive' \subseteq Terminals  BY <1>1 DEF Becomes
<1>. QED  BY <1>2 DEF Inv

LEMMA FreshIsNowhere ==
    ASSUME NEW p, Fresh(p)
    PROVE  Nowhere(tab, p)
BY DEF Fresh, Nowhere

LEMMA InitSound == Init => Inv
<1>. SUFFICES ASSUME NEW c \in Clients, NEW first \in Terminals,
                     NEW bars \in SUBSET Plugins, NEW id \in {None, first},
                     alive = {first},
                     tab = [bars |-> bars, tiled |-> {first} \cup bars,
                            floating |-> {},
                            suppressed |-> [e \in Panes |-> None],
                            tiledFocus |-> Looking(Nobody, {c}, first),
                            floatFocus |-> Nobody,
                            shows |-> FALSE, full |-> FALSE, hidden |-> {},
                            passive |-> {}, clients |-> {c}, focusId |-> id,
                            status |-> "open"]
              PROVE  Inv
  BY DEF Init
<1>1. Looking(Nobody, {c}, first) \in [Clients -> Maybe(Panes)]
  BY NobodyType, LookingType DEF Maybe, Panes
<1>2. tab \in Tabs
  BY <1>1, NobodyType DEF Tabs, Maybe, Panes
<1>3. Apart(tab) /\ FocusIsFloating(tab) /\ FocusIsOne(tab)
  BY TabAssumption DEF Apart, FocusIsFloating, FocusIsOne, Nobody, Panes
<1>. QED  BY <1>2, <1>3 DEF Inv, Sound

LEMMA ClientsCome ==
    ASSUME Inv, NEW c \in Clients, NEW x \in Choices(tab), Come(c, x)
    PROVE  Inv'
<1>1. Sound(Render(AddClient(tab, c, x)))
  BY AddClientSound, RenderSound DEF Inv
<1>. QED  BY <1>1, BecomesSound DEF Come, Inv

LEMMA ClientsGo ==
    ASSUME Inv, NEW c \in Clients, Leave(c) \/ GoToOtherTab(c)
    PROVE  Inv'
<1>1. Sound(Render(RemoveClient(tab, c))) /\ Sound(Render(DrainClient(tab, c)))
  BY ClientsGoSound, RenderSound DEF Inv
<1>. QED  BY <1>1, BecomesSound DEF Leave, GoToOtherTab, Inv

LEMMA StartedIsAlive ==
    ASSUME alive \subseteq Terminals, NEW p
    PROVE  Started(p) \in SUBSET Terminals
BY DEF Started

LEMMA PanesOpen ==
    ASSUME Inv, NEW p \in Panes, NEW float, NEW c \in Maybe(tab.clients), NEW x,
           NewTerminal(p, float, c, x) \/ AddPlugin(p, float, x)
    PROVE  Inv'
<1>1. c \in Clients \cup {None} /\ None \in Clients \cup {None}
  BY SoundFields DEF Inv, Maybe
<1>2. CASE NewTerminal(p, float, c, x)
  <2>1. Nowhere(tab, p)  BY <1>2, FreshIsNowhere DEF NewTerminal
  <2>2. Sound(Render(OpenPane(tab, p, float, c, x)))
    BY <1>1, <2>1, OpenPaneSound, RenderSound DEF Inv
  <2>. QED  BY <1>2, <2>2, StartedIsAlive, BecomesSound DEF NewTerminal, Inv
<1>3. CASE AddPlugin(p, float, x)
  <2>1. Nowhere(tab, p)  BY <1>3, FreshIsNowhere DEF AddPlugin
  <2>2. Sound(OpenPane(tab, p, float, None, x))
    BY <1>1, <2>1, OpenPaneSound DEF Inv
  <2>. QED  BY <1>3, <2>2, BecomesSound DEF AddPlugin, Inv
<1>. QED  BY <1>2, <1>3

LEMMA SplitSound ==
    ASSUME Inv, NEW p \in Panes, NEW c \in tab.clients, NEW fits, NEW x,
           Split(p, c, fits, x)
    PROVE  Inv'
<1>. DEFINE t == SplitPane(tab, p, c, fits, x)
            running == IF tab.shows \/ p \in t.tiled THEN Started(p) ELSE alive
<1>1. Nowhere(tab, p) /\ c \in Clients
  BY FreshIsNowhere, SoundFields DEF Split, Inv
<1>2. Sound(Render(t))
  BY <1>1, SplitPaneSound, RenderSound DEF Inv
<1>3. running \in SUBSET Terminals
  BY StartedIsAlive DEF Inv
<1>4. Becomes(Render(t), running)
  BY DEF Split
<1>. QED  BY <1>2, <1>3, <1>4, BecomesSound

(* A pane that was replaced, and is nowhere, waits for the one in its place. *)
LEMMA KeptSound ==
    ASSUME NEW t, Sound(t), NEW p \in Panes, NEW old \in Panes,
           Nowhere(t, old)
    PROVE  Sound([t EXCEPT !.suppressed[p] = old])
<1>. DEFINE u == [t EXCEPT !.suppressed[p] = old]
<1>1. t \in Tabs /\ t.suppressed \in [Panes -> Maybe(Panes)] /\ old # None
  BY SoundFields, TabAssumption
<1>2. /\ u \in Tabs
      /\ u.tiled = t.tiled /\ u.floating = t.floating
      /\ u.suppressed = [t.suppressed EXCEPT ![p] = old]
      /\ u.floatFocus = t.floatFocus
      /\ u.clients = t.clients /\ u.status = t.status
  BY <1>1 DEF Tabs, Maybe
<1>3. \A f \in Panes : u.suppressed[f] = IF f = p THEN old ELSE t.suppressed[f]
  BY <1>1, <1>2
<1>. HIDE DEF u
<1>4. t.status = "open" =>
        /\ old \notin t.tiled \cup t.floating
        /\ \A f \in Panes : t.suppressed[f] # old
  BY <1>1 DEF Nowhere, Here, Waiting
<1>5. Sound(u)
  BY <1>2, <1>3, <1>4 DEF Sound, Apart, FocusIsFloating, FocusIsOne
<1>. QED  BY <1>5 DEF u

(* Taking the place of a pane leaves that pane nowhere. *)
LEMMA ReplacedIsNowhere ==
    ASSUME NEW t, Sound(t), NEW old \in Panes, NEW p \in Panes, Nowhere(t, p)
    PROVE  /\ Sound(ReplaceTiled(t, old, p))
           /\ old \in t.tiled => Nowhere(ReplaceTiled(t, old, p), old)
           /\ Sound(ReplaceFloating(t, old, p))
           /\ old \in t.floating => Nowhere(ReplaceFloating(t, old, p), old)
<1>1. t.status = "open" /\ old \in t.tiled \cup t.floating => p # old
  BY DEF Nowhere, Here
<1>2. t.status = "open" /\ old \in t.tiled \cup t.floating =>
        /\ \A f \in Panes : t.suppressed[f] # old
        /\ old \in t.tiled => old \notin t.floating
  BY DEF Sound, Apart
<1>3. Sound(ReplaceTiled(t, old, p)) /\ Sound(ReplaceFloating(t, old, p))
  BY ReplaceTiledSound, ReplaceFloatingSound
<1>4. LET u == ReplaceTiled(t, old, p)
      IN  /\ u.status = t.status
          /\ u.suppressed = t.suppressed /\ u.floating = t.floating
          /\ old \in t.tiled => u.tiled = (t.tiled \ {old}) \cup {p}
  BY ReplaceTiledSound
<1>5. LET u == ReplaceFloating(t, old, p)
      IN  /\ u.status = t.status
          /\ u.suppressed = t.suppressed /\ u.tiled = t.tiled
          /\ old \in t.floating => u.floating = (t.floating \ {old}) \cup {p}
  BY ReplaceFloatingSound
<1>6. old \in t.tiled => Nowhere(ReplaceTiled(t, old, p), old)
  BY <1>1, <1>2, <1>4 DEF Nowhere, Here, Waiting
<1>7. old \in t.floating => Nowhere(ReplaceFloating(t, old, p), old)
  BY <1>1, <1>2, <1>5 DEF Nowhere, Here, Waiting
<1>. QED  BY <1>3, <1>6, <1>7

LEMMA OpenInPlaceEditorSound ==
    ASSUME Inv, NEW c \in Clients, NEW p \in Terminals, OpenInPlaceEditor(p, c)
    PROVE  Inv'
<1>. DEFINE old == ActivePane(tab, c)
            u == IF tab.shows THEN ReplaceFloating(tab, old, p)
                 ELSE ReplaceTiled(tab, old, p)
            v == IF old \in Layer(tab) THEN [u EXCEPT !.suppressed[p] = old] ELSE u
            w == IF old = None THEN tab ELSE v
<1>1. Sound(tab) /\ p \in Panes /\ Nowhere(tab, p) /\ old \in Maybe(Panes)
  BY FreshIsNowhere, SoundFields
     DEF OpenInPlaceEditor, Inv, Panes, ActivePane
<1>2. Becomes(Render(w), Started(p))
  BY DEF OpenInPlaceEditor
<1>3. Sound(w)
  <2>1. CASE old = None  BY <1>1, <2>1
  <2>2. CASE old # None
    <3>1. old \in Panes  BY <1>1, <2>2 DEF Maybe
    <3>. HIDE DEF old
    <3>2. Sound(u) /\ (old \in Layer(tab) => Nowhere(u, old))
      BY <1>1, <3>1, ReplacedIsNowhere DEF Layer
    <3>. HIDE DEF u
    <3>3. Sound(v)  BY <1>1, <3>1, <3>2, KeptSound
    <3>. QED  BY <2>2, <3>3
  <2>. QED  BY <2>1, <2>2
<1>. HIDE DEF w
<1>. QED  BY <1>2, <1>3, RenderSound, StartedIsAlive, BecomesSound DEF Inv

LEMMA ReplacePaneSound ==
    ASSUME Inv, NEW old \in Panes, NEW p \in Panes, ReplacePane(old, p)
    PROVE  Inv'
<1>. DEFINE u == IF old \in tab.floating THEN ReplaceFloating(tab, old, p)
                 ELSE ReplaceTiled(tab, old, p)
            v == IF old \in tab.floating \cup tab.tiled
                 THEN [u EXCEPT !.suppressed[p] = old] ELSE u
<1>1. Sound(tab) /\ Nowhere(tab, p)
  BY FreshIsNowhere DEF ReplacePane, Inv
<1>2. Becomes(Render(v), Started(p))
  BY DEF ReplacePane
<1>3. Sound(u) /\ (old \in tab.floating \cup tab.tiled => Nowhere(u, old))
  BY <1>1, ReplacedIsNowhere
<1>. HIDE DEF u
<1>4. Sound(v)  BY <1>3, KeptSound
<1>. HIDE DEF v
<1>. QED  BY <1>2, <1>4, RenderSound, StartedIsAlive, BecomesSound DEF Inv

LEMMA DrawSound == Inv /\ Draw => Inv'
BY RenderSound, BecomesSound DEF Inv, Draw

LEMMA PanesClose ==
    ASSUME Inv, NEW p \in Panes, NEW x,
           ShellExits(p, x) \/ CloseTerminalPane(p, x)
    PROVE  Inv'
<1>. DEFINE t == CloseAnywhere(tab, p, x)
<1>1. Sound(t)
  BY ClosePaneSound DEF CloseAnywhere, Inv
<1>2. \E running \in SUBSET alive : Becomes(Soon(t), running)
  BY DEF ShellExits, CloseTerminalPane
<1>. HIDE DEF t
<1>3. Sound(Soon(t))  BY <1>1, RenderSound DEF Soon
<1>. QED  BY <1>2, <1>3, BecomesSound DEF Inv

LEMMA FocusedPaneCloses ==
    ASSUME Inv, NEW c \in Clients, NEW x, CloseFocusedPane(c, x)
    PROVE  Inv'
<1>. DEFINE p == IF tab.shows /\ tab.floatFocus[c] # None THEN tab.floatFocus[c]
                 ELSE tab.tiledFocus[c]
<1>1. p \in Maybe(Panes) /\ p # None
  BY SoundFields DEF CloseFocusedPane, Inv
<1>2. p \in Panes  BY <1>1 DEF Maybe
<1>3. Becomes(Render(ClosePane(tab, p, FALSE, x)), alive \ {p})
  BY DEF CloseFocusedPane
<1>. HIDE DEF p
<1>4. Sound(Render(ClosePane(tab, p, FALSE, x)))
  BY <1>2, ClosePaneSound, RenderSound DEF Inv
<1>. QED  BY <1>3, <1>4, BecomesSound DEF Inv

LEMMA BreakPaneSound ==
    ASSUME Inv, NEW c \in Clients, NEW toOther \in BOOLEAN, NEW x,
           BreakPane(c, toOther, x)
    PROVE  Inv'
<1>. DEFINE p == ActivePane(tab, c)
            closed == ClosePane(tab, p, FALSE, x)
<1>1. Sound(tab) /\ tab \in Tabs /\ p \in Maybe(Panes)
  BY SoundFields DEF ActivePane, Inv
<1>2. Sound(Broken(tab))
  BY <1>1, BrokenKeeps, KeepsSound
<1>3. CASE p = None
  <2>1. Becomes(Broken(tab), alive)  BY <1>3 DEF BreakPane
  <2>. QED  BY <1>2, <2>1, BecomesSound DEF Inv
<1>4. CASE p # None
  <2>1. p \in Panes  BY <1>1, <1>4 DEF Maybe
  <2>2. \/ Becomes(Broken(tab), alive \ {p})
        \/ Becomes(closed, alive \ {p})
        \/ Becomes(Render(DrainClient(closed, c)), alive \ {p})
    BY <1>4 DEF BreakPane
  <2>. HIDE DEF p
  <2>3. Sound(closed)  BY <1>1, <2>1, ClosePaneSound
  <2>. HIDE DEF closed
  <2>4. Sound(Render(DrainClient(closed, c)))
    BY <2>3, ClientsGoSound, RenderSound
  <2>. QED  BY <1>2, <2>2, <2>3, <2>4, BecomesSound DEF Inv
<1>. QED  BY <1>3, <1>4

LEMMA PanesToggle ==
    ASSUME Inv, NEW c \in Clients, NEW x,
           TogglePaneEmbedOrFloating(c, x) \/ ToggleFloatingPanes(c, x)
             \/ ToggleFullscreen(c, x)
    PROVE  Inv'
<1>1. Sound(tab) /\ tab \in Tabs /\ alive \in SUBSET Terminals
  BY SoundFields DEF Inv
<1>2. CASE TogglePaneEmbedOrFloating(c, x)
  <2>1. Sound(UnsetFullscreen(tab, x))
    BY <1>1, UnsetFullscreenKeeps, KeepsSound
  <2>2. Sound(Render(TogglePane(UnsetFullscreen(tab, x), c, x)))
    BY <2>1, TogglePaneSound, RenderSound
  <2>. QED  BY <1>1, <1>2, <2>2, BecomesSound DEF TogglePaneEmbedOrFloating
<1>3. CASE ToggleFloatingPanes(c, x)
  <2>. DEFINE shown == Show(tab)
              heir == Prefer(shown.floating, x)
              focused == IF shown.floating = {} \/ shown.floatFocus[c] # None
                         THEN shown ELSE FocusFloating(shown, heir, c)
  <2>1. Sound(shown) /\ Sound(Hide(tab))
    BY <1>1, ShowsKeeps, KeepsSound
  <2>2. Becomes(Render(IF tab.shows THEN Hide(tab) ELSE focused), alive)
    BY <1>3 DEF ToggleFloatingPanes
  <2>. HIDE DEF shown
  <2>3. shown.floating # {} => heir \in shown.floating /\ heir \in Panes
    BY <2>1, PreferIsMember, SoundFields
  <2>. HIDE DEF heir
  <2>4. Sound(focused)
    BY <2>1, <2>3, FocusFloatingSound
  <2>. HIDE DEF focused
  <2>. QED  BY <1>1, <2>1, <2>2, <2>4, RenderSound, BecomesSound
<1>4. CASE ToggleFullscreen(c, x)
  <2>1. Sound(Render(ToggleFullscreenOf(tab, c, x)))
    BY <1>1, ToggleFullscreenOfKeeps, KeepsSound, RenderSound
  <2>. QED  BY <1>1, <1>4, <2>1, BecomesSound DEF ToggleFullscreen
<1>. QED  BY <1>2, <1>3, <1>4

LEMMA FocusMoves ==
    ASSUME Inv, NEW c \in Clients, NEW x,
           FocusNextPane(c, x) \/ MoveFocus(c, x)
    PROVE  Inv'
<1>. DEFINE unset == UnsetFullscreen(tab, x)
<1>1. Sound(tab) /\ tab \in Tabs /\ alive \in SUBSET Terminals
  BY SoundFields DEF Inv
<1>2. Sound(unset) /\ unset \in Tabs
  BY <1>1, UnsetFullscreenKeeps, KeepsSound, SoundFields
<1>. HIDE DEF unset
<1>3. CASE FocusNextPane(c, x)
  <2>1. \A t : Sound(t) => Sound(FocusNextTile(t, c, x))
    BY FocusNextTileKeeps, KeepsSound, SoundFields
  <2>2. \A t : Sound(t) => Sound(ToggleFullscreenOf(t, c, x))
    BY ToggleFullscreenOfKeeps, KeepsSound, SoundFields
  <2>3. Becomes(Render(IF tab.full
                       THEN ToggleFullscreenOf(FocusNextTile(unset, c, x), c, x)
                       ELSE FocusNextTile(tab, c, x)), alive)
    BY <1>3 DEF FocusNextPane, unset
  <2>. QED  BY <1>1, <1>2, <2>1, <2>2, <2>3, RenderSound, BecomesSound
<1>4. CASE MoveFocus(c, x)
  <2>1. \A t : Sound(t) => Sound(MoveTiledFocus(t, c, x))
    BY MoveTiledFocusKeeps, KeepsSound, SoundFields
  <2>2. \A t : Sound(t) => Sound(ToggleFullscreenOf(t, c, x))
    BY ToggleFullscreenOfKeeps, KeepsSound, SoundFields
  <2>3. c \in tab.clients => Sound(MoveFloatingFocus(tab, c, x))
    BY <1>1, MoveFloatingFocusSound
  <2>4. /\ c \in tab.clients
        /\ Becomes(Render(IF tab.shows THEN MoveFloatingFocus(tab, c, x)
                          ELSE IF tab.full
                          THEN ToggleFullscreenOf(MoveTiledFocus(unset, c, x), c, x)
                          ELSE MoveTiledFocus(tab, c, x)), alive)
    BY <1>4 DEF MoveFocus, unset
  <2>. QED
    BY <1>1, <1>2, <2>1, <2>2, <2>3, <2>4, RenderSound, BecomesSound
<1>. QED  BY <1>3, <1>4

LEMMA ClickSound ==
    ASSUME Inv, NEW c \in Clients, NEW p \in Panes, NEW x, Click(c, p, x)
    PROVE  Inv'
<1>1. Sound(tab) /\ tab \in Tabs /\ alive \in SUBSET Terminals
  BY SoundFields DEF Inv
<1>2. Sound(Render(Hide(FocusTiled(tab, p, c, x))))
  BY <1>1, FocusTiledKeeps, ShowsKeeps, KeepsSound, SoundFields, RenderSound
<1>3. p \in tab.floating => Sound(Render(FocusFloating(tab, p, c)))
  BY <1>1, FocusFloatingSound, RenderSound
<1>. QED  BY <1>1, <1>2, <1>3, BecomesSound DEF Click

LEMMA FocusPaneWithIdSound ==
    ASSUME Inv, NEW c \in Clients, NEW p \in Panes, NEW float \in BOOLEAN, NEW x,
           FocusPaneWithId(p, float, c, x)
    PROVE  Inv'
BY FocusWithIdSound, BecomesSound DEF FocusPaneWithId, Inv

LEMMA SuppressPaneSound ==
    ASSUME Inv, NEW p \in Panes, NEW x, SuppressPane(p, x)
    PROVE  Inv'
<1>. DEFINE closed == ClosePane(tab, p, TRUE, x)
<1>1. Sound(closed) /\ Nowhere(closed, p)
  BY ClosePaneSound DEF Inv
<1>2. Becomes(Render([closed EXCEPT !.suppressed[p] = p]), alive)
  BY DEF SuppressPane
<1>. HIDE DEF closed
<1>3. Sound(Render([closed EXCEPT !.suppressed[p] = p]))
  BY <1>1, KeptSound, RenderSound
<1>. QED  BY <1>2, <1>3, BecomesSound DEF Inv

LEMMA SetPaneUnselectableSound ==
    ASSUME Inv, NEW b \in Plugins, NEW x, SetPaneUnselectable(b, x)
    PROVE  Inv'
<1>. DEFINE t == [tab EXCEPT !.passive = @ \cup {b}]
<1>1. Sound(tab) /\ tab \in Tabs  BY SoundFields DEF Inv
<1>2. Keeps(tab, t)  BY <1>1 DEF Keeps, Tabs
<1>3. Becomes(Render(MoveOutOfTiled(t, b, x)), alive)
  BY DEF SetPaneUnselectable
<1>. HIDE DEF t
<1>4. Sound(t) /\ t \in Tabs  BY <1>1, <1>2, KeepsSound, SoundFields
<1>5. Sound(Render(MoveOutOfTiled(t, b, x)))
  BY <1>4, MoveOutOfTiledKeeps, KeepsSound, RenderSound
<1>. QED  BY <1>3, <1>5, BecomesSound DEF Inv

LEMMA StepSound == Inv /\ [Next]_vars => Inv'
<1>. SUFFICES ASSUME Inv, [Next]_vars
              PROVE  Inv'
  OBVIOUS
<1>1. Plugins \subseteq Panes /\ Terminals \subseteq Panes /\ tab.clients \subseteq Clients
  BY SoundFields DEF Panes, Inv
<1>2. CASE StepOfPanes
  <2>1. PICK x \in Choices(tab) :
           \/ \E c \in Clients :
                 \/ Come(c, x)
                 \/ CloseFocusedPane(c, x)
                 \/ \E toOther \in BOOLEAN : BreakPane(c, toOther, x)
                 \/ TogglePaneEmbedOrFloating(c, x)
                 \/ ToggleFloatingPanes(c, x)
                 \/ FocusNextPane(c, x)
                 \/ MoveFocus(c, x)
           \/ \E p \in Terminals : ShellExits(p, x)
           \/ \E p \in Panes : CloseTerminalPane(p, x) \/ SuppressPane(p, x)
           \/ \E b \in Plugins : SetPaneUnselectable(b, x)
    BY <1>2 DEF StepOfPanes
  <2>. QED
    BY <1>1, <2>1, ClientsCome, FocusedPaneCloses, BreakPaneSound,
       PanesToggle, FocusMoves, PanesClose, SuppressPaneSound,
       SetPaneUnselectableSound
<1>3. CASE StepOfOnePane
  <2>1. PICK x \in ClientChoices(tab), p \in Panes :
           \/ \E c \in tab.clients :
                 \/ ToggleFullscreen(c, x)
                 \/ Click(c, p, x)
                 \/ \E float \in BOOLEAN : FocusPaneWithId(p, float, c, x)
                 \/ \E fits \in BOOLEAN : Split(p, c, fits, x)
           \/ \E float \in Floats :
                 \/ \E c \in Maybe(tab.clients) : NewTerminal(p, float, c, x)
                 \/ AddPlugin(p, float, x)
    BY <1>3 DEF StepOfOnePane
  <2>2. None \in Maybe(tab.clients)  BY DEF Maybe
  <2>. QED
    BY <1>1, <2>1, <2>2, PanesToggle, ClickSound, FocusPaneWithIdSound,
       SplitSound, PanesOpen
<1>4. CASE \E c \in Clients : Leave(c) \/ GoToOtherTab(c)
  BY <1>4, ClientsGo
<1>5. CASE \E c \in Clients, p \in Terminals : OpenInPlaceEditor(p, c)
  BY <1>5, OpenInPlaceEditorSound
<1>6. CASE \E p \in Panes, old \in Panes : ReplacePane(old, p)
  BY <1>6, ReplacePaneSound
<1>7. CASE Draw
  BY <1>7, DrawSound
<1>8. CASE UNCHANGED vars
  BY <1>8 DEF vars, Inv
<1>. QED
  BY <1>2, <1>3, <1>4, <1>5, <1>6, <1>7, <1>8 DEF Next, Move

----------------------------------------------------------------------------
(* The theorems                                                             *)

LEMMA Invariance == Spec => []Inv
BY InitSound, StepSound, PTL DEF Spec

(* tab and alive have their types, whatever the clients and shells do.      *)
THEOREM TypeCorrect == Spec => []TypeOK
<1>1. Inv => TypeOK  BY DEF Inv, Sound, TypeOK
<1>. QED  BY <1>1, Invariance, PTL

(* A pane is tiled, floating or waiting for one other pane, and never two   *)
(* of these, however often it is toggled, replaced, hidden and shown.       *)
THEOREM PanesAreInOnePlace == Spec => []OnePlace
<1>1. Inv => OnePlace  BY DEF Inv, Sound, OnePlace
<1>. QED  BY <1>1, Invariance, PTL

(* Clients that look at a floating pane look at the same one, and it is     *)
(* there, although each of them, and those that have left, keep their own.  *)
THEOREM FloatingFocusIsShared == Spec => []FloatFocusIsShared
<1>1. Inv => FloatFocusIsShared
  BY SoundFields DEF Inv, Sound, FloatFocusIsShared, FocusIsFloating, FocusIsOne
<1>. QED  BY <1>1, Invariance, PTL

----------------------------------------------------------------------------
(* What clients look at, when everything comes in order.                    *)

(* A client looks at a tile that can be selected, also one that has left    *)
(* and may return; what fills the screen is what every client looks at.     *)
Looks(t) ==
    /\ \A c \in Clients : t.tiledFocus[c] # None => t.tiledFocus[c] \in Selectable(t)
    /\ Selectable(t) # {} => \A c \in t.clients : t.tiledFocus[c] # None
    /\ ~t.full => t.hidden = {}
    /\ t.full =>
         /\ t.clients # {}
         /\ t.hidden \subseteq t.tiled
         /\ \A c \in t.clients :
              /\ t.tiledFocus[c] \in Selectable(t) \ t.hidden
              /\ Selectable(t) \ {t.tiledFocus[c]} \subseteq t.hidden

(* Nothing waits for a bar but the bar itself, and what cannot be selected  *)
(* is a tile or has hidden itself for good.                                 *)
BarsStay(t) ==
    /\ t.focusId = None
    /\ t.passive \subseteq t.bars
    /\ \A b \in t.bars : t.suppressed[b] \in {None, b}
    /\ \A b \in t.passive : b \in t.tiled \/ t.suppressed[b] = b

Viewed(t) ==
    /\ t.status \in {"open", "closed"}
    /\ t.status = "open" => Selectable(t) # {} /\ Looks(t) /\ BarsStay(t)

(* u is t but for the tiles, the floating panes and those that wait.        *)
Stays(t, u) ==
    /\ u \in Tabs
    /\ u.status = t.status /\ u.clients = t.clients
    /\ u.bars = t.bars /\ u.passive = t.passive /\ u.focusId = t.focusId

TilesStay(t, u) ==
    /\ Stays(t, u)
    /\ u.tiled = t.tiled /\ u.tiledFocus = t.tiledFocus
    /\ u.full = t.full /\ u.hidden = t.hidden

(* The first client is one of the tab's, when that matters.                 *)
Chooses(t, x) == t.full => x.client \in t.clients

LEMMA TabFields ==
    ASSUME NEW t \in Tabs
    PROVE  /\ t.tiled \subseteq Panes /\ t.floating \subseteq Panes
           /\ t.suppressed \in [Panes -> Maybe(Panes)]
           /\ t.tiledFocus \in [Clients -> Maybe(Panes)]
           /\ t.floatFocus \in [Clients -> Maybe(Panes)]
           /\ t.shows \in BOOLEAN /\ t.full \in BOOLEAN
           /\ t.hidden \subseteq Panes
           /\ t.bars \subseteq Plugins /\ t.passive \subseteq Plugins
           /\ t.clients \subseteq Clients
           /\ t.focusId \in Maybe(Panes)
           /\ Selectable(t) \subseteq t.tiled
BY DEF Tabs, Selectable

LEMMA NoneIsNot ==
    /\ None \notin Panes /\ None \notin Clients
    /\ \A p \in Panes : p # None
    /\ \A c \in Clients : c # None
BY TabAssumption

LEMMA TilesStayLooks ==
    ASSUME NEW t, NEW u, TilesStay(t, u)
    PROVE  Selectable(u) = Selectable(t) /\ (Looks(t) => Looks(u))
BY DEF TilesStay, Stays, Looks, Selectable

LEMMA StaysStays ==
    ASSUME NEW t, NEW u, NEW v, Stays(t, u), Stays(u, v)
    PROVE  Stays(t, v)
BY DEF Stays

LEMMA StaysItself == ASSUME NEW t \in Tabs PROVE TilesStay(t, t)
BY DEF TilesStay, Stays

LEMMA UnsetFullscreenLooks ==
    ASSUME NEW t \in Tabs, NEW x, Looks(t), Chooses(t, x)
    PROVE  LET u == UnsetFullscreen(t, x)
           IN  /\ Stays(t, u) /\ Looks(u)
               /\ ~u.full /\ u.hidden = {}
               /\ u.tiled = t.tiled /\ u.floating = t.floating
               /\ u.suppressed = t.suppressed /\ u.tiledFocus = t.tiledFocus
               /\ u.floatFocus = t.floatFocus /\ u.shows = t.shows
<1>1. CASE ~t.full
  BY <1>1, StaysItself DEF UnsetFullscreen, Looks, TilesStay
<1>2. CASE t.full
  <2>1. /\ x.client \in t.clients /\ x.client # None
        /\ t.tiledFocus[x.client] \in t.tiled /\ t.hidden \subseteq t.tiled
    BY <1>2, TabFields, NoneIsNot DEF Looks, Chooses
  <2>. DEFINE u == [t EXCEPT !.full = FALSE, !.hidden = {}]
  <2>2. UnsetFullscreen(t, x) = u
    BY <1>2, <2>1 DEF UnsetFullscreen
  <2>3. /\ Stays(t, u) /\ ~u.full /\ u.hidden = {}
        /\ u.tiled = t.tiled /\ u.floating = t.floating
        /\ u.suppressed = t.suppressed /\ u.tiledFocus = t.tiledFocus
        /\ u.floatFocus = t.floatFocus /\ u.shows = t.shows
    BY DEF Tabs, Stays
  <2>. HIDE DEF u
  <2>4. Looks(u)
    BY <2>3 DEF Looks, Stays, Selectable
  <2>. QED  BY <2>2, <2>3, <2>4
<1>. QED  BY <1>1, <1>2, TabFields

(* The client looks at p from now on, and with it those that must.          *)
LEMMA FocusTiledLooks ==
    ASSUME NEW t \in Tabs, NEW p \in Selectable(t), NEW c \in Clients, NEW x,
           Looks(t), Chooses(t, x)
    PROVE  LET u == FocusTiled(t, p, c, x)
           IN  /\ Stays(t, u) /\ Looks(u)
               /\ u.tiled = t.tiled /\ u.floating = t.floating
               /\ u.suppressed = t.suppressed
               /\ u.floatFocus = t.floatFocus /\ u.shows = t.shows
               /\ u.tiledFocus[c] = p
               /\ u.full => t.full
               /\ u.full => p \notin u.hidden /\ Selectable(u) \ {p} \subseteq u.hidden
<1>. DEFINE v == IF p \in t.hidden THEN UnsetFullscreen(t, x) ELSE t
            D == IF Mirrored THEN {c} \cup v.clients ELSE {c}
            f == Looking(v.tiledFocus, D, p)
            u == [v EXCEPT !.tiledFocus = f]
<1>1. /\ Stays(t, v) /\ Looks(v)
      /\ v.tiled = t.tiled /\ v.floating = t.floating /\ v.suppressed = t.suppressed
      /\ v.tiledFocus = t.tiledFocus /\ v.floatFocus = t.floatFocus /\ v.shows = t.shows
      /\ p \notin v.hidden
      /\ v.full => t.full
  BY UnsetFullscreenLooks, StaysItself DEF TilesStay
<1>2. FocusTiled(t, p, c, x) = u
  BY DEF FocusTiled
<1>. HIDE DEF v
<1>3. v \in Tabs /\ p \in Panes /\ p \in Selectable(v) /\ p # None
  BY <1>1, TabFields, NoneIsNot DEF Stays, Selectable
<1>4. /\ f \in [Clients -> Maybe(Panes)]
      /\ \A d \in Clients : f[d] = IF d \in D THEN p ELSE v.tiledFocus[d]
  BY <1>3, TabFields, LookingType DEF Maybe
<1>5. c \in D
  OBVIOUS
<1>. HIDE DEF D, f
<1>6. /\ Stays(v, u)
      /\ u.tiled = v.tiled /\ u.floating = v.floating /\ u.suppressed = v.suppressed
      /\ u.floatFocus = v.floatFocus /\ u.shows = v.shows
      /\ u.tiledFocus = f /\ u.full = v.full /\ u.hidden = v.hidden
  BY <1>3, <1>4 DEF Stays, Tabs
<1>. HIDE DEF u
<1>7. Selectable(u) = Selectable(v) /\ u.clients = v.clients /\ v.clients \subseteq Clients
  BY <1>3, <1>6, TabFields DEF Selectable, Stays
<1>8. v.full => \A d \in v.clients : v.tiledFocus[d] = p
  BY <1>1, <1>3 DEF Looks
<1>9. v.full => v.clients # {} /\ Selectable(v) \ {p} \subseteq v.hidden
  BY <1>1, <1>8 DEF Looks
<1>10. Looks(u)
  <2>1. \A d \in Clients : u.tiledFocus[d] # None => u.tiledFocus[d] \in Selectable(u)
    BY <1>1, <1>3, <1>4, <1>6, <1>7 DEF Looks
  <2>2. Selectable(u) # {} => \A d \in u.clients : u.tiledFocus[d] # None
    BY <1>1, <1>3, <1>4, <1>6, <1>7 DEF Looks
  <2>3. ~u.full => u.hidden = {}
    BY <1>1, <1>6 DEF Looks
  <2>4. u.full => \A d \in u.clients : u.tiledFocus[d] = p
    BY <1>4, <1>6, <1>7, <1>8
  <2>5. u.full => u.hidden \subseteq u.tiled
    BY <1>1, <1>6 DEF Looks
  <2>. QED  BY <1>1, <1>3, <1>6, <1>7, <1>9, <2>1, <2>2, <2>3, <2>4, <2>5 DEF Looks
<1>. QED  BY <1>1, <1>2, <1>3, <1>4, <1>5, <1>6, <1>7, <1>9, <1>10, StaysStays

(* u has the panes of t where they are. *)
PanesStay(t, u) ==
    /\ Stays(t, u)
    /\ u.tiled = t.tiled /\ u.floating = t.floating /\ u.suppressed = t.suppressed
    /\ u.floatFocus = t.floatFocus /\ u.shows = t.shows

LEMMA FocusIfNotFocusedLooks ==
    ASSUME NEW t \in Tabs, NEW p \in Selectable(t), NEW c \in Clients, NEW x,
           Looks(t), Chooses(t, x)
    PROVE  LET u == FocusTiledIfNotFocused(t, p, c, x)
           IN  /\ PanesStay(t, u) /\ Looks(u)
               /\ u.tiledFocus[c] \in Selectable(u)
               /\ u.full => t.full
               /\ u.full => /\ u.tiledFocus[c] \notin u.hidden
                            /\ Selectable(u) \ {u.tiledFocus[c]} \subseteq u.hidden
<1>. DEFINE q == IF t.tiledFocus[c] = None THEN p ELSE t.tiledFocus[c]
            u == FocusTiled(t, q, c, x)
<1>1. q \in Selectable(t)
  BY DEF Looks
<1>. HIDE DEF q
<1>2. /\ Stays(t, u) /\ Looks(u)
      /\ u.tiled = t.tiled /\ u.floating = t.floating /\ u.suppressed = t.suppressed
      /\ u.floatFocus = t.floatFocus /\ u.shows = t.shows
      /\ u.tiledFocus[c] = q
      /\ u.full => t.full
      /\ u.full => q \notin u.hidden /\ Selectable(u) \ {q} \subseteq u.hidden
  BY <1>1, FocusTiledLooks
<1>3. Selectable(u) = Selectable(t)
  BY <1>2 DEF Selectable, Stays
<1>4. FocusTiledIfNotFocused(t, p, c, x) = u
  BY DEF FocusTiledIfNotFocused, q
<1>. HIDE DEF u
<1>. QED  BY <1>1, <1>2, <1>3, <1>4 DEF PanesStay

LEMMA MoveTiledFocusLooks ==
    ASSUME NEW t \in Tabs, NEW c \in Clients, NEW x, Looks(t), Chooses(t, x)
    PROVE  LET u == MoveTiledFocus(t, c, x)
           IN  /\ PanesStay(t, u) /\ Looks(u)
               /\ u.full => t.full
<1>1. CASE t.tiledFocus[c] \in t.tiled /\ x.pane \in Selectable(t) \ {t.tiledFocus[c]}
  <2>1. MoveTiledFocus(t, c, x) = FocusTiled(t, x.pane, c, x) /\ x.pane \in Selectable(t)
    BY <1>1 DEF MoveTiledFocus
  <2>. QED  BY <2>1, FocusTiledLooks DEF PanesStay
<1>2. CASE ~(t.tiledFocus[c] \in t.tiled /\ x.pane \in Selectable(t) \ {t.tiledFocus[c]})
  BY <1>2, StaysItself DEF MoveTiledFocus, TilesStay, PanesStay
<1>. QED  BY <1>1, <1>2

LEMMA ToggleFullscreenLooks ==
    ASSUME NEW t \in Tabs, NEW c \in t.clients, NEW x, Looks(t), Chooses(t, x)
    PROVE  LET u == ToggleFullscreenOf(t, c, x)
           IN  PanesStay(t, u) /\ Looks(u) /\ (t.full => ~u.full)
<1>. DEFINE p == t.tiledFocus[c]
            f == Looking(t.tiledFocus, t.clients, p)
            u == [t EXCEPT !.full = TRUE, !.hidden = Selectable(t) \ {p}, !.tiledFocus = f]
<1>0. c \in Clients /\ p \in Maybe(Panes) /\ (p # None => p \in Selectable(t) /\ p \in t.tiled)
  BY TabFields DEF Looks
<1>1. CASE p = None
  <2>1. ~t.full
    BY <1>0, <1>1, NoneIsNot, TabFields DEF Looks
  <2>. QED  BY <1>1, <2>1, StaysItself DEF ToggleFullscreenOf, TilesStay, PanesStay
<1>2. CASE p # None /\ t.full
  <2>1. ToggleFullscreenOf(t, c, x) = UnsetFullscreen(t, x)
    BY <1>2 DEF ToggleFullscreenOf
  <2>. QED  BY <2>1, UnsetFullscreenLooks DEF PanesStay
<1>3. CASE p # None /\ ~t.full /\ Selectable(t) \subseteq {p}
  BY <1>3, StaysItself DEF ToggleFullscreenOf, TilesStay, PanesStay
<1>4. CASE p # None /\ ~t.full /\ ~(Selectable(t) \subseteq {p})
  <2>1. ToggleFullscreenOf(t, c, x) = u
    BY <1>0, <1>4 DEF ToggleFullscreenOf
  <2>2. /\ f \in [Clients -> Maybe(Panes)]
        /\ \A d \in Clients : f[d] = IF d \in t.clients THEN p ELSE t.tiledFocus[d]
    BY <1>0, TabFields, LookingType
  <2>. HIDE DEF f
  <2>3. Selectable(t) \ {p} \in SUBSET Panes
    BY TabFields
  <2>4. /\ PanesStay(t, u)
        /\ u.tiledFocus = f /\ u.full /\ u.hidden = Selectable(t) \ {p}
    BY <2>2, <2>3 DEF Stays, PanesStay, Tabs
  <2>. HIDE DEF u
  <2>5. Selectable(u) = Selectable(t) /\ u.clients = t.clients /\ t.clients \subseteq Clients
    BY <2>4, TabFields DEF Selectable, PanesStay, Stays
  <2>6. Looks(u)
    BY <1>0, <1>4, <2>2, <2>4, <2>5, TabFields DEF Looks, PanesStay
  <2>. QED  BY <1>4, <2>1, <2>4, <2>6
<1>. QED  BY <1>1, <1>2, <1>3, <1>4

LEMMA FocusNextTileLooks ==
    ASSUME NEW t \in Tabs, NEW c \in t.clients, NEW x, Looks(t), ~t.full, Selectable(t) # {}
    PROVE  LET u == FocusNextTile(t, c, x)
           IN  PanesStay(t, u) /\ Looks(u) /\ ~u.full
<1>. DEFINE others == Selectable(t) \ {t.tiledFocus[c]}
            p == IF others = {} THEN t.tiledFocus[c] ELSE Prefer(others, x)
            f == Looking(t.tiledFocus, t.clients, p)
            u == [t EXCEPT !.tiledFocus = f]
<1>1. t.tiledFocus[c] \in Selectable(t)
  BY TabFields DEF Looks
<1>2. p \in Selectable(t)
  BY <1>1, PreferIsMember
<1>3. FocusNextTile(t, c, x) = u
  BY <1>1 DEF FocusNextTile
<1>. HIDE DEF p
<1>4. p \in Panes /\ p # None
  BY <1>2, TabFields, NoneIsNot
<1>5. /\ f \in [Clients -> Maybe(Panes)]
      /\ \A d \in Clients : f[d] = IF d \in t.clients THEN p ELSE t.tiledFocus[d]
  BY <1>4, TabFields, LookingType DEF Maybe
<1>. HIDE DEF f
<1>6. PanesStay(t, u) /\ u.tiledFocus = f /\ u.full = t.full /\ u.hidden = t.hidden
  BY <1>5 DEF Stays, PanesStay, Tabs
<1>. HIDE DEF u
<1>7. Selectable(u) = Selectable(t) /\ u.clients = t.clients /\ t.clients \subseteq Clients
  BY <1>6, TabFields DEF Selectable, PanesStay, Stays
<1>8. Looks(u)
  BY <1>2, <1>4, <1>5, <1>6, <1>7 DEF Looks
<1>. QED  BY <1>3, <1>6, <1>8

LEMMA RenderViewed ==
    ASSUME NEW t \in Tabs, t.status = "open", Looks(t), BarsStay(t)
    PROVE  Viewed(Render(t))
<1>1. CASE Selectable(t) = {}
  <2>1. Render(t).status = "closed"
    BY <1>1 DEF Render, Tabs
  <2>. QED  BY <2>1 DEF Viewed
<1>2. CASE Selectable(t) # {}
  BY <1>2 DEF Render, Viewed
<1>. QED  BY <1>1, <1>2

LEMMA MoveOutLooks ==
    ASSUME NEW t \in Tabs, NEW p, NEW x, p \notin Selectable(t), Selectable(t) \ t.hidden # {},
           \A c \in Clients : t.tiledFocus[c] \in Selectable(t) \cup {p, None},
           \A c \in t.clients : t.tiledFocus[c] # None,
           ~t.full => t.hidden = {},
           t.full =>
             /\ t.clients # {} /\ t.hidden \subseteq t.tiled
             /\ \A c \in t.clients :
                  /\ t.tiledFocus[c] \in Selectable(t) \ t.hidden
                  /\ Selectable(t) \ {t.tiledFocus[c]} \subseteq t.hidden
    PROVE  LET u == MoveOutOfTiled(t, p, x)
           IN  PanesStay(t, u) /\ Looks(u) /\ u.full = t.full
<1>. DEFINE heirs == Selectable(t) \ t.hidden
            q == Prefer(heirs, x)
            D == At(t.tiledFocus, p)
            f == Looking(t.tiledFocus, D, q)
            u == [t EXCEPT !.tiledFocus = IF D = {} THEN t.tiledFocus ELSE f]
<1>1. q \in heirs
  BY PreferIsMember
<1>2. MoveOutOfTiled(t, p, x) = u
  BY DEF MoveOutOfTiled
<1>3. q \in Selectable(t) /\ q \in Panes /\ q # None /\ q \notin t.hidden
  BY <1>1, TabFields, NoneIsNot
<1>. HIDE DEF q
<1>4. /\ f \in [Clients -> Maybe(Panes)]
      /\ \A c \in Clients : f[c] = IF t.tiledFocus[c] = p THEN q ELSE t.tiledFocus[c]
  BY <1>3, TabFields, LookingType DEF Maybe, At
<1>5. D = {} => \A c \in Clients : t.tiledFocus[c] # p
  BY DEF At
<1>. HIDE DEF D, f
<1>6. /\ PanesStay(t, u) /\ u.full = t.full /\ u.hidden = t.hidden
      /\ \A c \in Clients :
           u.tiledFocus[c] = IF t.tiledFocus[c] = p THEN q ELSE t.tiledFocus[c]
  BY <1>4, <1>5, TabFields DEF Stays, PanesStay, Tabs
<1>. HIDE DEF u
<1>7. Selectable(u) = Selectable(t) /\ u.clients = t.clients /\ t.clients \subseteq Clients
      /\ u.tiled = t.tiled
  BY <1>6, TabFields DEF Selectable, PanesStay, Stays
<1>8. t.full => \A c \in t.clients : u.tiledFocus[c] = t.tiledFocus[c]
  BY <1>6, <1>7
<1>9. \A c \in Clients : u.tiledFocus[c] # None => u.tiledFocus[c] \in Selectable(u)
  BY <1>3, <1>6, <1>7
<1>10. \A c \in u.clients : u.tiledFocus[c] # None
  BY <1>3, <1>6, <1>7
<1>11. Looks(u)
  BY <1>6, <1>7, <1>8, <1>9, <1>10 DEF Looks
<1>. QED  BY <1>2, <1>6, <1>11

LEMMA RemoveTiledLooks ==
    ASSUME NEW t \in Tabs, NEW p \in t.tiled, NEW x, Looks(t), ~t.full
    PROVE  LET u == RemoveTiled(t, p, x)
           IN  /\ Stays(t, u) /\ Looks(u) /\ ~u.full
               /\ u.tiled = t.tiled \ {p} /\ u.floating = t.floating
               /\ u.suppressed = t.suppressed
               /\ u.floatFocus = t.floatFocus /\ u.shows = t.shows
<1>. DEFINE rest == [t EXCEPT !.tiled = @ \ {p}]
            none == [rest EXCEPT !.tiledFocus = Nobody]
<1>1. /\ rest \in Tabs /\ Stays(t, rest) /\ rest.tiled = t.tiled \ {p}
      /\ rest.floating = t.floating /\ rest.suppressed = t.suppressed
      /\ rest.floatFocus = t.floatFocus /\ rest.shows = t.shows
      /\ rest.tiledFocus = t.tiledFocus
      /\ rest.full = t.full /\ rest.hidden = t.hidden
  BY DEF Stays, Tabs
<1>. HIDE DEF rest
<1>2. Selectable(rest) = Selectable(t) \ {p} /\ rest.hidden = {}
  BY <1>1 DEF Selectable, Stays, Looks
<1>3. CASE Selectable(rest) # {}
  <2>1. RemoveTiled(t, p, x) = MoveOutOfTiled(rest, p, x)
    BY <1>3 DEF RemoveTiled, rest
  <2>2. /\ \A c \in Clients : rest.tiledFocus[c] \in Selectable(rest) \cup {p, None}
        /\ \A c \in rest.clients : rest.tiledFocus[c] # None
        /\ rest.clients = t.clients /\ Selectable(rest) \ rest.hidden # {}
        /\ p \notin Selectable(rest)
    BY <1>1, <1>2, <1>3 DEF Looks, Stays
  <2>3. LET u == MoveOutOfTiled(rest, p, x)
        IN  PanesStay(rest, u) /\ Looks(u) /\ u.full = rest.full
    BY <1>1, <1>2, <2>2, MoveOutLooks
  <2>. QED  BY <1>1, <2>1, <2>3, StaysStays DEF PanesStay
<1>4. CASE Selectable(rest) = {}
  <2>1. RemoveTiled(t, p, x) = none
    BY <1>4 DEF RemoveTiled, rest
  <2>2. /\ PanesStay(rest, none) /\ none.full = rest.full /\ none.hidden = rest.hidden
        /\ none.tiledFocus = Nobody
    BY <1>1, NobodyType DEF PanesStay, Stays, Tabs
  <2>. HIDE DEF none
  <2>3. Selectable(none) = {}
    BY <1>4, <2>2 DEF Selectable, PanesStay, Stays
  <2>4. Looks(none)
    BY <1>1, <1>2, <2>2, <2>3 DEF Looks, Nobody
  <2>. QED  BY <1>1, <2>1, <2>2, <2>4, StaysStays DEF PanesStay
<1>. QED  BY <1>3, <1>4

(* What is to be replaced is no tile, or one that can be selected and shows. *)
LEMMA ReplaceTiledLooks ==
    ASSUME NEW t \in Tabs, NEW old \in Panes, NEW p \in Panes \ (t.tiled \cup t.passive),
           Looks(t), old \in t.tiled => old \in Selectable(t) \ t.hidden
    PROVE  LET u == ReplaceTiled(t, old, p)
           IN  /\ Stays(t, u) /\ Looks(u)
               /\ u.tiled = IF old \in t.tiled THEN (t.tiled \ {old}) \cup {p} ELSE t.tiled
               /\ u.floating = t.floating /\ u.suppressed = t.suppressed
               /\ u.floatFocus = t.floatFocus /\ u.shows = t.shows
               /\ Selectable(u) # {} <=> Selectable(t) # {}
<1>. DEFINE f == Looking(t.tiledFocus, At(t.tiledFocus, old), p)
            S == IF old \in t.tiled THEN (t.tiled \ {old}) \cup {p} ELSE t.tiled
            u == [t EXCEPT !.tiled = S, !.tiledFocus = f]
<1>1. ReplaceTiled(t, old, p) = u
  BY DEF ReplaceTiled
<1>2. /\ f \in [Clients -> Maybe(Panes)]
      /\ \A c \in Clients : f[c] = IF t.tiledFocus[c] = old THEN p ELSE t.tiledFocus[c]
  BY TabFields, LookingType DEF Maybe, At
<1>3. S \in SUBSET Panes /\ p # None /\ old # None
  BY TabFields, NoneIsNot
<1>. HIDE DEF f, S
<1>4. /\ Stays(t, u) /\ u.tiled = S /\ u.tiledFocus = f
      /\ u.full = t.full /\ u.hidden = t.hidden
      /\ u.floating = t.floating /\ u.suppressed = t.suppressed
      /\ u.floatFocus = t.floatFocus /\ u.shows = t.shows
  BY <1>2, <1>3 DEF Stays, Tabs
<1>. HIDE DEF u
<1>5. CASE old \notin t.tiled
  <2>1. S = t.tiled /\ \A c \in Clients : t.tiledFocus[c] # old
    BY <1>3, <1>5, TabFields DEF Looks, S
  <2>2. f = t.tiledFocus
    BY <1>2, <2>1, TabFields
  <2>3. TilesStay(t, u)
    BY <1>4, <2>1, <2>2 DEF TilesStay
  <2>4. Looks(u) /\ Selectable(u) = Selectable(t)
    BY <2>3, TilesStayLooks
  <2>. QED  BY <1>1, <1>4, <1>5, <2>1, <2>4
<1>6. CASE old \in t.tiled
  <2>1. S = (t.tiled \ {old}) \cup {p} /\ old \in Selectable(t) \ t.hidden
    BY <1>6 DEF S
  <2>2. Selectable(u) = (Selectable(t) \ {old}) \cup {p}
    BY <1>4, <2>1 DEF Selectable, Stays
  <2>3. u.clients = t.clients /\ t.clients \subseteq Clients
    BY <1>4, TabFields DEF Stays
  <2>4. t.full => \A c \in t.clients : t.tiledFocus[c] = old
    BY <2>1 DEF Looks
  <2>5. \A c \in Clients : u.tiledFocus[c] # None => u.tiledFocus[c] \in Selectable(u)
    BY <1>2, <1>4, <2>2 DEF Looks
  <2>6. \A c \in u.clients : u.tiledFocus[c] # None
    BY <1>2, <1>3, <1>4, <2>1, <2>3 DEF Looks
  <2>7. u.full => \A c \in u.clients : u.tiledFocus[c] = p
    BY <1>2, <1>4, <2>3, <2>4
  <2>8. u.full => /\ u.hidden \subseteq u.tiled /\ p \notin u.hidden
                  /\ Selectable(u) \ {p} \subseteq u.hidden /\ u.clients # {}
    BY <1>4, <2>1, <2>2, <2>3, <2>4 DEF Looks
  <2>9. Looks(u)
    BY <1>4, <2>2, <2>5, <2>6, <2>7, <2>8 DEF Looks
  <2>10. Selectable(u) # {} /\ Selectable(t) # {}
    BY <2>1, <2>2
  <2>. QED  BY <1>1, <1>4, <1>6, <2>1, <2>9, <2>10
<1>. QED  BY <1>5, <1>6

LEMMA AddTiledLooks ==
    ASSUME NEW t \in Tabs, NEW p \in Panes \ t.passive, NEW c \in Maybe(Clients), NEW x,
           Looks(t), Chooses(t, x), Selectable(t) # {}
    PROVE  LET u == AddTiled(t, p, c, x)
           IN  /\ Stays(t, u) /\ Looks(u) /\ Selectable(u) # {}
               /\ t.tiled \subseteq u.tiled
               /\ u.suppressed = t.suppressed
<1>. DEFINE v == UnsetFullscreen(t, x)
            w == [v EXCEPT !.tiled = @ \cup {p}]
<1>1. /\ Stays(t, v) /\ Looks(v) /\ ~v.full /\ v.hidden = {}
      /\ v.tiled = t.tiled /\ v.suppressed = t.suppressed
  BY UnsetFullscreenLooks
<1>2. AddTiled(t, p, c, x) \in {v, w, FocusTiled(w, p, c, x)} /\ (c = None =>
         AddTiled(t, p, c, x) \in {v, w})
      /\ (c # None => AddTiled(t, p, c, x) \in {v, FocusTiled(w, p, c, x)})
  BY DEF AddTiled
<1>. HIDE DEF v
<1>3. v \in Tabs /\ Selectable(v) = Selectable(t)
  BY <1>1 DEF Stays, Selectable
<1>4. /\ Stays(v, w) /\ w.tiled = v.tiled \cup {p} /\ w.suppressed = v.suppressed
      /\ w.tiledFocus = v.tiledFocus /\ w.full = v.full /\ w.hidden = v.hidden
  BY <1>3 DEF Stays, Tabs
<1>. HIDE DEF w
<1>5. Selectable(w) = Selectable(v) \cup {p} /\ w.clients = v.clients
  BY <1>1, <1>4 DEF Selectable, Stays
<1>6. Looks(w)
  BY <1>1, <1>3, <1>4, <1>5 DEF Looks
<1>7. CASE AddTiled(t, p, c, x) = v
  BY <1>1, <1>3, <1>7
<1>8. CASE AddTiled(t, p, c, x) = w
  BY <1>1, <1>4, <1>5, <1>6, <1>8, StaysStays
<1>9. CASE AddTiled(t, p, c, x) = FocusTiled(w, p, c, x) /\ c # None
  <2>1. w \in Tabs /\ c \in Clients /\ p \in Selectable(w) /\ Chooses(w, x)
    BY <1>1, <1>4, <1>5, <1>9 DEF Stays, Chooses, Maybe
  <2>2. LET u == FocusTiled(w, p, c, x)
        IN  /\ Stays(w, u) /\ Looks(u)
            /\ u.tiled = w.tiled /\ u.suppressed = w.suppressed
    BY <1>6, <2>1, FocusTiledLooks
  <2>3. LET u == FocusTiled(w, p, c, x)
        IN  Selectable(u) = Selectable(w)
    BY <2>2 DEF Selectable, Stays
  <2>. QED  BY <1>1, <1>4, <1>5, <1>9, <2>2, <2>3, StaysStays
<1>. QED  BY <1>2, <1>7, <1>8, <1>9

(* Floating panes do not matter to the tiles.                               *)
LEMMA FloatingLooks ==
    ASSUME NEW t, Sound(t), t.status = "open"
    PROVE  /\ \A c \in Clients : \A p \in t.floating :
                LET u == FocusFloating(t, p, c)
                IN  TilesStay(t, u) /\ u.suppressed = t.suppressed
           /\ \A x : \A p \in Panes :
                LET u == RemoveFloating(t, p, x)
                IN  TilesStay(t, u) /\ u.suppressed = t.suppressed
           /\ \A old, p \in Panes :
                LET u == ReplaceFloating(t, old, p)
                IN  Nowhere(t, p) => TilesStay(t, u) /\ u.suppressed = t.suppressed
           /\ \A p \in Panes :
                LET u == AddFloating(t, p)
                IN  Nowhere(t, p) => TilesStay(t, u) /\ u.suppressed = t.suppressed
           /\ \A x : \A c \in t.clients :
                LET u == MoveFloatingFocus(t, c, x)
                IN  TilesStay(t, u) /\ u.suppressed = t.suppressed
<1>0. t \in Tabs /\ t.clients \subseteq Clients
  BY SoundFields
<1>1. ASSUME NEW c \in Clients, NEW p \in t.floating
      PROVE  LET u == FocusFloating(t, p, c)
             IN  TilesStay(t, u) /\ u.suppressed = t.suppressed
  <2>1. FocusFloating(t, p, c) \in Tabs
    BY <1>0, SoundFields, FocusFloatingSound DEF Sound
  <2>. QED  BY <1>0, <2>1 DEF FocusFloating, TilesStay, Stays, Tabs
<1>2. ASSUME NEW x, NEW p \in Panes
      PROVE  LET u == RemoveFloating(t, p, x)
             IN  TilesStay(t, u) /\ u.suppressed = t.suppressed
  <2>1. RemoveFloating(t, p, x) \in Tabs
    BY RemoveFloatingSound DEF Sound
  <2>. QED  BY <1>0, <2>1 DEF RemoveFloating, TilesStay, Stays, Tabs
<1>3. ASSUME NEW old \in Panes, NEW p \in Panes, Nowhere(t, p)
      PROVE  LET u == ReplaceFloating(t, old, p)
             IN  TilesStay(t, u) /\ u.suppressed = t.suppressed
  <2>1. ReplaceFloating(t, old, p) \in Tabs
    BY <1>3, ReplaceFloatingSound DEF Sound
  <2>. QED  BY <1>0, <2>1 DEF ReplaceFloating, TilesStay, Stays, Tabs
<1>4. ASSUME NEW p \in Panes, Nowhere(t, p)
      PROVE  LET u == AddFloating(t, p)
             IN  TilesStay(t, u) /\ u.suppressed = t.suppressed
  <2>1. AddFloating(t, p) \in Tabs
    BY <1>4, AddFloatingSound DEF Sound
  <2>. QED  BY <1>0, <2>1 DEF AddFloating, TilesStay, Stays, Tabs
<1>5. ASSUME NEW x, NEW c \in t.clients
      PROVE  LET u == MoveFloatingFocus(t, c, x)
             IN  TilesStay(t, u) /\ u.suppressed = t.suppressed
  <2>1. MoveFloatingFocus(t, c, x) \in Tabs
    BY MoveFloatingFocusSound DEF Sound
  <2>2. \A p \in t.floating : FocusFloating(t, p, c) \in Tabs
    BY <1>0, SoundFields, FocusFloatingSound DEF Sound
  <2>3. \A f : [t EXCEPT !.floatFocus = f] \in Tabs =>
                 LET u == [t EXCEPT !.floatFocus = f]
                 IN  TilesStay(t, u) /\ u.suppressed = t.suppressed
    BY <1>0 DEF TilesStay, Stays, Tabs
  <2>4. PICK f : MoveFloatingFocus(t, c, x) = [t EXCEPT !.floatFocus = f]
    BY DEF MoveFloatingFocus, FocusFloating
  <2>. QED  BY <2>1, <2>3, <2>4
<1>. QED  BY <1>1, <1>2, <1>3, <1>4, <1>5

LEMMA ShowsLooks ==
    ASSUME NEW t \in Tabs
    PROVE  /\ TilesStay(t, Show(t)) /\ TilesStay(t, Hide(t))
           /\ Show(t).suppressed = t.suppressed /\ Hide(t).suppressed = t.suppressed
BY DEF Show, Hide, TilesStay, Stays, Tabs

LEMMA ReplaceWithSuppressedLooks ==
    ASSUME NEW t, Sound(t), t.status = "open", Looks(t), BarsStay(t),
           NEW e \in t.tiled \cup t.floating, t.suppressed[e] # None,
           e \notin t.hidden
    PROVE  LET u == ReplaceWithSuppressed(t, e)
           IN  /\ Stays(t, u) /\ Looks(u) /\ BarsStay(u)
               /\ Selectable(t) \ {e} \subseteq Selectable(u)
<1>. DEFINE old == t.suppressed[e]
            rest == [t EXCEPT !.suppressed[e] = None]
            u == ReplaceWithSuppressed(t, e)
<1>0. t \in Tabs /\ e \in Panes
  BY SoundFields
<1>1. Sound(rest) /\ old \in Panes /\ Nowhere(rest, old)
  BY <1>0, TakenOutSound
<1>2. TilesStay(t, rest) /\ rest.floating = t.floating /\ rest.shows = t.shows
      /\ \A f \in Panes : rest.suppressed[f] = IF f = e THEN None ELSE t.suppressed[f]
  BY <1>0, <1>1, SoundFields DEF TilesStay, Stays, Tabs, Sound
<1>3. u = IF t.shows THEN ReplaceFloating(rest, e, old) ELSE ReplaceTiled(rest, e, old)
  BY DEF ReplaceWithSuppressed
<1>4. old \notin t.tiled \cup t.floating /\ old # e
  BY <1>0 DEF Sound, Apart
<1>5. e \notin t.bars /\ e \notin t.passive
  BY <1>4 DEF BarsStay
<1>6. old \notin t.passive
  <2>1. ASSUME old \in t.passive PROVE FALSE
    <3>1. t.suppressed[old] = old
      BY <1>4, <2>1 DEF BarsStay
    <3>2. old = e
      BY <1>0, <1>1, <3>1, NoneIsNot DEF Sound, Apart
    <3>. QED  BY <1>4, <3>2
  <2>. QED  BY <2>1
<1>. HIDE DEF rest, old, u
<1>7. /\ rest \in Tabs /\ rest.status = "open" /\ Looks(rest)
      /\ Selectable(rest) = Selectable(t) /\ rest.tiled = t.tiled
      /\ rest.hidden = t.hidden /\ rest.passive = t.passive /\ Stays(t, rest)
  BY <1>2, TilesStayLooks DEF TilesStay, Stays
<1>8. CASE t.shows
  <2>1. u = ReplaceFloating(rest, e, old)
    BY <1>3, <1>8
  <2>2. TilesStay(rest, u) /\ u.suppressed = rest.suppressed
    BY <1>0, <1>1, <1>7, <2>1, FloatingLooks
  <2>3. Looks(u) /\ Selectable(u) = Selectable(rest)
    BY <1>7, <2>2, TilesStayLooks
  <2>4. Stays(t, u) /\ u.tiled = t.tiled
    BY <1>7, <2>2, StaysStays DEF TilesStay
  <2>5. BarsStay(u)
    BY <1>2, <1>5, <2>2, <2>4, TabFields, <1>0 DEF BarsStay, Stays, Panes
  <2>. QED  BY <1>7, <2>3, <2>4, <2>5 DEF u
<1>9. CASE ~t.shows
  <2>1. u = ReplaceTiled(rest, e, old)
    BY <1>3, <1>9
  <2>2. old \in Panes \ (rest.tiled \cup rest.passive)
    BY <1>1, <1>4, <1>6, <1>7
  <2>3. e \in rest.tiled => e \in Selectable(rest) \ rest.hidden
    BY <1>5, <1>7 DEF Selectable
  <2>4. /\ Stays(rest, u) /\ Looks(u)
        /\ u.tiled = IF e \in rest.tiled THEN (rest.tiled \ {e}) \cup {old} ELSE rest.tiled
        /\ u.suppressed = rest.suppressed
    BY <1>0, <1>7, <2>1, <2>2, <2>3, ReplaceTiledLooks
  <2>5. Stays(t, u) /\ t.tiled \ {e} \subseteq u.tiled
    BY <1>7, <2>4, StaysStays
  <2>6. BarsStay(u)
    BY <1>0, <1>2, <1>5, <2>4, <2>5, TabFields DEF BarsStay, Stays, Panes
  <2>7. Selectable(t) \ {e} \subseteq Selectable(u)
    BY <2>5 DEF Selectable, Stays
  <2>. QED  BY <2>4, <2>5, <2>6, <2>7 DEF u
<1>. QED  BY <1>8, <1>9

LEMMA ClosePaneLooks ==
    ASSUME NEW t, Sound(t), t.status = "open", Looks(t), BarsStay(t),
           NEW p \in t.tiled \cup t.floating, NEW b \in BOOLEAN, NEW x, Chooses(t, x),
           ~b /\ t.suppressed[p] # None => p \notin t.hidden
    PROVE  LET u == ClosePane(t, p, b, x)
           IN  /\ Stays(t, u) /\ Looks(u)
               /\ p \notin t.passive => BarsStay(u)
               /\ b => u.suppressed = t.suppressed /\ u.tiled = t.tiled \ {p}
               /\ Selectable(t) \ {p} \subseteq Selectable(u)
<1>. DEFINE v == UnsetFullscreen(t, x)
            u == ClosePane(t, p, b, x)
<1>0. t \in Tabs /\ p \in Panes
  BY SoundFields
<1>1. CASE ~b /\ t.suppressed[p] # None
  <2>1. u = ReplaceWithSuppressed(t, p)
    BY <1>1 DEF ClosePane
  <2>. QED  BY <1>0, <1>1, <2>1, ReplaceWithSuppressedLooks
<1>2. CASE ~(~b /\ t.suppressed[p] # None) /\ p \in t.floating
  <2>1. u = RemoveFloating(t, p, x)
    BY <1>2 DEF ClosePane
  <2>. HIDE DEF u
  <2>2. TilesStay(t, u) /\ u.suppressed = t.suppressed
    BY <1>0, <2>1, FloatingLooks
  <2>3. Looks(u) /\ Selectable(u) = Selectable(t)
    BY <2>2, TilesStayLooks
  <2>4. p \notin t.tiled
    BY <1>2 DEF Sound, Apart
  <2>5. BarsStay(u)
    BY <2>2 DEF TilesStay, Stays, BarsStay
  <2>6. u.tiled = t.tiled \ {p}
    BY <2>2, <2>4 DEF TilesStay
  <2>. QED  BY <2>2, <2>3, <2>5, <2>6 DEF TilesStay, u
<1>3. CASE ~(~b /\ t.suppressed[p] # None) /\ p \notin t.floating
  <2>1. u = RemoveTiled(v, p, x)
    BY <1>3 DEF ClosePane
  <2>2. /\ Stays(t, v) /\ Looks(v) /\ ~v.full
        /\ v.tiled = t.tiled /\ v.suppressed = t.suppressed
    BY <1>0, UnsetFullscreenLooks
  <2>. HIDE DEF v, u
  <2>3. v \in Tabs /\ p \in v.tiled
    BY <1>3, <2>2 DEF Stays
  <2>4. /\ Stays(v, u) /\ Looks(u)
        /\ u.tiled = v.tiled \ {p} /\ u.suppressed = v.suppressed
    BY <2>1, <2>2, <2>3, RemoveTiledLooks
  <2>5. Stays(t, u) /\ u.tiled = t.tiled \ {p} /\ u.suppressed = t.suppressed
    BY <2>2, <2>4, StaysStays
  <2>6. p \notin t.passive => BarsStay(u)
    BY <2>5 DEF Stays, BarsStay
  <2>7. Selectable(t) \ {p} \subseteq Selectable(u)
    BY <2>5 DEF Selectable, Stays
  <2>. QED  BY <2>4, <2>5, <2>6, <2>7 DEF u
<1>. QED  BY <1>1, <1>2, <1>3

LEMMA JoinLooks ==
    ASSUME NEW t \in Tabs, NEW c \in Clients, Looks(t), t.tiledFocus[c] \in Selectable(t),
           t.full => /\ t.tiledFocus[c] \notin t.hidden
                     /\ Selectable(t) \ {t.tiledFocus[c]} \subseteq t.hidden
    PROVE  LET u == [t EXCEPT !.clients = @ \cup {c}]
           IN  /\ Looks(u) /\ u.status = t.status /\ u \in Tabs
               /\ BarsStay(t) => BarsStay(u)
<1>. DEFINE u == [t EXCEPT !.clients = @ \cup {c}]
<1>1. /\ u \in Tabs
      /\ u.clients = t.clients \cup {c} /\ u.tiled = t.tiled /\ u.tiledFocus = t.tiledFocus
      /\ u.hidden = t.hidden /\ u.full = t.full /\ u.passive = t.passive /\ u.bars = t.bars
      /\ u.suppressed = t.suppressed /\ u.focusId = t.focusId /\ u.status = t.status
  BY DEF Tabs
<1>. HIDE DEF u
<1>2. Selectable(u) = Selectable(t)
  BY <1>1 DEF Selectable
<1>3. t.tiledFocus[c] # None
  BY TabFields, NoneIsNot
<1>4. Looks(u)
  BY <1>1, <1>2, <1>3 DEF Looks
<1>5. BarsStay(t) => BarsStay(u)
  BY <1>1 DEF BarsStay
<1>. QED  BY <1>1, <1>4, <1>5 DEF u

LEMMA AddClientLooks ==
    ASSUME NEW t, Sound(t), t.status = "open", Looks(t), BarsStay(t), Selectable(t) # {},
           NEW c \in Clients, NEW x \in Choices(t), ~JoinsBars(t, c)
    PROVE  LET u == AddClient(t, c, x)
           IN  u \in Tabs /\ u.status = "open" /\ Looks(u) /\ BarsStay(u)
<1>. DEFINE visible  == t.tiled \ t.hidden
            smallest == Prefer(IF visible \cap Terminals # {}
                               THEN visible \cap Terminals ELSE visible, x)
            floats   == {t.floatFocus[d] : d \in Clients} \ {None}
            q == IF t.floatFocus[c] # None THEN t.floatFocus[c] ELSE Prefer(floats, x)
            v == IF floats = {} THEN t ELSE FocusFloating(t, q, c)
            Join(u) == [u EXCEPT !.clients = @ \cup {c}]
<1>1. t \in Tabs /\ t.tiledFocus \in [Clients -> Maybe(Panes)]
  BY SoundFields
<1>2. Chooses(t, x)
  BY ChoiceOfClient DEF Chooses, Looks
<1>3. ASSUME NEW s \in Tabs, TilesStay(t, s), s.suppressed = t.suppressed,
             NEW p \in Selectable(t)
      PROVE  LET u == Join(FocusTiledIfNotFocused(s, p, c, x))
             IN  u \in Tabs /\ u.status = "open" /\ Looks(u) /\ BarsStay(u)
  <2>. DEFINE w == FocusTiledIfNotFocused(s, p, c, x)
  <2>1. Looks(s) /\ Chooses(s, x) /\ p \in Selectable(s) /\ s.status = "open"
    BY <1>2, <1>3, TilesStayLooks DEF TilesStay, Stays, Chooses
  <2>2. BarsStay(s)
    BY <1>3 DEF TilesStay, Stays, BarsStay
  <2>3. /\ PanesStay(s, w) /\ Looks(w)
        /\ w.tiledFocus[c] \in Selectable(w)
        /\ w.full => /\ w.tiledFocus[c] \notin w.hidden
                     /\ Selectable(w) \ {w.tiledFocus[c]} \subseteq w.hidden
    BY <1>3, <2>1, FocusIfNotFocusedLooks
  <2>. HIDE DEF w
  <2>4. BarsStay(w) /\ w \in Tabs /\ w.status = "open"
    BY <2>1, <2>2, <2>3 DEF PanesStay, Stays, BarsStay
  <2>. QED  BY <2>3, <2>4, JoinLooks DEF w
<1>4. CASE t.clients # {}
  <2>. DEFINE p == v.tiledFocus[x.client]
  <2>1. x.client \in t.clients /\ x.client \in Clients
    BY <1>1, <1>4, ChoiceOfClient, TabFields
  <2>2. floats # {} => q \in t.floating
    <3>1. ASSUME floats # {} PROVE q \in floats
      BY <3>1, PreferIsMember
    <3>2. floats \subseteq t.floating
      BY DEF Sound, FocusIsFloating
    <3>. QED  BY <3>1, <3>2
  <2>3. TilesStay(t, v) /\ v.suppressed = t.suppressed /\ v \in Tabs
    <3>. HIDE DEF q, floats
    <3>. QED  BY <1>1, <2>2, FloatingLooks, StaysItself DEF TilesStay, Stays
  <2>4. p \in Selectable(t) /\ p # None
    BY <1>1, <2>1, <2>3, TabFields, NoneIsNot DEF Looks, TilesStay
  <2>5. AddClient(t, c, x) = Join(FocusTiledIfNotFocused(v, p, c, x))
    BY <1>4, <2>4 DEF AddClient
  <2>. HIDE DEF v, p
  <2>. QED  BY <1>3, <2>3, <2>4, <2>5
<1>5. CASE t.clients = {}
  <2>1. /\ ~t.full /\ visible = t.tiled /\ t.tiled # {} /\ t.focusId = None
        /\ t.tiledFocus[c] # None \/ visible \cap Terminals # {}
    BY <1>5 DEF Looks, Selectable, BarsStay, JoinsBars
  <2>2. AddClient(t, c, x) = Join(FocusTiledIfNotFocused(t, smallest, c, x))
    BY <1>5, <2>1 DEF AddClient
  <2>3. CASE t.tiledFocus[c] # None
    <3>1. t.tiledFocus[c] \in Selectable(t)
      BY <2>3 DEF Looks
    <3>2. FocusTiledIfNotFocused(t, smallest, c, x)
            = FocusTiledIfNotFocused(t, t.tiledFocus[c], c, x)
      BY <2>3 DEF FocusTiledIfNotFocused
    <3>3. t \in Tabs /\ TilesStay(t, t)
      BY <1>1, StaysItself
    <3>. DEFINE r == t.tiledFocus[c]
    <3>4. r \in Selectable(t)
      BY <3>1
    <3>5. AddClient(t, c, x) = Join(FocusTiledIfNotFocused(t, r, c, x))
      BY <2>2, <3>2
    <3>. HIDE DEF r, smallest, Join
    <3>6. LET u == Join(FocusTiledIfNotFocused(t, r, c, x))
          IN  u \in Tabs /\ u.status = "open" /\ Looks(u) /\ BarsStay(u)
      BY <1>3, <3>3, <3>4
    <3>. QED  BY <3>5, <3>6
  <2>4. CASE t.tiledFocus[c] = None
    <3>1. smallest \in t.tiled /\ smallest \in Terminals
      BY <2>1, <2>4, PreferIsMember
    <3>2. smallest \in Selectable(t)
      BY <1>1, <3>1, TabFields, TabAssumption DEF Selectable
    <3>. HIDE DEF smallest
    <3>. QED  BY <1>1, <1>3, <2>2, <3>2, StaysItself
  <2>. QED  BY <2>3, <2>4
<1>. QED  BY <1>4, <1>5

----------------------------------------------------------------------------
(* The actions again, when everything comes in order                        *)

Sees(t) == t \in Tabs /\ t.status = "open" /\ Looks(t) /\ BarsStay(t)

Ready ==
    /\ Inv /\ Disorder = {}
    /\ Sees(tab) /\ Selectable(tab) # {}

LEMMA InOrder == ASSUME Disorder = {} PROVE \A d : ~Happens(d)
BY DEF Happens

LEMMA BecomesViewed ==
    ASSUME NEW t, NEW running,
           \/ Sees(t) /\ Becomes(Render(t), running)
           \/ Viewed(t) /\ Becomes(t, running)
    PROVE  Viewed(tab)'
<1>1. \E u : Viewed(u) /\ tab' = u
  BY RenderViewed DEF Sees, Becomes
<1>. QED  BY <1>1

LEMMA SeesViewed ==
    ASSUME NEW t, Sees(t), Selectable(t) # {}
    PROVE  Viewed(t)
BY DEF Sees, Viewed

LEMMA TilesStaySees ==
    ASSUME NEW t, NEW u, Sees(t), TilesStay(t, u), u.suppressed = t.suppressed
    PROVE  Sees(u) /\ Selectable(u) = Selectable(t)
<1>1. Selectable(u) = Selectable(t) /\ Looks(u)
  BY TilesStayLooks DEF Sees
<1>. QED  BY <1>1 DEF Sees, TilesStay, Stays, BarsStay

LEMMA StaysSees ==
    ASSUME NEW t, NEW u, Sees(t), Stays(t, u), Looks(u),
           u.suppressed = t.suppressed, t.tiled \subseteq u.tiled
    PROVE  Sees(u)
BY DEF Sees, Stays, BarsStay

LEMMA PanesStaySees ==
    ASSUME NEW t, NEW u, Sees(t), PanesStay(t, u), Looks(u)
    PROVE  Sees(u) /\ Selectable(u) = Selectable(t)
BY DEF Sees, PanesStay, Stays, BarsStay, Selectable

LEMMA FirstIsThere ==
    ASSUME Ready, NEW x
    PROVE  /\ x \in Choices(tab) \cup ClientChoices(tab) => Chooses(tab, x)
           /\ x \in Choices(tab) /\ tab.clients # {} => x.client \in tab.clients
<1>1. tab.full => tab.clients # {}
  BY DEF Ready, Sees, Looks
<1>. QED  BY <1>1 DEF Chooses, Choices, ClientChoices, Firsts

(* A client looks at a pane that can be closed, replaced and moved.         *)
LEMMA ActiveIsThere ==
    ASSUME Ready, NEW c \in tab.clients
    PROVE  /\ c \in Clients
           /\ tab.tiledFocus[c] \in Selectable(tab) \ tab.hidden
           /\ tab.floatFocus[c] # None => tab.floatFocus[c] \in tab.floating
           /\ tab.floating \cap (tab.hidden \cup tab.passive \cup tab.tiled) = {}
           /\ tab.floating \cup tab.tiled \subseteq Panes
<1>1. /\ Sound(tab) /\ tab.status = "open" /\ Looks(tab) /\ BarsStay(tab)
      /\ tab \in Tabs /\ Selectable(tab) # {}
  BY DEF Ready, Inv, Sees
<1>2. c \in Clients /\ tab.floating \cup tab.tiled \subseteq Panes
  BY <1>1, TabFields
<1>3. tab.tiledFocus[c] \in Selectable(tab) \ tab.hidden
  BY <1>1, <1>2 DEF Looks
<1>4. tab.floatFocus[c] # None => tab.floatFocus[c] \in tab.floating
  BY <1>1, <1>2 DEF Sound, FocusIsFloating
<1>5. tab.hidden \subseteq tab.tiled /\ tab.tiled \cap tab.floating = {}
  BY <1>1 DEF Looks, Sound, Apart
<1>6. tab.floating \cap tab.passive = {}
  <2>1. \A b \in tab.passive : b \in tab.tiled \/ tab.suppressed[b] = b
    BY <1>1 DEF BarsStay
  <2>2. \A e \in Panes : tab.suppressed[e] \notin tab.floating
    BY <1>1 DEF Sound, Apart
  <2>. QED  BY <1>2, <1>5, <2>1, <2>2
<1>. QED  BY <1>2, <1>3, <1>4, <1>5, <1>6

LEMMA ClientsComeInOrder ==
    ASSUME Ready, NEW c \in Clients, NEW x \in Choices(tab), Come(c, x)
    PROVE  Viewed(tab)'
<1>1. Sees(AddClient(tab, c, x))
  BY AddClientLooks, InOrder DEF Ready, Sees, Inv, Come
<1>. QED  BY <1>1, BecomesViewed DEF Come

LEMMA FewerClientsSee ==
    ASSUME NEW t, Sees(t), NEW D \in SUBSET t.clients,
           NEW u,
           \/ u = [t EXCEPT !.clients = D]
           \/ u = [t EXCEPT !.clients = D, !.focusId = None],
           u.full => u.clients # {}
    PROVE  Sees(u)
<1>1. t \in Tabs /\ t.clients \subseteq Clients /\ None \in Maybe(Panes)
      /\ t.focusId = None
  BY TabFields DEF Sees, Maybe, BarsStay
<1>0. u = [t EXCEPT !.clients = D]
  <2>1. [t EXCEPT !.clients = D, !.focusId = None] = [t EXCEPT !.clients = D]
    BY <1>1 DEF Tabs
  <2>. QED  BY <2>1
<1>2. /\ u \in Tabs
      /\ u.clients = D /\ u.tiled = t.tiled /\ u.tiledFocus = t.tiledFocus
      /\ u.hidden = t.hidden /\ u.full = t.full /\ u.passive = t.passive
      /\ u.bars = t.bars /\ u.suppressed = t.suppressed
      /\ u.focusId = None /\ u.status = t.status
  BY <1>0, <1>1 DEF Tabs
<1>3. Selectable(u) = Selectable(t)
  BY <1>2 DEF Selectable
<1>4. Looks(u)
  BY <1>1, <1>2, <1>3 DEF Sees, Looks
<1>5. BarsStay(u)
  BY <1>2 DEF Sees, BarsStay
<1>. QED  BY <1>2, <1>4, <1>5 DEF Sees

LEMMA RenderKeepsScreen ==
    ASSUME NEW t \in Tabs
    PROVE  Render(t).full = t.full /\ Render(t).clients = t.clients
BY DEF Render, Tabs

LEMMA ClientsGoInOrder ==
    ASSUME Ready, NEW c \in Clients, Leave(c) \/ GoToOtherTab(c),
           ~(tab'.full /\ tab'.clients = {})
    PROVE  Viewed(tab)'
<1>1. PICK u \in {RemoveClient(tab, c), DrainClient(tab, c)} :
         Becomes(Render(u), alive)
  BY DEF Leave, GoToOtherTab
<1>2. Sees(tab) /\ tab \in Tabs
  BY DEF Ready, Sees
<1>3. PICK D \in SUBSET tab.clients :
         \/ u = [tab EXCEPT !.clients = D]
         \/ u = [tab EXCEPT !.clients = D, !.focusId = None]
  <2>1. CASE u = RemoveClient(tab, c)
    <3>1. u = [tab EXCEPT !.clients = tab.clients \ {c}, !.focusId = None]
      BY <2>1 DEF RemoveClient
    <3>. QED  BY <3>1
  <2>2. CASE u = DrainClient(tab, c)
    <3>1. u = [tab EXCEPT !.clients = IF Mirrored THEN {} ELSE tab.clients \ {c}]
      BY <2>2 DEF DrainClient
    <3>. QED  BY <3>1
  <2>. QED  BY <2>1, <2>2, <1>1
<1>4. u \in Tabs
  <2>1. D \in SUBSET Clients /\ None \in Maybe(Panes)
    BY <1>2, TabFields DEF Maybe
  <2>. QED  BY <1>2, <1>3, <2>1 DEF Tabs
<1>5. u.full => u.clients # {}
  BY <1>1, <1>4, RenderKeepsScreen DEF Becomes
<1>6. Sees(u)
  BY <1>2, <1>3, <1>5, FewerClientsSee
<1>. QED  BY <1>1, <1>6, BecomesViewed

LEMMA OpenPaneLooks ==
    ASSUME NEW t, Sound(t), Sees(t), Selectable(t) # {},
           NEW p \in Panes \ t.bars, Nowhere(t, p), NEW float,
           NEW c \in Maybe(Clients), NEW x, Chooses(t, x)
    PROVE  LET u == OpenPane(t, p, float, c, x)
           IN  Sees(u) /\ Selectable(u) # {}
<1>. DEFINE v == CASE float = "float" -> Show(t)
                   [] float = "tile" -> Hide(t)
                   [] OTHER -> t
<1>0. t \in Tabs /\ t.status = "open"
  BY DEF Sees
<1>1. Keeps(t, v) /\ TilesStay(t, v) /\ v.suppressed = t.suppressed
  BY <1>0, ShowsKeeps, KeepsItself, ShowsLooks, StaysItself
<1>2. OpenPane(t, p, float, c, x)
        = IF v.shows THEN AddFloating(v, p) ELSE AddTiled(v, p, c, x)
  BY DEF OpenPane
<1>. HIDE DEF v
<1>3. /\ Sees(v) /\ Selectable(v) = Selectable(t) /\ Sound(v) /\ Nowhere(v, p)
      /\ Chooses(v, x) /\ v.status = "open" /\ v \in Tabs /\ Looks(v)
      /\ v.bars = t.bars /\ v.passive \subseteq v.bars
  BY <1>1, TilesStaySees, KeepsSound, KeepsNowhere
     DEF TilesStay, Stays, Chooses, Sees, BarsStay
<1>4. CASE v.shows
  <2>. DEFINE u == AddFloating(v, p)
  <2>1. TilesStay(v, u) /\ u.suppressed = v.suppressed
    BY <1>3, FloatingLooks
  <2>. HIDE DEF u
  <2>2. Sees(u) /\ Selectable(u) = Selectable(v)
    BY <1>3, <2>1, TilesStaySees
  <2>. QED  BY <1>2, <1>3, <1>4, <2>2 DEF u
<1>5. CASE ~v.shows
  <2>. DEFINE u == AddTiled(v, p, c, x)
  <2>1. p \in Panes \ v.passive
    BY <1>3
  <2>2. /\ Stays(v, u) /\ Looks(u) /\ Selectable(u) # {}
        /\ v.tiled \subseteq u.tiled /\ u.suppressed = v.suppressed
    BY <1>3, <2>1, AddTiledLooks
  <2>. HIDE DEF u
  <2>3. Sees(u)
    BY <1>3, <2>2, StaysSees
  <2>. QED  BY <1>2, <1>5, <2>2, <2>3 DEF u
<1>. QED  BY <1>4, <1>5

LEMMA PanesOpenInOrder ==
    ASSUME Ready, NEW p \in Panes, NEW float, NEW c \in Maybe(tab.clients),
           NEW x \in ClientChoices(tab),
           NewTerminal(p, float, c, x) \/ AddPlugin(p, float, x)
    PROVE  Viewed(tab)'
<1>1. /\ Sound(tab) /\ Sees(tab) /\ Selectable(tab) # {} /\ Chooses(tab, x)
      /\ tab.clients \subseteq Clients
  BY FirstIsThere, TabFields DEF Ready, Inv, Sees
<1>2. p \in Panes \ tab.bars /\ Nowhere(tab, p)
  BY FreshIsNowhere DEF NewTerminal, AddPlugin, Fresh
<1>3. \A d \in Maybe(Clients) :
        LET u == OpenPane(tab, p, float, d, x)
        IN  Sees(u) /\ Selectable(u) # {} /\ Viewed(u)
  BY <1>1, <1>2, OpenPaneLooks, SeesViewed
<1>4. c \in Maybe(Clients) /\ None \in Maybe(Clients)
  BY <1>1 DEF Maybe
<1>. QED  BY <1>3, <1>4, BecomesViewed DEF NewTerminal, AddPlugin

LEMMA TileAddedLooks ==
    ASSUME NEW t, Sees(t), ~t.full, Selectable(t) # {}, NEW p \in Panes \ t.passive
    PROVE  LET u == [t EXCEPT !.tiled = @ \cup {p}]
           IN  Sees(u) /\ ~u.full /\ p \in Selectable(u)
<1>. DEFINE u == [t EXCEPT !.tiled = @ \cup {p}]
<1>1. /\ u \in Tabs /\ Stays(t, u) /\ u.tiled = t.tiled \cup {p}
      /\ u.suppressed = t.suppressed
      /\ u.tiledFocus = t.tiledFocus /\ u.full = t.full /\ u.hidden = t.hidden
  BY DEF Sees, Stays, Tabs
<1>. HIDE DEF u
<1>2. Selectable(u) = Selectable(t) \cup {p} /\ u.clients = t.clients
  BY <1>1 DEF Selectable, Stays
<1>3. Looks(u)
  BY <1>1, <1>2 DEF Looks, Sees
<1>4. Sees(u)
  BY <1>1, <1>3, StaysSees
<1>. QED  BY <1>1, <1>2, <1>4 DEF u

LEMMA SplitInOrder ==
    ASSUME Ready, NEW p \in Panes, NEW c \in tab.clients, NEW fits,
           NEW x \in ClientChoices(tab), Split(p, c, fits, x)
    PROVE  Viewed(tab)'
<1>. DEFINE t == SplitPane(tab, p, c, fits, x)
            u == IF tab.full THEN ToggleFullscreenOf(tab, c, x) ELSE tab
            v == [u EXCEPT !.tiled = @ \cup {p}]
<1>1. Becomes(Render(t), IF tab.shows \/ p \in t.tiled THEN Started(p) ELSE alive)
  BY DEF Split
<1>2. /\ Sees(tab) /\ Looks(tab) /\ tab \in Tabs /\ Selectable(tab) # {}
      /\ Chooses(tab, x) /\ tab.full \in BOOLEAN /\ tab.passive \subseteq tab.bars
  BY FirstIsThere, TabFields DEF Ready, Sees, BarsStay
<1>3. t \in {tab, u, FocusTiled(v, p, c, x)}
  BY DEF SplitPane
<1>. HIDE DEF t
<1>4. /\ PanesStay(tab, u) /\ Looks(u) /\ ~u.full
  BY <1>2, ToggleFullscreenLooks, StaysItself DEF TilesStay, PanesStay
<1>. HIDE DEF u
<1>5. Sees(u) /\ Selectable(u) = Selectable(tab) /\ u.passive = tab.passive
  BY <1>2, <1>4, PanesStaySees DEF PanesStay, Stays
<1>6. p \in Panes \ u.passive
  BY <1>2, <1>5 DEF Split, Fresh
<1>7. Sees(v) /\ ~v.full /\ p \in Selectable(v)
  BY <1>2, <1>4, <1>5, <1>6, TileAddedLooks
<1>. HIDE DEF v
<1>8. LET w == FocusTiled(v, p, c, x)
      IN  PanesStay(v, w) /\ Looks(w)
  BY <1>7, FocusTiledLooks, ActiveIsThere DEF PanesStay, Sees, Chooses
<1>9. Sees(FocusTiled(v, p, c, x))
  BY <1>7, <1>8, PanesStaySees
<1>10. Sees(t)
  BY <1>2, <1>3, <1>5, <1>9
<1>. QED  BY <1>1, <1>10, BecomesViewed

LEMMA KeptSees ==
    ASSUME NEW t, Sees(t), NEW p \in Panes \ t.bars, NEW old \in Panes
    PROVE  Sees([t EXCEPT !.suppressed[p] = old])
<1>. DEFINE u == [t EXCEPT !.suppressed[p] = old]
<1>1. t \in Tabs /\ t.suppressed \in [Panes -> Maybe(Panes)] /\ t.bars \subseteq Panes
  BY TabFields DEF Sees, Panes
<1>2. /\ TilesStay(t, u)
      /\ u.suppressed = [t.suppressed EXCEPT ![p] = old]
  BY <1>1 DEF TilesStay, Stays, Tabs, Maybe
<1>3. \A f \in Panes : u.suppressed[f] = IF f = p THEN old ELSE t.suppressed[f]
  BY <1>1, <1>2
<1>. HIDE DEF u
<1>4. Looks(u)
  BY <1>2, TilesStayLooks DEF Sees
<1>5. BarsStay(u)
  BY <1>1, <1>2, <1>3 DEF TilesStay, Stays, BarsStay, Sees
<1>. QED  BY <1>2, <1>4, <1>5 DEF Sees, TilesStay, Stays, u

(* p, which is new, takes the place of old, which can be selected and shows  *)
(* or floats, or of none.                                                   *)
LEMMA ReplacedSees ==
    ASSUME Ready, NEW p \in Panes \ tab.bars, Nowhere(tab, p), NEW old \in Panes,
           old \in tab.tiled => old \in Selectable(tab) \ tab.hidden
    PROVE  /\ Sees(ReplaceFloating(tab, old, p)) /\ Sees(ReplaceTiled(tab, old, p))
           /\ ReplaceFloating(tab, old, p).bars = tab.bars
           /\ ReplaceTiled(tab, old, p).bars = tab.bars
<1>1. /\ Sees(tab) /\ Sound(tab) /\ tab.status = "open" /\ tab \in Tabs
      /\ Looks(tab) /\ tab.passive \subseteq tab.bars
  BY DEF Ready, Inv, Sees, BarsStay
<1>2. Sees(ReplaceFloating(tab, old, p)) /\ ReplaceFloating(tab, old, p).bars = tab.bars
  <2>. DEFINE u == ReplaceFloating(tab, old, p)
  <2>1. TilesStay(tab, u) /\ u.suppressed = tab.suppressed
    BY <1>1, FloatingLooks
  <2>. HIDE DEF u
  <2>2. Sees(u)
    BY <1>1, <2>1, TilesStaySees
  <2>. QED  BY <2>1, <2>2 DEF TilesStay, Stays, u
<1>3. Sees(ReplaceTiled(tab, old, p)) /\ ReplaceTiled(tab, old, p).bars = tab.bars
  <2>. DEFINE u == ReplaceTiled(tab, old, p)
  <2>1. p \in Panes \ (tab.tiled \cup tab.passive)
    BY <1>1 DEF Nowhere, Here
  <2>2. /\ Stays(tab, u) /\ Looks(u)
        /\ u.tiled = IF old \in tab.tiled THEN (tab.tiled \ {old}) \cup {p} ELSE tab.tiled
        /\ u.suppressed = tab.suppressed
    BY <1>1, <2>1, ReplaceTiledLooks
  <2>. HIDE DEF u
  <2>3. tab.tiled \cap tab.passive \subseteq u.tiled
    BY <2>2 DEF Selectable
  <2>4. BarsStay(u)
    BY <1>1, <2>2, <2>3 DEF Stays, BarsStay, Sees
  <2>. QED  BY <1>1, <2>2, <2>4 DEF Sees, Stays, u
<1>. QED  BY <1>2, <1>3

LEMMA OpenInPlaceEditorInOrder ==
    ASSUME Ready, NEW c \in Clients, NEW p \in Terminals, OpenInPlaceEditor(p, c)
    PROVE  Viewed(tab)'
<1>. DEFINE old == ActivePane(tab, c)
            u == IF tab.shows THEN ReplaceFloating(tab, old, p)
                 ELSE ReplaceTiled(tab, old, p)
            v == IF old \in Layer(tab) THEN [u EXCEPT !.suppressed[p] = old] ELSE u
            w == IF old = None THEN tab ELSE v
<1>1. c \in tab.clients /\ Becomes(Render(w), Started(p))
  BY DEF OpenInPlaceEditor
<1>2. p \in Panes /\ p \notin tab.bars /\ Nowhere(tab, p)
  BY FreshIsNowhere DEF OpenInPlaceEditor, Panes, Fresh
<1>3. Sees(w)
  <2>1. CASE old = None
    BY <2>1 DEF Ready
  <2>2. CASE old # None
    <3>1. old \in Panes /\ (old \in tab.tiled => old \in Selectable(tab) \ tab.hidden)
      BY <1>1, <2>2, ActiveIsThere DEF ActivePane, Selectable
    <3>. HIDE DEF old
    <3>2. /\ Sees(ReplaceFloating(tab, old, p)) /\ Sees(ReplaceTiled(tab, old, p))
          /\ ReplaceFloating(tab, old, p).bars = tab.bars
          /\ ReplaceTiled(tab, old, p).bars = tab.bars
      BY <1>2, <3>1, ReplacedSees
    <3>3. Sees(u) /\ u.bars = tab.bars
      BY <3>2
    <3>. HIDE DEF u
    <3>4. Sees([u EXCEPT !.suppressed[p] = old])
      BY <1>2, <3>1, <3>3, KeptSees
    <3>. QED  BY <2>2, <3>3, <3>4
  <2>. QED  BY <2>1, <2>2
<1>. HIDE DEF w
<1>. QED  BY <1>1, <1>3, BecomesViewed

LEMMA ReplacePaneInOrder ==
    ASSUME Ready, NEW old \in Panes, NEW p \in Panes, ReplacePane(old, p)
    PROVE  Viewed(tab)'
<1>. DEFINE u == IF old \in tab.floating THEN ReplaceFloating(tab, old, p)
                 ELSE ReplaceTiled(tab, old, p)
            v == IF old \in tab.floating \cup tab.tiled
                 THEN [u EXCEPT !.suppressed[p] = old] ELSE u
<1>1. Becomes(Render(v), Started(p))
  BY DEF ReplacePane
<1>2. p \notin tab.bars /\ Nowhere(tab, p)
  BY FreshIsNowhere DEF ReplacePane, Fresh
<1>3. old \in tab.tiled => old \in Selectable(tab) \ tab.hidden
  BY InOrder DEF ReplacePane, Ready, Sees, BarsStay, Selectable
<1>4. /\ Sees(ReplaceFloating(tab, old, p)) /\ Sees(ReplaceTiled(tab, old, p))
      /\ ReplaceFloating(tab, old, p).bars = tab.bars
      /\ ReplaceTiled(tab, old, p).bars = tab.bars
  BY <1>2, <1>3, ReplacedSees
<1>5. Sees(u) /\ u.bars = tab.bars
  BY <1>4
<1>. HIDE DEF u
<1>6. Sees([u EXCEPT !.suppressed[p] = old])
  BY <1>2, <1>5, KeptSees
<1>7. Sees(v)
  BY <1>5, <1>6
<1>. QED  BY <1>1, <1>7, BecomesViewed

LEMMA ClosedSees ==
    ASSUME Ready, NEW p \in tab.tiled \cup tab.floating, p \notin tab.passive,
           NEW x, Chooses(tab, x), p \in tab.hidden => tab.suppressed[p] = None
    PROVE  LET u == ClosePane(tab, p, FALSE, x)
           IN  Sees(u) /\ Stays(tab, u) /\ Selectable(tab) \ {p} \subseteq Selectable(u)
<1>. DEFINE u == ClosePane(tab, p, FALSE, x)
<1>1. Sound(tab) /\ Sees(tab) /\ tab.status = "open" /\ Looks(tab) /\ BarsStay(tab)
  BY DEF Ready, Inv, Sees
<1>2. /\ Stays(tab, u) /\ Looks(u) /\ BarsStay(u)
      /\ Selectable(tab) \ {p} \subseteq Selectable(u)
  BY <1>1, ClosePaneLooks
<1>. HIDE DEF u
<1>. QED  BY <1>1, <1>2 DEF Sees, Stays, u

LEMMA PanesCloseInOrder ==
    ASSUME Ready, NEW p \in Panes, NEW x \in Choices(tab),
           ShellExits(p, x) \/ CloseTerminalPane(p, x)
    PROVE  Viewed(tab)'
<1>. DEFINE t == CloseAnywhere(tab, p, x)
<1>1. \E running : Becomes(Render(t), running)
  BY InOrder DEF ShellExits, CloseTerminalPane, Soon, Ready
<1>2. p \notin tab.passive
  BY TabAssumption, TabFields DEF ShellExits, CloseTerminalPane, Ready, Inv, Sees, BarsStay
<1>3. p \in tab.hidden => tab.suppressed[p] = None
  BY InOrder DEF ShellExits, CloseTerminalPane, HiddenIsReplaced, Ready
<1>4. Sees(t)
  <2>1. CASE p \in tab.tiled \cup tab.floating
    BY <1>2, <1>3, <2>1, ClosedSees, FirstIsThere DEF CloseAnywhere
  <2>2. CASE p \notin tab.tiled \cup tab.floating
    BY <2>2 DEF CloseAnywhere, Ready
  <2>. QED  BY <2>1, <2>2
<1>. HIDE DEF t
<1>. QED  BY <1>1, <1>4, BecomesViewed

LEMMA FocusedPaneClosesInOrder ==
    ASSUME Ready, NEW c \in Clients, NEW x \in Choices(tab), CloseFocusedPane(c, x)
    PROVE  Viewed(tab)'
<1>. DEFINE p == IF tab.shows /\ tab.floatFocus[c] # None THEN tab.floatFocus[c]
                 ELSE tab.tiledFocus[c]
<1>1. c \in tab.clients /\ Becomes(Render(ClosePane(tab, p, FALSE, x)), alive \ {p})
  BY DEF CloseFocusedPane
<1>2. p \in tab.tiled \cup tab.floating /\ p \notin tab.passive /\ p \notin tab.hidden
  BY <1>1, ActiveIsThere DEF Selectable
<1>. HIDE DEF p
<1>3. Sees(ClosePane(tab, p, FALSE, x))
  BY <1>2, ClosedSees, FirstIsThere
<1>. QED  BY <1>1, <1>3, BecomesViewed

LEMMA MoreThanOne ==
    ASSUME NEW S \in SUBSET Panes, Cardinality(S) > 1, NEW p
    PROVE  S \ {p} # {}
<1>. SUFFICES ASSUME S \ {p} = {} PROVE FALSE
  OBVIOUS
<1>1. S \subseteq {p}
  OBVIOUS
<1>2. IsFiniteSet({p}) /\ Cardinality({p}) = 1
  BY FS_Singleton
<1>3. Cardinality(S) \in Nat /\ Cardinality(S) <= 1
  BY <1>1, <1>2, FS_Subset, FS_CardinalityType
<1>. QED  BY <1>3

LEMMA BreakPaneInOrder ==
    ASSUME Ready, NEW c \in Clients, NEW toOther \in BOOLEAN, NEW x \in Choices(tab),
           BreakPane(c, toOther, x), ~(tab'.full /\ tab'.clients = {})
    PROVE  Viewed(tab)'
<1>. DEFINE p == ActivePane(tab, c)
            closed == ClosePane(tab, p, FALSE, x)
            drained == DrainClient(closed, c)
<1>1. c \in tab.clients /\ p # None
  BY InOrder DEF BreakPane, Ready
<1>2. /\ p \in Layer(tab) /\ p \in tab.tiled \cup tab.floating
      /\ p \notin tab.passive /\ p \notin tab.hidden
      /\ tab.shows => p \notin Selectable(tab)
  BY <1>1, ActiveIsThere DEF Selectable, ActivePane, Layer
<1>3. /\ \/ toOther
         \/ Cardinality(Selectable(tab)) > 1
         \/ tab.shows /\ tab.floating # {}
      /\ Becomes(IF ~toOther THEN closed ELSE Render(drained), alive \ {p})
  BY <1>1, <1>2 DEF BreakPane
<1>. HIDE DEF p
<1>4. Sees(closed) /\ Selectable(tab) \ {p} \subseteq Selectable(closed)
  BY <1>2, ClosedSees, FirstIsThere
<1>. HIDE DEF closed
<1>5. CASE ~toOther
  <2>1. Selectable(tab) \in SUBSET Panes /\ Selectable(tab) # {}
    BY TabFields DEF Ready, Sees
  <2>2. Selectable(tab) \ {p} # {}
    BY <1>2, <1>3, <1>5, <2>1, MoreThanOne
  <2>. QED  BY <1>3, <1>4, <1>5, <2>2, SeesViewed, BecomesViewed
<1>6. CASE toOther
  <2>. DEFINE D == IF Mirrored THEN {} ELSE closed.clients \ {c}
  <2>1. Becomes(Render(drained), alive \ {p})
    BY <1>3, <1>6
  <2>2. drained = [closed EXCEPT !.clients = D] /\ D \in SUBSET closed.clients
    BY DEF DrainClient
  <2>3. closed \in Tabs /\ closed.clients \subseteq Clients
    BY <1>4, TabFields DEF Sees
  <2>. HIDE DEF drained, D
  <2>4. drained \in Tabs
    BY <2>2, <2>3 DEF Tabs
  <2>5. drained.full => drained.clients # {}
    BY <2>1, <2>4, RenderKeepsScreen DEF Becomes
  <2>6. Sees(drained)
    BY <1>4, <2>2, <2>5, FewerClientsSee
  <2>. QED  BY <2>1, <2>6, BecomesViewed
<1>. QED  BY <1>5, <1>6

LEMMA EmbeddedSees ==
    ASSUME NEW t, Sound(t), Sees(t), Selectable(t) # {}, NEW c \in t.clients,
           NEW x, x.client \in t.clients, t.shows,
           NEW p \in t.floating, p = t.floatFocus[c],
           p \notin t.passive \cup t.hidden \cup t.tiled
    PROVE  Sees(AddTiled(Hide(ClosePane(t, p, TRUE, x)), p, c, x))
<1>. DEFINE u == ClosePane(t, p, TRUE, x)
            v == Hide(u)
            w == AddTiled(v, p, c, x)
<1>1. /\ t.status = "open" /\ Looks(t) /\ BarsStay(t) /\ t \in Tabs
      /\ p \in Panes /\ c \in Maybe(Clients) /\ Chooses(t, x)
  BY TabFields DEF Sees, Chooses, Maybe
<1>2. /\ Stays(t, u) /\ Looks(u) /\ BarsStay(u)
      /\ Selectable(t) \ {p} \subseteq Selectable(u)
  BY <1>1, ClosePaneLooks
<1>. HIDE DEF u
<1>3. u \in Tabs /\ Sees(u) /\ Selectable(u) # {}
  BY <1>1, <1>2 DEF Stays, Sees, Selectable
<1>4. TilesStay(u, v) /\ v.suppressed = u.suppressed
  BY <1>3, ShowsLooks
<1>. HIDE DEF v
<1>5. Sees(v) /\ Selectable(v) # {} /\ v \in Tabs /\ Looks(v)
  BY <1>3, <1>4, TilesStaySees DEF Sees
<1>6. Chooses(v, x) /\ p \in Panes \ v.passive
  BY <1>1, <1>2, <1>4 DEF TilesStay, Stays, Chooses
<1>7. /\ Stays(v, w) /\ Looks(w)
      /\ v.tiled \subseteq w.tiled /\ w.suppressed = v.suppressed
  BY <1>1, <1>5, <1>6, AddTiledLooks
<1>. HIDE DEF w
<1>8. Sees(w)
  BY <1>5, <1>7, StaysSees
<1>. QED  BY <1>8 DEF w, v, u

LEMMA FloatedSees ==
    ASSUME NEW t, Sound(t), Sees(t), NEW x, Chooses(t, x),
           NEW p \in Selectable(t)
    PROVE  Sees(AddFloating(Show(ClosePane(t, p, TRUE, x)), p))
<1>. DEFINE u == ClosePane(t, p, TRUE, x)
            v == Show(u)
            w == AddFloating(v, p)
<1>1. /\ t.status = "open" /\ Looks(t) /\ BarsStay(t) /\ t \in Tabs
      /\ p \in t.tiled /\ p \notin t.passive /\ p \in Panes
  BY TabFields DEF Sees, Selectable
<1>2. Stays(t, u) /\ Looks(u) /\ BarsStay(u)
  BY <1>1, ClosePaneLooks
<1>3. Sound(u) /\ Nowhere(u, p)
  BY <1>1, ClosePaneSound
<1>. HIDE DEF u
<1>4. u \in Tabs /\ Sees(u)
  BY <1>1, <1>2 DEF Stays, Sees
<1>5. TilesStay(u, v) /\ v.suppressed = u.suppressed /\ Keeps(u, v)
  BY <1>4, ShowsLooks, ShowsKeeps
<1>. HIDE DEF v
<1>6. Sees(v) /\ Sound(v) /\ Nowhere(v, p) /\ v.status = "open"
  BY <1>3, <1>4, <1>5, TilesStaySees, KeepsSound, KeepsNowhere DEF Sees
<1>7. TilesStay(v, w) /\ w.suppressed = v.suppressed
  BY <1>1, <1>6, FloatingLooks
<1>. HIDE DEF w
<1>8. Sees(w)
  BY <1>6, <1>7, TilesStaySees
<1>. QED  BY <1>8 DEF w, v, u

LEMMA PanesToggleInOrder ==
    ASSUME Ready, NEW c \in Clients,
           \/ \E x \in Choices(tab) :
                 TogglePaneEmbedOrFloating(c, x) \/ ToggleFloatingPanes(c, x)
           \/ \E x \in ClientChoices(tab) : ToggleFullscreen(c, x)
    PROVE  Viewed(tab)'
<1>1. /\ Sound(tab) /\ Sees(tab) /\ tab \in Tabs /\ tab.status = "open"
      /\ Looks(tab) /\ Selectable(tab) # {}
  BY DEF Ready, Inv, Sees
<1>2. ASSUME NEW x \in Choices(tab), TogglePaneEmbedOrFloating(c, x)
      PROVE  Viewed(tab)'
  <2>. DEFINE t == UnsetFullscreen(tab, x)
  <2>1. c \in tab.clients /\ Becomes(Render(TogglePane(t, c, x)), alive)
    BY <1>2 DEF TogglePaneEmbedOrFloating
  <2>2. /\ PanesStay(tab, t) /\ Looks(t) /\ t.tiledFocus = tab.tiledFocus
        /\ t.hidden = {} /\ Sound(t)
    BY <1>1, <1>2, UnsetFullscreenLooks, FirstIsThere, UnsetFullscreenKeeps, KeepsSound
       DEF PanesStay
  <2>. HIDE DEF t
  <2>3. /\ Sees(t) /\ Selectable(t) = Selectable(tab) /\ c \in t.clients
        /\ x.client \in t.clients /\ Chooses(t, x)
    BY <1>1, <1>2, <2>1, <2>2, PanesStaySees, FirstIsThere
       DEF PanesStay, Stays, Chooses
  <2>4. /\ t.floatFocus[c] # None =>
             /\ t.floatFocus[c] \in t.floating
             /\ t.floatFocus[c] \notin t.passive \cup t.hidden \cup t.tiled
        /\ t.tiledFocus[c] \in Selectable(t)
    BY <2>1, <2>2, <2>3, ActiveIsThere DEF PanesStay, Stays
  <2>5. CASE t.shows
    <3>. DEFINE p == t.floatFocus[c]
    <3>1. \/ TogglePane(t, c, x) = t
          \/ p # None /\ TogglePane(t, c, x)
                           = AddTiled(Hide(ClosePane(t, p, TRUE, x)), p, c, x)
      BY <2>5 DEF TogglePane
    <3>2. p # None => Sees(AddTiled(Hide(ClosePane(t, p, TRUE, x)), p, c, x))
      BY <1>1, <2>2, <2>3, <2>4, <2>5, EmbeddedSees
    <3>. HIDE DEF p
    <3>3. Sees(TogglePane(t, c, x))
      BY <2>3, <3>1, <3>2
    <3>. QED  BY <2>1, <3>3, BecomesViewed
  <2>6. CASE ~t.shows
    <3>. DEFINE p == t.tiledFocus[c]
    <3>1. \/ TogglePane(t, c, x) = t
          \/ TogglePane(t, c, x) = AddFloating(Show(ClosePane(t, p, TRUE, x)), p)
      BY <2>6 DEF TogglePane
    <3>2. Sees(AddFloating(Show(ClosePane(t, p, TRUE, x)), p))
      BY <2>2, <2>3, <2>4, FloatedSees
    <3>. HIDE DEF p
    <3>3. Sees(TogglePane(t, c, x))
      BY <2>3, <3>1, <3>2
    <3>. QED  BY <2>1, <3>3, BecomesViewed
  <2>. QED  BY <2>5, <2>6
<1>3. ASSUME NEW x \in Choices(tab), ToggleFloatingPanes(c, x)
      PROVE  Viewed(tab)'
  <2>. DEFINE shown == Show(tab)
              heir == Prefer(shown.floating, x)
              focused == IF shown.floating = {} \/ shown.floatFocus[c] # None
                         THEN shown ELSE FocusFloating(shown, heir, c)
  <2>1. Becomes(Render(IF tab.shows THEN Hide(tab) ELSE focused), alive)
    BY <1>3 DEF ToggleFloatingPanes
  <2>2. Sees(Hide(tab)) /\ Sees(shown) /\ Sound(shown)
    BY <1>1, ShowsLooks, TilesStaySees, ShowsKeeps, KeepsSound
  <2>. HIDE DEF shown
  <2>3. shown.floating # {} => heir \in shown.floating
    BY PreferIsMember
  <2>. HIDE DEF heir
  <2>4. ASSUME shown.floating # {} PROVE Sees(FocusFloating(shown, heir, c))
    <3>. DEFINE u == FocusFloating(shown, heir, c)
    <3>1. TilesStay(shown, u) /\ u.suppressed = shown.suppressed
      BY <2>2, <2>3, <2>4, FloatingLooks DEF Sees
    <3>. HIDE DEF u
    <3>2. Sees(u)
      BY <2>2, <3>1, TilesStaySees
    <3>. QED  BY <3>2 DEF u
  <2>5. Sees(focused)
    BY <2>2, <2>4
  <2>. QED  BY <2>1, <2>2, <2>5, BecomesViewed
<1>4. ASSUME NEW x \in ClientChoices(tab), ToggleFullscreen(c, x)
      PROVE  Viewed(tab)'
  <2>. DEFINE u == ToggleFullscreenOf(tab, c, x)
  <2>1. c \in tab.clients /\ Becomes(Render(u), alive)
    BY <1>4 DEF ToggleFullscreen
  <2>2. PanesStay(tab, u) /\ Looks(u)
    BY <1>1, <1>4, <2>1, ToggleFullscreenLooks, FirstIsThere
  <2>. HIDE DEF u
  <2>. QED  BY <1>1, <2>1, <2>2, PanesStaySees, BecomesViewed
<1>. QED  BY <1>2, <1>3, <1>4

LEMMA FocusMovesInOrder ==
    ASSUME Ready, NEW c \in Clients, NEW x \in Choices(tab),
           FocusNextPane(c, x) \/ MoveFocus(c, x)
    PROVE  Viewed(tab)'
<1>. DEFINE unset == UnsetFullscreen(tab, x)
            Next1 == FocusNextTile(unset, c, x)
            Move1 == MoveTiledFocus(unset, c, x)
<1>0. c \in tab.clients
  BY DEF FocusNextPane, MoveFocus
<1>1. /\ Sound(tab) /\ Sees(tab) /\ tab \in Tabs /\ tab.status = "open"
      /\ Looks(tab) /\ Selectable(tab) # {} /\ Chooses(tab, x)
      /\ x.client \in tab.clients
  BY <1>0, FirstIsThere DEF Ready, Inv, Sees
<1>2. PanesStay(tab, unset) /\ Looks(unset) /\ ~unset.full
  BY <1>1, UnsetFullscreenLooks DEF PanesStay
<1>. HIDE DEF unset
<1>3. /\ Sees(unset) /\ Selectable(unset) = Selectable(tab)
      /\ unset \in Tabs /\ c \in unset.clients /\ Chooses(unset, x)
      /\ x.client \in unset.clients
  BY <1>0, <1>1, <1>2, PanesStaySees DEF PanesStay, Stays, Chooses
<1>4. \A t : Sees(t) /\ Looks(t) /\ ~t.full /\ Selectable(t) # {} /\ c \in t.clients =>
                Sees(FocusNextTile(t, c, x))
                  /\ PanesStay(t, FocusNextTile(t, c, x))
  BY FocusNextTileLooks, PanesStaySees DEF Sees
<1>5. \A t : Sees(t) /\ Chooses(t, x) =>
                Sees(MoveTiledFocus(t, c, x)) /\ PanesStay(t, MoveTiledFocus(t, c, x))
  BY MoveTiledFocusLooks, PanesStaySees DEF Sees
<1>6. \A t : Sees(t) /\ Chooses(t, x) /\ c \in t.clients =>
                Sees(ToggleFullscreenOf(t, c, x))
  BY ToggleFullscreenLooks, PanesStaySees DEF Sees
<1>7. CASE FocusNextPane(c, x)
  <2>1. Becomes(Render(IF tab.full THEN ToggleFullscreenOf(Next1, c, x)
                       ELSE FocusNextTile(tab, c, x)), alive)
    BY <1>7 DEF FocusNextPane, unset
  <2>2. Sees(Next1) /\ PanesStay(unset, Next1)
    BY <1>1, <1>2, <1>3, <1>4
  <2>. HIDE DEF Next1
  <2>3. Sees(ToggleFullscreenOf(Next1, c, x))
    BY <1>3, <1>6, <2>2 DEF PanesStay, Stays, Chooses
  <2>4. ~tab.full => Sees(FocusNextTile(tab, c, x))
    BY <1>0, <1>1, <1>4
  <2>. QED  BY <2>1, <2>3, <2>4, BecomesViewed
<1>8. CASE MoveFocus(c, x)
  <2>. DEFINE float == MoveFloatingFocus(tab, c, x)
  <2>1. Becomes(Render(IF tab.shows THEN float
                       ELSE IF tab.full THEN ToggleFullscreenOf(Move1, c, x)
                       ELSE MoveTiledFocus(tab, c, x)), alive)
    BY <1>8 DEF MoveFocus, unset
  <2>2. Sees(Move1) /\ PanesStay(unset, Move1)
    BY <1>3, <1>5
  <2>. HIDE DEF Move1
  <2>3. Sees(ToggleFullscreenOf(Move1, c, x))
    BY <1>3, <1>6, <2>2 DEF PanesStay, Stays, Chooses
  <2>4. Sees(MoveTiledFocus(tab, c, x))
    BY <1>1, <1>5
  <2>5. TilesStay(tab, float) /\ float.suppressed = tab.suppressed
    BY <1>0, <1>1, FloatingLooks
  <2>. HIDE DEF float
  <2>6. Sees(float)
    BY <1>1, <2>5, TilesStaySees
  <2>. QED  BY <2>1, <2>3, <2>4, <2>6, BecomesViewed
<1>. QED  BY <1>7, <1>8

LEMMA ClickInOrder ==
    ASSUME Ready, NEW c \in tab.clients, NEW p \in Panes, NEW x \in ClientChoices(tab),
           Click(c, p, x)
    PROVE  Viewed(tab)'
<1>1. /\ Sound(tab) /\ Sees(tab) /\ tab \in Tabs /\ tab.status = "open"
      /\ Looks(tab) /\ Chooses(tab, x) /\ c \in Clients
  BY FirstIsThere, ActiveIsThere DEF Ready, Inv, Sees
<1>2. CASE tab.shows /\ p \in tab.floating /\ Becomes(Render(FocusFloating(tab, p, c)), alive)
  <2>. DEFINE u == FocusFloating(tab, p, c)
  <2>1. TilesStay(tab, u) /\ u.suppressed = tab.suppressed
    BY <1>1, <1>2, FloatingLooks
  <2>. HIDE DEF u
  <2>2. Sees(u)
    BY <1>1, <2>1, TilesStaySees
  <2>. QED  BY <1>2, <2>2, BecomesViewed DEF u
<1>3. CASE /\ p \in Selectable(tab) \ tab.hidden
           /\ Becomes(Render(Hide(FocusTiled(tab, p, c, x))), alive)
  <2>. DEFINE u == FocusTiled(tab, p, c, x)
  <2>1. PanesStay(tab, u) /\ Looks(u)
    BY <1>1, <1>3, FocusTiledLooks DEF PanesStay
  <2>. HIDE DEF u
  <2>2. Sees(u) /\ u \in Tabs
    BY <1>1, <2>1, PanesStaySees DEF Sees
  <2>3. Sees(Hide(u))
    BY <2>2, ShowsLooks, TilesStaySees
  <2>. QED  BY <1>3, <2>3, BecomesViewed DEF u
<1>. QED  BY <1>2, <1>3 DEF Click

LEMMA FocusPaneWithIdInOrder ==
    ASSUME Ready, NEW c \in tab.clients, NEW p \in Panes, NEW float \in BOOLEAN,
           NEW x \in ClientChoices(tab), FocusPaneWithId(p, float, c, x)
    PROVE  Viewed(tab)'
<1>. DEFINE u == FocusWithId(tab, p, float, c, x)
            out == [tab EXCEPT !.suppressed[p] = None]
<1>1. /\ Sound(tab) /\ Sees(tab) /\ tab \in Tabs /\ tab.status = "open"
      /\ Looks(tab) /\ Chooses(tab, x) /\ c \in Clients /\ Selectable(tab) # {}
      /\ BarsStay(tab)
  BY FirstIsThere, ActiveIsThere DEF Ready, Inv, Sees
<1>2. /\ p \notin tab.bars /\ p \notin tab.passive
      /\ p \in tab.tiled \cup tab.floating \/ tab.suppressed[p] \in {p, None}
      /\ Becomes(u, alive)
  BY <1>1, InOrder DEF FocusPaneWithId, Ready, BarsStay
<1>3. CASE p \in tab.tiled
  <2>. DEFINE v == FocusTiled(tab, p, c, x)
  <2>1. u = Hide(v) /\ p \in Selectable(tab)
    BY <1>2, <1>3 DEF FocusWithId, Selectable
  <2>2. PanesStay(tab, v) /\ Looks(v)
    BY <1>1, <2>1, FocusTiledLooks DEF PanesStay
  <2>. HIDE DEF v, u
  <2>3. Sees(v) /\ Selectable(v) = Selectable(tab) /\ v \in Tabs
    BY <1>1, <2>2, PanesStaySees DEF Sees
  <2>4. Sees(u) /\ Selectable(u) = Selectable(tab)
    BY <2>1, <2>3, ShowsLooks, TilesStaySees
  <2>. QED  BY <1>1, <1>2, <2>4, SeesViewed, BecomesViewed
<1>4. CASE p \notin tab.tiled /\ p \in tab.floating
  <2>. DEFINE v == FocusFloating(tab, p, c)
  <2>1. u = Show(v)
    BY <1>4 DEF FocusWithId
  <2>2. TilesStay(tab, v) /\ v.suppressed = tab.suppressed
    BY <1>1, <1>4, FloatingLooks
  <2>. HIDE DEF v, u
  <2>3. Sees(v) /\ Selectable(v) = Selectable(tab) /\ v \in Tabs
    BY <1>1, <2>2, TilesStaySees DEF Sees
  <2>4. Sees(u) /\ Selectable(u) = Selectable(tab)
    BY <2>1, <2>3, ShowsLooks, TilesStaySees
  <2>. QED  BY <1>1, <1>2, <2>4, SeesViewed, BecomesViewed
<1>5. CASE p \notin tab.tiled /\ p \notin tab.floating /\ tab.suppressed[p] = None
  <2>1. u = tab
    BY <1>5 DEF FocusWithId
  <2>. QED  BY <1>1, <1>2, <2>1, SeesViewed, BecomesViewed
<1>6. CASE p \notin tab.tiled /\ p \notin tab.floating /\ tab.suppressed[p] = p
  <2>0. u = IF float THEN AddFloating(Show(out), p) ELSE AddTiled(Hide(out), p, c, x)
    BY <1>6, NoneIsNot DEF FocusWithId
  <2>1. Sound(out) /\ Nowhere(out, p)
    BY <1>1, <1>6, TakenOutSound, NoneIsNot
  <2>2. /\ TilesStay(tab, out)
        /\ \A f \in Panes : out.suppressed[f] = IF f = p THEN None ELSE tab.suppressed[f]
    BY <1>1, <2>1, SoundFields DEF TilesStay, Stays, Tabs
  <2>. HIDE DEF out, u
  <2>3. Looks(out) /\ Selectable(out) = Selectable(tab)
    BY <1>1, <2>2, TilesStayLooks
  <2>4. BarsStay(out)
    BY <1>1, <1>2, <2>2, TabFields DEF BarsStay, TilesStay, Stays, Panes
  <2>5. Sees(out) /\ out \in Tabs /\ out.passive = tab.passive
    BY <1>1, <2>2, <2>3, <2>4 DEF Sees, TilesStay, Stays
  <2>6. CASE float
    <3>. DEFINE v == Show(out)
    <3>1. TilesStay(out, v) /\ v.suppressed = out.suppressed /\ Keeps(out, v)
      BY <2>5, ShowsLooks, ShowsKeeps
    <3>2. u = AddFloating(v, p)
      BY <2>0, <2>6
    <3>. HIDE DEF v
    <3>3. /\ Sees(v) /\ Selectable(v) = Selectable(tab) /\ Sound(v) /\ Nowhere(v, p)
          /\ v.status = "open"
      BY <2>1, <2>3, <2>5, <3>1, TilesStaySees, KeepsSound, KeepsNowhere DEF Sees
    <3>4. TilesStay(v, u) /\ u.suppressed = v.suppressed
      BY <3>2, <3>3, FloatingLooks
    <3>5. Sees(u) /\ Selectable(u) # {}
      BY <1>1, <3>3, <3>4, TilesStaySees
    <3>. QED  BY <1>2, <3>5, SeesViewed, BecomesViewed
  <2>7. CASE ~float
    <3>. DEFINE v == Hide(out)
    <3>1. TilesStay(out, v) /\ v.suppressed = out.suppressed
      BY <2>5, ShowsLooks
    <3>2. u = AddTiled(v, p, c, x)
      BY <2>0, <2>7
    <3>. HIDE DEF v
    <3>3. /\ Sees(v) /\ Selectable(v) # {} /\ v \in Tabs /\ Looks(v)
      BY <1>1, <2>3, <2>5, <3>1, TilesStaySees DEF Sees
    <3>4. Chooses(v, x) /\ p \in Panes \ v.passive /\ c \in Maybe(Clients)
      BY <1>1, <1>2, <2>2, <3>1 DEF TilesStay, Stays, Chooses, Maybe
    <3>5. /\ Stays(v, u) /\ Looks(u) /\ Selectable(u) # {}
          /\ v.tiled \subseteq u.tiled /\ u.suppressed = v.suppressed
      BY <3>2, <3>3, <3>4, AddTiledLooks
    <3>6. Sees(u)
      BY <3>3, <3>5, StaysSees
    <3>. QED  BY <1>2, <3>5, <3>6, SeesViewed, BecomesViewed
  <2>. QED  BY <2>6, <2>7
<1>. QED  BY <1>2, <1>3, <1>4, <1>5, <1>6

LEMMA SuppressPaneInOrder ==
    ASSUME Ready, NEW p \in Panes, NEW x \in Choices(tab), SuppressPane(p, x)
    PROVE  Viewed(tab)'
<1>. DEFINE u == ClosePane(tab, p, TRUE, x)
            v == [u EXCEPT !.suppressed[p] = p]
<1>1. /\ Sound(tab) /\ Sees(tab) /\ tab \in Tabs /\ tab.status = "open"
      /\ Looks(tab) /\ Chooses(tab, x) /\ BarsStay(tab)
  BY FirstIsThere DEF Ready, Inv, Sees
<1>2. p \in tab.tiled \cup tab.floating /\ Becomes(Render(v), alive)
  BY DEF SuppressPane
<1>3. /\ Stays(tab, u) /\ Looks(u)
      /\ u.suppressed = tab.suppressed /\ u.tiled = tab.tiled \ {p}
  BY <1>1, <1>2, ClosePaneLooks
<1>. HIDE DEF u
<1>4. u \in Tabs /\ tab.suppressed \in [Panes -> Maybe(Panes)] /\ tab.bars \subseteq Panes
  BY <1>1, <1>3, TabFields DEF Stays, Panes
<1>5. TilesStay(u, v) /\ v.suppressed = [tab.suppressed EXCEPT ![p] = p]
  BY <1>3, <1>4 DEF TilesStay, Stays, Tabs, Maybe
<1>6. \A f \in Panes : v.suppressed[f] = IF f = p THEN p ELSE tab.suppressed[f]
  BY <1>4, <1>5
<1>. HIDE DEF v
<1>7. Looks(v)
  BY <1>3, <1>5, TilesStayLooks
<1>8. Stays(tab, v) /\ v.tiled = tab.tiled \ {p}
  BY <1>3, <1>5 DEF TilesStay, Stays
<1>9. BarsStay(v)
  BY <1>1, <1>4, <1>6, <1>8 DEF Stays, BarsStay
<1>. QED  BY <1>1, <1>2, <1>7, <1>8, <1>9, BecomesViewed DEF Sees, Stays

LEMMA SetPaneUnselectableInOrder ==
    ASSUME Ready, NEW b \in Plugins, NEW x \in Choices(tab), SetPaneUnselectable(b, x)
    PROVE  Viewed(tab)'
<1>. DEFINE t == [tab EXCEPT !.passive = @ \cup {b}]
            u == MoveOutOfTiled(t, b, x)
<1>1. /\ Sees(tab) /\ tab \in Tabs /\ tab.status = "open"
      /\ Looks(tab) /\ BarsStay(tab) /\ Selectable(tab) # {}
  BY DEF Ready, Sees
<1>2. /\ b \in tab.tiled /\ b \in tab.bars
      /\ tab.full => b \in tab.hidden
      /\ Becomes(Render(u), alive)
  BY InOrder DEF SetPaneUnselectable, Ready
<1>3. /\ t \in Tabs /\ t.status = "open" /\ t.tiled = tab.tiled
      /\ t.tiledFocus = tab.tiledFocus /\ t.clients = tab.clients
      /\ t.hidden = tab.hidden /\ t.full = tab.full
      /\ t.suppressed = tab.suppressed /\ t.bars = tab.bars
      /\ t.passive = tab.passive \cup {b} /\ t.focusId = tab.focusId
  BY <1>1 DEF Tabs
<1>. HIDE DEF t
<1>4. /\ Selectable(t) = Selectable(tab) \ {b} /\ BarsStay(t)
      /\ t.clients \subseteq Clients
  BY <1>1, <1>2, <1>3, TabFields DEF Selectable, BarsStay
<1>5. CASE Selectable(t) # {}
  <2>1. /\ t.full =>
             /\ t.clients # {} /\ t.hidden \subseteq t.tiled
             /\ \A c \in t.clients :
                  /\ t.tiledFocus[c] \in Selectable(t) \ t.hidden
                  /\ Selectable(t) \ {t.tiledFocus[c]} \subseteq t.hidden
        /\ ~t.full => t.hidden = {}
    BY <1>1, <1>2, <1>3, <1>4 DEF Looks
  <2>2. /\ \A c \in Clients : t.tiledFocus[c] \in Selectable(t) \cup {b, None}
        /\ \A c \in t.clients : t.tiledFocus[c] # None
    BY <1>1, <1>3, <1>4 DEF Looks
  <2>3. b \notin Selectable(t) /\ Selectable(t) \ t.hidden # {}
    BY <1>4, <1>5, <2>1
  <2>4. PanesStay(t, u) /\ Looks(u)
    BY <1>3, <2>1, <2>2, <2>3, MoveOutLooks
  <2>. HIDE DEF u
  <2>5. Sees(u)
    BY <1>3, <1>4, <2>4 DEF PanesStay, Stays, BarsStay, Sees
  <2>. QED  BY <1>2, <2>5, BecomesViewed
<1>6. CASE Selectable(t) = {}
  <2>1. PICK f \in {t.tiledFocus, Nobody} : u = [t EXCEPT !.tiledFocus = f]
    BY <1>6 DEF MoveOutOfTiled
  <2>2. f \in [Clients -> Maybe(Panes)]
    BY <1>3, <2>1, NobodyType, TabFields
  <2>4. u.status = "open" /\ Selectable(u) = {} /\ u \in Tabs
    BY <1>3, <1>6, <2>1, <2>2 DEF Tabs, Selectable
  <2>. HIDE DEF u
  <2>3. Viewed(Render(u))
    BY <2>4 DEF Render, Viewed, Tabs
  <2>. QED  BY <1>2, <2>3 DEF Becomes
<1>. QED  BY <1>5, <1>6

LEMMA InitInOrder == Disorder = {} /\ Init => Viewed(tab)
<1>. SUFFICES ASSUME Disorder = {}, NEW c \in Clients, NEW first \in Terminals,
                     NEW bars \in SUBSET Plugins,
                     tab = [bars |-> bars, tiled |-> {first} \cup bars,
                            floating |-> {},
                            suppressed |-> [e \in Panes |-> None],
                            tiledFocus |-> Looking(Nobody, {c}, first),
                            floatFocus |-> Nobody,
                            shows |-> FALSE, full |-> FALSE, hidden |-> {},
                            passive |-> {}, clients |-> {c}, focusId |-> None,
                            status |-> "open"]
              PROVE  Viewed(tab)
  BY InOrder DEF Init
<1>. DEFINE f == Looking(Nobody, {c}, first)
<1>1. /\ first \in Panes /\ first # None /\ bars \subseteq Panes
      /\ \A d \in Clients : f[d] = IF d = c THEN first ELSE None
  BY NobodyType, LookingType, NoneIsNot DEF Maybe, Panes, Nobody
<1>2. tab.tiledFocus = f
  OBVIOUS
<1>. HIDE DEF f
<1>3. Selectable(tab) = {first} \cup bars
  BY DEF Selectable
<1>4. Looks(tab)
  BY <1>1, <1>2, <1>3 DEF Looks
<1>5. BarsStay(tab)
  BY <1>1 DEF BarsStay
<1>. QED  BY <1>3, <1>4, <1>5 DEF Viewed

LEMMA StepInOrder == Disorder = {} /\ Inv /\ Viewed(tab) /\ [Next]_vars => Viewed(tab)'
<1>. SUFFICES ASSUME Disorder = {}, Inv, Viewed(tab), [Next]_vars
              PROVE  Viewed(tab)'
  OBVIOUS
<1>1. CASE UNCHANGED vars
  BY <1>1 DEF vars
<1>2. CASE Next
  <2>1. Ready /\ ~(tab'.full /\ tab'.clients = {})
    BY <1>2, InOrder DEF Next, Ready, Viewed, Sees, Inv, Sound
  <2>2. Plugins \subseteq Panes /\ Terminals \subseteq Panes /\ tab.clients \subseteq Clients
    BY <2>1, TabFields DEF Panes, Ready, Sees
  <2>3. CASE StepOfPanes
    <3>1. PICK x \in Choices(tab) :
             \/ \E c \in Clients :
                   \/ Come(c, x)
                   \/ CloseFocusedPane(c, x)
                   \/ \E toOther \in BOOLEAN : BreakPane(c, toOther, x)
                   \/ TogglePaneEmbedOrFloating(c, x)
                   \/ ToggleFloatingPanes(c, x)
                   \/ FocusNextPane(c, x)
                   \/ MoveFocus(c, x)
             \/ \E p \in Terminals : ShellExits(p, x)
             \/ \E p \in Panes : CloseTerminalPane(p, x) \/ SuppressPane(p, x)
             \/ \E b \in Plugins : SetPaneUnselectable(b, x)
      BY <2>3 DEF StepOfPanes
    <3>. QED
      BY <2>1, <2>2, <3>1, ClientsComeInOrder, FocusedPaneClosesInOrder,
         BreakPaneInOrder, PanesToggleInOrder, FocusMovesInOrder,
         PanesCloseInOrder, SuppressPaneInOrder, SetPaneUnselectableInOrder
  <2>4. CASE StepOfOnePane
    <3>1. PICK x \in ClientChoices(tab), p \in Panes :
             \/ \E c \in tab.clients :
                   \/ ToggleFullscreen(c, x)
                   \/ Click(c, p, x)
                   \/ \E float \in BOOLEAN : FocusPaneWithId(p, float, c, x)
                   \/ \E fits \in BOOLEAN : Split(p, c, fits, x)
             \/ \E float \in Floats :
                   \/ \E c \in Maybe(tab.clients) : NewTerminal(p, float, c, x)
                   \/ AddPlugin(p, float, x)
      BY <2>4 DEF StepOfOnePane
    <3>2. None \in Maybe(tab.clients)
      BY DEF Maybe
    <3>. QED
      BY <2>1, <2>2, <3>1, <3>2, PanesToggleInOrder, ClickInOrder,
         FocusPaneWithIdInOrder, SplitInOrder, PanesOpenInOrder
  <2>5. CASE \E c \in Clients : Leave(c) \/ GoToOtherTab(c)
    BY <2>1, <2>5, ClientsGoInOrder
  <2>6. CASE \E c \in Clients, p \in Terminals : OpenInPlaceEditor(p, c)
    BY <2>1, <2>6, OpenInPlaceEditorInOrder
  <2>7. CASE \E p \in Panes, old \in Panes : ReplacePane(old, p)
    BY <2>1, <2>7, ReplacePaneInOrder
  <2>8. CASE Draw
    BY <2>1, <2>8 DEF Draw, Ready
  <2>. QED  BY <1>2, <2>3, <2>4, <2>5, <2>6, <2>7, <2>8 DEF Next, Move
<1>. QED  BY <1>1, <1>2

LEMMA InOrderAlways ==
    ASSUME Disorder = {}
    PROVE  Spec => []Viewed(tab)
<1>1. Init => Viewed(tab)
  BY InitInOrder
<1>2. Inv /\ Viewed(tab) /\ [Next]_vars => Viewed(tab)'
  BY StepInOrder
<1>. QED  BY <1>1, <1>2, Invariance, PTL DEF Spec

(* When nothing comes in disorder, no request of a client, a shell or a     *)
(* plugin ends the screen thread by one of the unwrap()s and errors that    *)
(* are Broken here, and none files a pane under the id of another, for any  *)
(* number of panes, bars and clients.                                       *)
THEOREM NothingBreaks ==
    ASSUME Disorder = {}
    PROVE  Spec => []NeverBroken
<1>1. Viewed(tab) => NeverBroken
  BY DEF Viewed, NeverBroken
<1>. QED  BY <1>1, InOrderAlways, PTL

(* And then every client looks at a pane that is there, and what fills the  *)
(* screen is what all of them look at.                                      *)
THEOREM ClientsSeeTheirPanes ==
    ASSUME Disorder = {}
    PROVE  Spec => []ClientsSeePanes
<1>1. Inv /\ Viewed(tab) => ClientsSeePanes
  <2>. SUFFICES ASSUME Inv, Viewed(tab), tab.status = "open"
                PROVE  ClientsSeePanes
    BY DEF ClientsSeePanes
  <2>1. Looks(tab) /\ tab.clients \subseteq Clients /\ Selectable(tab) \subseteq tab.tiled
    BY TabFields DEF Viewed, Inv, Sound
  <2>. QED  BY <2>1 DEF Looks, ClientsSeePanes
<1>. QED  BY <1>1, Invariance, InOrderAlways, PTL

----------------------------------------------------------------------------
(* Where running processes are, when everything comes in order.             *)

(* u has the panes of t where they are; what clients see may be another.    *)
SamePanes(t, u) ==
    /\ u \in Tabs
    /\ u.tiled = t.tiled /\ u.floating = t.floating /\ u.suppressed = t.suppressed

(* No pane but those in G is lost from t to u, nor leaves the layers.       *)
Holds(t, u, G) ==
    /\ (t.tiled \cup t.floating) \ G \subseteq u.tiled \cup u.floating
    /\ Here(t) \ G \subseteq Here(u)

(* A pane whose process has lost its place in this step.                    *)
Strays == Homeless(tab', alive') \ Homeless(tab, alive)

(* And what PanesSurvive lets it be.                                       *)
Excused(p) ==
    \/ NoRoom
    \/ p \in alive /\ LeftWaiting(p)
    \/ /\ tab.shows
       /\ \E c \in Clients, x \in ClientChoices(tab) : Split(p, c, TRUE, x)
    \/ \E c \in Clients :
          ActivePane(tab, c) \notin Layer(tab) /\ OpenInPlaceEditor(p, c)
    \/ \E old \in Waiting(tab) : ReplacePane(old, p)
    \/ \E x \in Choices(tab) : CloseTerminalPane(p, x)

LEMMA RenderSame ==
    ASSUME NEW t \in Tabs
    PROVE  SamePanes(t, Render(t))
BY RenderKeeps DEF Keeps, SamePanes

(* What was here and what has been opened strays only if the method loses   *)
(* it; and of a tab that closes, what is in no layer.                       *)
LEMMA StraysAreLost ==
    ASSUME Ready, NEW u \in Tabs, NEW running,
           Becomes(u, running) \/ Becomes(Render(u), running), NEW p \in Strays
    PROVE  /\ p \in running /\ p \notin u.tiled \cup u.floating
           /\ tab'.status # "closed" => p \notin Here(u)
           /\ p \in alive => p \in Here(tab)
           /\ p \in alive /\ p \notin tab.tiled \cup tab.floating /\ tab'.status = "closed"
                => LeftWaiting(p)
<1>1. tab.status = "open"
  BY DEF Ready, Sees
<1>2. /\ tab'.tiled = u.tiled /\ tab'.floating = u.floating
      /\ tab'.suppressed = u.suppressed
      /\ alive' = StillAlive(tab', running)
  BY RenderSame DEF Becomes, SamePanes
<1>3. Here(tab') = Here(u)
  BY <1>2 DEF Here, Waiting
<1>4. /\ p \in alive' /\ p \notin Homeless(tab, alive)
      /\ tab'.status # "closed" => p \notin Here(u)
  BY <1>3 DEF Strays, Homeless
<1>5. p \in alive => p \in Here(tab)
  BY <1>1, <1>4 DEF Homeless
<1>6. /\ p \in running
      /\ p \notin u.tiled \cup u.floating
  BY <1>2, <1>4 DEF StillAlive, Here
<1>7. p \in Here(tab) /\ p \notin tab.tiled \cup tab.floating /\ tab'.status = "closed"
        => LeftWaiting(p)
  BY DEF Here, Waiting, LeftWaiting
<1>. QED  BY <1>4, <1>5, <1>6, <1>7

LEMMA HeldStray ==
    ASSUME Ready, NEW u \in Tabs, NEW running,
           Becomes(u, running) \/ Becomes(Render(u), running),
           NEW G, Holds(tab, u, G), NEW p \in Strays
    PROVE  p \in alive => p \in G \/ LeftWaiting(p)
BY StraysAreLost DEF Holds

LEMMA WaitedIsExcused ==
    ASSUME NEW p, p \in alive, LeftWaiting(p)
    PROVE  Excused(p)
BY DEF Excused

LEMMA SameHolds ==
    ASSUME NEW t, NEW u, SamePanes(t, u)
    PROVE  Holds(t, u, {})
BY DEF SamePanes, Holds, Here, Waiting

LEMMA SameSame ==
    ASSUME NEW t, NEW u, NEW v, SamePanes(t, u), SamePanes(u, v)
    PROVE  SamePanes(t, v)
BY DEF SamePanes

LEMMA KeepsSame ==
    ASSUME NEW t, NEW u, Keeps(t, u)
    PROVE  SamePanes(t, u)
BY DEF SamePanes, Keeps

LEMMA FloatFocusReplaced ==
    ASSUME NEW t \in Tabs, NEW D, NEW p \in Maybe(Panes)
    PROVE  SamePanes(t, [t EXCEPT !.floatFocus = Looking(@, D, p)])
<1>1. Looking(t.floatFocus, D, p) \in [Clients -> Maybe(Panes)]
  BY LookingType, TabFields
<1>. QED  BY <1>1 DEF SamePanes, Tabs

LEMMA FocusFloatingSame ==
    ASSUME NEW t \in Tabs, NEW p \in Maybe(Panes), NEW c
    PROVE  SamePanes(t, FocusFloating(t, p, c))
BY FloatFocusReplaced DEF FocusFloating

LEMMA MoveFloatingFocusSame ==
    ASSUME NEW t \in Tabs, NEW c \in Clients, NEW x
    PROVE  SamePanes(t, MoveFloatingFocus(t, c, x))
<1>. DEFINE p == t.floatFocus[c]
<1>1. p \in Maybe(Panes) /\ t.floating \subseteq Maybe(Panes)
  BY TabFields DEF Maybe
<1>2. CASE p = None
  <2>1. MoveFloatingFocus(t, c, x) = [t EXCEPT !.floatFocus = Nobody]
    BY <1>2 DEF MoveFloatingFocus
  <2>. QED  BY <2>1, NobodyType DEF SamePanes, Tabs
<1>3. CASE p # None /\ p \in t.floating /\ x.pane \in t.floating \ {p}
  <2>1. MoveFloatingFocus(t, c, x) = FocusFloating(t, x.pane, c)
    BY <1>3 DEF MoveFloatingFocus
  <2>. QED  BY <1>1, <1>3, <2>1, FocusFloatingSame
<1>4. CASE p # None /\ ~(p \in t.floating /\ x.pane \in t.floating \ {p})
  <2>1. MoveFloatingFocus(t, c, x) = [t EXCEPT !.floatFocus = Looking(@, t.clients, p)]
    BY <1>4 DEF MoveFloatingFocus
  <2>. QED  BY <1>1, <2>1, FloatFocusReplaced
<1>. QED  BY <1>2, <1>3, <1>4

LEMMA JoinSame ==
    ASSUME NEW t \in Tabs, NEW c \in Clients
    PROVE  SamePanes(t, [t EXCEPT !.clients = @ \cup {c}])
BY DEF SamePanes, Tabs

LEMMA AddClientSame ==
    ASSUME NEW t \in Tabs, NEW c \in Clients, NEW x \in Choices(t)
    PROVE  SamePanes(t, AddClient(t, c, x))
<1>. DEFINE visible  == t.tiled \ t.hidden
            smallest == Prefer(IF visible \cap Terminals # {}
                               THEN visible \cap Terminals ELSE visible, x)
            floats   == {t.floatFocus[d] : d \in Clients} \ {None}
            q == IF t.floatFocus[c] # None THEN t.floatFocus[c]
                 ELSE Prefer(floats, x)
            v == IF floats = {} THEN t ELSE FocusFloating(t, q, c)
            w == LET p == v.tiledFocus[x.client]
                 IN  IF p = None THEN v ELSE FocusTiledIfNotFocused(v, p, c, x)
            first == IF t.focusId # None THEN t.focusId ELSE smallest
            Join(u) == [u EXCEPT !.clients = @ \cup {c}]
<1>1. t.floatFocus \in [Clients -> Maybe(Panes)] /\ t.clients \subseteq Clients
  BY TabFields
<1>2. CASE t.clients # {}
  <2>1. x.client \in Clients
    BY <1>1, <1>2, ChoiceOfClient
  <2>2. SamePanes(t, v)
    <3>1. floats \subseteq Maybe(Panes)
      BY <1>1
    <3>2. floats # {} => q \in Maybe(Panes)
      BY <1>1, <3>1, PreferIsMember
    <3>. HIDE DEF q, floats
    <3>3. SamePanes(t, t)
      BY DEF SamePanes
    <3>. QED  BY <3>2, <3>3, FocusFloatingSame
  <2>. HIDE DEF v
  <2>3. v \in Tabs
    BY <2>2 DEF SamePanes
  <2>4. v.tiledFocus \in [Clients -> Maybe(Panes)]
    BY <2>3, TabFields
  <2>5. Keeps(v, w)
    BY <2>1, <2>3, <2>4, FocusTiledIfNotFocusedKeeps, KeepsItself DEF Maybe
  <2>6. AddClient(t, c, x) = Join(w)
    BY <1>2 DEF AddClient, v
  <2>. HIDE DEF w
  <2>7. SamePanes(v, w) /\ w \in Tabs
    BY <2>5, KeepsSame DEF SamePanes
  <2>. QED  BY <2>2, <2>6, <2>7, JoinSame, SameSame
<1>3. CASE t.clients = {} /\ (t.tiled = {} \/ (t.focusId = None /\ visible = {}))
  <2>1. AddClient(t, c, x) \in {t, Broken(t)}
    BY <1>3 DEF AddClient
  <2>. QED  BY <2>1, BrokenKeeps, KeepsItself, KeepsSame
<1>4. CASE t.clients = {} /\ t.tiled # {} /\ ~(t.focusId = None /\ visible = {})
  <2>1. AddClient(t, c, x) = Join(FocusTiledIfNotFocused(t, first, c, x))
    BY <1>4 DEF AddClient
  <2>2. visible \subseteq Panes /\ t.focusId \in Maybe(Panes)
    BY TabFields
  <2>3. t.focusId = None => smallest \in visible
    BY <1>4, PreferIsMember
  <2>4. first \in Panes
    BY <2>2, <2>3 DEF Maybe
  <2>. HIDE DEF first
  <2>. DEFINE u == FocusTiledIfNotFocused(t, first, c, x)
  <2>5. SamePanes(t, u)
    BY <2>4, FocusTiledIfNotFocusedKeeps, KeepsSame
  <2>. HIDE DEF u
  <2>6. u \in Tabs
    BY <2>5 DEF SamePanes
  <2>. QED  BY <2>1, <2>5, <2>6, JoinSame, SameSame DEF u
<1>. QED  BY <1>2, <1>3, <1>4

(* The requests that move no pane.                                          *)
LEMMA SameSurvive ==
    ASSUME Ready, NEW u, SamePanes(tab, u),
           Becomes(u, alive) \/ Becomes(Render(u), alive), NEW p \in Strays
    PROVE  Excused(p)
<1>1. u \in Tabs /\ Holds(tab, u, {})
  BY SameHolds DEF SamePanes
<1>2. p \in alive
  BY <1>1, StraysAreLost
<1>3. LeftWaiting(p)
  BY <1>1, <1>2, HeldStray
<1>. QED  BY <1>2, <1>3, WaitedIsExcused

LEMMA ClientsComeAndGoSurvive ==
    ASSUME Ready, NEW c \in Clients, NEW x \in Choices(tab),
           Come(c, x) \/ Leave(c) \/ GoToOtherTab(c), NEW p \in Strays
    PROVE  Excused(p)
<1>1. tab \in Tabs
  BY DEF Ready, Sees
<1>2. SamePanes(tab, RemoveClient(tab, c)) /\ SamePanes(tab, DrainClient(tab, c))
  <2>1. None \in Maybe(Panes)
    BY DEF Maybe
  <2>2. RemoveClient(tab, c) \in Tabs
    BY <1>1, <2>1 DEF RemoveClient, Tabs
  <2>3. DrainClient(tab, c) \in Tabs
    BY <1>1 DEF DrainClient, Tabs
  <2>. QED  BY <1>1, <2>2, <2>3 DEF SamePanes, RemoveClient, DrainClient, Tabs
<1>. QED
  BY <1>1, <1>2, AddClientSame, SameSurvive DEF Come, Leave, GoToOtherTab

LEMMA FocusSurvives ==
    ASSUME Ready, NEW c \in Clients, NEW x, NEW q \in Panes,
           \/ ToggleFloatingPanes(c, x) \/ ToggleFullscreen(c, x)
           \/ FocusNextPane(c, x) \/ MoveFocus(c, x) \/ Click(c, q, x),
           NEW p \in Strays
    PROVE  Excused(p)
<1>. DEFINE unset == UnsetFullscreen(tab, x)
<1>1. tab \in Tabs
  BY DEF Ready, Sees
<1>2. SamePanes(tab, unset) /\ unset \in Tabs
  BY <1>1, UnsetFullscreenKeeps, KeepsSame DEF SamePanes
<1>. HIDE DEF unset
<1>3. \A t \in Tabs : /\ SamePanes(t, FocusNextTile(t, c, x))
                      /\ SamePanes(t, ToggleFullscreenOf(t, c, x))
                      /\ SamePanes(t, MoveTiledFocus(t, c, x))
                      /\ SamePanes(t, FocusTiled(t, q, c, x))
                      /\ SamePanes(t, Show(t)) /\ SamePanes(t, Hide(t))
  BY FocusNextTileKeeps, ToggleFullscreenOfKeeps, MoveTiledFocusKeeps,
     FocusTiledKeeps, ShowsKeeps, KeepsSame
<1>4. \A t, u : SamePanes(t, u) => u \in Tabs
  BY DEF SamePanes
<1>5. CASE ToggleFloatingPanes(c, x)
  <2>. DEFINE shown == Show(tab)
              heir == Prefer(shown.floating, x)
              focused == IF shown.floating = {} \/ shown.floatFocus[c] # None
                         THEN shown ELSE FocusFloating(shown, heir, c)
  <2>1. Becomes(Render(IF tab.shows THEN Hide(tab) ELSE focused), alive)
    BY <1>5 DEF ToggleFloatingPanes
  <2>2. SamePanes(tab, shown) /\ shown \in Tabs
    BY <1>1, <1>3, <1>4
  <2>. HIDE DEF shown
  <2>3. shown.floating # {} => heir \in Maybe(Panes)
    BY <2>2, PreferIsMember, TabFields DEF Maybe
  <2>. HIDE DEF heir
  <2>4. SamePanes(tab, focused)
    BY <2>2, <2>3, FocusFloatingSame, SameSame
  <2>. HIDE DEF focused
  <2>. QED  BY <1>1, <1>3, <2>1, <2>4, SameSurvive
<1>6. CASE ToggleFullscreen(c, x)
  BY <1>1, <1>3, <1>6, SameSurvive DEF ToggleFullscreen
<1>7. CASE FocusNextPane(c, x)
  <2>1. Becomes(Render(IF tab.full
                       THEN ToggleFullscreenOf(FocusNextTile(unset, c, x), c, x)
                       ELSE FocusNextTile(tab, c, x)), alive)
    BY <1>7 DEF FocusNextPane, unset
  <2>2. SamePanes(unset, FocusNextTile(unset, c, x))
    BY <1>2, <1>3
  <2>3. SamePanes(FocusNextTile(unset, c, x),
                  ToggleFullscreenOf(FocusNextTile(unset, c, x), c, x))
    BY <1>3, <1>4, <2>2
  <2>4. SamePanes(tab, ToggleFullscreenOf(FocusNextTile(unset, c, x), c, x))
    BY <1>2, <2>2, <2>3, SameSame
  <2>. QED  BY <1>1, <1>3, <2>1, <2>4, SameSurvive
<1>8. CASE MoveFocus(c, x)
  <2>1. Becomes(Render(IF tab.shows THEN MoveFloatingFocus(tab, c, x)
                       ELSE IF tab.full
                       THEN ToggleFullscreenOf(MoveTiledFocus(unset, c, x), c, x)
                       ELSE MoveTiledFocus(tab, c, x)), alive)
    BY <1>8 DEF MoveFocus, unset
  <2>2. SamePanes(unset, MoveTiledFocus(unset, c, x))
    BY <1>2, <1>3
  <2>3. SamePanes(MoveTiledFocus(unset, c, x),
                  ToggleFullscreenOf(MoveTiledFocus(unset, c, x), c, x))
    BY <1>3, <1>4, <2>2
  <2>4. SamePanes(tab, ToggleFullscreenOf(MoveTiledFocus(unset, c, x), c, x))
    BY <1>2, <2>2, <2>3, SameSame
  <2>. QED  BY <1>1, <1>3, <2>1, <2>4, MoveFloatingFocusSame, SameSurvive
<1>9. CASE Click(c, q, x)
  <2>1. SamePanes(tab, FocusTiled(tab, q, c, x))
    BY <1>1, <1>3
  <2>2. SamePanes(FocusTiled(tab, q, c, x), Hide(FocusTiled(tab, q, c, x)))
    BY <1>3, <1>4, <2>1
  <2>3. SamePanes(tab, Hide(FocusTiled(tab, q, c, x)))
    BY <2>1, <2>2, SameSame
  <2>4. SamePanes(tab, FocusFloating(tab, q, c))
    BY <1>1, FocusFloatingSame DEF Maybe
  <2>. QED  BY <1>9, <2>3, <2>4, SameSurvive DEF Click
<1>. QED  BY <1>5, <1>6, <1>7, <1>8, <1>9

LEMMA BarSurvives ==
    ASSUME Ready, NEW b \in Plugins, NEW x, SetPaneUnselectable(b, x), NEW p \in Strays
    PROVE  Excused(p)
<1>. DEFINE t == [tab EXCEPT !.passive = @ \cup {b}]
<1>1. tab \in Tabs
  BY DEF Ready, Sees
<1>2. SamePanes(tab, t) /\ t \in Tabs
  BY <1>1 DEF SamePanes, Tabs
<1>3. Becomes(Render(MoveOutOfTiled(t, b, x)), alive)
  BY DEF SetPaneUnselectable
<1>. HIDE DEF t
<1>4. SamePanes(t, MoveOutOfTiled(t, b, x))
  BY <1>2, MoveOutOfTiledKeeps, KeepsSame
<1>. QED  BY <1>2, <1>3, <1>4, SameSame, SameSurvive

LEMMA AddFloatingFields ==
    ASSUME NEW t \in Tabs, NEW p \in Panes
    PROVE  LET u == AddFloating(t, p)
           IN  /\ u \in Tabs
               /\ u.tiled = t.tiled /\ u.suppressed = t.suppressed
               /\ t.floating \subseteq u.floating
               /\ Cardinality(t.floating) < FloatRoom => p \in u.floating
<1>1. Looking(t.floatFocus, t.clients, p) \in [Clients -> Maybe(Panes)]
  BY LookingType, TabFields DEF Maybe
<1>. QED  BY <1>1 DEF AddFloating, Tabs

LEMMA AddTiledFields ==
    ASSUME NEW t \in Tabs, NEW p \in Panes, NEW c, NEW x
    PROVE  LET u == AddTiled(t, p, c, x)
           IN  /\ u \in Tabs
               /\ u.floating = t.floating /\ u.suppressed = t.suppressed
               /\ t.tiled \subseteq u.tiled
               /\ HasTileRoom(t) => p \in u.tiled
<1>. DEFINE v == UnsetFullscreen(t, x)
            w == [v EXCEPT !.tiled = @ \cup {p}]
<1>1. SamePanes(t, v) /\ v \in Tabs /\ v.bars = t.bars
  <2>1. v.bars = t.bars
    BY DEF UnsetFullscreen, Broken, Tabs
  <2>. QED  BY <2>1, UnsetFullscreenKeeps, KeepsSame DEF SamePanes
<1>2. AddTiled(t, p, c, x)
        = IF ~(HasTileRoom(v) \/ v.tiled = {}) THEN v
          ELSE IF c = None THEN w ELSE FocusTiled(w, p, c, x)
  BY DEF AddTiled
<1>3. HasTileRoom(t) <=> HasTileRoom(v)
  BY <1>1 DEF HasTileRoom, SamePanes
<1>. HIDE DEF v
<1>4. /\ w \in Tabs
      /\ w.tiled = t.tiled \cup {p}
      /\ w.floating = t.floating /\ w.suppressed = t.suppressed
  BY <1>1 DEF SamePanes, Tabs
<1>. HIDE DEF w
<1>5. SamePanes(w, FocusTiled(w, p, c, x))
  BY <1>4, FocusTiledKeeps, KeepsSame
<1>. QED  BY <1>1, <1>2, <1>3, <1>4, <1>5 DEF SamePanes

(* What is opened is in a layer if there is room.                           *)
LEMMA OpenPaneHolds ==
    ASSUME NEW t \in Tabs, NEW q \in Panes, NEW float, NEW c, NEW x
    PROVE  LET u == OpenPane(t, q, float, c, x)
           IN  /\ u \in Tabs /\ Holds(t, u, {})
               /\ \/ q \in u.tiled \cup u.floating
                  \/ ~(Cardinality(t.floating) < FloatRoom)
                  \/ ~HasTileRoom(t)
<1>. DEFINE v == CASE float = "float" -> Show(t)
                   [] float = "tile" -> Hide(t)
                   [] OTHER -> t
            a == AddFloating(v, q)
            b == AddTiled(v, q, c, x)
<1>1. SamePanes(t, v) /\ v \in Tabs /\ v.bars = t.bars
  <2>1. v.bars = t.bars
    BY DEF Show, Hide, Tabs
  <2>. QED  BY <2>1, ShowsKeeps, KeepsItself, KeepsSame DEF SamePanes
<1>2. OpenPane(t, q, float, c, x) = IF v.shows THEN a ELSE b
  BY DEF OpenPane
<1>. HIDE DEF v
<1>3. HasTileRoom(v) <=> HasTileRoom(t)
  BY <1>1 DEF HasTileRoom, SamePanes
<1>4. /\ a \in Tabs /\ Holds(t, a, {})
      /\ Cardinality(t.floating) < FloatRoom => q \in a.floating
  <2>1. /\ a \in Tabs /\ a.tiled = v.tiled /\ a.suppressed = v.suppressed
        /\ v.floating \subseteq a.floating
        /\ Cardinality(v.floating) < FloatRoom => q \in a.floating
    BY <1>1, AddFloatingFields
  <2>. HIDE DEF a
  <2>. QED  BY <1>1, <2>1 DEF SamePanes, Holds, Here, Waiting
<1>5. /\ b \in Tabs /\ Holds(t, b, {})
      /\ HasTileRoom(t) => q \in b.tiled
  <2>1. /\ b \in Tabs /\ b.floating = v.floating /\ b.suppressed = v.suppressed
        /\ v.tiled \subseteq b.tiled
        /\ HasTileRoom(v) => q \in b.tiled
    BY <1>1, AddTiledFields
  <2>. HIDE DEF b
  <2>. QED  BY <1>1, <1>3, <2>1 DEF SamePanes, Holds, Here, Waiting
<1>. QED  BY <1>2, <1>4, <1>5

LEMMA RoomIsNeeded ==
    ASSUME Ready, \/ ~(Cardinality(tab.floating) < FloatRoom)
                  \/ ~HasTileRoom(tab)
    PROVE  NoRoom
<1>1. tab.floating \in SUBSET Panes /\ IsFiniteSet(tab.floating)
  BY TabFields, TabAssumption, FS_Subset DEF Ready, Sees
<1>2. Cardinality(tab.floating) \in Nat /\ FloatRoom \in Nat
  BY <1>1, FS_CardinalityType, TabAssumption
<1>. QED  BY <1>2 DEF NoRoom

LEMMA OpenedSurvive ==
    ASSUME Ready, NEW q \in Panes, NEW float, NEW c, NEW x,
           NewTerminal(q, float, c, x) \/ AddPlugin(q, float, x),
           NEW p \in Strays
    PROVE  Excused(p)
<1>1. tab \in Tabs
  BY DEF Ready, Sees
<1>2. CASE NewTerminal(q, float, c, x)
  <2>. DEFINE u == OpenPane(tab, q, float, c, x)
  <2>1. /\ u \in Tabs /\ Holds(tab, u, {})
        /\ q \in u.tiled \cup u.floating \/ NoRoom
    BY <1>1, OpenPaneHolds, RoomIsNeeded
  <2>2. Becomes(Render(u), Started(q)) /\ Started(q) \subseteq alive \cup {q}
    BY <1>2 DEF NewTerminal, Started
  <2>. HIDE DEF u
  <2>3. (p \in alive \/ p = q) /\ p \notin u.tiled \cup u.floating
    BY <2>1, <2>2, StraysAreLost
  <2>4. p \in alive => LeftWaiting(p)
    BY <2>1, <2>2, HeldStray
  <2>5. NoRoom => Excused(p)
    BY DEF Excused
  <2>. QED  BY <2>1, <2>3, <2>4, <2>5, WaitedIsExcused
<1>3. CASE AddPlugin(q, float, x)
  <2>. DEFINE u == OpenPane(tab, q, float, None, x)
  <2>1. u \in Tabs /\ Holds(tab, u, {})
    BY <1>1, OpenPaneHolds
  <2>2. Becomes(u, alive)
    BY <1>3 DEF AddPlugin
  <2>. HIDE DEF u
  <2>3. p \in alive
    BY <2>1, <2>2, StraysAreLost
  <2>4. LeftWaiting(p)
    BY <2>1, <2>2, <2>3, HeldStray
  <2>. QED  BY <2>3, <2>4, WaitedIsExcused
<1>. QED  BY <1>2, <1>3

LEMMA SplitSurvives ==
    ASSUME Ready, NEW q \in Panes, NEW c \in tab.clients, NEW fits \in BOOLEAN,
           NEW x \in ClientChoices(tab), Split(q, c, fits, x), NEW p \in Strays
    PROVE  Excused(p)
<1>. DEFINE t == SplitPane(tab, q, c, fits, x)
            u == IF tab.full THEN ToggleFullscreenOf(tab, c, x) ELSE tab
            v == [u EXCEPT !.tiled = @ \cup {q}]
            w == FocusTiled(v, q, c, x)
<1>1. /\ Becomes(Render(t), IF tab.shows \/ q \in t.tiled THEN Started(q) ELSE alive)
      /\ Started(q) \subseteq alive \cup {q}
  BY DEF Split, Started
<1>2. tab \in Tabs /\ c \in Clients
  BY TabFields DEF Ready, Sees
<1>3. CASE tab.shows
  <2>1. \A f : SplitPane(tab, q, c, f, x) = tab
    BY <1>3 DEF SplitPane
  <2>2. Split(q, c, TRUE, x)
    <3>1. SplitPane(tab, q, c, TRUE, x) = SplitPane(tab, q, c, fits, x)
      BY <2>1
    <3>. QED  BY <3>1 DEF Split
  <2>3. tab \in Tabs /\ Holds(tab, tab, {})
    BY <1>2 DEF Holds
  <2>4. p \in alive => LeftWaiting(p)
    BY <1>1, <2>1, <2>3, HeldStray
  <2>5. p = q \/ p \in alive
    BY <1>1, <2>1, <2>3, StraysAreLost
  <2>. QED  BY <1>2, <1>3, <2>2, <2>4, <2>5 DEF Excused
<1>4. CASE ~tab.shows
  <2>1. t \in {u, w}
    BY <1>4 DEF SplitPane
  <2>2. SamePanes(tab, u) /\ u \in Tabs
    BY <1>2, ToggleFullscreenOfKeeps, KeepsItself, KeepsSame DEF SamePanes
  <2>. HIDE DEF t, u
  <2>3. v \in Tabs /\ Holds(u, v, {})
    BY <2>2 DEF Tabs, Holds, Here, Waiting
  <2>. HIDE DEF v
  <2>4. SamePanes(v, w) /\ w \in Tabs
    BY <2>3, FocusTiledKeeps, KeepsSame DEF SamePanes
  <2>. HIDE DEF w
  <2>5. t \in Tabs /\ Holds(tab, t, {})
    BY <2>1, <2>2, <2>3, <2>4 DEF SamePanes, Holds, Here, Waiting
  <2>6. (p \in alive \/ (p = q /\ q \in t.tiled)) /\ p \notin t.tiled
    BY <1>1, <1>4, <2>5, StraysAreLost
  <2>7. p \in alive => LeftWaiting(p)
    BY <1>1, <2>5, HeldStray
  <2>. QED  BY <2>6, <2>7, WaitedIsExcused
<1>. QED  BY <1>3, <1>4

(* A pane that takes the place of another keeps it: the tab does not close.  *)
LEMMA KeptHolds ==
    ASSUME Ready, NEW u \in Tabs, NEW q \in Panes \ tab.bars, NEW old \in Panes,
           tab.suppressed[q] = None, u.suppressed = tab.suppressed,
           u.passive = tab.passive, u.status = tab.status,
           \/ /\ u.floating = tab.floating
              /\ old \in tab.tiled /\ u.tiled = (tab.tiled \ {old}) \cup {q}
           \/ /\ u.tiled = tab.tiled
              /\ old \in tab.floating /\ u.floating = (tab.floating \ {old}) \cup {q},
           NEW v, v = [u EXCEPT !.suppressed[q] = old],
           Becomes(Render(v), Started(q)), NEW p \in Strays
    PROVE  Excused(p)
<1>1. /\ v \in Tabs /\ v.tiled = u.tiled /\ v.floating = u.floating
      /\ v.passive = u.passive /\ v.status = u.status
      /\ v.suppressed = [u.suppressed EXCEPT ![q] = old]
  BY DEF Tabs, Maybe
<1>2. /\ tab \in Tabs /\ tab.status = "open" /\ Selectable(tab) # {}
      /\ tab.passive \subseteq tab.bars
  BY DEF Ready, Sees, BarsStay
<1>3. tab.suppressed \in [Panes -> Maybe(Panes)] /\ old # None
  BY <1>2, TabFields, NoneIsNot
<1>4. \A e \in Panes : v.suppressed[e] = IF e = q THEN old ELSE tab.suppressed[e]
  BY <1>1, <1>3
<1>5. Waiting(tab) \cup {old} \subseteq Waiting(v)
  BY <1>3, <1>4 DEF Waiting
<1>6. Here(tab) \subseteq Here(v) /\ q \in v.tiled \cup v.floating
  BY <1>1, <1>5 DEF Here
<1>7. v.status = "open" /\ Selectable(v) # {}
  BY <1>1, <1>2 DEF Selectable
<1>8. tab'.status # "closed"
  BY <1>7 DEF Becomes, Render
<1>9. p \in Started(q) /\ p \notin v.tiled \cup v.floating /\ p \notin Here(v)
  BY <1>1, <1>8, StraysAreLost
<1>10. p \notin alive
  BY <1>1, <1>6, <1>9, StraysAreLost
<1>. QED  BY <1>6, <1>9, <1>10 DEF Started

(* And one that takes the place of none, or of one that waits, is lost.     *)
LEMMA PlacelessStrays ==
    ASSUME Ready, NEW v, SamePanes(tab, v), NEW q, Becomes(Render(v), Started(q)),
           NEW p \in Strays
    PROVE  p = q \/ Excused(p)
<1>1. v \in Tabs /\ Holds(tab, v, {})
  BY SameHolds DEF SamePanes
<1>2. p \in Started(q) /\ (p \in alive => LeftWaiting(p))
  BY <1>1, HeldStray, StraysAreLost
<1>. QED  BY <1>2 DEF Started, Excused

LEMMA ReplaceTiledFields ==
    ASSUME NEW t \in Tabs, NEW old \in Maybe(Panes), NEW q \in Panes
    PROVE  LET u == ReplaceTiled(t, old, q)
           IN  /\ u \in Tabs
               /\ u.tiled = IF old \in t.tiled THEN (t.tiled \ {old}) \cup {q}
                            ELSE t.tiled
               /\ u.floating = t.floating /\ u.suppressed = t.suppressed
               /\ u.passive = t.passive /\ u.status = t.status
<1>1. \A D : Looking(t.tiledFocus, D, q) \in [Clients -> Maybe(Panes)]
  BY LookingType, TabFields DEF Maybe
<1>. QED  BY <1>1 DEF ReplaceTiled, Tabs

LEMMA ReplaceFloatingFields ==
    ASSUME NEW t \in Tabs, NEW old \in Maybe(Panes), NEW q \in Panes
    PROVE  LET u == ReplaceFloating(t, old, q)
           IN  /\ u \in Tabs
               /\ u.floating = IF old \in t.floating THEN (t.floating \ {old}) \cup {q}
                               ELSE t.floating
               /\ u.tiled = t.tiled /\ u.suppressed = t.suppressed
               /\ u.passive = t.passive /\ u.status = t.status
<1>1. \A D : Looking(t.floatFocus, D, q) \in [Clients -> Maybe(Panes)]
  BY LookingType, TabFields DEF Maybe
<1>. QED  BY <1>1 DEF ReplaceFloating, Tabs

LEMMA EditorSurvives ==
    ASSUME Ready, NEW c \in Clients, NEW q \in Terminals, OpenInPlaceEditor(q, c),
           NEW p \in Strays
    PROVE  Excused(p)
<1>. DEFINE old == ActivePane(tab, c)
            u == IF tab.shows THEN ReplaceFloating(tab, old, q)
                 ELSE ReplaceTiled(tab, old, q)
            v == IF old \in Layer(tab) THEN [u EXCEPT !.suppressed[q] = old] ELSE u
            w == IF old = None THEN tab ELSE v
<1>1. Becomes(Render(w), Started(q))
  BY DEF OpenInPlaceEditor
<1>2. /\ q \in Panes \ tab.bars /\ tab.suppressed[q] = None
      /\ tab \in Tabs /\ old \in Maybe(Panes)
  BY TabFields DEF OpenInPlaceEditor, Fresh, Ready, Sees, Panes, ActivePane
<1>3. CASE old \in Layer(tab)
  <2>1. old \in Panes
    BY <1>2, <1>3, TabFields DEF Layer
  <2>2. w = [u EXCEPT !.suppressed[q] = old]
    BY <1>3, <2>1, NoneIsNot
  <2>3. /\ u \in Tabs
        /\ u.suppressed = tab.suppressed /\ u.passive = tab.passive
        /\ u.status = tab.status
        /\ \/ /\ u.floating = tab.floating
              /\ old \in tab.tiled /\ u.tiled = (tab.tiled \ {old}) \cup {q}
           \/ /\ u.tiled = tab.tiled
              /\ old \in tab.floating /\ u.floating = (tab.floating \ {old}) \cup {q}
    <3>1. CASE tab.shows
      <4>1. u = ReplaceFloating(tab, old, q) /\ old \in tab.floating
        BY <1>3, <3>1 DEF Layer
      <4>. HIDE DEF u, w, old
      <4>. QED  BY <1>2, <4>1, ReplaceFloatingFields
    <3>2. CASE ~tab.shows
      <4>1. u = ReplaceTiled(tab, old, q) /\ old \in tab.tiled
        BY <1>3, <3>2 DEF Layer
      <4>. HIDE DEF u, w, old
      <4>. QED  BY <1>2, <4>1, ReplaceTiledFields
    <3>. QED  BY <3>1, <3>2
  <2>. HIDE DEF u, w, old
  <2>. QED  BY <1>1, <1>2, <2>1, <2>2, <2>3, KeptHolds
<1>4. CASE old \notin Layer(tab)
  <2>1. w \in {u, tab}
    BY <1>4
  <2>2. SamePanes(tab, u) /\ SamePanes(tab, tab)
    <3>1. CASE tab.shows
      <4>1. u = ReplaceFloating(tab, old, q) /\ old \notin tab.floating
        BY <1>4, <3>1 DEF Layer
      <4>. HIDE DEF u, w, old
      <4>. QED  BY <1>2, <4>1, ReplaceFloatingFields DEF SamePanes
    <3>2. CASE ~tab.shows
      <4>1. u = ReplaceTiled(tab, old, q) /\ old \notin tab.tiled
        BY <1>4, <3>2 DEF Layer
      <4>. HIDE DEF u, w, old
      <4>. QED  BY <1>2, <4>1, ReplaceTiledFields DEF SamePanes
    <3>. QED  BY <3>1, <3>2
  <2>. HIDE DEF u, w
  <2>3. p = q \/ Excused(p)
    BY <1>1, <2>1, <2>2, PlacelessStrays
  <2>. QED  BY <1>4, <2>3 DEF Excused
<1>. QED  BY <1>3, <1>4

LEMMA ReplacementSurvives ==
    ASSUME Ready, NEW old \in Panes, NEW q \in Panes, ReplacePane(old, q),
           NEW p \in Strays
    PROVE  Excused(p)
<1>. DEFINE u == IF old \in tab.floating THEN ReplaceFloating(tab, old, q)
                 ELSE ReplaceTiled(tab, old, q)
            v == IF old \in tab.floating \cup tab.tiled
                 THEN [u EXCEPT !.suppressed[q] = old] ELSE u
<1>1. Becomes(Render(v), Started(q)) /\ old \in Here(tab)
  BY DEF ReplacePane
<1>2. /\ q \in Panes \ tab.bars /\ tab.suppressed[q] = None
      /\ tab \in Tabs /\ old \in Maybe(Panes)
  BY DEF ReplacePane, Fresh, Ready, Sees, Maybe
<1>3. CASE old \in tab.floating \cup tab.tiled
  <2>1. v = [u EXCEPT !.suppressed[q] = old]
    BY <1>3
  <2>2. /\ u \in Tabs
        /\ u.suppressed = tab.suppressed /\ u.passive = tab.passive
        /\ u.status = tab.status
        /\ \/ /\ u.floating = tab.floating
              /\ old \in tab.tiled /\ u.tiled = (tab.tiled \ {old}) \cup {q}
           \/ /\ u.tiled = tab.tiled
              /\ old \in tab.floating /\ u.floating = (tab.floating \ {old}) \cup {q}
    <3>1. CASE old \in tab.floating
      <4>1. u = ReplaceFloating(tab, old, q)
        BY <3>1
      <4>. HIDE DEF u, v
      <4>. QED  BY <1>2, <3>1, <4>1, ReplaceFloatingFields
    <3>2. CASE old \notin tab.floating
      <4>1. u = ReplaceTiled(tab, old, q) /\ old \in tab.tiled
        BY <1>3, <3>2
      <4>. HIDE DEF u, v
      <4>. QED  BY <1>2, <4>1, ReplaceTiledFields
    <3>. QED  BY <3>1, <3>2
  <2>. HIDE DEF u, v
  <2>. QED  BY <1>1, <1>2, <2>1, <2>2, KeptHolds
<1>4. CASE old \notin tab.floating \cup tab.tiled
  <2>1. v = u /\ old \in Waiting(tab)
    BY <1>1, <1>4 DEF Here
  <2>2. SamePanes(tab, u)
    <3>1. u = ReplaceTiled(tab, old, q)
      BY <1>4
    <3>. HIDE DEF u, v
    <3>. QED  BY <1>2, <1>4, <3>1, ReplaceTiledFields DEF SamePanes
  <2>. HIDE DEF u, v
  <2>3. p = q \/ Excused(p)
    BY <1>1, <2>1, <2>2, PlacelessStrays
  <2>. QED  BY <2>1, <2>3 DEF Excused
<1>. QED  BY <1>3, <1>4

LEMMA RemoveTiledFields ==
    ASSUME NEW t \in Tabs, NEW q \in Panes, NEW x
    PROVE  LET u == RemoveTiled(t, q, x)
           IN  /\ u \in Tabs /\ u.floating = t.floating
               /\ u.suppressed = t.suppressed
               /\ t.tiled \ {q} \subseteq u.tiled
<1>. DEFINE rest == [t EXCEPT !.tiled = @ \ {q}]
<1>1. /\ rest \in Tabs /\ rest.tiled = t.tiled \ {q} /\ rest.floating = t.floating
      /\ rest.suppressed = t.suppressed
  BY DEF Tabs
<1>. HIDE DEF rest
<1>2. /\ Keeps(t, Broken(t)) /\ Keeps(rest, MoveOutOfTiled(rest, q, x))
      /\ Keeps(rest, [rest EXCEPT !.tiledFocus = Nobody])
  BY <1>1, BrokenKeeps, MoveOutOfTiledKeeps, TiledFocusReplaced, NobodyType
<1>3. RemoveTiled(t, q, x) \in {Broken(t), MoveOutOfTiled(rest, q, x),
                                [rest EXCEPT !.tiledFocus = Nobody]}
  BY DEF RemoveTiled, rest
<1>. QED  BY <1>1, <1>2, <1>3 DEF Keeps

LEMMA RemoveFloatingFields ==
    ASSUME NEW t \in Tabs, NEW q \in Panes, NEW x
    PROVE  LET u == RemoveFloating(t, q, x)
           IN  /\ u \in Tabs /\ u.tiled = t.tiled /\ u.bars = t.bars
               /\ u.suppressed = t.suppressed
               /\ u.floating = t.floating \ {q}
<1>. DEFINE heirs == t.floating \ {q}
            mine == At(t.floatFocus, q)
            f == CASE mine = {} -> t.floatFocus
                   [] mine # {} /\ heirs # {} ->
                        Looking(t.floatFocus, mine \cup t.clients, Prefer(heirs, x))
                   [] OTHER -> Looking(t.floatFocus, mine, None)
            s == t.shows /\ heirs # {}
<1>1. f \in [Clients -> Maybe(Panes)]
  <2>1. heirs # {} => Prefer(heirs, x) \in Maybe(Panes)
    BY PreferIsMember, TabFields DEF Maybe
  <2>2. None \in Maybe(Panes)
    BY DEF Maybe
  <2>3. t.floatFocus \in [Clients -> Maybe(Panes)]
    BY TabFields
  <2>. HIDE DEF mine, heirs
  <2>. QED  BY <2>1, <2>2, <2>3, LookingType
<1>2. /\ RemoveFloating(t, q, x)
           = [t EXCEPT !.floating = heirs, !.shows = s, !.floatFocus = f]
      /\ s \in BOOLEAN
  BY DEF RemoveFloating
<1>. HIDE DEF f, s
<1>3. heirs \in SUBSET Panes /\ heirs = t.floating \ {q}
  BY TabFields
<1>. HIDE DEF heirs
<1>. DEFINE u == [t EXCEPT !.floating = heirs, !.shows = s, !.floatFocus = f]
<1>4. /\ u \in Tabs /\ u.tiled = t.tiled /\ u.bars = t.bars
      /\ u.suppressed = t.suppressed /\ u.floating = heirs
  BY <1>1, <1>2, <1>3 DEF Tabs
<1>. QED  BY <1>2, <1>3, <1>4

(* A method that closes a pane loses that one, and what waited for it if it *)
(* does not show.                                                          *)
LEMMA ClosePaneHolds ==
    ASSUME NEW t \in Tabs, NEW q \in Panes, NEW b \in BOOLEAN, NEW x
    PROVE  LET u == ClosePane(t, q, b, x)
           IN  /\ u \in Tabs
               /\ b => u.suppressed = t.suppressed /\ Holds(t, u, {q})
               /\ q \in Layer(t) => Holds(t, u, {q})
               /\ Holds(t, u, {q, t.suppressed[q]})
<1>. DEFINE u == ClosePane(t, q, b, x)
            old == t.suppressed[q]
            rest == [t EXCEPT !.suppressed[q] = None]
            unset == UnsetFullscreen(t, x)
<1>1. t.suppressed \in [Panes -> Maybe(Panes)]
  BY TabFields
<1>2. CASE ~b /\ old # None
  <2>1. u = IF t.shows THEN ReplaceFloating(rest, q, old) ELSE ReplaceTiled(rest, q, old)
    <3>1. u = ReplaceWithSuppressed(t, q)
      BY <1>2 DEF ClosePane
    <3>2. rest.shows = t.shows
      BY DEF Tabs
    <3>. QED  BY <3>1, <3>2 DEF ReplaceWithSuppressed
  <2>2. /\ rest \in Tabs /\ rest.tiled = t.tiled /\ rest.floating = t.floating
        /\ rest.suppressed = [t.suppressed EXCEPT ![q] = None]
    BY DEF Tabs, Maybe
  <2>3. old \in Panes /\ q \in Maybe(Panes)
    BY <1>1, <1>2 DEF Maybe
  <2>. HIDE DEF u, rest, old
  <2>4. /\ u \in Tabs /\ u.suppressed = rest.suppressed
        /\ (t.tiled \cup t.floating) \ {q} \subseteq u.tiled \cup u.floating
        /\ q \in Layer(t) => old \in u.tiled \cup u.floating
    <3>1. CASE t.shows
      <4>1. u = ReplaceFloating(rest, q, old)
        BY <2>1, <3>1
      <4>2. /\ u \in Tabs /\ u.suppressed = rest.suppressed /\ u.tiled = t.tiled
            /\ u.floating = IF q \in t.floating THEN (t.floating \ {q}) \cup {old}
                            ELSE t.floating
        <5>1. LET w == ReplaceFloating(rest, q, old)
              IN  /\ w \in Tabs /\ w.suppressed = rest.suppressed
                  /\ w.tiled = rest.tiled
                  /\ w.floating = IF q \in rest.floating
                                  THEN (rest.floating \ {q}) \cup {old}
                                  ELSE rest.floating
          BY <2>2, <2>3, ReplaceFloatingFields
        <5>. QED  BY <2>2, <4>1, <5>1
      <4>. QED  BY <3>1, <4>2 DEF Layer
    <3>2. CASE ~t.shows
      <4>1. u = ReplaceTiled(rest, q, old)
        BY <2>1, <3>2
      <4>2. /\ u \in Tabs /\ u.suppressed = rest.suppressed /\ u.floating = t.floating
            /\ u.tiled = IF q \in t.tiled THEN (t.tiled \ {q}) \cup {old}
                         ELSE t.tiled
        <5>1. LET w == ReplaceTiled(rest, q, old)
              IN  /\ w \in Tabs /\ w.suppressed = rest.suppressed
                  /\ w.floating = rest.floating
                  /\ w.tiled = IF q \in rest.tiled
                               THEN (rest.tiled \ {q}) \cup {old} ELSE rest.tiled
          BY <2>2, <2>3, ReplaceTiledFields
        <5>. QED  BY <2>2, <4>1, <5>1
      <4>. QED  BY <3>2, <4>2 DEF Layer
    <3>. QED  BY <3>1, <3>2
  <2>5. \A e \in Panes : e # q => u.suppressed[e] = t.suppressed[e]
    BY <1>1, <2>2, <2>4
  <2>6. Waiting(t) \ {old} \subseteq Waiting(u)
    BY <2>5 DEF Waiting, old
  <2>. QED  BY <1>2, <2>4, <2>6 DEF Holds, Here, u, old
<1>3. CASE b \/ old = None
  <2>1. u = IF q \in t.floating THEN RemoveFloating(t, q, x)
            ELSE RemoveTiled(unset, q, x)
    BY <1>3 DEF ClosePane
  <2>2. SamePanes(t, unset) /\ unset \in Tabs
    BY UnsetFullscreenKeeps, KeepsSame DEF SamePanes
  <2>. HIDE DEF u, unset
  <2>3. /\ u \in Tabs /\ u.suppressed = t.suppressed
        /\ (t.tiled \cup t.floating) \ {q} \subseteq u.tiled \cup u.floating
    BY <2>1, <2>2, RemoveTiledFields,
       RemoveFloatingFields DEF SamePanes
  <2>4. Waiting(t) = Waiting(u)
    BY <2>3 DEF Waiting
  <2>. QED  BY <2>3, <2>4 DEF Holds, Here, u
<1>. QED  BY <1>2, <1>3

LEMMA ClosedSurvive ==
    ASSUME Ready, NEW q \in Panes, NEW x,
           NEW u, SamePanes(ClosePane(tab, q, FALSE, x), u), NEW running \in SUBSET alive,
           Becomes(u, running) \/ Becomes(Render(u), running), NEW p \in Strays
    PROVE  p = q \/ Excused(p)
<1>. DEFINE closed == ClosePane(tab, q, FALSE, x)
<1>1. tab \in Tabs
  BY DEF Ready, Sees
<1>2. /\ closed \in Tabs
      /\ q \in Layer(tab) => Holds(tab, closed, {q})
      /\ Holds(tab, closed, {q, tab.suppressed[q]})
  BY <1>1, ClosePaneHolds
<1>. HIDE DEF closed
<1>3. /\ u \in Tabs
      /\ \A G : Holds(tab, closed, G) => Holds(tab, u, G)
  BY DEF SamePanes, Holds, Here, Waiting, closed
<1>4. p \in alive
  BY <1>3, StraysAreLost
<1>5. CASE q \in Layer(tab)
  <2>1. Holds(tab, u, {q})
    BY <1>2, <1>3, <1>5
  <2>2. p = q \/ LeftWaiting(p)
    BY <1>3, <1>4, <2>1, HeldStray
  <2>. QED  BY <1>4, <2>2, WaitedIsExcused
<1>6. CASE q \notin Layer(tab)
  <2>1. p \in {q, tab.suppressed[q]} \/ LeftWaiting(p)
    <3>1. Holds(tab, u, {q, tab.suppressed[q]})
      BY <1>2, <1>3
    <3>. QED  BY <1>3, <1>4, <3>1, HeldStray
  <2>2. p = tab.suppressed[q] => LeftWaiting(p)
    BY <1>6 DEF LeftWaiting
  <2>. QED  BY <1>4, <2>1, <2>2, WaitedIsExcused
<1>. QED  BY <1>5, <1>6

LEMMA ExitsSurvive ==
    ASSUME Ready, NEW q \in Panes, NEW x \in Choices(tab),
           ShellExits(q, x) \/ CloseTerminalPane(q, x), NEW p \in Strays
    PROVE  Excused(p)
<1>. DEFINE u == CloseAnywhere(tab, q, x)
<1>1. /\ tab \in Tabs /\ \A t : Soon(t) = Render(t)
  BY InOrder DEF Ready, Sees, Soon
<1>2. /\ Becomes(Render(u), IF CloseTerminalPane(q, x) THEN alive ELSE alive \ {q})
           \/ Becomes(Render(u), alive \ {q})
      /\ u \in {tab, ClosePane(tab, q, FALSE, x)}
  BY <1>1 DEF ShellExits, CloseTerminalPane, CloseAnywhere
<1>3. PICK running \in SUBSET alive :
        /\ Becomes(Render(u), running)
        /\ CloseTerminalPane(q, x) \/ q \notin running
  BY <1>2
<1>4. SamePanes(u, u) /\ u \in Tabs
  BY <1>1, <1>2, ClosePaneHolds DEF SamePanes
<1>. HIDE DEF u
<1>5. p \in running /\ p \in alive
  BY <1>3, <1>4, StraysAreLost
<1>6. CASE u = tab
  <2>1. Holds(tab, u, {})
    BY <1>4, <1>6, SameHolds
  <2>2. LeftWaiting(p)
    BY <1>3, <1>4, <1>5, <2>1, HeldStray
  <2>. QED  BY <1>5, <2>2, WaitedIsExcused
<1>7. CASE u = ClosePane(tab, q, FALSE, x)
  <2>1. p = q \/ Excused(p)
    BY <1>3, <1>4, <1>7, ClosedSurvive
  <2>. QED  BY <1>3, <1>5, <2>1 DEF Excused
<1>. QED  BY <1>2, <1>6, <1>7

LEMMA FocusedSurvive ==
    ASSUME Ready, NEW c \in Clients, NEW x \in Choices(tab), NEW toOther \in BOOLEAN,
           CloseFocusedPane(c, x) \/ BreakPane(c, toOther, x), NEW p \in Strays
    PROVE  Excused(p)
<1>1. tab \in Tabs
  BY DEF Ready, Sees
<1>2. CASE CloseFocusedPane(c, x)
  <2>. DEFINE q == IF tab.shows /\ tab.floatFocus[c] # None THEN tab.floatFocus[c]
                   ELSE tab.tiledFocus[c]
              u == ClosePane(tab, q, FALSE, x)
  <2>1. q # None /\ Becomes(Render(u), alive \ {q})
    BY <1>2 DEF CloseFocusedPane
  <2>2. q \in Panes
    BY <1>1, <2>1, TabFields DEF Maybe
  <2>. HIDE DEF q
  <2>3. u \in Tabs /\ SamePanes(u, u)
    BY <1>1, <2>2, ClosePaneHolds DEF SamePanes
  <2>4. p = q \/ Excused(p)
    <3>1. alive \ {q} \in SUBSET alive
      OBVIOUS
    <3>. HIDE DEF u
    <3>. QED  BY <2>1, <2>2, <2>3, <3>1, ClosedSurvive DEF u
  <2>5. p # q
    <3>. HIDE DEF u
    <3>1. p \in alive \ {q}
      BY <2>1, <2>3, StraysAreLost
    <3>. QED  BY <3>1
  <2>. QED  BY <2>4, <2>5
<1>3. CASE BreakPane(c, toOther, x)
  <2>. DEFINE q == ActivePane(tab, c)
              u == ClosePane(tab, q, FALSE, x)
  <2>1. q # None
    BY <1>3, InOrder DEF BreakPane, Ready
  <2>2. q \in Panes
    BY <1>1, <2>1, TabFields DEF Maybe, ActivePane
  <2>3. PICK v \in {Broken(tab), u, DrainClient(u, c)} :
          Becomes(v, alive \ {q}) \/ Becomes(Render(v), alive \ {q})
    BY <1>3, <2>1 DEF BreakPane
  <2>. HIDE DEF q
  <2>4. u \in Tabs
    BY <1>1, <2>2, ClosePaneHolds
  <2>5. SamePanes(u, u) /\ SamePanes(u, DrainClient(u, c)) /\ SamePanes(tab, Broken(tab))
    <3>. HIDE DEF u
    <3>1. DrainClient(u, c) \in Tabs
      BY <2>4 DEF DrainClient, Tabs
    <3>2. SamePanes(u, DrainClient(u, c))
      BY <2>4, <3>1 DEF DrainClient, SamePanes, Tabs
    <3>. QED  BY <1>1, <2>4, <3>2, BrokenKeeps, KeepsSame DEF SamePanes
  <2>6. p # q /\ p \in alive
    <3>1. v \in Tabs
      BY <2>3, <2>5 DEF SamePanes
    <3>2. p \in alive \ {q}
      BY <2>3, <3>1, StraysAreLost
    <3>. QED  BY <3>2
  <2>7. CASE v = Broken(tab)
    <3>1. Holds(tab, v, {}) /\ v \in Tabs
      BY <2>5, <2>7, SameHolds DEF SamePanes
    <3>2. LeftWaiting(p)
      BY <2>3, <2>6, <3>1, HeldStray
    <3>. QED  BY <2>6, <3>2, WaitedIsExcused
  <2>8. CASE v # Broken(tab)
    <3>1. SamePanes(u, v)
      BY <2>3, <2>5, <2>8
    <3>2. alive \ {q} \in SUBSET alive
      OBVIOUS
    <3>. HIDE DEF u
    <3>3. p = q \/ Excused(p)
      BY <2>2, <2>3, <3>1, <3>2, ClosedSurvive DEF u
    <3>. QED  BY <2>6, <3>3
  <2>. QED  BY <2>7, <2>8
<1>. QED  BY <1>2, <1>3

LEMMA TogglePaneHolds ==
    ASSUME Ready, NEW t, SamePanes(tab, t), t.bars = tab.bars,
           t.shows = tab.shows, t.tiledFocus = tab.tiledFocus,
           t.floatFocus = tab.floatFocus, ~NoRoom,
           NEW c \in tab.clients, NEW x
    PROVE  LET u == TogglePane(t, c, x)
           IN  u \in Tabs /\ Holds(tab, u, {})
<1>. DEFINE u == TogglePane(t, c, x)
            q == ActivePane(t, c)
            closed == ClosePane(t, q, TRUE, x)
<1>1. t \in Tabs /\ Holds(tab, t, {}) /\ tab \in Tabs
  BY SameHolds DEF SamePanes, Ready, Sees
<1>2. /\ Cardinality(t.floating) < FloatRoom /\ HasTileRoom(t)
      /\ q \in Maybe(Panes)
      /\ t.shows => q = None \/ q \in t.floating
      /\ ~t.shows => q \in t.tiled /\ q \notin t.floating
  <2>1. Cardinality(t.floating) < FloatRoom /\ HasTileRoom(t)
    BY RoomIsNeeded DEF HasTileRoom, SamePanes
  <2>2. q = ActivePane(tab, c)
    BY DEF ActivePane
  <2>3. q \in Maybe(Panes)
    BY <1>1, <2>2, ActiveIsThere, TabFields DEF ActivePane
  <2>. QED  BY <1>1, <2>1, <2>2, <2>3, ActiveIsThere, TabFields
            DEF ActivePane, Selectable, SamePanes
<1>3. \/ u = t
      \/ q # None /\ t.shows /\ u = AddTiled(Hide(closed), q, c, x)
      \/ q # None /\ ~t.shows /\ u = AddFloating(Show(closed), q)
  BY DEF TogglePane, ActivePane
<1>. HIDE DEF u, q
<1>4. q # None => q \in Panes
  BY <1>2 DEF Maybe
<1>5. q \in Panes => closed \in Tabs /\ Holds(t, closed, {q})
  BY <1>1, ClosePaneHolds
<1>6. t.shows /\ q \in Panes /\ q # None => HasTileRoom(closed)
  <2>. SUFFICES ASSUME t.shows, q \in Panes, q # None PROVE HasTileRoom(closed)
    OBVIOUS
  <2>1. closed = RemoveFloating(t, q, x)
    BY <1>2 DEF ClosePane
  <2>2. RemoveFloating(t, q, x).tiled = t.tiled /\ RemoveFloating(t, q, x).bars = t.bars
    BY <1>1, RemoveFloatingFields
  <2>3. closed.tiled = t.tiled /\ closed.bars = t.bars
    BY <2>1, <2>2
  <2>. QED  BY <1>2, <2>3 DEF HasTileRoom
<1>7. ~t.shows /\ q \in Panes => closed.floating = t.floating
  <2>. SUFFICES ASSUME ~t.shows, q \in Panes PROVE closed.floating = t.floating
    OBVIOUS
  <2>1. closed = RemoveTiled(UnsetFullscreen(t, x), q, x)
    BY <1>2 DEF ClosePane
  <2>2. SamePanes(t, UnsetFullscreen(t, x))
    BY <1>1, UnsetFullscreenKeeps, KeepsSame
  <2>3. RemoveTiled(UnsetFullscreen(t, x), q, x).floating = t.floating
    BY <2>2, RemoveTiledFields DEF SamePanes
  <2>. QED  BY <2>1, <2>3
<1>. HIDE DEF closed
<1>8. CASE u = t
  BY <1>1, <1>8 DEF u
<1>9. CASE q # None /\ t.shows /\ u = AddTiled(Hide(closed), q, c, x)
  <2>1. closed \in Tabs /\ Holds(t, closed, {q}) /\ HasTileRoom(closed) /\ q \in Panes
    BY <1>4, <1>5, <1>6, <1>9
  <2>2. SamePanes(closed, Hide(closed)) /\ Hide(closed).bars = closed.bars
    <3>1. Hide(closed).bars = closed.bars
      BY <2>1 DEF Hide, Tabs
    <3>. QED  BY <2>1, <3>1, ShowsKeeps, KeepsSame
  <2>. DEFINE h == Hide(closed)
  <2>. HIDE DEF h
  <2>3. SamePanes(closed, h) /\ h \in Tabs /\ HasTileRoom(h) /\ u = AddTiled(h, q, c, x)
    BY <1>9, <2>1, <2>2 DEF SamePanes, HasTileRoom, h
  <2>4. /\ u \in Tabs /\ u.floating = h.floating /\ u.suppressed = h.suppressed
        /\ h.tiled \subseteq u.tiled /\ q \in u.tiled
    BY <2>1, <2>3, AddTiledFields
  <2>5. Holds(tab, u, {})
    BY <1>1, <2>1, <2>3, <2>4 DEF SamePanes, Holds, Here, Waiting
  <2>. QED  BY <2>4, <2>5 DEF u
<1>10. CASE q # None /\ ~t.shows /\ u = AddFloating(Show(closed), q)
  <2>1. closed \in Tabs /\ Holds(t, closed, {q}) /\ closed.floating = t.floating /\ q \in Panes
    BY <1>4, <1>5, <1>7, <1>10
  <2>. DEFINE h == Show(closed)
  <2>2. SamePanes(closed, h)
    BY <2>1, ShowsKeeps, KeepsSame
  <2>. HIDE DEF h
  <2>3. h \in Tabs /\ Cardinality(h.floating) < FloatRoom /\ u = AddFloating(h, q)
    BY <1>2, <1>10, <2>1, <2>2 DEF SamePanes, h
  <2>4. /\ u \in Tabs /\ u.tiled = h.tiled /\ u.suppressed = h.suppressed
        /\ h.floating \subseteq u.floating /\ q \in u.floating
    BY <2>1, <2>3, AddFloatingFields
  <2>5. Holds(tab, u, {})
    BY <1>1, <2>1, <2>2, <2>4 DEF SamePanes, Holds, Here, Waiting
  <2>. QED  BY <2>4, <2>5 DEF u
<1>. QED  BY <1>3, <1>8, <1>9, <1>10

(* A step that holds all there is, if there is room.                        *)
LEMMA HeldIsExcused ==
    ASSUME Ready, NEW u, Becomes(u, alive) \/ Becomes(Render(u), alive),
           ~NoRoom => u \in Tabs /\ Holds(tab, u, {}), NEW p \in Strays
    PROVE  Excused(p)
<1>1. CASE NoRoom
  BY <1>1 DEF Excused
<1>2. CASE ~NoRoom
  <2>1. u \in Tabs /\ Holds(tab, u, {})
    BY <1>2
  <2>2. p \in alive
    BY <2>1, StraysAreLost
  <2>3. LeftWaiting(p)
    BY <2>1, <2>2, HeldStray
  <2>. QED  BY <2>2, <2>3, WaitedIsExcused
<1>. QED  BY <1>1, <1>2

LEMMA ToggledSurvive ==
    ASSUME Ready, NEW c \in Clients, NEW x, TogglePaneEmbedOrFloating(c, x),
           NEW p \in Strays
    PROVE  Excused(p)
<1>. DEFINE t == UnsetFullscreen(tab, x)
            u == TogglePane(t, c, x)
<1>1. tab \in Tabs
  BY DEF Ready, Sees
<1>2. SamePanes(tab, t)
  BY <1>1, UnsetFullscreenKeeps, KeepsSame
<1>3. /\ t.bars = tab.bars /\ t.shows = tab.shows /\ t.tiledFocus = tab.tiledFocus
      /\ t.floatFocus = tab.floatFocus
  BY <1>1 DEF UnsetFullscreen, Broken, Tabs
<1>4. c \in tab.clients /\ Becomes(Render(u), alive)
  BY DEF TogglePaneEmbedOrFloating
<1>. HIDE DEF t
<1>5. ~NoRoom => u \in Tabs /\ Holds(tab, u, {})
  BY <1>2, <1>3, <1>4, TogglePaneHolds
<1>. HIDE DEF u
<1>. QED  BY <1>4, <1>5, HeldIsExcused

LEMMA FocusWithIdHolds ==
    ASSUME NEW t \in Tabs, Cardinality(t.floating) < FloatRoom, HasTileRoom(t),
           NEW q \in Panes, NEW float \in BOOLEAN, NEW c \in Clients, NEW x
    PROVE  LET u == FocusWithId(t, q, float, c, x)
           IN  u \in Tabs /\ Holds(t, u, {})
<1>. DEFINE out == [t EXCEPT !.suppressed[q] = None]
            u == FocusWithId(t, q, float, c, x)
<1>1. CASE q \in t.tiled
  <2>1. u = Hide(FocusTiled(t, q, c, x))
    BY <1>1 DEF FocusWithId
  <2>2. SamePanes(t, FocusTiled(t, q, c, x)) /\ FocusTiled(t, q, c, x) \in Tabs
    BY FocusTiledKeeps, KeepsSame DEF SamePanes
  <2>3. SamePanes(FocusTiled(t, q, c, x), u)
    BY <2>1, <2>2, ShowsKeeps, KeepsSame
  <2>. HIDE DEF u
  <2>4. SamePanes(t, u)
    BY <2>2, <2>3, SameSame
  <2>. QED  BY <2>4, SameHolds DEF SamePanes, u
<1>2. CASE q \notin t.tiled /\ q \in t.floating
  <2>1. u = Show(FocusFloating(t, q, c))
    BY <1>2 DEF FocusWithId
  <2>2. SamePanes(t, FocusFloating(t, q, c)) /\ FocusFloating(t, q, c) \in Tabs
    BY FocusFloatingSame DEF SamePanes, Maybe
  <2>3. SamePanes(FocusFloating(t, q, c), u)
    BY <2>1, <2>2, ShowsKeeps, KeepsSame
  <2>. HIDE DEF u
  <2>4. SamePanes(t, u)
    BY <2>2, <2>3, SameSame
  <2>. QED  BY <2>4, SameHolds DEF SamePanes, u
<1>3. CASE q \notin t.tiled /\ q \notin t.floating /\ t.suppressed[q] = q
  <2>1. u \in {AddFloating(Show(out), q), AddTiled(Hide(out), q, c, x)}
    BY <1>3, NoneIsNot DEF FocusWithId
  <2>2. /\ out \in Tabs /\ out.tiled = t.tiled /\ out.floating = t.floating
        /\ out.bars = t.bars
        /\ out.suppressed = [t.suppressed EXCEPT ![q] = None]
    BY DEF Tabs, Maybe
  <2>3. \A e \in Panes : e # q => out.suppressed[e] = t.suppressed[e]
    BY <2>2, TabFields
  <2>4. Waiting(t) \ {q} \subseteq Waiting(out)
    BY <1>3, <2>3 DEF Waiting
  <2>. HIDE DEF u, out
  <2>. DEFINE s == Show(out)
              h == Hide(out)
  <2>5. SamePanes(out, s) /\ SamePanes(out, h) /\ h.bars = out.bars
    <3>1. h.bars = out.bars
      BY <2>2 DEF Hide, Tabs
    <3>. QED  BY <2>2, <3>1, ShowsKeeps, KeepsSame
  <2>6. u \in {AddFloating(s, q), AddTiled(h, q, c, x)}
    BY <2>1
  <2>. HIDE DEF s, h
  <2>7. /\ s \in Tabs /\ Cardinality(s.floating) < FloatRoom
        /\ h \in Tabs /\ HasTileRoom(h)
    BY <2>2, <2>5 DEF SamePanes, HasTileRoom
  <2>8. /\ u \in Tabs /\ u.suppressed = out.suppressed
        /\ out.tiled \cup out.floating \cup {q} \subseteq u.tiled \cup u.floating
    <3>1. CASE u = AddFloating(s, q)
      BY <2>5, <2>7, <3>1, AddFloatingFields DEF SamePanes
    <3>2. CASE u = AddTiled(h, q, c, x)
      BY <2>5, <2>7, <3>2, AddTiledFields DEF SamePanes
    <3>. QED  BY <2>6, <3>1, <3>2
  <2>9. Waiting(u) = Waiting(out)
    BY <2>8 DEF Waiting
  <2>. QED  BY <2>2, <2>4, <2>8, <2>9 DEF Holds, Here, u
<1>4. CASE q \notin t.tiled /\ q \notin t.floating /\ t.suppressed[q] # q
  <2>1. u \in {t, [t EXCEPT !.status = "mislabelled"]}
    BY <1>4 DEF FocusWithId
  <2>2. SamePanes(t, t) /\ SamePanes(t, [t EXCEPT !.status = "mislabelled"])
    BY DEF SamePanes, Tabs
  <2>. HIDE DEF u
  <2>3. SamePanes(t, u)
    BY <2>1, <2>2
  <2>. QED  BY <2>3, SameHolds DEF SamePanes, u
<1>. QED  BY <1>1, <1>2, <1>3, <1>4

LEMMA FoundSurvive ==
    ASSUME Ready, NEW c \in Clients, NEW q \in Panes, NEW float \in BOOLEAN, NEW x,
           FocusPaneWithId(q, float, c, x), NEW p \in Strays
    PROVE  Excused(p)
<1>. DEFINE u == FocusWithId(tab, q, float, c, x)
<1>1. tab \in Tabs /\ Becomes(u, alive)
  BY DEF Ready, Sees, FocusPaneWithId
<1>2. ~NoRoom => Cardinality(tab.floating) < FloatRoom /\ HasTileRoom(tab)
  BY RoomIsNeeded
<1>3. ~NoRoom => u \in Tabs /\ Holds(tab, u, {})
  BY <1>1, <1>2, FocusWithIdHolds
<1>. HIDE DEF u
<1>. QED  BY <1>1, <1>3, HeldIsExcused

LEMMA HiddenSurvive ==
    ASSUME Ready, NEW q \in Panes, NEW x, SuppressPane(q, x), NEW p \in Strays
    PROVE  Excused(p)
<1>. DEFINE closed == ClosePane(tab, q, TRUE, x)
            u == [closed EXCEPT !.suppressed[q] = q]
            old == tab.suppressed[q]
<1>1. /\ tab \in Tabs /\ q \in Plugins /\ alive \subseteq Terminals
      /\ Becomes(Render(u), alive)
  BY DEF Ready, Sees, Inv, SuppressPane
<1>2. closed \in Tabs /\ closed.suppressed = tab.suppressed /\ Holds(tab, closed, {q})
  BY <1>1, ClosePaneHolds
<1>. HIDE DEF closed
<1>3. /\ u \in Tabs /\ u.tiled = closed.tiled /\ u.floating = closed.floating
      /\ u.suppressed = [tab.suppressed EXCEPT ![q] = q]
  BY <1>2 DEF Tabs, Maybe
<1>4. \A e \in Panes : u.suppressed[e] = IF e = q THEN q ELSE tab.suppressed[e]
  BY <1>1, <1>3, TabFields
<1>5. Waiting(closed) \ {old} \subseteq Waiting(u)
  BY <1>2, <1>4 DEF Waiting
<1>6. Holds(tab, u, {q, old})
  BY <1>2, <1>3, <1>5 DEF Holds, Here
<1>7. p \in alive
  BY <1>1, <1>3, StraysAreLost
<1>8. p \in {q, old} \/ LeftWaiting(p)
  BY <1>1, <1>3, <1>6, <1>7, HeldStray
<1>9. p # q
  BY <1>1, <1>7, TabAssumption
<1>10. tab'.suppressed[q] = q
  <2>. HIDE DEF u
  <2>1. tab'.suppressed = u.suppressed
    BY <1>1, <1>3, RenderSame DEF Becomes, SamePanes
  <2>. QED  BY <1>4, <2>1
<1>11. p = old => LeftWaiting(p)
  BY <1>10 DEF LeftWaiting
<1>. QED  BY <1>7, <1>8, <1>9, <1>11, WaitedIsExcused

LEMMA StrayInOrder ==
    ASSUME Disorder = {}, Inv, Viewed(tab), Next, NEW p \in Strays
    PROVE  Excused(p)
<1>1. Ready
  BY InOrder DEF Next, Ready, Viewed, Sees, Inv, Sound
<1>2. Plugins \subseteq Panes /\ Terminals \subseteq Panes /\ tab.clients \subseteq Clients
  BY <1>1, TabFields DEF Panes, Ready, Sees
<1>3. CASE StepOfPanes
  <2>1. PICK x \in Choices(tab) :
           \/ \E c \in Clients :
                 \/ Come(c, x)
                 \/ CloseFocusedPane(c, x)
                 \/ \E toOther \in BOOLEAN : BreakPane(c, toOther, x)
                 \/ TogglePaneEmbedOrFloating(c, x)
                 \/ ToggleFloatingPanes(c, x)
                 \/ FocusNextPane(c, x)
                 \/ MoveFocus(c, x)
           \/ \E q \in Terminals : ShellExits(q, x)
           \/ \E q \in Panes : CloseTerminalPane(q, x) \/ SuppressPane(q, x)
           \/ \E b \in Plugins : SetPaneUnselectable(b, x)
    BY <1>3 DEF StepOfPanes
  <2>2. CASE \E c \in Clients :
                 \/ Come(c, x)
                 \/ CloseFocusedPane(c, x)
                 \/ \E toOther \in BOOLEAN : BreakPane(c, toOther, x)
    <3>1. TRUE \in BOOLEAN
      OBVIOUS
    <3>. QED  BY <1>1, <2>2, <3>1, ClientsComeAndGoSurvive, FocusedSurvive
  <2>3. CASE \E c \in Clients :
                 \/ TogglePaneEmbedOrFloating(c, x)
                 \/ ToggleFloatingPanes(c, x)
                 \/ FocusNextPane(c, x)
                 \/ MoveFocus(c, x)
    <3>1. \E q : q \in Panes
      BY <1>2, TabAssumption
    <3>. QED  BY <1>1, <2>3, <3>1, ToggledSurvive, FocusSurvives
  <2>4. CASE \/ \E q \in Terminals : ShellExits(q, x)
             \/ \E q \in Panes : CloseTerminalPane(q, x) \/ SuppressPane(q, x)
             \/ \E b \in Plugins : SetPaneUnselectable(b, x)
    BY <1>1, <1>2, <2>4, ExitsSurvive, HiddenSurvive, BarSurvives
  <2>. QED  BY <2>1, <2>2, <2>3, <2>4
<1>4. CASE StepOfOnePane
  <2>1. PICK x \in ClientChoices(tab), q \in Panes :
           \/ \E c \in tab.clients :
                 \/ ToggleFullscreen(c, x)
                 \/ Click(c, q, x)
                 \/ \E float \in BOOLEAN : FocusPaneWithId(q, float, c, x)
                 \/ \E fits \in BOOLEAN : Split(q, c, fits, x)
           \/ \E float \in Floats :
                 \/ \E c \in Maybe(tab.clients) : NewTerminal(q, float, c, x)
                 \/ AddPlugin(q, float, x)
    BY <1>4 DEF StepOfOnePane
  <2>. QED
    BY <1>1, <1>2, <2>1, FocusSurvives, FoundSurvive, SplitSurvives, OpenedSurvive
<1>5. CASE \E c \in Clients : Leave(c) \/ GoToOtherTab(c)
  <2>1. Choices(tab) # {}
    <3>1. Selectable(tab) # {} /\ Firsts(tab) # {}
      BY <1>1 DEF Ready, Firsts
    <3>2. PICK q \in tab.tiled, d \in Firsts(tab) : TRUE
      BY <3>1 DEF Selectable
    <3>3. [pane |-> q, client |-> d] \in Choices(tab)
      BY <3>2 DEF Choices
    <3>. QED  BY <3>3
  <2>. QED  BY <1>1, <1>5, <2>1, ClientsComeAndGoSurvive
<1>6. CASE \E c \in Clients, q \in Terminals : OpenInPlaceEditor(q, c)
  BY <1>1, <1>6, EditorSurvives
<1>7. CASE \E q \in Panes, old \in Panes : ReplacePane(old, q)
  BY <1>1, <1>7, ReplacementSurvives
<1>8. CASE Draw
  BY <1>1, <1>8 DEF Draw, Ready
<1>. QED  BY <1>3, <1>4, <1>5, <1>6, <1>7, <1>8 DEF Next, Move

(* When nothing comes in disorder, a pane whose process runs stays with the *)
(* tab, except in the ways that PanesSurvive names: no other request drops  *)
(* it, for any number of panes and clients.                                *)
THEOREM RunningPanesStay ==
    ASSUME Disorder = {}
    PROVE  Spec => PanesSurvive
<1>1. Inv /\ Viewed(tab) /\ [Next]_vars => [\A p \in Strays : Excused(p)]_vars
  BY StrayInOrder
<1>2. [\A p \in Strays : Excused(p)]_vars
        => [tab'.status \in {"open", "closed"} =>
              \A p \in Homeless(tab', alive') \ Homeless(tab, alive) :
                 \/ NoRoom
                 \/ p \in alive /\ LeftWaiting(p)
                 \/ /\ tab.shows
                    /\ \E c \in Clients, x \in ClientChoices(tab) : Split(p, c, TRUE, x)
                 \/ \E c \in Clients :
                       ActivePane(tab, c) \notin Layer(tab) /\ OpenInPlaceEditor(p, c)
                 \/ \E old \in Waiting(tab) : ReplacePane(old, p)
                 \/ \E x \in Choices(tab) : CloseTerminalPane(p, x)]_vars
  BY DEF Strays, Excused
<1>. QED  BY <1>1, <1>2, Invariance, InOrderAlways, PTL DEF Spec, PanesSurvive

=============================================================================

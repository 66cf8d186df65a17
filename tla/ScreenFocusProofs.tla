------------------------- MODULE ScreenFocusProofs -------------------------
(***************************************************************************)
(* Who looks at which tab: the theorems about the focus of the clients in  *)
(* ScreenTabs.                                                             *)
(*                                                                         *)
(* ToggleReturns needs no more than the invariant of ScreenTabsProofs. The *)
(* others hold in an orderly session (Orderly) and rest on Calm: as long   *)
(* as the screen thread lives,                                             *)
(*   - every client sits in the one loaded tab it looks at (Seats);        *)
(*   - every pending tab has its NewTab on the way, for a client of the    *)
(*     screen or, while there is none, for the first one (Waits);          *)
(*   - no switch waits, and at most one tab is dead and then none is on    *)
(*     its way, so that render() never closes a tab twice (OneDies).       *)
(* The argument goes method by method: from a screen on which nothing is   *)
(* pending (Quiet) each method of Screen leads to such a screen and moves  *)
(* no client but the one it acts for (Alone).  NewTab and ApplyLayout are  *)
(* the only instructions handled while a tab is on its way.                *)
(*                                                                         *)
(* MirroredStep is about one instruction, and holds of every session. Each *)
(* method keeps the mirrored clients Level: at one tab, by one way, and in *)
(* no other loaded tab.                                                    *)
(***************************************************************************)
EXTENDS ScreenTabsProofs

(* What the runs of an orderly session assume: every client has its own    *)
(* focus, requests come from clients of the screen, and none is handled    *)
(* while a tab loads or waits to be closed.                                *)
Orderly == ~Mirrored /\ ~LateRequests /\ ~Overlap

(* A client of the screen is connected, has a history, and is in the       *)
(* loaded tab it looks at; a loaded tab has no other clients.              *)
Seats(s) ==
    /\ Attached(s) \subseteq s.connected /\ Attached(s) \subseteq DOMAIN s.history
    /\ \A c \in Attached(s) :
          /\ s.active[c] \in TabIndices(s)
          /\ ~s.tabs[s.active[c]].pending
          /\ c \in s.tabs[s.active[c]].clients
    /\ \A i \in TabIndices(s) : ~s.tabs[i].pending =>
          \A c \in s.tabs[i].clients : c \in Attached(s) /\ s.active[c] = i

(* No tab is loading, and no tab but those of D has lost its panes.        *)
Loaded(s, D) ==
    \A i \in TabIndices(s) : ~s.tabs[i].pending /\ (i \notin D => s.tabs[i].live)

(* A screen between two requests, up to the tabs of D that are to be       *)
(* closed.                                                                 *)
Quiet(s, D) == Good(s) /\ ~s.failed /\ Seats(s) /\ Loaded(s, D)

(* From s to t only client e leaves a tab that stays.                      *)
Alone(s, t, e) ==
    \A d \in Attached(s) \cap Attached(t) :
        d # e /\ s.active[d] \in TabIndices(t) => t.active[d] = s.active[d]

(* The step from s to t brings no new tab and no new client. *)
Shrinks(s, t) == TabIndices(t) \subseteq TabIndices(s) /\ Attached(t) \subseteq Attached(s)

LEMMA AloneTransitive ==
    ASSUME NEW s, NEW t, NEW u, NEW e, Alone(s, t, e), Alone(t, u, e), Shrinks(t, u)
    PROVE  Alone(s, u, e)
BY DEF Alone, Shrinks

----------------------------------------------------------------------------
(* Switching to another tab, in a session that is not mirrored. *)

(* t is s with client c moved to tab n. *)
Moved(s, t, c, n) ==
    /\ TabIndices(t) = TabIndices(s)
    /\ \A i \in TabIndices(s) :
         t.tabs[i] = IF i = s.active[c] THEN RemoveClients(s.tabs[i], {c})
                     ELSE IF i = n THEN AddClients(s.tabs[i], {c}) ELSE s.tabs[i]
    /\ Attached(t) = Attached(s)
    /\ t.active[c] = n
    /\ \A d \in Attached(s) : d # c => t.active[d] = s.active[d]
    /\ DOMAIN t.history = DOMAIN s.history \cup {c}
    /\ t.history[c] = Append(Without(History(s, c), n), s.active[c])
    /\ t.connected = s.connected /\ t.failed = s.failed /\ t.ended = s.ended

(* There is a tab at position pos, and c looks at another. *)
Leads(s, pos, c) ==
    /\ \E i \in TabIndices(s) : s.tabs[i].position = pos
    /\ HasActiveTab(s, c) /\ s.tabs[s.active[c]].position # pos

LEMMA SwitchStays ==
    ASSUME NEW s, NEW c, NEW pos, ~Leads(s, pos, c)
    PROVE  SwitchActiveTab(s, pos, c) = s
BY Zenon DEF SwitchActiveTab, Leads

LEMMA SwitchMoves ==
    ASSUME ~Mirrored, NEW s, ScreenOK(s), NEW c \in Clients, NEW pos,
           Leads(s, pos, c)
    PROVE  \E n \in TabIndices(s) :
             s.tabs[n].position = pos /\ Moved(s, SwitchActiveTab(s, pos, c), c, n)
<1>. DEFINE found == {i \in TabIndices(s) : s.tabs[i].position = pos}
            cur   == s.active[c]
            n     == LeastOf(found)
            g     == [s.tabs EXCEPT ![cur] = RemoveClients(@, {c})]
            h     == [g EXCEPT ![n] = AddClients(@, {c})]
            moved == MoveClientsBetweenTabs(s, cur, n, {c})
            t     == UpdateClientTabFocus(moved, {c}, n)
<1>1. /\ found # {} /\ HasActiveTab(s, c) /\ s.tabs[cur].position # pos
      /\ SwitchActiveTab(s, pos, c) = t
  <2>1. found # {} /\ HasActiveTab(s, c) /\ s.tabs[cur].position # pos
    BY DEF Leads
  <2>. QED  BY <2>1, Zenon DEF SwitchActiveTab
<1>2. found \in SUBSET Nat
  BY ScreenFields, BoundAssumption DEF Indices
<1>3. n \in found
  BY <1>1, <1>2, LeastExists
<1>4. cur \in TabIndices(s) /\ c \in Attached(s) /\ n # cur
  BY <1>1, <1>3 DEF HasActiveTab
<1>5. moved = [s EXCEPT !.tabs = h]
  BY ScreenIsOK DEF MoveClientsBetweenTabs, Screens
<1>6. /\ DOMAIN h = TabIndices(s)
      /\ \A i \in TabIndices(s) :
           h[i] = IF i = cur THEN RemoveClients(s.tabs[i], {c})
                  ELSE IF i = n THEN AddClients(s.tabs[i], {c}) ELSE s.tabs[i]
  BY <1>3, <1>4, ScreenFields DEF TabIndices
<1>. HIDE DEF g, h, n
<1>7. /\ moved.tabs = h /\ moved.active = s.active /\ moved.history = s.history
      /\ moved.connected = s.connected /\ moved.failed = s.failed /\ moved.ended = s.ended
  BY <1>5, ScreenIsOK DEF Screens
<1>8. Keeps(s, moved)
  BY MoveClientsBetweenTabsKeeps
<1>. HIDE DEF moved
<1>9. moved \in Screens
  BY <1>8, ScreenIsOK DEF Keeps
<1>10. History(moved, c) = History(s, c) /\ Attached(moved) = Attached(s)
  BY <1>7 DEF History, Attached
<1>11. /\ t.tabs = h
       /\ t.active = [d \in Attached(s) \cup {c} |-> IF d = c THEN n ELSE s.active[d]]
       /\ t.history = [d \in DOMAIN s.history \cup ({c} \cap Attached(s)) |->
                         IF d \in {c} \cap Attached(s)
                         THEN Append(Without(History(s, c), n), cur)
                         ELSE s.history[d]]
       /\ t.connected = s.connected /\ t.failed = s.failed /\ t.ended = s.ended
  <2>1. t = [moved EXCEPT
              !.active  = [d \in DOMAIN moved.active \cup {c} |->
                             IF d \in {c} THEN n ELSE moved.active[d]],
              !.history = [d \in DOMAIN moved.history \cup ({c} \cap Attached(moved)) |->
                             IF d \in {c} \cap Attached(moved)
                             THEN Append(Without(History(moved, d), n), moved.active[d])
                             ELSE moved.history[d]]]
    BY DEF UpdateClientTabFocus
  <2>2. /\ t.tabs = moved.tabs
        /\ t.active = [d \in DOMAIN moved.active \cup {c} |->
                             IF d \in {c} THEN n ELSE moved.active[d]]
        /\ t.history = [d \in DOMAIN moved.history \cup ({c} \cap Attached(moved)) |->
                             IF d \in {c} \cap Attached(moved)
                             THEN Append(Without(History(moved, d), n), moved.active[d])
                             ELSE moved.history[d]]
        /\ t.connected = moved.connected /\ t.failed = moved.failed
        /\ t.ended = moved.ended
    BY <1>9, <2>1 DEF Screens
  <2>. HIDE DEF t
  <2>3. t.active = [d \in Attached(s) \cup {c} |-> IF d = c THEN n ELSE s.active[d]]
    BY <1>7, <2>2 DEF Attached
  <2>4. t.history = [d \in DOMAIN s.history \cup ({c} \cap Attached(s)) |->
                         IF d \in {c} \cap Attached(s)
                         THEN Append(Without(History(s, c), n), cur)
                         ELSE s.history[d]]
    BY <1>7, <1>10, <2>2
  <2>. QED  BY <1>7, <2>2, <2>3, <2>4
<1>. HIDE DEF t
<1>12. Moved(s, t, c, n)
  <2>0. cur = s.active[c] /\ c \in DOMAIN s.active
    BY <1>4 DEF Attached
  <2>. HIDE DEF cur
  <2>1. /\ TabIndices(t) = TabIndices(s) /\ t.active[c] = n
        /\ \A i \in TabIndices(s) :
             t.tabs[i] = IF i = cur THEN RemoveClients(s.tabs[i], {c})
                         ELSE IF i = n THEN AddClients(s.tabs[i], {c}) ELSE s.tabs[i]
    BY <1>6, <1>11 DEF TabIndices
  <2>2. Attached(t) = Attached(s)
    BY <1>4, <1>11 DEF Attached
  <2>3. \A d \in Attached(s) : d # c => t.active[d] = s.active[d]
    BY <1>11
  <2>4. {c} \cap Attached(s) = {c}
    BY <1>4
  <2>5. /\ DOMAIN t.history = DOMAIN s.history \cup {c}
        /\ t.history[c] = Append(Without(History(s, c), n), cur)
    BY <1>11, <2>4
  <2>. QED  BY <1>11, <2>0, <2>1, <2>2, <2>3, <2>5 DEF Moved
<1>. QED  BY <1>1, <1>3, <1>12

(* pop is s after the last entry of the history of c is used up. *)
LEMMA PoppedFields ==
    ASSUME NEW s, ScreenOK(s), NEW c \in DOMAIN s.history, s.history[c] # <<>>
    PROVE  LET pop == [s EXCEPT !.history[c] = SubSeq(@, 1, Len(@) - 1)]
           IN  /\ ScreenOK(pop)
               /\ pop.tabs = s.tabs /\ pop.active = s.active /\ pop.connected = s.connected
               /\ pop.failed = s.failed /\ DOMAIN pop.history = DOMAIN s.history
<1>. DEFINE h    == s.history[c]
            less == [s.history EXCEPT ![c] = SubSeq(h, 1, Len(h) - 1)]
<1>1. h \in Seq(Indices) /\ c \in Clients
  BY ScreenFields
<1>2. SubSeq(h, 1, Len(h) - 1) \in Seq(Indices)
  BY <1>1
<1>3. DOMAIN less = DOMAIN s.history /\ less \in [DOMAIN less -> Seq(Indices)]
  BY <1>2, ScreenFields
<1>4. less \in Partial(Clients, Seq(Indices))
  BY <1>3, ScreenFields, PartialMember
<1>5. [s EXCEPT !.history[c] = SubSeq(@, 1, Len(@) - 1)] = [s EXCEPT !.history = less]
  OBVIOUS
<1>. HIDE DEF less
<1>. QED  BY <1>3, <1>4, <1>5, ScreenIsOK DEF Screens

(* The toggle-tab key leads back, whatever tab the client has switched to. *)
LEMMA SwitchThenPop ==
    ASSUME ~Mirrored, NEW s, ScreenOK(s), Distinct(s), NEW c \in Clients, NEW pos,
           SwitchActiveTab(s, pos, c) # s
    PROVE  PopHistory(SwitchActiveTab(s, pos, c), c).active[c] = s.active[c]
<1>. DEFINE t   == SwitchActiveTab(s, pos, c)
            cur == s.active[c]
            h   == t.history[c]
            pop == [t EXCEPT !.history[c] = SubSeq(@, 1, Len(@) - 1)]
            at  == t.tabs[cur].position
<1>1. Leads(s, pos, c)
  BY SwitchStays
<1>2. PICK n \in TabIndices(s) : s.tabs[n].position = pos /\ Moved(s, t, c, n)
  BY <1>1, SwitchMoves
<1>3. Keeps(s, t)
  BY SwitchActiveTabKeeps
<1>. HIDE DEF t
<1>4. cur \in TabIndices(s) /\ c \in Attached(s) /\ s.tabs[cur].position # pos
  BY <1>1 DEF Leads, HasActiveTab
<1>5. cur \in TabIndices(t) /\ h # <<>> /\ h[Len(h)] = cur /\ c \in DOMAIN t.history
  <2>1. Without(History(s, c), n) \in Seq(Indices)
    BY HistoryType, WithoutType
  <2>2. cur \in Indices
    BY <1>4, ScreenFields
  <2>3. h = Append(Without(History(s, c), n), cur)
    BY <1>2 DEF Moved
  <2>. QED  BY <1>2, <1>4, <2>1, <2>2, <2>3 DEF Moved
<1>6. PopHistory(t, c) = SwitchActiveTab(pop, at, c)
  BY <1>5, Zenon DEF PopHistory
<1>7. /\ ScreenOK(pop)
      /\ pop.tabs = t.tabs /\ pop.active = t.active /\ pop.connected = t.connected
  BY <1>3, <1>5, PoppedFields DEF Keeps
<1>. HIDE DEF pop, h
<1>8. /\ TabIndices(pop) = TabIndices(s) /\ Attached(pop) = Attached(s)
      /\ \A i \in TabIndices(s) : pop.tabs[i].position = s.tabs[i].position
      /\ pop.active[c] = n /\ at = s.tabs[cur].position
  BY <1>2, <1>3, <1>4, <1>7 DEF Keeps, SameBar, Moved, TabIndices, Attached
<1>. HIDE DEF at
<1>9. Leads(pop, at, c)
  BY <1>2, <1>4, <1>8 DEF Leads, HasActiveTab
<1>10. PICK m \in TabIndices(pop) :
         pop.tabs[m].position = at /\ Moved(pop, SwitchActiveTab(pop, at, c), c, m)
  BY <1>7, <1>9, SwitchMoves
<1>11. m = cur
  BY <1>4, <1>8, <1>10 DEF Distinct
<1>. QED  BY <1>6, <1>10, <1>11 DEF t, Moved

(* In a session that is not mirrored, ToggleTab after a switch brings the    *)
(* client back to the tab it came from, for any clients and tabs and after   *)
(* any requests, those of unknown clients and those that overtake a loading  *)
(* tab included.                                                             *)
THEOREM ToggleLeadsBack == ASSUME ~Mirrored PROVE Spec => []ToggleReturns
<1>1. Inv => ToggleReturns
  <2>. SUFFICES ASSUME Inv, NEW c \in Attached(screen), NEW p \in Positions,
                       SwitchActiveTab(screen, p, c) # screen
                PROVE  PopHistory(SwitchActiveTab(screen, p, c), c).active[c]
                         = screen.active[c]
    BY DEF ToggleReturns
  <2>1. ScreenOK(screen) /\ Distinct(screen) /\ c \in Clients
    BY ScreenFields DEF Inv, Good
  <2>. QED  BY <2>1, SwitchThenPop
<1>. QED  BY <1>1, TabsInvariant, PTL

----------------------------------------------------------------------------
(* The methods keep the clients seated. *)

(* What a method keeps besides: it moves nobody but e, and it brings nobody. *)
Orders(s, t, e) == Alone(s, t, e) /\ Shrinks(s, t)

LEMMA SwitchSeats ==
    ASSUME ~Mirrored, NEW s, NEW D, NEW c \in Clients, Quiet(s, D), NEW pos,
           HasActiveTab(s, c) => \A i \in D : i = s.active[c]
    PROVE  LET t == SwitchActiveTab(s, pos, c)
           IN  /\ Quiet(t, D) /\ Orders(s, t, c)
               /\ TabIndices(t) = TabIndices(s) /\ Attached(t) = Attached(s)
<1>. DEFINE t == SwitchActiveTab(s, pos, c)
<1>1. CASE ~Leads(s, pos, c)
  <2>1. t = s
    BY <1>1, SwitchStays
  <2>. QED  BY <2>1 DEF Orders, Alone, Shrinks
<1>2. CASE Leads(s, pos, c)
  <2>0. Good(s) /\ ScreenOK(s) /\ ~s.failed /\ Seats(s) /\ Loaded(s, D)
    BY DEF Quiet, Good
  <2>1. PICK n \in TabIndices(s) : s.tabs[n].position = pos /\ Moved(s, t, c, n)
    BY <1>2, <2>0, SwitchMoves
  <2>2. Good(t)
    BY <2>0, SwitchActiveTabKeeps, SameBarIsGood
  <2>. HIDE DEF t
  <2>. DEFINE cur == s.active[c]
  <2>3. c \in Attached(s) /\ cur \in TabIndices(s) /\ n # cur
    BY <1>2, <2>1 DEF Leads, HasActiveTab
  <2>4. \A i \in TabIndices(s) : s.tabs[i] \in Tabs
    BY <2>0, ScreenFields
  <2>5. t.tabs[n] = [s.tabs[n] EXCEPT !.clients = @ \cup {c}]
    <3>1. s.tabs[n].live
      BY <1>2, <2>0, <2>3 DEF Loaded, Leads
    <3>. QED  BY <2>1, <2>3, <3>1 DEF Moved, AddClients, HasPanes
  <2>6. t.tabs[cur] = [s.tabs[cur] EXCEPT !.clients = @ \ {c}]
    BY <2>1, <2>3 DEF Moved, RemoveClients
  <2>7. \A i \in TabIndices(s) :
          /\ t.tabs[i].live = s.tabs[i].live /\ t.tabs[i].pending = s.tabs[i].pending
          /\ t.tabs[i].clients = IF i = cur THEN s.tabs[i].clients \ {c}
                                 ELSE IF i = n THEN s.tabs[i].clients \cup {c}
                                 ELSE s.tabs[i].clients
    <3>1. \A i \in TabIndices(s) : i # cur /\ i # n => t.tabs[i] = s.tabs[i]
      BY <2>1 DEF Moved
    <3>2. /\ t.tabs[n].live = s.tabs[n].live /\ t.tabs[n].pending = s.tabs[n].pending
          /\ t.tabs[n].clients = s.tabs[n].clients \cup {c}
      BY <2>4, <2>5 DEF Tabs
    <3>3. /\ t.tabs[cur].live = s.tabs[cur].live /\ t.tabs[cur].pending = s.tabs[cur].pending
          /\ t.tabs[cur].clients = s.tabs[cur].clients \ {c}
      BY <2>3, <2>4, <2>6 DEF Tabs
    <3>. QED  BY <2>3, <3>1, <3>2, <3>3
  <2>. DEFINE at(d) == IF d = c THEN n ELSE s.active[d]
  <2>8. Seats(t)
    <3>0. /\ TabIndices(t) = TabIndices(s) /\ Attached(t) = Attached(s)
          /\ \A d \in Attached(s) : t.active[d] = at(d)
      BY <2>1 DEF Moved
    <3>. HIDE DEF cur
    <3>1. Attached(t) \subseteq t.connected /\ Attached(t) \subseteq DOMAIN t.history
      BY <2>0, <2>1 DEF Seats, Moved
    <3>2. ASSUME NEW d \in Attached(s)
          PROVE  /\ at(d) \in TabIndices(s)
                 /\ ~s.tabs[at(d)].pending
                 /\ d \in t.tabs[at(d)].clients
      <4>1. CASE d = c
        BY <2>0, <2>3, <2>7, <4>1 DEF Loaded
      <4>2. CASE d # c
        <5>1. /\ s.active[d] \in TabIndices(s) /\ ~s.tabs[s.active[d]].pending
              /\ d \in s.tabs[s.active[d]].clients
          BY <2>0 DEF Seats
        <5>2. d \in t.tabs[s.active[d]].clients
          BY <2>7, <4>2, <5>1
        <5>. QED  BY <4>2, <5>1, <5>2
      <4>. QED  BY <4>1, <4>2
    <3>3. ASSUME NEW i \in TabIndices(s), ~s.tabs[i].pending, NEW d \in t.tabs[i].clients
          PROVE  d \in Attached(s) /\ at(d) = i
      <4>1. CASE d = c
        <5>1. i = n
          <6>. SUFFICES ASSUME i # n PROVE FALSE
            OBVIOUS
          <6>1. i # cur /\ d \in s.tabs[i].clients
            BY <2>7, <3>3, <4>1
          <6>. QED  BY <2>0, <3>3, <4>1, <6>1 DEF Seats, cur
        <5>. QED  BY <2>3, <4>1, <5>1
      <4>2. CASE d # c
        <5>1. d \in s.tabs[i].clients
          BY <2>7, <3>3, <4>2
        <5>. QED  BY <2>0, <3>3, <4>2, <5>1 DEF Seats
      <4>. QED  BY <4>1, <4>2
    <3>. HIDE DEF at
    <3>4. \A d \in Attached(t) : /\ t.active[d] \in TabIndices(t)
                                 /\ ~t.tabs[t.active[d]].pending
                                 /\ d \in t.tabs[t.active[d]].clients
      <4>. SUFFICES ASSUME NEW d \in Attached(s)
                    PROVE  /\ at(d) \in TabIndices(s) /\ ~t.tabs[at(d)].pending
                           /\ d \in t.tabs[at(d)].clients
        BY <3>0
      <4>1. at(d) \in TabIndices(s) /\ ~s.tabs[at(d)].pending /\ d \in t.tabs[at(d)].clients
        BY <3>2
      <4>. QED  BY <2>7, <4>1
    <3>5. \A i \in TabIndices(t) : ~t.tabs[i].pending =>
            \A d \in t.tabs[i].clients : d \in Attached(t) /\ t.active[d] = i
      <4>. SUFFICES ASSUME NEW i \in TabIndices(s), ~t.tabs[i].pending,
                           NEW d \in t.tabs[i].clients
                    PROVE  d \in Attached(s) /\ at(d) = i
        BY <3>0
      <4>1. ~s.tabs[i].pending
        BY <2>7
      <4>. QED  BY <3>3, <4>1
    <3>. QED  BY <3>1, <3>4, <3>5 DEF Seats
  <2>9. Loaded(t, D)
    BY <2>0, <2>1, <2>7 DEF Loaded, Moved
  <2>10. Orders(s, t, c)
    BY <2>1 DEF Orders, Alone, Shrinks, Moved
  <2>. QED  BY <2>0, <2>1, <2>2, <2>8, <2>9, <2>10 DEF Quiet, Moved, t
<1>. QED  BY <1>1, <1>2

LEMMA ActorIsAsker ==
    ASSUME NEW s, NEW D, Quiet(s, D), NEW c \in Attached(s)
    PROVE  HasActiveTab(s, c) /\ Actor(s, c) = c /\ c \in Clients /\ c # NoClient
BY ScreenFields, ClientsAssumption DEF Quiet, Good, Seats, HasActiveTab, Actor, NoClient

(* t is s without tab i, its clients placed in the tabs that are left. *)
Closed(s, t, i) ==
    /\ TabIndices(t) = TabIndices(s) \ {i}
    /\ Attached(t) = Attached(s) \cup s.tabs[i].clients
    /\ \A d \in Attached(t) :
         IF d \in s.tabs[i].clients THEN t.active[d] \in TabIndices(t)
         ELSE t.active[d] = s.active[d]
    /\ \A j \in TabIndices(t) :
         /\ t.tabs[j].live = s.tabs[j].live /\ t.tabs[j].pending = s.tabs[j].pending
         /\ t.tabs[j].clients =
              s.tabs[j].clients \cup {d \in s.tabs[i].clients : t.active[d] = j}
    /\ DOMAIN t.history = DOMAIN s.history \cup s.tabs[i].clients
    /\ t.connected = s.connected /\ t.failed = s.failed

LEMMA CloseMoves ==
    ASSUME NEW s, ScreenOK(s), NEW i \in TabIndices(s), TabIndices(s) # {i},
           \A j \in TabIndices(s) : j # i => s.tabs[j].live
    PROVE  Closed(s, CloseOneTab(s, i), i)
<1>. DEFINE C    == s.tabs[i].clients
            left == [j \in TabIndices(s) \ {i} |-> s.tabs[j]]
            rest == [s EXCEPT !.tabs = left]
            prev(c) == History(rest, c)
            home(c) == IF prev(c) # <<>> /\ prev(c)[Len(prev(c))] \in TabIndices(rest)
                       THEN prev(c)[Len(prev(c))]
                       ELSE LeastOf(TabIndices(rest))
            here(j) == {c \in C : home(c) = j}
            moved(j) == IF here(j) = {} THEN rest.tabs[j] ELSE AddClients(rest.tabs[j], here(j))
            move == MoveClientsFromClosedTab(rest, C)
            g    == [j \in DOMAIN move.tabs |-> MoveDown(move.tabs[j], s.tabs[i].position)]
            t    == [move EXCEPT !.tabs = g]
<1>1. DOMAIN left = TabIndices(s) \ {i} /\ left \in [DOMAIN left -> Tabs]
  BY ScreenFields
<1>2. \A j \in TabIndices(s) \ {i} : left[j] = s.tabs[j]
  OBVIOUS
<1>. HIDE DEF left
<1>3. ScreenOK(rest) /\ rest.tabs = left
  BY <1>1, ScreenFields, TabsReplaced
<1>4. TabIndices(rest) = TabIndices(s) \ {i} /\ TabIndices(rest) # {}
  BY <1>1, <1>3 DEF TabIndices
<1>5. CloseOneTab(s, i) = t
  BY <1>4, Zenon DEF CloseOneTab, left, TabIndices
<1>6. /\ rest.active = s.active /\ rest.history = s.history
      /\ rest.connected = s.connected /\ rest.failed = s.failed
  BY ScreenIsOK DEF Screens
<1>7. \A c : home(c) \in TabIndices(rest)
  BY <1>3, <1>4, LeastTab
<1>8. C \in SUBSET Clients
  BY ScreenFields DEF Tabs
<1>9. /\ move.active = [c \in Attached(s) \cup C |-> IF c \in C THEN home(c) ELSE s.active[c]]
      /\ DOMAIN move.history = DOMAIN s.history \cup C
      /\ move.tabs = [j \in TabIndices(rest) |-> moved(j)]
      /\ move.connected = s.connected /\ move.failed = s.failed
  <2>. DEFINE short(c) == IF prev(c) = <<>> THEN <<>> ELSE SubSeq(prev(c), 1, Len(prev(c)) - 1)
              f == [c \in DOMAIN rest.active \cup C |-> IF c \in C THEN home(c) ELSE rest.active[c]]
              h == [c \in DOMAIN rest.history \cup C |->
                      IF c \notin C THEN rest.history[c] ELSE short(c)]
              m == [j \in DOMAIN rest.tabs |-> moved(j)]
  <2>1. move = [rest EXCEPT !.active = f, !.history = h, !.tabs = m]
    BY DEF MoveClientsFromClosedTab
  <2>. HIDE DEF rest
  <2>2. DOMAIN h = DOMAIN s.history \cup C
    BY <1>6
  <2>3. f = [c \in Attached(s) \cup C |-> IF c \in C THEN home(c) ELSE s.active[c]]
    BY <1>6 DEF Attached
  <2>4. m = [j \in TabIndices(rest) |-> moved(j)]
    BY DEF TabIndices
  <2>. HIDE DEF f, h, m, moved, home, move
  <2>5. /\ move.active = f /\ move.history = h /\ move.tabs = m
        /\ move.connected = rest.connected /\ move.failed = rest.failed
    BY <1>3, <2>1, ScreenIsOK DEF Screens
  <2>. QED  BY <1>6, <2>2, <2>3, <2>4, <2>5
<1>10. Keeps(rest, move)
  BY <1>3, <1>4, <1>8, MoveClientsFromClosedTabKeeps
<1>11. ASSUME NEW j \in TabIndices(rest)
       PROVE  /\ moved(j).live = s.tabs[j].live /\ moved(j).pending = s.tabs[j].pending
              /\ moved(j).clients = s.tabs[j].clients \cup here(j)
  <2>1. s.tabs[j] \in Tabs /\ s.tabs[j].live /\ rest.tabs[j] = s.tabs[j]
    BY <1>2, <1>3, <1>4, ScreenFields
  <2>. HIDE DEF here, rest
  <2>2. AddClients(s.tabs[j], here(j)) = [s.tabs[j] EXCEPT !.clients = @ \cup here(j)]
    BY <2>1 DEF AddClients, HasPanes
  <2>. QED  BY <2>1, <2>2 DEF Tabs
<1>. HIDE DEF rest, home, moved, move
<1>12. /\ t.tabs = g /\ t.active = move.active /\ t.history = move.history
       /\ t.connected = move.connected /\ t.failed = move.failed
  BY <1>10, ScreenIsOK DEF Keeps, Screens
<1>13. ASSUME NEW j \in TabIndices(rest)
       PROVE  /\ g[j].live = moved(j).live /\ g[j].pending = moved(j).pending
              /\ g[j].clients = moved(j).clients
  <2>1. move.tabs[j] \in Tabs /\ move.tabs[j] = moved(j) /\ j \in DOMAIN move.tabs
    BY <1>9, <1>10, ScreenFields DEF Keeps, SameBar
  <2>. QED  BY <2>1 DEF MoveDown, Tabs
<1>14. DOMAIN g = TabIndices(rest)
  BY <1>9
<1>. HIDE DEF g, t
<1>15. /\ TabIndices(t) = TabIndices(s) \ {i}
       /\ Attached(t) = Attached(s) \cup C
       /\ DOMAIN t.history = DOMAIN s.history \cup C
       /\ t.connected = s.connected /\ t.failed = s.failed
  BY <1>4, <1>9, <1>12, <1>14 DEF TabIndices, Attached
<1>16. \A d \in Attached(t) : t.active[d] = IF d \in C THEN home(d) ELSE s.active[d]
  BY <1>9, <1>12, <1>15
<1>17. \A d \in Attached(t) : IF d \in C THEN t.active[d] \in TabIndices(t)
                              ELSE t.active[d] = s.active[d]
  BY <1>4, <1>7, <1>15, <1>16
<1>18. ASSUME NEW j \in TabIndices(t)
       PROVE  /\ t.tabs[j].live = s.tabs[j].live /\ t.tabs[j].pending = s.tabs[j].pending
              /\ t.tabs[j].clients = s.tabs[j].clients \cup {d \in C : t.active[d] = j}
  <2>1. here(j) = {d \in C : t.active[d] = j}
    BY <1>15, <1>16
  <2>. HIDE DEF here
  <2>. QED  BY <1>4, <1>11, <1>12, <1>13, <1>15, <2>1
<1>. QED  BY <1>5, <1>15, <1>17, <1>18 DEF Closed

LEMMA LastClosed ==
    ASSUME NEW s, ScreenOK(s), NEW i, TabIndices(s) = {i}
    PROVE  LET t == CloseOneTab(s, i)
           IN  TabIndices(t) = {} /\ Attached(t) = {} /\ t.failed = s.failed
<1>. DEFINE left == [j \in TabIndices(s) \ {i} |-> s.tabs[j]]
            rest == [s EXCEPT !.tabs = left]
            t    == [rest EXCEPT !.active = <<>>, !.ended = TRUE]
<1>1. rest.tabs = left /\ rest.failed = s.failed /\ TabIndices(rest) = {}
  BY ScreenIsOK DEF Screens, TabIndices
<1>2. CloseOneTab(s, i) = t
  BY <1>1, Zenon DEF CloseOneTab, left, TabIndices
<1>3. DOMAIN left = {} /\ left \in [DOMAIN left -> Tabs]
  BY ScreenFields
<1>. HIDE DEF left
<1>4. ScreenOK(rest)
  BY <1>3, TabsReplaced
<1>. HIDE DEF rest
<1>5. t.tabs = rest.tabs /\ t.active = <<>> /\ t.failed = rest.failed
  BY <1>4, ScreenIsOK DEF Screens
<1>. QED  BY <1>1, <1>2, <1>5 DEF TabIndices, Attached

LEMMA CloseSeats ==
    ASSUME NEW s, NEW i \in TabIndices(s), Quiet(s, {i})
    PROVE  LET t == CloseOneTab(s, i)
           IN  /\ Quiet(t, {}) /\ \A e : Orders(s, t, e)
               /\ TabIndices(t) = TabIndices(s) \ {i}
               /\ TabIndices(t) # {} => Attached(t) = Attached(s)
<1>. DEFINE t == CloseOneTab(s, i)
<1>0. Good(s) /\ ScreenOK(s) /\ ~s.failed /\ Seats(s) /\ Loaded(s, {i})
  BY DEF Quiet, Good
<1>1. Good(t)
  BY <1>0, CloseOneTabIsGood
<1>2. CASE TabIndices(s) = {i}
  <2>1. TabIndices(t) = {} /\ Attached(t) = {} /\ t.failed = s.failed
    BY <1>0, <1>2, LastClosed
  <2>2. ScreenOK(t)
    BY <1>1 DEF Good
  <2>. HIDE DEF t
  <2>3. Seats(t)
    BY <2>1 DEF Seats
  <2>. QED  BY <1>0, <1>1, <1>2, <2>1, <2>3
            DEF t, Quiet, Loaded, Orders, Alone, Shrinks
<1>3. CASE TabIndices(s) # {i}
  <2>1. Closed(s, t, i)
    BY <1>0, <1>3, CloseMoves DEF Loaded
  <2>. HIDE DEF t
  <2>. DEFINE C == s.tabs[i].clients
  <2>2. \A d \in C : d \in Attached(s) /\ s.active[d] = i
    BY <1>0 DEF Seats, Loaded
  <2>3. \A d \in Attached(s) : s.active[d] = i => d \in C
    BY <1>0 DEF Seats
  <2>4. Attached(t) = Attached(s) /\ TabIndices(t) = TabIndices(s) \ {i}
    BY <2>1, <2>2 DEF Closed
  <2>5. \A d \in Attached(t) : t.active[d] \in TabIndices(t)
    BY <1>0, <2>1, <2>3, <2>4 DEF Closed, Seats
  <2>6. \A j \in TabIndices(t) : t.tabs[j].live /\ ~t.tabs[j].pending
    BY <1>0, <2>1, <2>4 DEF Closed, Loaded
  <2>7. \A d \in Attached(t) : d \in t.tabs[t.active[d]].clients
    <3>. SUFFICES ASSUME NEW d \in Attached(t)
                  PROVE  d \in t.tabs[t.active[d]].clients
      OBVIOUS
    <3>1. t.tabs[t.active[d]].clients =
            s.tabs[t.active[d]].clients \cup {b \in C : t.active[b] = t.active[d]}
      BY <2>1, <2>5 DEF Closed
    <3>2. CASE d \in C
      BY <3>1, <3>2
    <3>3. CASE d \notin C
      <4>1. t.active[d] = s.active[d]
        BY <2>1, <3>3 DEF Closed
      <4>. QED  BY <1>0, <2>4, <3>1, <4>1 DEF Seats
    <3>. QED  BY <3>2, <3>3
  <2>8. \A j \in TabIndices(t) : \A d \in t.tabs[j].clients : d \in Attached(t) /\ t.active[d] = j
    <3>. SUFFICES ASSUME NEW j \in TabIndices(t), NEW d \in t.tabs[j].clients
                  PROVE  d \in Attached(t) /\ t.active[d] = j
      OBVIOUS
    <3>1. CASE d \in {b \in C : t.active[b] = j}
      BY <2>2, <2>4, <3>1
    <3>2. CASE d \in s.tabs[j].clients
      <4>1. j \in TabIndices(s) /\ j # i /\ ~s.tabs[j].pending
        BY <1>0, <2>4 DEF Loaded
      <4>2. d \in Attached(s) /\ s.active[d] = j
        BY <1>0, <3>2, <4>1 DEF Seats
      <4>3. d \notin C
        BY <2>2, <4>1, <4>2
      <4>. QED  BY <2>1, <2>4, <4>2, <4>3 DEF Closed
    <3>. QED  BY <2>1, <3>1, <3>2 DEF Closed
  <2>9. Attached(t) \subseteq t.connected /\ Attached(t) \subseteq DOMAIN t.history
    BY <1>0, <2>1, <2>4 DEF Closed, Seats
  <2>10. Seats(t)
    BY <2>5, <2>6, <2>7, <2>8, <2>9 DEF Seats
  <2>11. Loaded(t, {}) /\ ~t.failed
    BY <1>0, <2>1, <2>6 DEF Loaded, Closed
  <2>12. \A e : Orders(s, t, e)
    BY <2>1, <2>2, <2>4 DEF Closed, Orders, Alone, Shrinks
  <2>. QED  BY <1>1, <2>4, <2>10, <2>11, <2>12 DEF t, Quiet
<1>. QED  BY <1>2, <1>3

(* Nothing is dead in a loaded screen but the tabs of D. *)
LEMMA RenderSettled ==
    ASSUME NEW s, Loaded(s, {})
    PROVE  Render(s) = s /\ Dead(s) = {}
BY DEF Loaded, Dead, Render

LEMMA RenderSeats ==
    ASSUME NEW s, NEW i, Quiet(s, {i})
    PROVE  LET t == Render(s)
           IN  /\ Quiet(t, {}) /\ \A e : Orders(s, t, e)
               /\ TabIndices(s) \ {i} \subseteq TabIndices(t)
               /\ TabIndices(t) # {} => Attached(t) = Attached(s)
<1>0. Good(s) /\ ~s.failed /\ Seats(s) /\ Loaded(s, {i})
  BY DEF Quiet
<1>1. CASE Dead(s) = {}
  <2>1. Render(s) = s
    BY <1>1 DEF Render
  <2>2. Loaded(s, {})
    BY <1>0, <1>1 DEF Loaded, Dead
  <2>. QED  BY <1>0, <2>1, <2>2 DEF Quiet, Orders, Alone, Shrinks
<1>2. CASE Dead(s) # {}
  <2>1. Dead(s) = {i} /\ i \in TabIndices(s)
    BY <1>0, <1>2 DEF Loaded, Dead
  <2>2. Cardinality({i}) = 1
    BY FS_Singleton
  <2>3. LeastOf({i}) = i
    <3>1. i \in Nat
      BY <1>0, <2>1, ScreenFields, BoundAssumption DEF Good, Indices
    <3>. QED  BY <3>1, LeastExists
  <2>4. Render(s) = CloseOneTab(s, i)
    BY <1>0, <2>1, <2>2, <2>3 DEF Render
  <2>. QED  BY <2>1, <2>4, CloseSeats
<1>. QED  BY <1>1, <1>2

LEMMA SetLiveSeats ==
    ASSUME NEW s, NEW D, Quiet(s, D), NEW i, NEW v \in BOOLEAN
    PROVE  LET t == SetLive(s, i, v)
           IN  /\ Quiet(t, IF v THEN D \ {i} ELSE D \cup {i}) /\ \A e : Orders(s, t, e)
               /\ TabIndices(t) = TabIndices(s) /\ Attached(t) = Attached(s)
               /\ t.active = s.active
<1>. DEFINE t == SetLive(s, i, v)
            g == [s.tabs EXCEPT ![i].live = v]
<1>0. Good(s) /\ ScreenOK(s) /\ ~s.failed /\ Seats(s) /\ Loaded(s, D)
  BY DEF Quiet, Good
<1>1. Good(t)
  BY <1>0, SetLiveKeeps, SameBarIsGood
<1>2. \A j \in TabIndices(s) : s.tabs[j] \in Tabs
  BY <1>0, ScreenFields
<1>3. /\ DOMAIN g = TabIndices(s)
      /\ \A j \in TabIndices(s) :
           /\ g[j].clients = s.tabs[j].clients /\ g[j].pending = s.tabs[j].pending
           /\ g[j].live = IF j = i THEN v ELSE s.tabs[j].live
  BY <1>0, <1>2, ScreenFields DEF Tabs, TabIndices
<1>4. t = [s EXCEPT !.tabs = g]
  BY DEF SetLive
<1>. HIDE DEF t, g
<1>5. /\ t.tabs = g /\ t.active = s.active /\ t.history = s.history
      /\ t.connected = s.connected /\ t.failed = s.failed
  BY <1>0, <1>4, ScreenIsOK DEF Screens
<1>6. TabIndices(t) = TabIndices(s) /\ Attached(t) = Attached(s)
  BY <1>3, <1>5 DEF TabIndices, Attached
<1>7. Seats(t)
  BY <1>0, <1>3, <1>5, <1>6 DEF Seats
<1>8. Loaded(t, IF v THEN D \ {i} ELSE D \cup {i})
  BY <1>0, <1>3, <1>5, <1>6 DEF Loaded
<1>9. \A e : Orders(s, t, e)
  BY <1>5, <1>6 DEF Orders, Alone, Shrinks
<1>. QED  BY <1>0, <1>1, <1>5, <1>6, <1>7, <1>8, <1>9 DEF t, Quiet

LEMMA SwitchTabBySeats ==
    ASSUME ~Mirrored, NEW s, NEW D, Quiet(s, D), NEW c \in Attached(s), NEW step,
           \A i \in D : i = s.active[c]
    PROVE  LET t == SwitchTabBy(s, c, step)
           IN  /\ Quiet(t, D) /\ Orders(s, t, c)
               /\ TabIndices(t) = TabIndices(s) /\ Attached(t) = Attached(s)
<1>1. HasActiveTab(s, c) /\ Actor(s, c) = c /\ c \in Clients
  BY ActorIsAsker
<1>. QED  BY <1>1, SwitchSeats DEF SwitchTabBy

LEMMA PopSeats ==
    ASSUME ~Mirrored, NEW s, Quiet(s, {}), NEW c \in Attached(s)
    PROVE  Quiet(PopHistory(s, c), {}) /\ Orders(s, PopHistory(s, c), c)
<1>. DEFINE h    == s.history[c]
            prev == h[Len(h)]
            pop  == [s EXCEPT !.history[c] = SubSeq(@, 1, Len(@) - 1)]
            t(p) == SwitchActiveTab(pop, p, c)
<1>0. Good(s) /\ ScreenOK(s) /\ ~s.failed /\ Seats(s) /\ Loaded(s, {}) /\ c \in DOMAIN s.history
  BY DEF Quiet, Good, Seats
<1>1. CASE h = <<>>
  BY <1>1 DEF PopHistory, Orders, Alone, Shrinks
<1>2. CASE h # <<>>
  <2>1. PopHistory(s, c) = IF prev \notin TabIndices(s) THEN pop
                           ELSE t(s.tabs[prev].position)
    BY <1>2, Zenon DEF PopHistory
  <2>2. /\ ScreenOK(pop)
        /\ pop.tabs = s.tabs /\ pop.active = s.active /\ pop.connected = s.connected
        /\ pop.failed = s.failed /\ DOMAIN pop.history = DOMAIN s.history
    BY <1>0, <1>2, PoppedFields
  <2>. HIDE DEF pop
  <2>3. TabIndices(pop) = TabIndices(s) /\ Attached(pop) = Attached(s)
    BY <2>2 DEF TabIndices, Attached
  <2>4. Keeps(s, pop)
    BY <2>2, <2>3 DEF Keeps, SameBar
  <2>5. Good(pop)
    BY <1>0, <2>4, SameBarIsGood
  <2>6. Seats(pop) /\ Loaded(pop, {})
    BY <1>0, <2>2, <2>3 DEF Seats, Loaded
  <2>7. Quiet(pop, {}) /\ Orders(s, pop, c)
    BY <1>0, <2>2, <2>3, <2>5, <2>6 DEF Quiet, Orders, Alone, Shrinks
  <2>8. c \in Clients
    BY <1>0, ScreenFields
  <2>9. \A p : /\ Quiet(t(p), {}) /\ Orders(pop, t(p), c)
               /\ TabIndices(t(p)) = TabIndices(pop) /\ Attached(t(p)) = Attached(pop)
    <3>. TAKE p
    <3>1. HasActiveTab(pop, c) => \A i \in {} : i = pop.active[c]
      OBVIOUS
    <3>2. Quiet(pop, {})
      BY <2>7
    <3>. DEFINE u == SwitchActiveTab(pop, p, c)
    <3>. HIDE DEF t
    <3>3. /\ Quiet(u, {}) /\ Orders(pop, u, c)
          /\ TabIndices(u) = TabIndices(pop) /\ Attached(u) = Attached(pop)
      BY <2>8, <3>1, <3>2, SwitchSeats
    <3>. QED  BY <3>3 DEF t
  <2>10. \A p : Orders(s, t(p), c)
    BY <2>7, <2>9, AloneTransitive DEF Orders, Shrinks
  <2>. HIDE DEF t
  <2>. QED  BY <2>1, <2>7, <2>9, <2>10
<1>. QED  BY <1>1, <1>2

LEMMA FocusPaneSeats ==
    ASSUME ~Mirrored, NEW s, Quiet(s, {}), NEW c \in Clients, NEW i \in TabIndices(s)
    PROVE  Quiet(FocusPane(s, c, i), {}) /\ Orders(s, FocusPane(s, c, i), c)
<1>. DEFINE t == GoToTab(s, i + 1, c)
<1>1. /\ Quiet(t, {}) /\ Orders(s, t, c)
      /\ TabIndices(t) = TabIndices(s) /\ Attached(t) = Attached(s)
  BY SwitchSeats DEF GoToTab
<1>2. Render(t) = t
  BY <1>1, RenderSettled DEF Quiet
<1>. HIDE DEF t
<1>3. FocusPane(s, c, i) \in {s, t}
  BY <1>1, <1>2 DEF FocusPane, t
<1>. QED  BY <1>1, <1>3 DEF Orders, Alone, Shrinks

LEMMA DetachSeats ==
    ASSUME NEW s, Quiet(s, {}), NEW c \in Clients
    PROVE  Quiet(DetachClient(s, c), {}) /\ Orders(s, DetachClient(s, c), c)
<1>. DEFINE g == [i \in DOMAIN s.tabs |-> RemoveClients(s.tabs[i], {c})]
            t == DetachClient(s, c)
<1>0. Good(s) /\ ScreenOK(s) /\ ~s.failed /\ Seats(s) /\ Loaded(s, {})
  BY DEF Quiet, Good
<1>1. Good(t)
  BY <1>0, DetachClientKeeps, SameBarIsGood
<1>2. \A i \in TabIndices(s) : s.tabs[i] \in Tabs
  BY <1>0, ScreenFields
<1>3. /\ DOMAIN g = TabIndices(s)
      /\ \A i \in TabIndices(s) :
           /\ g[i].clients = s.tabs[i].clients \ {c}
           /\ g[i].live = s.tabs[i].live /\ g[i].pending = s.tabs[i].pending
  BY <1>2 DEF RemoveClients, Tabs, TabIndices
<1>4. /\ t.tabs = g
      /\ t.active = [d \in DOMAIN s.active \ {c} |-> s.active[d]]
      /\ t.history = [d \in DOMAIN s.history \ {c} |-> s.history[d]]
      /\ t.connected = s.connected \ {c} /\ t.failed = s.failed
  BY <1>0, ScreenIsOK DEF DetachClient, Screens
<1>. HIDE DEF g, t
<1>5. /\ TabIndices(t) = TabIndices(s) /\ Attached(t) = Attached(s) \ {c}
      /\ DOMAIN t.history = DOMAIN s.history \ {c}
      /\ \A d \in Attached(t) : t.active[d] = s.active[d]
  BY <1>3, <1>4 DEF TabIndices, Attached
<1>6. Loaded(t, {})
  BY <1>0, <1>3, <1>4, <1>5 DEF Loaded
<1>7. Seats(t)
  <2>1. \A d \in Attached(t) : /\ s.active[d] \in TabIndices(s) /\ ~s.tabs[s.active[d]].pending
                               /\ d \in s.tabs[s.active[d]].clients /\ d # c
    BY <1>0, <1>5 DEF Seats
  <2>2. \A d \in Attached(t) : /\ t.active[d] \in TabIndices(t) /\ ~t.tabs[t.active[d]].pending
                               /\ d \in t.tabs[t.active[d]].clients
    <3>. SUFFICES ASSUME NEW d \in Attached(t)
                  PROVE  /\ t.active[d] \in TabIndices(t) /\ ~t.tabs[t.active[d]].pending
                         /\ d \in t.tabs[t.active[d]].clients
      OBVIOUS
    <3>1. t.active[d] = s.active[d] /\ t.active[d] \in TabIndices(s)
      BY <1>5, <2>1
    <3>2. /\ t.tabs[s.active[d]].pending = s.tabs[s.active[d]].pending
          /\ t.tabs[s.active[d]].clients = s.tabs[s.active[d]].clients \ {c}
      BY <1>3, <1>4, <3>1
    <3>. QED  BY <1>5, <2>1, <3>1, <3>2
  <2>3. \A i \in TabIndices(t) : ~t.tabs[i].pending =>
          \A d \in t.tabs[i].clients : d \in Attached(t) /\ t.active[d] = i
    <3>1. \A i \in TabIndices(s) : ~s.tabs[i].pending =>
            \A d \in s.tabs[i].clients : d \in Attached(s) /\ s.active[d] = i
      BY <1>0 DEF Seats
    <3>2. \A i \in TabIndices(s) : t.tabs[i].pending = s.tabs[i].pending
                                  /\ t.tabs[i].clients = s.tabs[i].clients \ {c}
      BY <1>3, <1>4
    <3>. QED  BY <1>5, <3>1, <3>2
  <2>. QED  BY <1>0, <1>4, <1>5, <2>2, <2>3 DEF Seats
<1>. QED  BY <1>0, <1>1, <1>4, <1>5, <1>6, <1>7 DEF t, Quiet, Orders, Alone, Shrinks

(* t is s with client c attached to tab home. *)
AttachedAt(s, t, c, home) ==
    /\ TabIndices(t) = TabIndices(s)
    /\ \A i \in TabIndices(s) :
         t.tabs[i] = IF i = home THEN AddClients(s.tabs[i], {c}) ELSE s.tabs[i]
    /\ Attached(t) = Attached(s) \cup {c}
    /\ \A d \in Attached(t) : t.active[d] = IF d = c THEN home ELSE s.active[d]
    /\ DOMAIN t.history = DOMAIN s.history \cup {c}
    /\ t.connected = s.connected \cup {c} /\ t.failed = s.failed

LEMMA AttachMoves ==
    ASSUME NEW s, ScreenOK(s), NEW c \in Clients,
           TabIndices(s) # {}, \A d \in Attached(s) : s.active[d] \in TabIndices(s)
    PROVE  \E home \in TabIndices(s) :
             /\ Attached(s) = {} => home = LeastOf(TabIndices(s))
             /\ Attached(s) # {} => \E d \in Attached(s) : home = s.active[d]
             /\ AttachedAt(s, AttachClient(s, c), c, home)
<1>. DEFINE home == IF Attached(s) # {} THEN s.active[LeastOf(Attached(s))]
                    ELSE LeastOf(TabIndices(s))
            hist == IF DOMAIN s.history = {} THEN <<>>
                    ELSE s.history[LeastOf(DOMAIN s.history)]
            f == [d \in DOMAIN s.active \cup {c} |-> IF d = c THEN home ELSE s.active[d]]
            h == [d \in DOMAIN s.history \cup {c} |-> IF d = c THEN hist ELSE s.history[d]]
            known == [s EXCEPT !.active = f, !.history = h,
                               !.connected = s.connected \cup {c}]
            g == [s.tabs EXCEPT ![home] = AddClients(@, {c})]
            t == [known EXCEPT !.tabs = g]
<1>1. Attached(s) # {} => LeastOf(Attached(s)) \in Attached(s)
  BY ScreenFields, ClientsAreNats, LeastExists
<1>2. home \in TabIndices(s)
  BY <1>1, LeastTab
<1>3. Attached(s) # {} => \E d \in Attached(s) : home = s.active[d]
  BY <1>1
<1>4. Attached(s) = {} => home = LeastOf(TabIndices(s))
  OBVIOUS
<1>5. AttachClient(s, c) = IF home \notin TabIndices(s) THEN Fail(known)
                           ELSE [known EXCEPT !.tabs[home] = AddClients(@, {c})]
  BY Zenon DEF AttachClient, home, hist
<1>. HIDE DEF home, hist
<1>6. DOMAIN f = Attached(s) \cup {c} /\ DOMAIN h = DOMAIN s.history \cup {c}
  BY DEF Attached
<1>7. \A d \in Attached(s) \cup {c} : f[d] = IF d = c THEN home ELSE s.active[d]
  BY DEF Attached
<1>8. /\ DOMAIN g = TabIndices(s)
      /\ \A i \in TabIndices(s) : g[i] = IF i = home THEN AddClients(s.tabs[i], {c}) ELSE s.tabs[i]
  BY <1>2, ScreenFields DEF TabIndices
<1>. HIDE DEF f, h
<1>9. /\ known.tabs = s.tabs
      /\ t.tabs = g /\ t.active = f /\ t.history = h
      /\ t.connected = s.connected \cup {c} /\ t.failed = s.failed
  BY ScreenIsOK DEF Screens
<1>10. [known EXCEPT !.tabs[home] = AddClients(@, {c})] = t
  BY <1>9
<1>11. AttachClient(s, c) = t
  BY <1>2, <1>5, <1>10
<1>. HIDE DEF t, g, known
<1>12. AttachedAt(s, t, c, home)
  BY <1>6, <1>7, <1>8, <1>9 DEF AttachedAt, TabIndices, Attached
<1>. QED  BY <1>2, <1>3, <1>4, <1>11, <1>12

LEMMA AttachedSeats ==
    ASSUME NEW s, ScreenOK(s), Seats(s), NEW c, c \notin Attached(s), NEW t,
           NEW home \in TabIndices(s), AttachedAt(s, t, c, home),
           s.tabs[home].live, ~s.tabs[home].pending
    PROVE  Seats(t)
<1>1. \A i \in TabIndices(s) : s.tabs[i] \in Tabs
  BY ScreenFields
<1>2. AddClients(s.tabs[home], {c}) = [s.tabs[home] EXCEPT !.clients = @ \cup {c}]
  BY DEF AddClients, HasPanes
<1>3. \A i \in TabIndices(s) :
        /\ t.tabs[i].pending = s.tabs[i].pending
        /\ t.tabs[i].clients = s.tabs[i].clients \cup {d \in {c} : i = home}
  BY <1>1, <1>2 DEF AttachedAt, Tabs
<1>4. /\ TabIndices(t) = TabIndices(s)
      /\ Attached(t) = Attached(s) \cup {c}
      /\ \A d \in Attached(t) : t.active[d] = IF d = c THEN home ELSE s.active[d]
      /\ t.connected = s.connected \cup {c} /\ DOMAIN t.history = DOMAIN s.history \cup {c}
  BY DEF AttachedAt
<1>5. \A d \in Attached(t) : /\ t.active[d] \in TabIndices(t)
                             /\ ~t.tabs[t.active[d]].pending
                             /\ d \in t.tabs[t.active[d]].clients
  <2>. TAKE d \in Attached(t)
  <2>1. CASE d = c
    BY <1>3, <1>4, <2>1
  <2>2. CASE d # c
    <3>1. /\ d \in Attached(s) /\ s.active[d] \in TabIndices(s)
          /\ ~s.tabs[s.active[d]].pending /\ d \in s.tabs[s.active[d]].clients
      BY <1>4, <2>2 DEF Seats
    <3>. QED  BY <1>3, <1>4, <2>2, <3>1
  <2>. QED  BY <2>1, <2>2
<1>6. \A i \in TabIndices(t) : ~t.tabs[i].pending =>
        \A d \in t.tabs[i].clients : d \in Attached(t) /\ t.active[d] = i
  <2>. TAKE i \in TabIndices(t)
  <2>. HAVE ~t.tabs[i].pending
  <2>. TAKE d \in t.tabs[i].clients
  <2>1. CASE d \in s.tabs[i].clients
    <3>1. d \in Attached(s) /\ s.active[d] = i /\ d # c
      BY <1>3, <1>4, <2>1 DEF Seats
    <3>. QED  BY <1>4, <3>1
  <2>2. CASE d = c /\ i = home
    BY <1>4, <2>2
  <2>. QED  BY <1>3, <1>4, <2>1, <2>2
<1>. QED  BY <1>4, <1>5, <1>6 DEF Seats

LEMMA AttachSeats ==
    ASSUME NEW s, Quiet(s, {}), NEW c \in Clients, c \notin Attached(s), TabIndices(s) # {}
    PROVE  LET t == AttachClient(s, c)
           IN  Quiet(t, {}) /\ Alone(s, t, c) /\ TabIndices(t) = TabIndices(s)
<1>. DEFINE t == AttachClient(s, c)
<1>0. Good(s) /\ ScreenOK(s) /\ ~s.failed /\ Seats(s) /\ Loaded(s, {})
  BY DEF Quiet, Good
<1>1. \A d \in Attached(s) : s.active[d] \in TabIndices(s)
  BY <1>0 DEF Seats
<1>2. PICK home \in TabIndices(s) : AttachedAt(s, t, c, home)
  BY <1>0, <1>1, AttachMoves
<1>3. Good(t)
  BY <1>0, AttachClientKeeps, SameBarIsGood
<1>. HIDE DEF t
<1>4. Seats(t)
  BY <1>0, <1>2, AttachedSeats DEF Loaded
<1>5. \A i \in TabIndices(s) : s.tabs[i] \in Tabs
  BY <1>0, ScreenFields
<1>6. \A i \in TabIndices(s) : /\ t.tabs[i].live = s.tabs[i].live
                               /\ t.tabs[i].pending = s.tabs[i].pending
  BY <1>2, <1>5 DEF AttachedAt, AddClients, Tabs
<1>7. Loaded(t, {})
  BY <1>0, <1>2, <1>6 DEF Loaded, AttachedAt
<1>. QED  BY <1>0, <1>2, <1>3, <1>4, <1>7 DEF t, Quiet, AttachedAt, Alone

----------------------------------------------------------------------------
(* The tabs on their way: the invariant of an orderly session. *)

(* Every pending tab waits for its ApplyLayout, which come in the order of  *)
(* the indices; the client it is for is on the screen, or nobody is yet and *)
(* all tabs are the first client's.                                         *)
Waits(s, L) ==
    /\ \A k \in DOMAIN L : /\ L[k].index \in TabIndices(s)
                           /\ s.tabs[L[k].index].pending
                           /\ s.tabs[L[k].index].clients = {L[k].client}
    /\ \A i \in TabIndices(s) : s.tabs[i].pending => \E k \in DOMAIN L : L[k].index = i
    /\ \A j, k \in DOMAIN L : j < k => L[j].index < L[k].index
    /\ \A k \in DOMAIN L :
         \/ L[k].client \in Attached(s)
         \/ /\ Attached(s) = {} /\ s.connected = {}
            /\ \A i \in TabIndices(s) :
                 s.tabs[i].pending /\ s.tabs[i].clients = {L[k].client}

Listed(P, L) == \A i \in P : \E k \in DOMAIN L : L[k].index = i

OneDies(s, L) == Dead(s) # {} => L = <<>> /\ \A i, j \in Dead(s) : i = j

CalmOf(s, L, P, W) ==
    IF s.failed THEN TabIndices(s) = {}
    ELSE Seats(s) /\ Waits(s, L) /\ Listed(P, L) /\ W = {} /\ OneDies(s, L)

Calm == CalmOf(screen, loading, pending_tab_ids, pending_tab_switches)

LEMMA QuietIsCalm ==
    ASSUME NEW s, NEW i, Quiet(s, {i})
    PROVE  CalmOf(s, <<>>, {}, {})
BY DEF CalmOf, Quiet, Loaded, Waits, Listed, OneDies, Dead

(* When the screen handles a request of c nothing is on its way. *)
LEMMA AskedInCalm ==
    ASSUME Orderly, Inv, Calm, Running
    PROVE  /\ Quiet(screen, {}) /\ loading = <<>>
           /\ pending_tab_ids = {} /\ pending_tab_switches = {}
<1>1. ~screen.failed /\ Settled
  BY DEF Running, Orderly
<1>2. Loaded(screen, {})
  BY <1>1 DEF Settled, Loaded
<1>3. loading \in Seq([index : Indices, client : Clients])
  BY DEF Inv, OthersOK
<1>4. DOMAIN loading = {}
  BY <1>1, <1>2 DEF Calm, CalmOf, Waits, Loaded
<1>5. loading = <<>>
  BY <1>3, <1>4
<1>. QED  BY <1>1, <1>2, <1>4, <1>5 DEF Quiet, Inv, Calm, CalmOf, Listed

(* t is s with a new pending tab i for client c. *)
Opened(s, t, i, c) ==
    /\ TabIndices(t) = TabIndices(s) \cup {i}
    /\ \A j \in TabIndices(s) : t.tabs[j] = s.tabs[j]
    /\ t.tabs[i].pending /\ t.tabs[i].clients = {c}
    /\ t.active = s.active /\ t.history = s.history
    /\ t.connected = s.connected /\ t.failed = s.failed

LEMMA NewIndexIsLargest ==
    ASSUME NEW s, ScreenOK(s)
    PROVE  NewTabIndex(s) \in Nat /\ \A j \in TabIndices(s) : j < NewTabIndex(s)
<1>1. CASE TabIndices(s) = {}
  BY <1>1 DEF NewTabIndex
<1>2. CASE TabIndices(s) # {}
  <2>. DEFINE top == CHOOSE i \in TabIndices(s) : \A j \in TabIndices(s) : j <= i
  <2>0. TabIndices(s) \subseteq Indices
    BY ScreenFields
  <2>1. top \in TabIndices(s) /\ \A j \in TabIndices(s) : j <= top
    BY <1>2, <2>0, GreatestExists, Zenon
  <2>2. NewTabIndex(s) = 1 + top
    BY <1>2, Zenon DEF NewTabIndex
  <2>. QED  BY <2>0, <2>1, <2>2, BoundAssumption DEF Indices
<1>. QED  BY <1>1, <1>2

LEMMA AddTabOpens ==
    ASSUME NEW s, ScreenOK(s), NEW c \in Clients, NEW i, i \notin TabIndices(s),
           HasActiveTab(s, c) \/ Attached(s) = {}
    PROVE  /\ Opened(s, AddTab(s, i, c), i, c)
           /\ Opened(s, SetLive(AddTab(s, i, c), i, TRUE), i, c)
<1>. DEFINE tab == [position |-> Cardinality(TabIndices(s)), pending |-> TRUE,
                    live |-> FALSE, clients |-> {c}]
            g   == [j \in TabIndices(s) \cup {i} |-> IF j = i THEN tab ELSE s.tabs[j]]
            h   == [g EXCEPT ![i].live = TRUE]
            t   == AddTab(s, i, c)
            u   == SetLive(t, i, TRUE)
<1>1. (IF Actor(s, c) = NoClient THEN c ELSE Actor(s, c)) = c
  BY DEF Actor
<1>2. t = [s EXCEPT !.tabs = g]
  BY <1>1, Zenon DEF AddTab, TabIndices
<1>3. /\ DOMAIN g = TabIndices(s) \cup {i} /\ g[i] = tab
      /\ \A j \in TabIndices(s) : g[j] = s.tabs[j]
  OBVIOUS
<1>4. /\ DOMAIN h = TabIndices(s) \cup {i} /\ h[i] = [tab EXCEPT !.live = TRUE]
      /\ \A j \in TabIndices(s) : h[j] = s.tabs[j]
  BY <1>3
<1>5. /\ tab.pending /\ tab.clients = {c}
      /\ [tab EXCEPT !.live = TRUE].pending /\ [tab EXCEPT !.live = TRUE].clients = {c}
  OBVIOUS
<1>. HIDE DEF tab, g
<1>6. /\ t.tabs = g /\ t.active = s.active /\ t.history = s.history
      /\ t.connected = s.connected /\ t.failed = s.failed
      /\ [s EXCEPT !.tabs = h].tabs = h /\ [s EXCEPT !.tabs = h].active = s.active
      /\ [s EXCEPT !.tabs = h].history = s.history
      /\ [s EXCEPT !.tabs = h].connected = s.connected
      /\ [s EXCEPT !.tabs = h].failed = s.failed
  BY <1>2, ScreenIsOK DEF Screens
<1>7. u = [s EXCEPT !.tabs = h]
  <2>1. u = [t EXCEPT !.tabs = [g EXCEPT ![i].live = TRUE]]
    BY <1>6 DEF SetLive
  <2>2. u = [[s EXCEPT !.tabs = g] EXCEPT !.tabs = h]
    BY <1>2, <2>1
  <2>. HIDE DEF g, h, t, u
  <2>3. s \in Screens
    BY ScreenIsOK
  <2>4. [[s EXCEPT !.tabs = g] EXCEPT !.tabs = h] = [s EXCEPT !.tabs = h]
    BY <2>3 DEF Screens
  <2>. QED  BY <2>2, <2>4
<1>. HIDE DEF h, t, u
<1>8. Opened(s, t, i, c)
  BY <1>3, <1>5, <1>6 DEF Opened, TabIndices
<1>9. Opened(s, u, i, c)
  <2>1. /\ u.tabs = h /\ u.active = s.active /\ u.history = s.history
        /\ u.connected = s.connected /\ u.failed = s.failed
    BY <1>6, <1>7
  <2>2. h[i].pending /\ h[i].clients = {c}
    BY <1>4, <1>5
  <2>. QED  BY <1>4, <2>1, <2>2 DEF Opened, TabIndices
<1>. QED  BY <1>8, <1>9 DEF t, u

(* A new tab keeps everybody where they are. *)
LEMMA OpenedIsCalm ==
    ASSUME NEW s, NEW t, ScreenOK(s), ~s.failed, Dead(s) = {},
           NEW L \in Seq([index : Indices, client : Clients]), NEW P,
           CalmOf(s, L, P, {}),
           NEW c \in Clients,
           \/ c \in Attached(s)
           \/ /\ s.connected = {}
              /\ \A j \in TabIndices(s) : s.tabs[j].pending /\ s.tabs[j].clients = {c},
           NEW i \in Indices, i = NewTabIndex(s), Opened(s, t, i, c),
           NEW Q, Q \subseteq P \cup {i}
    PROVE  /\ CalmOf(t, Append(L, [index |-> i, client |-> c]), Q, {})
           /\ \A e : Alone(s, t, e)
<1>. DEFINE new == [index |-> i, client |-> c]
            M   == Append(L, new)
<1>0. Seats(s) /\ Waits(s, L) /\ Listed(P, L)
  BY DEF CalmOf
<1>1. (\A j \in TabIndices(s) : j < i) /\ i \notin TabIndices(s)
  BY NewIndexIsLargest, NewIndexIsFresh
<1>2. /\ TabIndices(t) = TabIndices(s) \cup {i} /\ i \notin TabIndices(s)
      /\ \A j \in TabIndices(s) : t.tabs[j] = s.tabs[j]
      /\ t.tabs[i].pending /\ t.tabs[i].clients = {c}
      /\ Attached(t) = Attached(s) /\ t.active = s.active /\ t.history = s.history
      /\ t.connected = s.connected /\ ~t.failed
  BY <1>1 DEF Opened, Attached
<1>3. /\ Len(L) \in Nat /\ DOMAIN L = 1 .. Len(L) /\ DOMAIN M = 1 .. Len(L) + 1
      /\ \A k \in DOMAIN L : M[k] = L[k]
      /\ M[Len(L) + 1] = new
      /\ \A k \in DOMAIN M : k \in DOMAIN L \/ k = Len(L) + 1
  OBVIOUS
<1>4. new.index = i /\ new.client = c
  OBVIOUS
<1>. HIDE DEF M, new
<1>5. Seats(t)
  BY <1>0, <1>2 DEF Seats
<1>6. \A k \in DOMAIN M : /\ M[k].index \in TabIndices(t) /\ t.tabs[M[k].index].pending
                          /\ t.tabs[M[k].index].clients = {M[k].client}
  <2>. TAKE k \in DOMAIN M
  <2>1. CASE k \in DOMAIN L
    <3>1. /\ L[k].index \in TabIndices(s) /\ s.tabs[L[k].index].pending
          /\ s.tabs[L[k].index].clients = {L[k].client}
      BY <1>0, <2>1 DEF Waits
    <3>2. M[k] = L[k] /\ t.tabs[L[k].index] = s.tabs[L[k].index]
      BY <1>2, <1>3, <2>1, <3>1
    <3>. QED  BY <1>2, <3>1, <3>2
  <2>2. CASE k = Len(L) + 1
    BY <1>2, <1>3, <1>4, <2>2
  <2>. QED  BY <1>3, <2>1, <2>2
<1>7. \A j \in TabIndices(t) : t.tabs[j].pending => \E k \in DOMAIN M : M[k].index = j
  BY <1>0, <1>2, <1>3, <1>4 DEF Waits
<1>8. \A j, k \in DOMAIN M : j < k => M[j].index < M[k].index
  BY <1>0, <1>1, <1>3, <1>4 DEF Waits
<1>9. ASSUME NEW k \in DOMAIN M
      PROVE  \/ M[k].client \in Attached(t)
             \/ /\ Attached(t) = {} /\ t.connected = {}
                /\ \A j \in TabIndices(t) :
                     t.tabs[j].pending /\ t.tabs[j].clients = {M[k].client}
  <2>1. CASE c \in Attached(s)
    BY <1>0, <1>2, <1>3, <1>4, <2>1 DEF Waits
  <2>2. CASE /\ s.connected = {}
             /\ \A j \in TabIndices(s) : s.tabs[j].pending /\ s.tabs[j].clients = {c}
    <3>1. Attached(t) = {} /\ t.connected = {}
      BY <1>0, <1>2, <2>2 DEF Seats
    <3>2. \A j \in TabIndices(t) : t.tabs[j].pending /\ t.tabs[j].clients = {c}
      BY <1>2, <2>2
    <3>3. {M[k].client} = {c}
      BY <1>6, <3>2
    <3>. QED  BY <3>1, <3>2, <3>3
  <2>. QED  BY <2>1, <2>2
<1>10. Waits(t, M)
  BY <1>6, <1>7, <1>8, <1>9 DEF Waits
<1>11. Listed(Q, M)
  BY <1>0, <1>3, <1>4 DEF Listed
<1>12. OneDies(t, M)
  BY <1>2 DEF OneDies, Dead
<1>13. \A e : Alone(s, t, e)
  BY <1>2 DEF Alone
<1>. QED  BY <1>2, <1>5, <1>10, <1>11, <1>12, <1>13 DEF CalmOf, M, new

----------------------------------------------------------------------------
(* The requests of a client that has nothing on its way. *)

LEMMA QuietStep ==
    ASSUME Orderly, Inv, Calm, Running, NEW c, Unchanged,
           screen'.failed => TabIndices(screen') = {},
           ~screen'.failed => \E i : Quiet(screen', {i}),
           Alone(screen, screen', c)
    PROVE  Calm' /\ Alone(screen, screen', c)
<1>1. loading' = <<>> /\ pending_tab_ids' = {} /\ pending_tab_switches' = {}
  BY AskedInCalm DEF Unchanged
<1>2. CalmOf(screen', <<>>, {}, {})
  <2>1. CASE screen'.failed
    BY <2>1 DEF CalmOf
  <2>2. CASE ~screen'.failed
    BY <2>2, QuietIsCalm
  <2>. QED  BY <2>1, <2>2
<1>. QED  BY <1>1, <1>2 DEF Calm

(* The usual request: it leaves the screen quiet. *)
LEMMA PlainStep ==
    ASSUME Orderly, Inv, Calm, Running, NEW c, Unchanged,
           Quiet(screen', {}), Alone(screen, screen', c)
    PROVE  Calm' /\ Alone(screen, screen', c)
<1>1. \E i : Quiet(screen', {i})
  BY DEF Quiet, Loaded
<1>. QED  BY <1>1, QuietStep DEF Quiet

LEMMA Asker ==
    ASSUME Orderly, Inv, Calm, NEW c \in Clients, Asks(c)
    PROVE  /\ Quiet(screen, {}) /\ Running
           /\ c \in Attached(screen) /\ HasActiveTab(screen, c) /\ Actor(screen, c) = c
           /\ c # NoClient /\ Attached(screen) # {}
           /\ screen.tabs[screen.active[c]].live
<1>1. Quiet(screen, {}) /\ Running /\ c \in Attached(screen)
  BY AskedInCalm DEF Asks, Orderly
<1>2. HasActiveTab(screen, c) /\ Actor(screen, c) = c /\ c # NoClient
  BY <1>1, ActorIsAsker
<1>. QED  BY <1>1, <1>2 DEF Quiet, Loaded, HasActiveTab

LEMMA SwitchRequests ==
    ASSUME Orderly, Inv, Calm, NEW c \in Clients,
           \/ \E i \in Indices : GoToNamedTab(c, i)
           \/ \E step \in {-1, 1} : SwitchTab(c, step)
           \/ \E step \in {-1, 1} : MoveFocusOverEdge(c, step)
           \/ \E t \in Positions : GoToTabRequest(c, t)
           \/ ToggleTab(c)
           \/ \E i \in Indices : FocusPaneWithId(c, i)
           \/ NewPane(c)
    PROVE  Calm' /\ Alone(screen, screen', c)
<1>. DEFINE s == screen
<1>0. Asks(c)
  BY DEF GoToNamedTab, SwitchTab, MoveFocusOverEdge, GoToTabRequest, ToggleTab,
         FocusPaneWithId, NewPane
<1>1. /\ Quiet(s, {}) /\ Running /\ c \in Attached(s) /\ HasActiveTab(s, c)
      /\ Actor(s, c) = c /\ Attached(s) # {}
  BY <1>0, Asker
<1>2. ~Mirrored /\ pending_tab_ids = {}
  BY <1>1, AskedInCalm DEF Orderly
<1>3. \A t : Quiet(t, {}) => Render(t) = t
  BY RenderSettled DEF Quiet
<1>4. Alone(s, s, c)
  BY DEF Alone
<1>5. \A pos : Quiet(SwitchActiveTab(s, pos, c), {}) /\ Alone(s, SwitchActiveTab(s, pos, c), c)
  <2>. TAKE pos
  <2>1. HasActiveTab(s, c) => \A i \in {} : i = s.active[c]
    OBVIOUS
  <2>. QED  BY <1>1, <1>2, <2>1, SwitchSeats DEF Orders
<1>6. \A step : Quiet(SwitchTabBy(s, c, step), {}) /\ Alone(s, SwitchTabBy(s, c, step), c)
  <2>. TAKE step
  <2>1. \A i \in {} : i = s.active[c]
    OBVIOUS
  <2>. QED  BY <1>1, <1>2, <2>1, SwitchTabBySeats DEF Orders
<1>7. CASE \E i \in Indices : GoToNamedTab(c, i)
  <2>1. PICK i \in Indices : screen' = Render(SwitchActiveTab(s, s.tabs[i].position, c)) /\ Unchanged
    BY <1>1, <1>7 DEF GoToNamedTab
  <2>. QED  BY <1>1, <1>3, <1>5, <2>1, PlainStep
<1>8. CASE \E step \in {-1, 1} : SwitchTab(c, step)
  <2>1. PICK step : screen' = Render(SwitchTabBy(s, c, step)) /\ Unchanged
    BY <1>8 DEF SwitchTab
  <2>. QED  BY <1>1, <1>3, <1>6, <2>1, PlainStep
<1>9. CASE \E step \in {-1, 1} : MoveFocusOverEdge(c, step)
  <2>1. PICK step : /\ screen' \in {SwitchTabBy(s, c, step), Render(SwitchTabBy(s, c, step))}
                    /\ Unchanged
    BY <1>9 DEF MoveFocusOverEdge
  <2>. QED  BY <1>1, <1>3, <1>6, <2>1, PlainStep
<1>10. CASE \E t \in Positions : GoToTabRequest(c, t)
  <2>1. PICK t : screen' = Render(GoToTab(s, t, c)) /\ Unchanged
    BY <1>1, <1>2, <1>10 DEF GoToTabRequest, Unchanged
  <2>2. Quiet(GoToTab(s, t, c), {}) /\ Alone(s, GoToTab(s, t, c), c)
    BY <1>5 DEF GoToTab
  <2>. QED  BY <1>1, <1>3, <2>1, <2>2, PlainStep
<1>11. CASE ToggleTab(c)
  <2>1. c \in DOMAIN s.history
    BY <1>1 DEF Quiet, Seats
  <2>2. screen' = Render(PopHistory(s, c)) /\ Unchanged
    BY <1>11, <2>1 DEF ToggleTab
  <2>3. Quiet(PopHistory(s, c), {}) /\ Alone(s, PopHistory(s, c), c)
    BY <1>1, <1>2, PopSeats DEF Orders
  <2>. QED  BY <1>1, <1>3, <2>2, <2>3, PlainStep
<1>12. CASE \E i \in Indices : FocusPaneWithId(c, i)
  <2>1. PICK i \in TabIndices(s) : screen' = FocusPane(s, c, i) /\ Unchanged
    BY <1>12 DEF FocusPaneWithId
  <2>2. Quiet(FocusPane(s, c, i), {}) /\ Alone(s, FocusPane(s, c, i), c)
    BY <1>1, <1>2, FocusPaneSeats DEF Orders
  <2>. QED  BY <1>1, <2>1, <2>2, PlainStep
<1>13. CASE NewPane(c)
  <2>. DEFINE t == SetLive(s, s.active[c], TRUE)
  <2>1. screen' = Render(t) /\ Unchanged
    BY <1>1, <1>13 DEF NewPane
  <2>2. Quiet(t, {} \ {s.active[c]}) /\ Alone(s, t, c)
    BY <1>1, SetLiveSeats DEF Orders
  <2>3. Quiet(t, {})
    BY <2>2 DEF Quiet, Loaded
  <2>. HIDE DEF t
  <2>. QED  BY <1>1, <1>3, <2>1, <2>2, <2>3, PlainStep
<1>. QED  BY <1>7, <1>8, <1>9, <1>10, <1>11, <1>12, <1>13

LEMMA ClosingRequests ==
    ASSUME Orderly, Inv, Calm, NEW c \in Clients,
           \/ CloseTab(c)
           \/ CloseFocusedPane(c)
           \/ \E step \in {-1, 1}, last \in BOOLEAN : BreakPaneSideways(c, step, last)
    PROVE  Calm' /\ Alone(screen, screen', c)
<1>. DEFINE s   == screen
            src == s.active[c]
<1>0. Asks(c)
  BY DEF CloseTab, CloseFocusedPane, BreakPaneSideways
<1>1. /\ Quiet(s, {}) /\ Running /\ c \in Attached(s) /\ HasActiveTab(s, c)
      /\ Actor(s, c) = c /\ c # NoClient /\ s.tabs[src].live
  BY <1>0, Asker
<1>2. ~Mirrored
  BY DEF Orderly
<1>3. src \in TabIndices(s)
  BY <1>1 DEF HasActiveTab
<1>4. CASE CloseTab(c)
  <2>. DEFINE t == CloseOneTab(s, src)
  <2>1. screen' = Render(t) /\ Unchanged
    BY <1>1, <1>4 DEF CloseTab, CloseTabAtIndex
  <2>2. Quiet(s, {src})
    BY <1>1 DEF Quiet, Loaded
  <2>3. Quiet(t, {}) /\ Alone(s, t, c)
    BY <1>3, <2>2, CloseSeats DEF Orders
  <2>. HIDE DEF t
  <2>4. Render(t) = t
    BY <2>3, RenderSettled DEF Quiet
  <2>. QED  BY <1>1, <2>1, <2>3, <2>4, PlainStep
<1>5. CASE CloseFocusedPane(c)
  <2>. DEFINE t == SetLive(s, src, FALSE)
  <2>1. screen' = Render(t) /\ Unchanged
    BY <1>1, <1>5 DEF CloseFocusedPane
  <2>2. Quiet(t, {} \cup {src}) /\ Orders(s, t, c)
    BY <1>1, SetLiveSeats
  <2>. HIDE DEF t
  <2>3. Quiet(t, {src})
    BY <2>2
  <2>4. Quiet(Render(t), {}) /\ Orders(t, Render(t), c)
    BY <2>3, RenderSeats
  <2>5. Alone(s, Render(t), c)
    BY <2>2, <2>4, AloneTransitive DEF Orders
  <2>. QED  BY <1>1, <2>1, <2>4, <2>5, PlainStep
<1>6. ASSUME NEW step, NEW last \in BOOLEAN, BreakPaneSideways(c, step, last)
      PROVE  Calm' /\ Alone(screen, screen', c)
  <2>. DEFINE taken == IF last THEN SetLive(s, src, FALSE) ELSE s
              gone  == SwitchTabBy(taken, c, step)
              shown == Render(gone)
              put   == SetLive(shown, shown.active[c], TRUE)
  <2>1. /\ Unchanged
        /\ screen' = IF Cardinality(TabIndices(s)) = 1 THEN Render(s)
                     ELSE IF shown.failed \/ ~HasActiveTab(shown, c) THEN Fail(shown)
                     ELSE Render(put)
    BY <1>1, <1>6, Zenon DEF BreakPaneSideways
  <2>2. Quiet(taken, {src}) /\ Orders(s, taken, c) /\ taken.active[c] = src /\ c \in Attached(taken)
    <3>1. CASE last
      <4>. DEFINE t == SetLive(s, src, FALSE)
      <4>1. Quiet(t, {} \cup {src}) /\ Orders(s, t, c) /\ Attached(t) = Attached(s)
            /\ t.active = s.active
        BY <1>1, SetLiveSeats
      <4>. HIDE DEF t
      <4>. QED  BY <1>1, <3>1, <4>1 DEF t
    <3>2. CASE ~last
      BY <1>1, <3>2 DEF Quiet, Loaded, Orders, Alone, Shrinks
    <3>. QED  BY <3>1, <3>2
  <2>. HIDE DEF taken
  <2>3. Quiet(gone, {src}) /\ Orders(taken, gone, c) /\ Attached(gone) = Attached(taken)
    BY <1>2, <2>2, SwitchTabBySeats
  <2>. HIDE DEF gone
  <2>4. /\ Quiet(shown, {}) /\ Orders(gone, shown, c)
        /\ TabIndices(shown) # {} => Attached(shown) = Attached(gone)
    BY <2>3, RenderSeats
  <2>. HIDE DEF shown
  <2>5. Alone(s, shown, c)
    <3>1. Alone(s, gone, c)
      BY <2>2, <2>3, AloneTransitive DEF Orders
    <3>. QED  BY <2>4, <3>1, AloneTransitive DEF Orders
  <2>6. CASE Cardinality(TabIndices(s)) = 1
    <3>1. Render(s) = s
      BY <1>1, RenderSettled DEF Quiet
    <3>2. Alone(s, s, c)
      BY DEF Alone
    <3>. QED  BY <1>1, <2>1, <2>6, <3>1, <3>2, PlainStep
  <2>7. CASE Cardinality(TabIndices(s)) # 1 /\ HasActiveTab(shown, c)
    <3>1. Quiet(put, {} \ {shown.active[c]}) /\ Orders(shown, put, c)
      BY <2>4, SetLiveSeats
    <3>. HIDE DEF put
    <3>2. Quiet(put, {})
      BY <3>1 DEF Quiet, Loaded
    <3>3. Render(put) = put
      BY <3>2, RenderSettled DEF Quiet
    <3>4. Alone(s, put, c)
      BY <2>5, <3>1, AloneTransitive DEF Orders
    <3>5. screen' = put
      BY <2>1, <2>4, <2>7, <3>3 DEF Quiet
    <3>. QED  BY <1>1, <2>1, <3>2, <3>4, <3>5, PlainStep
  <2>8. CASE Cardinality(TabIndices(s)) # 1 /\ ~HasActiveTab(shown, c)
    <3>1. screen' = Fail(shown)
      BY <2>1, <2>8
    <3>2. TabIndices(shown) = {}
      <4>. SUFFICES ASSUME TabIndices(shown) # {} PROVE FALSE
        OBVIOUS
      <4>1. c \in Attached(shown)
        BY <2>2, <2>3, <2>4
      <4>. QED  BY <2>4, <2>8, <4>1 DEF Quiet, Seats, HasActiveTab
    <3>3. shown \in Screens
      BY <2>4, ScreenIsOK DEF Quiet, Good
    <3>4. /\ screen'.tabs = shown.tabs /\ screen'.active = shown.active /\ screen'.failed
      BY <3>1, <3>3 DEF Fail, Screens
    <3>5. TabIndices(screen') = {} /\ Alone(s, screen', c)
      BY <2>5, <3>2, <3>4 DEF TabIndices, Attached, Alone
    <3>. QED  BY <1>1, <2>1, <3>4, <3>5, QuietStep
  <2>. QED  BY <2>6, <2>7, <2>8
<1>. QED  BY <1>4, <1>5, <1>6

LEMMA OpeningRequests ==
    ASSUME Orderly, Inv, Calm, NEW c \in Clients,
           NewTab(c) \/ CreateNamedTab(c) \/ BreakPane(c)
    PROVE  Calm' /\ Alone(screen, screen', c)
<1>. DEFINE s == screen
            i == NewTabIndex(s)
            new == [index |-> i, client |-> c]
            t == AddTab(s, i, c)
            u == SetLive(t, i, TRUE)
<1>1. ScreenOK(s) /\ loading \in Seq([index : Indices, client : Clients])
  BY DEF Inv, Good, OthersOK
<1>2. i \in Nat /\ i \notin TabIndices(s)
  BY <1>1, NewIndexIsFresh
<1>3. ASSUME Running, Asks(c), i <= MaxIndex, loading' = Append(loading, new),
             screen' = t \/ screen' = u,
             pending_tab_ids' = pending_tab_ids, pending_tab_switches' = pending_tab_switches
      PROVE  Calm' /\ Alone(screen, screen', c)
  <2>1. /\ Quiet(s, {}) /\ c \in Attached(s) /\ HasActiveTab(s, c)
        /\ pending_tab_switches = {}
    BY <1>3, Asker, AskedInCalm
  <2>2. ~s.failed /\ Dead(s) = {}
    BY <2>1 DEF Quiet, Loaded, Dead
  <2>3. Opened(s, screen', i, c)
    BY <1>1, <1>2, <1>3, <2>1, AddTabOpens
  <2>4. i \in Indices
    BY <1>2, <1>3, BoundAssumption DEF Indices
  <2>. HIDE DEF i
  <2>5. CalmOf(s, loading, pending_tab_ids, {}) /\ pending_tab_ids \subseteq pending_tab_ids \cup {i}
    BY <2>1 DEF Calm
  <2>6. /\ CalmOf(screen', Append(loading, new), pending_tab_ids, {})
        /\ \A e : Alone(s, screen', e)
    BY <1>1, <2>1, <2>2, <2>3, <2>4, <2>5, OpenedIsCalm DEF i
  <2>. QED  BY <1>3, <2>1, <2>6 DEF Calm
<1>4. CASE NewTab(c)
  <2>1. /\ ~s.failed /\ Dead(s) = {} /\ i <= MaxIndex
        /\ c \in Attached(s) \/ Starting(c)
        /\ screen' = t /\ loading' = Append(loading, new)
        /\ pending_tab_ids' = pending_tab_ids \cup {i}
        /\ pending_tab_switches' = pending_tab_switches
    BY <1>4 DEF NewTab, Orderly
  <2>2. Seats(s) /\ pending_tab_switches = {}
    BY <2>1 DEF Calm, CalmOf
  <2>3. HasActiveTab(s, c) \/ Attached(s) = {}
    BY <2>1, <2>2 DEF Seats, HasActiveTab, Starting
  <2>4. Opened(s, screen', i, c)
    BY <1>1, <1>2, <2>1, <2>3, AddTabOpens
  <2>5. i \in Indices
    BY <1>2, <2>1, BoundAssumption DEF Indices
  <2>6. \/ c \in Attached(s)
        \/ /\ s.connected = {}
           /\ \A j \in TabIndices(s) : s.tabs[j].pending /\ s.tabs[j].clients = {c}
    BY <2>1 DEF Starting
  <2>. HIDE DEF i
  <2>7. CalmOf(s, loading, pending_tab_ids, {})
    BY <2>2 DEF Calm
  <2>8. /\ CalmOf(screen', Append(loading, new), pending_tab_ids \cup {i}, {})
        /\ \A e : Alone(s, screen', e)
    BY <1>1, <2>1, <2>4, <2>5, <2>6, <2>7, OpenedIsCalm DEF i
  <2>. QED  BY <2>1, <2>2, <2>8 DEF Calm
<1>5. CASE CreateNamedTab(c)
  <2>1. Asks(c) /\ Running
    BY <1>5 DEF CreateNamedTab, Asks
  <2>2. Quiet(s, {}) /\ c \in Attached(s)
    BY <2>1, Asker
  <2>3. Render(s) = s /\ ~s.failed
    BY <2>2, RenderSettled DEF Quiet
  <2>4. /\ i <= MaxIndex /\ screen' = t /\ loading' = Append(loading, new)
        /\ pending_tab_ids' = pending_tab_ids /\ pending_tab_switches' = pending_tab_switches
    BY <1>5, <2>2, <2>3 DEF CreateNamedTab
  <2>. QED  BY <1>3, <2>1, <2>4
<1>6. CASE BreakPane(c)
  <2>1. Asks(c) /\ Running
    BY <1>6 DEF BreakPane, Asks
  <2>2. HasActiveTab(s, c) /\ s.tabs[s.active[c]].live
    BY <2>1, Asker
  <2>3. /\ i <= MaxIndex /\ screen' = u /\ loading' = Append(loading, new)
        /\ pending_tab_ids' = pending_tab_ids /\ pending_tab_switches' = pending_tab_switches
    BY <1>6, <2>2 DEF BreakPane
  <2>. QED  BY <1>3, <2>1, <2>3
<1>. QED  BY <1>4, <1>5, <1>6

----------------------------------------------------------------------------
(* The other instructions. *)

LEMMA AddClientStep ==
    ASSUME Orderly, Inv, Calm, NEW c \in Clients, NEW how \in {"plain", "pane", "tab"},
           NEW i, AddClient(c, how, i)
    PROVE  Calm' /\ Alone(screen, screen', c)
<1>. DEFINE s == screen
            t == AttachClient(s, c)
            p == FocusPane(t, c, i)
            g == GoToTab(t, i, c)
<1>1. /\ Running /\ Unchanged /\ c \notin Attached(s)
      /\ how = "pane" => i \in TabIndices(s)
      /\ screen' = IF t.failed THEN t
                   ELSE Render(IF how = "plain" THEN t ELSE IF how = "pane" THEN p ELSE g)
  BY Zenon DEF AddClient
<1>2. Quiet(s, {}) /\ ~Mirrored
  BY <1>1, AskedInCalm DEF Orderly
<1>3. CASE TabIndices(s) = {}
  <2>1. Attached(s) = {} /\ s \in Screens
    BY <1>2, <1>3, ScreenIsOK DEF Quiet, Seats, Good
  <2>2. t = [s EXCEPT !.failed = TRUE]
    BY <1>3, <2>1 DEF AttachClient, Fail
  <2>3. t.tabs = s.tabs /\ t.active = s.active /\ t.failed
    BY <2>1, <2>2 DEF Screens
  <2>. HIDE DEF t
  <2>4. screen' = t
    BY <1>1, <2>3
  <2>5. TabIndices(t) = {} /\ Attached(t) = {}
    BY <1>3, <2>1, <2>3 DEF TabIndices, Attached
  <2>6. Alone(s, t, c)
    BY <2>5 DEF Alone
  <2>. QED  BY <1>1, <2>3, <2>4, <2>5, <2>6, QuietStep
<1>4. CASE TabIndices(s) # {}
  <2>1. Quiet(t, {}) /\ Alone(s, t, c) /\ TabIndices(t) = TabIndices(s)
    BY <1>1, <1>2, <1>4, AttachSeats
  <2>. HIDE DEF t
  <2>2. how = "pane" => Quiet(p, {}) /\ Orders(t, p, c)
    BY <1>1, <1>2, <2>1, FocusPaneSeats
  <2>3. Quiet(g, {}) /\ Orders(t, g, c)
    <3>1. HasActiveTab(t, c) => \A j \in {} : j = t.active[c]
      OBVIOUS
    <3>. QED  BY <1>2, <2>1, <3>1, SwitchSeats DEF GoToTab
  <2>. HIDE DEF p, g
  <2>. DEFINE u == IF how = "plain" THEN t ELSE IF how = "pane" THEN p ELSE g
  <2>4. Quiet(u, {}) /\ Alone(s, u, c)
    BY <2>1, <2>2, <2>3, AloneTransitive DEF Orders
  <2>5. screen' = Render(u)
    BY <1>1, <2>1 DEF Quiet
  <2>. HIDE DEF u
  <2>6. Render(u) = u
    BY <2>4, RenderSettled DEF Quiet
  <2>. QED  BY <1>1, <2>4, <2>5, <2>6, PlainStep
<1>. QED  BY <1>3, <1>4

LEMMA RemoveClientStep ==
    ASSUME Orderly, Inv, Calm, NEW c \in Clients, RemoveClient(c)
    PROVE  Calm' /\ Alone(screen, screen', c)
<1>. DEFINE t == DetachClient(screen, c)
<1>1. Running /\ Unchanged /\ screen' = Render(t)
  BY DEF RemoveClient
<1>2. Quiet(t, {}) /\ Alone(screen, t, c)
  BY <1>1, AskedInCalm, DetachSeats DEF Orders
<1>. HIDE DEF t
<1>3. Render(t) = t
  BY <1>2, RenderSettled DEF Quiet
<1>. QED  BY <1>1, <1>2, <1>3, PlainStep

LEMMA ShellExitsStep ==
    ASSUME Orderly, Inv, Calm, NEW i, ShellExits(i), NEW c
    PROVE  Calm' /\ Alone(screen, screen', c)
<1>. DEFINE t == SetLive(screen, i, FALSE)
<1>1. Running /\ Unchanged /\ screen' = t
  BY DEF ShellExits
<1>2. Quiet(t, {} \cup {i}) /\ Alone(screen, t, c)
  BY <1>1, AskedInCalm, SetLiveSeats DEF Orders
<1>. HIDE DEF t
<1>3. Quiet(t, {i}) /\ ~t.failed
  BY <1>2 DEF Quiet
<1>. QED  BY <1>1, <1>2, <1>3, QuietStep

LEMMA RenderStep ==
    ASSUME Orderly, Inv, Calm, RenderRequest, NEW c
    PROVE  Calm' /\ Alone(screen, screen', c)
<1>. DEFINE t == Render(screen)
<1>1. ~screen.failed /\ Dead(screen) # {} /\ Unchanged /\ screen' = t
  BY DEF RenderRequest
<1>2. /\ Seats(screen) /\ Waits(screen, loading) /\ OneDies(screen, loading)
      /\ Listed(pending_tab_ids, loading) /\ pending_tab_switches = {}
  BY <1>1 DEF Calm, CalmOf
<1>3. PICK i \in Dead(screen) : TRUE
  BY <1>1
<1>4. loading = <<>> /\ DOMAIN loading = {}
  BY <1>1, <1>2 DEF OneDies
<1>5. \A j \in TabIndices(screen) : ~screen.tabs[j].pending
  BY <1>2, <1>4 DEF Waits
<1>6. Loaded(screen, {i})
  BY <1>1, <1>2, <1>5 DEF Loaded, OneDies, Dead
<1>7. Quiet(screen, {i})
  BY <1>1, <1>2, <1>6 DEF Quiet, Inv
<1>8. Quiet(t, {}) /\ Alone(screen, t, c)
  BY <1>7, RenderSeats DEF Orders
<1>. HIDE DEF t
<1>9. pending_tab_ids = {}
  BY <1>2, <1>4 DEF Listed
<1>10. Quiet(t, {i})
  BY <1>8 DEF Quiet, Loaded
<1>11. CalmOf(t, <<>>, {}, {})
  BY <1>10, QuietIsCalm
<1>. QED  BY <1>1, <1>2, <1>4, <1>8, <1>9, <1>11 DEF Calm, Unchanged

----------------------------------------------------------------------------
(* A tab comes back from the plugin and the pty thread. *)

(* t is s with the pending tab i loaded, and its client c looking at it. *)
Landed(s, t, i, c) ==
    /\ TabIndices(t) = TabIndices(s)
    /\ t.tabs[i].live /\ ~t.tabs[i].pending /\ t.tabs[i].clients = {c}
    /\ \A j \in TabIndices(s) \ {i} :
         /\ t.tabs[j].live = s.tabs[j].live /\ t.tabs[j].pending = s.tabs[j].pending
         /\ t.tabs[j].clients = IF s.tabs[j].pending THEN s.tabs[j].clients
                                ELSE s.tabs[j].clients \ {c}
    /\ Attached(t) = Attached(s) \cup {c}
    /\ \A d \in Attached(t) : t.active[d] = IF d = c THEN i ELSE s.active[d]
    /\ DOMAIN s.history \cup {c} \subseteq DOMAIN t.history
    /\ s.connected \subseteq t.connected /\ c \in t.connected /\ t.failed = s.failed

Starts(u) == [u EXCEPT !.pending = FALSE, !.live = TRUE]

LEMMA StartsType ==
    ASSUME NEW u \in Tabs, NEW C \in SUBSET Clients
    PROVE  LET v == AddClients(Starts(u), C)
           IN  /\ Starts(u) \in Tabs
               /\ v.live /\ ~v.pending /\ v.clients = u.clients \cup C
BY DEF Starts, AddClients, HasPanes, Tabs

(* The client is on the screen: it leaves its tab for the new one.          *)
LEMMA LoadForSomebody ==
    ASSUME ~Mirrored, NEW s, ScreenOK(s), Seats(s), NEW c \in Attached(s),
           NEW i \in TabIndices(s), s.tabs[i].pending, s.tabs[i].clients = {c}
    PROVE  Landed(s, LoadTab(s, i, c), i, c)
<1>. DEFINE src     == s.active[c]
            g       == [s.tabs EXCEPT ![src] = RemoveClients(@, {c})]
            drained == [s EXCEPT !.tabs = g]
            focus   == UpdateClientTabFocus(drained, {c}, i)
            h       == [g EXCEPT ![i] = AddClients(Starts(@), {c})]
            loaded  == [focus EXCEPT !.tabs = h]
<1>1. /\ HasActiveTab(s, c) /\ Actor(s, c) = c /\ c # NoClient /\ c \in Clients
      /\ src \in TabIndices(s) /\ src # i
  BY ScreenFields, ClientsAssumption DEF Seats, HasActiveTab, Actor, NoClient
<1>2. \A j \in TabIndices(s) : s.tabs[j] \in Tabs
  BY ScreenFields
<1>3. /\ DOMAIN h = TabIndices(s)
      /\ h[i] = AddClients(Starts(s.tabs[i]), {c})
      /\ \A j \in TabIndices(s) \ {i} :
           h[j] = IF j = src THEN RemoveClients(s.tabs[j], {c}) ELSE s.tabs[j]
  BY <1>1, ScreenFields DEF TabIndices
<1>4. [s EXCEPT !.tabs[src] = RemoveClients(@, {c})] = drained
  OBVIOUS
<1>5. /\ drained.tabs = g /\ drained.active = s.active /\ drained.history = s.history
      /\ drained.connected = s.connected /\ drained.failed = s.failed
  BY ScreenIsOK DEF Screens
<1>6. drained \in Screens
  <2>1. Keeps(s, drained)
    BY <1>4, RemoveClientsKeeps
  <2>. QED  BY <2>1, ScreenIsOK DEF Keeps
<1>. HIDE DEF g, h
<1>7. /\ focus.tabs = g
      /\ Attached(focus) = Attached(s)
      /\ \A d \in Attached(s) : focus.active[d] = IF d = c THEN i ELSE s.active[d]
      /\ DOMAIN focus.history = DOMAIN s.history \cup {c}
      /\ focus.connected = s.connected /\ focus.failed = s.failed
  <2>. DEFINE f == [d \in DOMAIN drained.active \cup {c} |->
                      IF d \in {c} THEN i ELSE drained.active[d]]
              k == [d \in DOMAIN drained.history \cup ({c} \cap Attached(drained)) |->
                      IF d \in {c} \cap Attached(drained)
                      THEN Append(Without(History(drained, d), i), drained.active[d])
                      ELSE drained.history[d]]
  <2>1. focus = [drained EXCEPT !.active = f, !.history = k]
    BY DEF UpdateClientTabFocus
  <2>. HIDE DEF drained
  <2>2. /\ DOMAIN f = Attached(s)
        /\ \A d \in Attached(s) : f[d] = IF d = c THEN i ELSE s.active[d]
    BY <1>5 DEF Attached
  <2>3. DOMAIN k = DOMAIN s.history \cup {c}
    BY <1>5 DEF Attached
  <2>. HIDE DEF f, k, focus
  <2>4. /\ focus.tabs = drained.tabs /\ focus.active = f /\ focus.history = k
        /\ focus.connected = drained.connected /\ focus.failed = drained.failed
    BY <1>6, <2>1 DEF Screens
  <2>. QED  BY <1>5, <2>2, <2>3, <2>4 DEF Attached
<1>8. focus \in Screens
  <2>1. Keeps(drained, focus)
    BY <1>1, <1>6, ScreenFields, ScreenIsOK, UpdateClientTabFocusKeeps
  <2>. QED  BY <2>1, ScreenIsOK DEF Keeps
<1>9. LoadTab(s, i, c) = loaded
  <2>. DEFINE full == [focus EXCEPT
                         !.tabs[i] = AddClients([@ EXCEPT !.pending = FALSE, !.live = TRUE], {c})]
  <2>1. full = loaded
    BY <1>7, Zenon DEF h, Starts
  <2>2. c \in Attached(full)
    <3>1. loaded.active = focus.active
      BY <1>8 DEF Screens
    <3>. QED  BY <1>7, <2>1, <3>1 DEF Attached
  <2>3. focus = UpdateClientTabFocus([s EXCEPT !.tabs[src] = RemoveClients(@, {c})], {c}, i)
    BY <1>4
  <2>. HIDE DEF loaded
  <2>4. LoadTab(s, i, c) = IF c \in Attached(full) THEN full ELSE AttachClient(full, c)
    BY <1>1, <2>3, Zenon DEF LoadTab
  <2>. QED  BY <2>1, <2>2, <2>4
<1>. HIDE DEF focus, drained
<1>10. /\ loaded.tabs = h /\ loaded.active = focus.active /\ loaded.history = focus.history
       /\ loaded.connected = focus.connected /\ loaded.failed = focus.failed
  BY <1>8 DEF Screens
<1>. HIDE DEF loaded
<1>11. h[i].live /\ ~h[i].pending /\ h[i].clients = {c}
  BY <1>1, <1>2, <1>3, StartsType
<1>12. ASSUME NEW j \in TabIndices(s) \ {i}
       PROVE  /\ h[j].live = s.tabs[j].live /\ h[j].pending = s.tabs[j].pending
              /\ h[j].clients = IF s.tabs[j].pending THEN s.tabs[j].clients
                                ELSE s.tabs[j].clients \ {c}
  <2>1. CASE j = src
    <3>1. h[j] = [s.tabs[j] EXCEPT !.clients = @ \ {c}] /\ ~s.tabs[j].pending
      BY <1>3, <2>1 DEF RemoveClients, Seats
    <3>. QED  BY <1>2, <3>1 DEF Tabs
  <2>2. CASE j # src
    <3>1. h[j] = s.tabs[j]
      BY <1>3, <2>2
    <3>2. ~s.tabs[j].pending => c \notin s.tabs[j].clients
      BY <2>2 DEF Seats
    <3>. QED  BY <3>1, <3>2
  <2>. QED  BY <2>1, <2>2
<1>13. TabIndices(loaded) = TabIndices(s) /\ Attached(loaded) = Attached(s)
  BY <1>3, <1>7, <1>10 DEF TabIndices, Attached
<1>14. /\ loaded.tabs[i].live /\ ~loaded.tabs[i].pending /\ loaded.tabs[i].clients = {c}
       /\ \A j \in TabIndices(s) \ {i} :
            /\ loaded.tabs[j].live = s.tabs[j].live
            /\ loaded.tabs[j].pending = s.tabs[j].pending
            /\ loaded.tabs[j].clients = IF s.tabs[j].pending THEN s.tabs[j].clients
                                       ELSE s.tabs[j].clients \ {c}
  BY <1>10, <1>11, <1>12
<1>15. /\ Attached(loaded) = Attached(s) \cup {c}
       /\ \A d \in Attached(loaded) : loaded.active[d] = IF d = c THEN i ELSE s.active[d]
       /\ DOMAIN s.history \cup {c} \subseteq DOMAIN loaded.history
       /\ s.connected \subseteq loaded.connected /\ c \in loaded.connected
       /\ loaded.failed = s.failed
  BY <1>7, <1>10, <1>13 DEF Seats
<1>16. Landed(s, loaded, i, c)
  BY <1>13, <1>14, <1>15, Zenon DEF Landed
<1>. QED  BY <1>9, <1>16

(* Nobody is on the screen yet: the first client is attached to the tab.    *)
LEMMA LoadForTheFirst ==
    ASSUME ~Mirrored, NEW s, ScreenOK(s), Attached(s) = {}, NEW c \in Clients,
           NEW i \in TabIndices(s), i = LeastOf(TabIndices(s)),
           s.tabs[i].clients = {c}, \A j \in TabIndices(s) : s.tabs[j].pending
    PROVE  Landed(s, LoadTab(s, i, c), i, c)
<1>. DEFINE v == AddClients(Starts(s.tabs[i]), {})
            g == [s.tabs EXCEPT ![i] = v]
            loaded == [s EXCEPT !.tabs = g]
            t == AttachClient(loaded, c)
<1>1. ~HasActiveTab(s, c) /\ Actor(s, c) = NoClient
  BY DEF HasActiveTab, Actor
<1>2. s.tabs[i] \in Tabs
  BY ScreenFields
<1>3. Starts(s.tabs[i]) \in Tabs /\ v.live /\ ~v.pending /\ v.clients = {c}
  BY <1>2, StartsType
<1>4. /\ DOMAIN g = TabIndices(s) /\ g[i] = v
      /\ \A j \in TabIndices(s) \ {i} : g[j] = s.tabs[j]
  BY ScreenFields DEF TabIndices
<1>5. /\ loaded.tabs = g /\ loaded.active = s.active /\ loaded.history = s.history
      /\ loaded.connected = s.connected /\ loaded.failed = s.failed
  BY ScreenIsOK DEF Screens
<1>6. LoadTab(s, i, c) = t
  <2>. DEFINE full == [s EXCEPT
                         !.tabs[i] = AddClients([@ EXCEPT !.pending = FALSE, !.live = TRUE], {})]
  <2>1. full = loaded
    BY Zenon DEF Starts
  <2>2. c \notin Attached(full)
    BY <1>5, <2>1 DEF Attached
  <2>. HIDE DEF loaded
  <2>3. LoadTab(s, i, c) = IF c \in Attached(full) THEN full ELSE AttachClient(full, c)
    BY <1>1, Zenon DEF LoadTab
  <2>. QED  BY <2>1, <2>2, <2>3
<1>7. ScreenOK(loaded)
  <2>1. v \in Tabs
    BY <1>3, AddClientsType
  <2>2. g \in [TabIndices(s) -> Tabs]
    BY <2>1, ScreenFields DEF TabIndices
  <2>. HIDE DEF g
  <2>. QED  BY <1>4, <2>2, ScreenFields, TabsReplaced
<1>. HIDE DEF loaded, g, v
<1>8. TabIndices(loaded) = TabIndices(s) /\ Attached(loaded) = {}
  BY <1>4, <1>5 DEF TabIndices, Attached
<1>9. AttachedAt(loaded, t, c, i)
  BY <1>7, <1>8, AttachMoves
<1>. HIDE DEF t
<1>10. loaded.tabs[i] = v /\ v \in Tabs
  BY <1>3, <1>4, <1>5, <1>7, <1>8, ScreenFields
<1>11. t.tabs[i].live /\ ~t.tabs[i].pending /\ t.tabs[i].clients = {c}
  <2>1. t.tabs[i] = AddClients(v, {c})
    BY <1>8, <1>9, <1>10 DEF AttachedAt
  <2>. QED  BY <1>3, <1>10, <2>1 DEF AddClients, HasPanes, Tabs
<1>12. \A j \in TabIndices(s) \ {i} : t.tabs[j] = s.tabs[j]
  BY <1>4, <1>5, <1>8, <1>9 DEF AttachedAt
<1>. QED  BY <1>5, <1>6, <1>8, <1>9, <1>11, <1>12 DEF Landed, AttachedAt

LEMMA LandedSeats ==
    ASSUME NEW s, NEW t, ScreenOK(s), Seats(s), NEW i \in TabIndices(s), s.tabs[i].pending,
           NEW c, Landed(s, t, i, c), c \in Attached(s) \/ Attached(s) = {}
    PROVE  Seats(t) /\ Alone(s, t, c)
<1>1. /\ TabIndices(t) = TabIndices(s)
      /\ ~t.tabs[i].pending /\ t.tabs[i].clients = {c}
      /\ \A j \in TabIndices(s) \ {i} :
           /\ t.tabs[j].pending = s.tabs[j].pending
           /\ t.tabs[j].clients = IF s.tabs[j].pending THEN s.tabs[j].clients
                                  ELSE s.tabs[j].clients \ {c}
      /\ Attached(t) = Attached(s) \cup {c}
      /\ \A d \in Attached(t) : t.active[d] = IF d = c THEN i ELSE s.active[d]
  BY DEF Landed
<1>2. Attached(t) \subseteq t.connected /\ Attached(t) \subseteq DOMAIN t.history
  BY DEF Landed, Seats
<1>3. \A d \in Attached(t) : /\ t.active[d] \in TabIndices(t)
                             /\ ~t.tabs[t.active[d]].pending
                             /\ d \in t.tabs[t.active[d]].clients
  <2>. TAKE d \in Attached(t)
  <2>1. CASE d = c
    BY <1>1, <2>1
  <2>2. CASE d # c
    <3>1. /\ d \in Attached(s) /\ s.active[d] \in TabIndices(s) /\ s.active[d] # i
          /\ ~s.tabs[s.active[d]].pending /\ d \in s.tabs[s.active[d]].clients
      BY <1>1, <2>2 DEF Seats
    <3>. QED  BY <1>1, <2>2, <3>1
  <2>. QED  BY <2>1, <2>2
<1>4. \A j \in TabIndices(t) : ~t.tabs[j].pending =>
        \A d \in t.tabs[j].clients : d \in Attached(t) /\ t.active[d] = j
  <2>. SUFFICES ASSUME NEW j \in TabIndices(t), ~t.tabs[j].pending, NEW d \in t.tabs[j].clients
                PROVE  d \in Attached(t) /\ t.active[d] = j
    OBVIOUS
  <2>1. CASE j = i
    BY <1>1, <2>1
  <2>2. CASE j # i
    <3>0. /\ j \in TabIndices(s) /\ t.tabs[j].pending = s.tabs[j].pending
          /\ t.tabs[j].clients = s.tabs[j].clients \ {c}
      BY <1>1, <2>2
    <3>1. ~s.tabs[j].pending /\ d \in s.tabs[j].clients /\ d # c
      BY <3>0
    <3>2. d \in Attached(s) /\ s.active[d] = j
      BY <1>1, <3>1 DEF Seats
    <3>3. d \in Attached(t) /\ t.active[d] = s.active[d]
      BY <1>1, <3>1, <3>2
    <3>. QED  BY <3>2, <3>3
  <2>. QED  BY <2>1, <2>2
<1>5. Alone(s, t, c)
  BY <1>1 DEF Alone
<1>. QED  BY <1>2, <1>3, <1>4, <1>5 DEF Seats

LEMMA TailFields ==
    ASSUME NEW S, NEW L \in Seq(S), L # <<>>
    PROVE  /\ Len(L) \in Nat \ {0} /\ DOMAIN L = 1 .. Len(L)
           /\ DOMAIN Tail(L) = 1 .. Len(L) - 1
           /\ \A k \in 1 .. Len(L) - 1 : Tail(L)[k] = L[k + 1]
           /\ \A k \in 1 .. Len(L) : L[k] \in S
OBVIOUS

LEMMA ApplyLayoutStep ==
    ASSUME Orderly, Inv, Calm, ApplyLayout
    PROVE  Calm' /\ \E c \in Clients : Alone(screen, screen', c)
<1>. DEFINE s == screen
            L == loading
            M == Tail(loading)
            i == L[1].index
            c == L[1].client
            t == LoadTab(s, i, c)
            P == pending_tab_ids \ {i}
<1>1. ~s.failed /\ L # <<>> /\ Head(L) = L[1]
  BY DEF ApplyLayout
<1>2. ScreenOK(s) /\ L \in Seq([index : Indices, client : Clients])
  BY DEF Inv, Good, OthersOK
<1>3. /\ Seats(s) /\ Waits(s, L) /\ OneDies(s, L)
      /\ Listed(pending_tab_ids, L) /\ pending_tab_switches = {}
  BY <1>1 DEF Calm, CalmOf
<1>4. /\ Len(L) \in Nat \ {0} /\ DOMAIN L = 1 .. Len(L) /\ 1 \in DOMAIN L
      /\ DOMAIN M = 1 .. Len(L) - 1
      /\ \A k \in DOMAIN M : M[k] = L[k + 1] /\ k + 1 \in DOMAIN L
      /\ \A k \in DOMAIN L : k # 1 => k - 1 \in DOMAIN M /\ M[k - 1] = L[k]
      /\ \A k \in DOMAIN L : L[k] \in [index : Indices, client : Clients]
  <2>. DEFINE S == [index : Indices, client : Clients]
  <2>1. /\ Len(L) \in Nat \ {0} /\ DOMAIN L = 1 .. Len(L)
        /\ DOMAIN M = 1 .. Len(L) - 1
        /\ \A k \in 1 .. Len(L) - 1 : M[k] = L[k + 1]
        /\ \A k \in 1 .. Len(L) : L[k] \in S
    <3>1. L \in Seq(S)
      BY <1>2
    <3>. HIDE DEF S
    <3>. QED  BY <1>1, <3>1, TailFields
  <2>. HIDE DEF S, L, M
  <2>2. \A k \in 1 .. Len(L) - 1 : k + 1 \in 1 .. Len(L)
    BY <2>1
  <2>3. \A k \in 1 .. Len(L) : k # 1 => k - 1 \in 1 .. Len(L) - 1 /\ (k - 1) + 1 = k
    BY <2>1
  <2>4. 1 \in 1 .. Len(L)
    BY <2>1
  <2>. QED  BY <2>1, <2>2, <2>3, <2>4 DEF S
<1>5. c \in Clients /\ \A k \in DOMAIN L : L[k].index \in Indices
  BY <1>4
<1>. HIDE DEF M, L
<1>6. /\ i \in TabIndices(s) /\ s.tabs[i].pending /\ s.tabs[i].clients = {c}
      /\ \A k \in DOMAIN L : k # 1 => i < L[k].index
  BY <1>3, <1>4 DEF Waits
<1>7. \/ c \in Attached(s)
      \/ /\ Attached(s) = {} /\ s.connected = {}
         /\ \A j \in TabIndices(s) : s.tabs[j].pending /\ s.tabs[j].clients = {c}
  BY <1>3, <1>4 DEF Waits
<1>8. Landed(s, t, i, c)
  <2>1. CASE c \in Attached(s)
    BY <1>2, <1>3, <1>6, <2>1, LoadForSomebody DEF Orderly
  <2>2. CASE /\ Attached(s) = {}
             /\ \A j \in TabIndices(s) : s.tabs[j].pending
    <3>1. i \in Nat /\ TabIndices(s) \in SUBSET Nat
      BY <1>2, <1>6, ScreenFields, BoundAssumption DEF Indices
    <3>2. \A j \in TabIndices(s) : i <= j
      <4>. TAKE j \in TabIndices(s)
      <4>1. PICK k \in DOMAIN L : L[k].index = j
        BY <1>3, <2>2 DEF Waits
      <4>. QED  BY <1>6, <3>1, <4>1
    <3>3. LeastOf(TabIndices(s)) \in TabIndices(s) /\ LeastOf(TabIndices(s)) <= i
      BY <1>6, <3>1, LeastExists
    <3>4. i = LeastOf(TabIndices(s))
      BY <3>1, <3>2, <3>3
    <3>. HIDE DEF i, c
    <3>. QED  BY <1>2, <1>5, <1>6, <2>2, <3>4, LoadForTheFirst DEF Orderly
  <2>. QED  BY <1>7, <2>1, <2>2
<1>9. \A k \in DOMAIN L : L[k].client = c \/ L[k].client \in Attached(s)
  <2>. TAKE k \in DOMAIN L
  <2>1. ASSUME L[k].client \notin Attached(s)
        PROVE  L[k].client = c
    <3>1. \A j \in TabIndices(s) : s.tabs[j].clients = {L[k].client}
      BY <1>3, <2>1 DEF Waits
    <3>2. {L[k].client} = {c}
      BY <1>6, <3>1
    <3>. QED  BY <3>2
  <2>. QED  BY <2>1
<1>. HIDE DEF t, i, c
<1>10. Seats(t) /\ Alone(s, t, c)
  BY <1>2, <1>3, <1>6, <1>7, <1>8, LandedSeats
<1>11. Dead(s) = {}
  BY <1>1, <1>3 DEF OneDies, L
<1>12. Dead(t) = {}
  BY <1>8, <1>11 DEF Landed, Dead
<1>13. Render(t) = t /\ ~t.failed
  BY <1>1, <1>8, <1>12 DEF Render, Landed
<1>14. /\ screen' = t /\ loading' = M /\ pending_tab_ids' = P
       /\ pending_tab_switches' = {}
  <2>1. Cardinality(pending_tab_switches) = 0
    BY <1>3, FS_EmptySet
  <2>2. Render(LoadTab(screen, Head(loading).index, Head(loading).client)) = t
    BY <1>1, <1>13 DEF t, L, i, c
  <2>. QED  BY <1>1, <1>3, <2>1, <2>2, Zenon DEF ApplyLayout, M, P, L, i
<1>15. /\ \A j \in TabIndices(s) : s.tabs[j].pending /\ j # i =>
            t.tabs[j].pending /\ t.tabs[j].clients = s.tabs[j].clients
       /\ \A j \in TabIndices(s) : t.tabs[j].pending => s.tabs[j].pending /\ j # i
       /\ TabIndices(t) = TabIndices(s)
       /\ Attached(t) = Attached(s) \cup {c}
  BY <1>8 DEF Landed
<1>16. \A k \in DOMAIN M : /\ M[k].index \in TabIndices(t) /\ t.tabs[M[k].index].pending
                           /\ t.tabs[M[k].index].clients = {M[k].client}
  <2>. TAKE k \in DOMAIN M
  <2>1. k + 1 \in DOMAIN L /\ M[k] = L[k + 1] /\ k + 1 # 1
    BY <1>4
  <2>2. /\ L[k + 1].index \in TabIndices(s) /\ s.tabs[L[k + 1].index].pending
        /\ s.tabs[L[k + 1].index].clients = {L[k + 1].client}
    BY <1>3, <2>1 DEF Waits
  <2>3. i < L[k + 1].index /\ i \in Int
    BY <1>2, <1>6, <2>1, ScreenFields DEF Indices
  <2>. QED  BY <1>15, <2>1, <2>2, <2>3
<1>17. \A j \in TabIndices(t) : t.tabs[j].pending => \E k \in DOMAIN M : M[k].index = j
  <2>. TAKE j \in TabIndices(t)
  <2>. HAVE t.tabs[j].pending
  <2>1. s.tabs[j].pending /\ j # i /\ j \in TabIndices(s)
    BY <1>15
  <2>2. PICK k \in DOMAIN L : L[k].index = j
    BY <1>3, <2>1 DEF Waits
  <2>3. k # 1
    BY <2>1, <2>2 DEF i
  <2>. QED  BY <1>4, <2>2, <2>3
<1>18. \A j, k \in DOMAIN M : j < k => M[j].index < M[k].index
  <2>. TAKE j, k \in DOMAIN M
  <2>1. j + 1 \in DOMAIN L /\ k + 1 \in DOMAIN L /\ M[j] = L[j + 1] /\ M[k] = L[k + 1]
    BY <1>4
  <2>2. j < k => j + 1 < k + 1
    BY <1>4
  <2>. QED  BY <1>3, <2>1, <2>2 DEF Waits
<1>19. \A k \in DOMAIN M : M[k].client \in Attached(t)
  BY <1>4, <1>9, <1>15
<1>20. Waits(t, M)
  BY <1>16, <1>17, <1>18, <1>19 DEF Waits
<1>21. Listed(P, M)
  <2>. SUFFICES ASSUME NEW j \in pending_tab_ids, j # i
                PROVE  \E k \in DOMAIN M : M[k].index = j
    BY DEF Listed
  <2>1. PICK k \in DOMAIN L : L[k].index = j
    BY <1>3 DEF Listed
  <2>2. k # 1
    BY <2>1 DEF i
  <2>. QED  BY <1>4, <2>1, <2>2
<1>22. CalmOf(t, M, P, {})
  BY <1>10, <1>12, <1>13, <1>20, <1>21 DEF CalmOf, OneDies
<1>. QED  BY <1>5, <1>10, <1>14, <1>22 DEF Calm

----------------------------------------------------------------------------
(* The theorems. *)

LEMMA CalmStep ==
    ASSUME Orderly, Inv, Calm, Next
    PROVE  Calm' /\ \E c \in Clients \cup {NoClient} : Alone(screen, screen', c)
<1>1. ASSUME NEW c \in Clients, Request(c)
      PROVE  Calm' /\ Alone(screen, screen', c)
  BY <1>1, SwitchRequests, ClosingRequests, OpeningRequests DEF Request
<1>2. ASSUME NEW c \in Clients, NEW how \in {"plain", "pane", "tab"}, NEW i,
             AddClient(c, how, i)
      PROVE  Calm' /\ Alone(screen, screen', c)
  BY <1>2, AddClientStep
<1>3. ASSUME NEW c \in Clients, RemoveClient(c)
      PROVE  Calm' /\ Alone(screen, screen', c)
  BY <1>3, RemoveClientStep
<1>4. ASSUME NEW i, ShellExits(i)
      PROVE  Calm' /\ Alone(screen, screen', NoClient)
  BY <1>4, ShellExitsStep
<1>5. CASE RenderRequest
  BY <1>5, RenderStep
<1>6. CASE ApplyLayout
  BY <1>6, ApplyLayoutStep
<1>. QED  BY <1>1, <1>2, <1>3, <1>4, <1>5, <1>6 DEF Next

LEMMA InitCalm == Init => Calm
<1>. SUFFICES ASSUME Init PROVE Calm
  OBVIOUS
<1>1. /\ TabIndices(screen) = {} /\ Attached(screen) = {} /\ ~screen.failed
      /\ loading = <<>> /\ pending_tab_ids = {} /\ pending_tab_switches = {}
  BY DEF Init, TabIndices, Attached
<1>. QED  BY <1>1 DEF Calm, CalmOf, Seats, Waits, Listed, OneDies, Dead

THEOREM CalmInvariant == ASSUME Orderly PROVE Spec => [](Inv /\ Calm)
<1>1. Inv /\ Calm /\ [Next]_vars => Calm'
  <2>1. ASSUME Inv, Calm, Next PROVE Calm'
    BY <2>1, CalmStep
  <2>2. ASSUME Calm, UNCHANGED vars PROVE Calm'
    BY <2>2 DEF vars, Calm
  <2>. QED  BY <2>1, <2>2
<1>. QED  BY <1>1, InitCalm, TabsInvariant, PTL DEF Spec

(* In an orderly session a client always looks at a tab that exists, is      *)
(* connected to it and to no other loaded tab, however many clients and tabs *)
(* there are: Screen::active_tab_ids and the clients each Tab draws for      *)
(* agree.                                                                    *)
THEOREM EveryClientHasOneTab == ASSUME Orderly PROVE Spec => []OneTabPerClient
<1>1. Calm => OneTabPerClient
  <2>. SUFFICES ASSUME Calm, ~screen.failed, NEW c \in Attached(screen)
                PROVE  /\ screen.active[c] \in TabIndices(screen)
                       /\ c \in screen.tabs[screen.active[c]].clients
                       /\ \A i \in TabIndices(screen) :
                            c \in screen.tabs[i].clients /\ ~screen.tabs[i].pending
                              => i = screen.active[c]
    BY DEF OneTabPerClient
  <2>1. Seats(screen)
    BY DEF Calm, CalmOf
  <2>. QED  BY <2>1 DEF Seats
<1>. QED  BY <1>1, CalmInvariant, PTL

(* In an orderly session the screen thread dies only of a client that comes  *)
(* to a session without tabs: no request of a client of the screen, no shell *)
(* that ends and no tab that comes back makes a handler return an error.     *)
THEOREM ScreenSurvives == ASSUME Orderly PROVE Spec => []FailsOnlyWithoutTabs
<1>1. Calm => FailsOnlyWithoutTabs
  BY DEF Calm, CalmOf, FailsOnlyWithoutTabs
<1>. QED  BY <1>1, CalmInvariant, PTL

(* In an orderly session an instruction takes at most one client away from a *)
(* tab that stays: the other users' focus is their own.                      *)
THEOREM OnlyOneClientMoves == ASSUME Orderly PROVE Spec => OneClientMoves
<1>. DEFINE Step == pending_tab_switches = {} =>
                      \A c, d \in Clients : MovedAway(c) /\ MovedAway(d) => c = d
<1>1. Inv /\ Calm /\ [Next]_vars => [Step]_vars
  <2>. SUFFICES ASSUME Inv, Calm, Next PROVE Step
    OBVIOUS
  <2>1. PICK e \in Clients \cup {NoClient} : Alone(screen, screen', e)
    BY CalmStep
  <2>2. \A c \in Clients : MovedAway(c) => c = e
    BY <2>1 DEF Alone, MovedAway, Attached, TabIndices
  <2>. QED  BY <2>2
<1>2. [Step]_vars => [~Mirrored /\ pending_tab_switches = {}
                        => \A c, d \in Clients : MovedAway(c) /\ MovedAway(d) => c = d]_vars
  OBVIOUS
<1>. QED  BY <1>1, <1>2, CalmInvariant, PTL DEF Spec, OneClientMoves

----------------------------------------------------------------------------
(* Mirrored sessions: all clients are at a, and came there by h.  A tab that *)
(* has loaded lists all of them, if it is a, or none.                      *)
At(s, a, h) ==
    /\ TabIndices(s) # {} => s.connected = Attached(s)
    /\ \A c \in Attached(s) : s.active[c] = a /\ History(s, c) = h
    /\ \A i \in TabIndices(s) :
         /\ s.tabs[i].clients \subseteq Attached(s)
         /\ s.tabs[i].clients # {} /\ ~s.tabs[i].pending =>
               i = a /\ s.tabs[i].clients = Attached(s)

Level(s) == \E a, h : At(s, a, h)

(* The tab that all look at lists all or none, also when it is loading.    *)
Even(s) ==
    \A c \in Attached(s) : s.active[c] \in TabIndices(s) =>
        s.tabs[s.active[c]].clients \in {{}, Attached(s)}

LEMMA LevelIsTogether ==
    ASSUME NEW s, Level(s)
    PROVE  Together(s)
BY DEF Level, At, Together

(* t is s with the clients C of its active tab moved to tab n, and everybody *)
(* focused on n.                                                           *)
AllMoved(s, t, cur, C, n) ==
    /\ TabIndices(t) = TabIndices(s) /\ Attached(t) = Attached(s)
    /\ t.connected = s.connected
    /\ \A i \in TabIndices(s) :
         t.tabs[i] = IF i = cur THEN RemoveClients(s.tabs[i], C)
                     ELSE IF i = n THEN AddClients(s.tabs[i], C) ELSE s.tabs[i]
    /\ \A d \in Attached(s) :
         /\ t.active[d] = n
         /\ History(t, d) = Append(Without(History(s, d), n), s.active[d])

(* What update_client_tab_focus does for all clients                        *)
LEMMA AllFocused ==
    ASSUME NEW s, ScreenOK(s), s.connected = Attached(s), NEW n
    PROVE  LET t == UpdateClientTabFocus(s, s.connected, n)
           IN  /\ t.tabs = s.tabs /\ Attached(t) = Attached(s)
               /\ t.connected = s.connected
               /\ \A d \in Attached(s) :
                    /\ t.active[d] = n
                    /\ History(t, d) = Append(Without(History(s, d), n), s.active[d])
<1>. DEFINE C == s.connected
            f == [c \in DOMAIN s.active \cup C |-> IF c \in C THEN n ELSE s.active[c]]
            h == [c \in DOMAIN s.history \cup (C \cap Attached(s)) |->
                    IF c \in C \cap Attached(s)
                    THEN Append(Without(History(s, c), n), s.active[c])
                    ELSE s.history[c]]
            t == [s EXCEPT !.active = f, !.history = h]
<1>1. UpdateClientTabFocus(s, s.connected, n) = t
  BY DEF UpdateClientTabFocus
<1>2. /\ DOMAIN f = Attached(s) /\ \A d \in Attached(s) : f[d] = n
  BY DEF Attached
<1>3. \A d \in Attached(s) :
         d \in DOMAIN h /\ h[d] = Append(Without(History(s, d), n), s.active[d])
  OBVIOUS
<1>. HIDE DEF f, h
<1>4. t.tabs = s.tabs /\ t.active = f /\ t.history = h /\ t.connected = s.connected
  BY ScreenIsOK DEF Screens
<1>. HIDE DEF t
<1>. QED  BY <1>1, <1>2, <1>3, <1>4 DEF Attached, History

LEMMA BetweenTabs ==
    ASSUME NEW s, ScreenOK(s), NEW cur \in TabIndices(s), NEW n \in TabIndices(s), n # cur,
           NEW C
    PROVE  LET t == MoveClientsBetweenTabs(s, cur, n, C)
           IN  /\ TabIndices(t) = TabIndices(s) /\ t.active = s.active
               /\ t.history = s.history /\ t.connected = s.connected
               /\ \A i \in TabIndices(s) :
                    t.tabs[i] = IF i = cur THEN RemoveClients(s.tabs[i], C)
                                ELSE IF i = n THEN AddClients(s.tabs[i], C) ELSE s.tabs[i]
<1>. DEFINE g == [s.tabs EXCEPT ![cur] = RemoveClients(@, C)]
            h == [g EXCEPT ![n] = AddClients(@, C)]
            t == MoveClientsBetweenTabs(s, cur, n, C)
<1>1. t = [s EXCEPT !.tabs = h]
  BY ScreenIsOK DEF MoveClientsBetweenTabs, Screens
<1>2. /\ DOMAIN h = TabIndices(s)
      /\ \A i \in TabIndices(s) :
           h[i] = IF i = cur THEN RemoveClients(s.tabs[i], C)
                  ELSE IF i = n THEN AddClients(s.tabs[i], C) ELSE s.tabs[i]
  BY ScreenFields DEF TabIndices
<1>. HIDE DEF g, h, t
<1>3. /\ t.tabs = h /\ t.active = s.active /\ t.history = s.history
      /\ t.connected = s.connected
  BY <1>1, ScreenIsOK DEF Screens
<1>. QED  BY <1>2, <1>3 DEF t, TabIndices

LEMMA SwitchMovesAll ==
    ASSUME Mirrored, NEW s, ScreenOK(s), s.connected = Attached(s),
           NEW c \in Clients, NEW pos, Leads(s, pos, c)
    PROVE  LET cur == s.active[c]
           IN  \E n \in TabIndices(s) :
                 /\ n # cur /\ cur \in TabIndices(s) /\ s.tabs[n].position = pos
                 /\ AllMoved(s, SwitchActiveTab(s, pos, c), cur, s.tabs[cur].clients, n)
<1>. DEFINE found == {i \in TabIndices(s) : s.tabs[i].position = pos}
            cur   == s.active[c]
            n     == LeastOf(found)
            C     == s.tabs[cur].clients
            moved == MoveClientsBetweenTabs(s, cur, n, C)
            t     == UpdateClientTabFocus(moved, s.connected, n)
<1>1. /\ found # {} /\ HasActiveTab(s, c) /\ s.tabs[cur].position # pos
      /\ SwitchActiveTab(s, pos, c) = t
  <2>1. found # {} /\ HasActiveTab(s, c) /\ s.tabs[cur].position # pos
    BY DEF Leads
  <2>. QED  BY <2>1, Zenon DEF SwitchActiveTab
<1>2. found \in SUBSET Nat
  BY ScreenFields, BoundAssumption DEF Indices
<1>3. n \in found
  BY <1>1, <1>2, LeastExists
<1>4. cur \in TabIndices(s) /\ c \in Attached(s) /\ n # cur
  BY <1>1, <1>3 DEF HasActiveTab
<1>5. n \in TabIndices(s) /\ s.tabs[n].position = pos
  BY <1>3
<1>6. C \in SUBSET Clients
  BY <1>4, ScreenFields DEF Tabs
<1>7. ScreenOK(moved)
  BY <1>6, MoveClientsBetweenTabsKeeps DEF Keeps
<1>. HIDE DEF n, cur, C
<1>8. /\ TabIndices(moved) = TabIndices(s) /\ moved.active = s.active
      /\ moved.history = s.history /\ moved.connected = s.connected
      /\ \A i \in TabIndices(s) :
            moved.tabs[i] = IF i = cur THEN RemoveClients(s.tabs[i], C)
                            ELSE IF i = n THEN AddClients(s.tabs[i], C) ELSE s.tabs[i]
  BY <1>4, <1>5, BetweenTabs
<1>. HIDE DEF moved
<1>9. /\ Attached(moved) = Attached(s) /\ \A d : History(moved, d) = History(s, d)
  BY <1>8 DEF Attached, History
<1>10. /\ t.tabs = moved.tabs /\ Attached(t) = Attached(s) /\ t.connected = s.connected
       /\ \A d \in Attached(s) :
            /\ t.active[d] = n
            /\ History(t, d) = Append(Without(History(s, d), n), s.active[d])
  BY <1>7, <1>8, <1>9, AllFocused
<1>. HIDE DEF t
<1>11. AllMoved(s, t, cur, C, n)
  BY <1>8, <1>10 DEF AllMoved, TabIndices
<1>. QED  BY <1>1, <1>4, <1>5, <1>11 DEF cur, C

LEMMA SwitchKeepsLevel ==
    ASSUME Mirrored, NEW s, ScreenOK(s), Level(s), Even(s), NEW c \in Clients, NEW pos
    PROVE  Level(SwitchActiveTab(s, pos, c))
<1>. DEFINE t   == SwitchActiveTab(s, pos, c)
            cur == s.active[c]
            C   == s.tabs[cur].clients
<1>1. CASE ~Leads(s, pos, c)
  BY <1>1, SwitchStays
<1>2. CASE Leads(s, pos, c)
  <2>1. PICK a, h : At(s, a, h)
    BY DEF Level
  <2>2. c \in Attached(s) /\ cur = a /\ a \in TabIndices(s) /\ s.connected = Attached(s)
    BY <1>2, <2>1 DEF Leads, HasActiveTab, At
  <2>3. PICK n \in TabIndices(s) : n # a /\ AllMoved(s, t, a, C, n)
    BY <1>2, <2>2, SwitchMovesAll
  <2>. HIDE DEF t
  <2>4. C \in {{}, Attached(s)}
    BY <2>2 DEF Even
  <2>5. \A i \in TabIndices(s) : s.tabs[i] \in Tabs
    BY ScreenFields
  <2>6. ASSUME NEW i \in TabIndices(s)
        PROVE  /\ t.tabs[i].clients \subseteq Attached(s)
               /\ t.tabs[i].clients # {} /\ ~t.tabs[i].pending =>
                     i = n /\ t.tabs[i].clients = Attached(s)
    <3>0. /\ s.tabs[i] \in Tabs /\ s.tabs[i].clients \subseteq Attached(s)
          /\ s.tabs[i].clients # {} /\ ~s.tabs[i].pending =>
                i = a /\ s.tabs[i].clients = Attached(s)
      BY <2>1, <2>5 DEF At
    <3>1. CASE i = a
      <4>1. t.tabs[i] = RemoveClients(s.tabs[i], C) /\ C = s.tabs[i].clients
        BY <2>2, <2>3, <3>1 DEF AllMoved
      <4>. QED  BY <3>0, <4>1 DEF RemoveClients, Tabs
    <3>2. CASE i = n
      <4>1. t.tabs[i] = AddClients(s.tabs[i], C)
        BY <2>3, <3>2 DEF AllMoved
      <4>2. /\ t.tabs[i].clients \in {s.tabs[i].clients, s.tabs[i].clients \cup C}
            /\ t.tabs[i].pending = s.tabs[i].pending
        BY <3>0, <4>1 DEF AddClients, Tabs
      <4>3. s.tabs[i].pending \/ s.tabs[i].clients = {}
        BY <2>3, <3>0, <3>2
      <4>. QED  BY <2>4, <3>0, <3>2, <4>2, <4>3
    <3>3. CASE i # a /\ i # n
      BY <2>3, <3>0, <3>3 DEF AllMoved
    <3>. QED  BY <3>1, <3>2, <3>3
  <2>7. At(t, n, Append(Without(h, n), a))
    BY <2>1, <2>2, <2>3, <2>6 DEF At, AllMoved
  <2>. QED  BY <2>7 DEF t, Level
<1>. QED  BY <1>1, <1>2

(* The methods around a switch                                             *)

LEMMA GoToKeepsLevel ==
    ASSUME Mirrored, NEW s, ScreenOK(s), Level(s), Even(s), NEW c \in Clients, NEW p
    PROVE  Level(GoToTab(s, p, c))
BY SwitchKeepsLevel DEF GoToTab

LEMMA SwitchTabByKeepsLevel ==
    ASSUME Mirrored, NEW s, ScreenOK(s), Level(s), Even(s), NEW c \in Clients, NEW step
    PROVE  Level(SwitchTabBy(s, c, step))
<1>1. HasActiveTab(s, Actor(s, c)) => Actor(s, c) \in Clients
  BY ScreenFields DEF HasActiveTab
<1>. QED  BY <1>1, SwitchKeepsLevel DEF SwitchTabBy

(* A change of a tab that leaves its clients alone                         *)
LEMMA SetLiveKeepsLevel ==
    ASSUME NEW s, ScreenOK(s), NEW i, NEW v \in BOOLEAN
    PROVE  /\ Level(s) => Level(SetLive(s, i, v))
           /\ Even(s) => Even(SetLive(s, i, v))
<1>. DEFINE g == [s.tabs EXCEPT ![i].live = v]
            t == SetLive(s, i, v)
<1>1. t = [s EXCEPT !.tabs = g]
  BY ScreenIsOK DEF SetLive, Screens
<1>2. /\ DOMAIN g = TabIndices(s)
      /\ \A j \in TabIndices(s) :
            g[j].clients = s.tabs[j].clients /\ g[j].pending = s.tabs[j].pending
  <2>1. \A j \in TabIndices(s) : s.tabs[j] \in Tabs
    BY ScreenFields
  <2>. QED  BY <2>1 DEF TabIndices, Tabs
<1>. HIDE DEF g, t
<1>3. /\ t.tabs = g /\ t.active = s.active /\ t.history = s.history
      /\ t.connected = s.connected
  BY <1>1, ScreenIsOK DEF Screens
<1>4. /\ TabIndices(t) = TabIndices(s) /\ Attached(t) = Attached(s)
      /\ \A d : History(t, d) = History(s, d)
      /\ \A j \in TabIndices(s) :
            t.tabs[j].clients = s.tabs[j].clients /\ t.tabs[j].pending = s.tabs[j].pending
  BY <1>2, <1>3 DEF TabIndices, Attached, History
<1>5. ASSUME NEW a, NEW h, At(s, a, h)
      PROVE  At(t, a, h)
  BY <1>3, <1>4, <1>5 DEF At
<1>6. Level(s) => Level(t)
  BY <1>5 DEF Level
<1>7. Even(s) => Even(t)
  BY <1>3, <1>4 DEF Even
<1>. QED  BY <1>6, <1>7 DEF t

LEMMA FailKeepsLevel ==
    ASSUME NEW s, ScreenOK(s), Level(s)
    PROVE  Level(Fail(s))
<1>. DEFINE t == Fail(s)
<1>1. /\ t.tabs = s.tabs /\ t.active = s.active /\ t.history = s.history
      /\ t.connected = s.connected
  BY ScreenIsOK DEF Fail, Screens
<1>. HIDE DEF t
<1>2. /\ TabIndices(t) = TabIndices(s) /\ Attached(t) = Attached(s)
      /\ \A d : History(t, d) = History(s, d)
  BY <1>1 DEF TabIndices, Attached, History
<1>3. ASSUME NEW a, NEW h, At(s, a, h)
      PROVE  At(t, a, h)
  BY <1>1, <1>2, <1>3 DEF At
<1>. QED  BY <1>3 DEF t, Level

LEMMA DetachKeepsLevel ==
    ASSUME NEW s, ScreenOK(s), Level(s), NEW c
    PROVE  Level(DetachClient(s, c))
<1>. DEFINE g == [i \in DOMAIN s.tabs |-> RemoveClients(s.tabs[i], {c})]
            t == DetachClient(s, c)
<1>1. \A i \in TabIndices(s) : s.tabs[i] \in Tabs
  BY ScreenFields
<1>2. /\ DOMAIN g = TabIndices(s)
      /\ \A i \in TabIndices(s) :
           /\ g[i].clients = s.tabs[i].clients \ {c}
           /\ g[i].pending = s.tabs[i].pending
  BY <1>1 DEF RemoveClients, Tabs, TabIndices
<1>3. /\ t.tabs = g
      /\ t.active = [d \in DOMAIN s.active \ {c} |-> s.active[d]]
      /\ t.history = [d \in DOMAIN s.history \ {c} |-> s.history[d]]
      /\ t.connected = s.connected \ {c}
  BY ScreenIsOK DEF DetachClient, Screens
<1>. HIDE DEF g, t
<1>4. /\ TabIndices(t) = TabIndices(s) /\ Attached(t) = Attached(s) \ {c}
      /\ \A d \in Attached(t) : t.active[d] = s.active[d] /\ History(t, d) = History(s, d)
      /\ \A i \in TabIndices(t) : /\ t.tabs[i].clients = s.tabs[i].clients \ {c}
                                   /\ t.tabs[i].pending = s.tabs[i].pending
  BY <1>2, <1>3 DEF TabIndices, Attached, History
<1>5. ASSUME NEW a, NEW h, At(s, a, h)
      PROVE  At(t, a, h)
  <2>1. /\ TabIndices(t) # {} => t.connected = Attached(t)
        /\ \A d \in Attached(t) : t.active[d] = a /\ History(t, d) = h
    BY <1>3, <1>4, <1>5 DEF At
  <2>2. ASSUME NEW i \in TabIndices(t)
        PROVE  /\ t.tabs[i].clients \subseteq Attached(t)
               /\ t.tabs[i].clients # {} /\ ~t.tabs[i].pending =>
                     i = a /\ t.tabs[i].clients = Attached(t)
    BY <1>4, <1>5, <2>2 DEF At
  <2>. QED  BY <2>1, <2>2 DEF At
<1>. QED  BY <1>5 DEF t, Level

----------------------------------------------------------------------------
(* Closing a tab                                                           *)

HomeOf(T, h) ==
    IF h # <<>> /\ h[Len(h)] \in T THEN h[Len(h)] ELSE LeastOf(T)
Shorter(h) == IF h = <<>> THEN <<>> ELSE SubSeq(h, 1, Len(h) - 1)

(* t is s without tab i, whose clients C have gone where they came from.    *)
Emptied(s, t, i, C) ==
    LET left == TabIndices(s) \ {i}
        home(d) == HomeOf(left, History(s, d))
    IN  /\ TabIndices(t) = left /\ Attached(t) = Attached(s) \cup C
        /\ t.connected = s.connected
        /\ \A d \in Attached(t) :
             /\ t.active[d] = IF d \in C THEN home(d) ELSE s.active[d]
             /\ History(t, d) = IF d \in C THEN Shorter(History(s, d)) ELSE History(s, d)
        /\ \A j \in left :
             /\ t.tabs[j].live = s.tabs[j].live /\ t.tabs[j].pending = s.tabs[j].pending
             /\ t.tabs[j].clients \in {s.tabs[j].clients,
                                       s.tabs[j].clients \cup {d \in C : home(d) = j}}

LEMMA CloseEmpties ==
    ASSUME NEW s, ScreenOK(s), NEW i \in TabIndices(s), TabIndices(s) # {i}
    PROVE  Emptied(s, CloseOneTab(s, i), i, s.tabs[i].clients)
<1>. DEFINE C    == s.tabs[i].clients
            left == [j \in TabIndices(s) \ {i} |-> s.tabs[j]]
            rest == [s EXCEPT !.tabs = left]
            prev(c) == History(rest, c)
            home(c) == IF prev(c) # <<>> /\ prev(c)[Len(prev(c))] \in TabIndices(rest)
                       THEN prev(c)[Len(prev(c))]
                       ELSE LeastOf(TabIndices(rest))
            short(c) == IF prev(c) = <<>> THEN <<>> ELSE SubSeq(prev(c), 1, Len(prev(c)) - 1)
            here(j) == {c \in C : home(c) = j}
            moved(j) == IF here(j) = {} THEN rest.tabs[j] ELSE AddClients(rest.tabs[j], here(j))
            move == MoveClientsFromClosedTab(rest, C)
            g    == [j \in DOMAIN move.tabs |-> MoveDown(move.tabs[j], s.tabs[i].position)]
            t    == [move EXCEPT !.tabs = g]
<1>1. DOMAIN left = TabIndices(s) \ {i} /\ left \in [DOMAIN left -> Tabs]
  BY ScreenFields
<1>2. \A j \in TabIndices(s) \ {i} : left[j] = s.tabs[j]
  OBVIOUS
<1>. HIDE DEF left
<1>3. ScreenOK(rest) /\ rest.tabs = left
  BY <1>1, ScreenFields, TabsReplaced
<1>4. TabIndices(rest) = TabIndices(s) \ {i} /\ TabIndices(rest) # {}
  BY <1>1, <1>3 DEF TabIndices
<1>5. CloseOneTab(s, i) = t
  BY <1>4, Zenon DEF CloseOneTab, left, TabIndices
<1>6. /\ rest.active = s.active /\ rest.history = s.history
      /\ rest.connected = s.connected
      /\ \A c : prev(c) = History(s, c)
  BY ScreenIsOK DEF Screens, History
<1>. HIDE DEF rest, prev
<1>7. ASSUME NEW c
      PROVE  /\ home(c) = HomeOf(TabIndices(s) \ {i}, History(s, c))
             /\ short(c) = Shorter(History(s, c))
  BY <1>4, <1>6 DEF HomeOf, Shorter
<1>8. /\ \A c : home(c) = HomeOf(TabIndices(s) \ {i}, History(s, c))
      /\ \A c : short(c) = Shorter(History(s, c))
  BY <1>7
<1>. USE DEF prev
<1>9. C \in SUBSET Clients
  BY ScreenFields DEF Tabs
<1>10. /\ move.active = [c \in Attached(s) \cup C |-> IF c \in C THEN home(c) ELSE s.active[c]]
       /\ move.history = [c \in DOMAIN s.history \cup C |->
                            IF c \notin C THEN s.history[c] ELSE short(c)]
       /\ move.tabs = [j \in TabIndices(rest) |-> moved(j)]
       /\ move.connected = s.connected
  <2>. DEFINE f == [c \in DOMAIN rest.active \cup C |-> IF c \in C THEN home(c) ELSE rest.active[c]]
              h == [c \in DOMAIN rest.history \cup C |->
                      IF c \notin C THEN rest.history[c] ELSE short(c)]
              m == [j \in DOMAIN rest.tabs |-> moved(j)]
  <2>1. move = [rest EXCEPT !.active = f, !.history = h, !.tabs = m]
    BY DEF MoveClientsFromClosedTab
  <2>. HIDE DEF rest, home, short, moved
  <2>2. h = [c \in DOMAIN s.history \cup C |-> IF c \notin C THEN s.history[c] ELSE short(c)]
    BY <1>6
  <2>3. f = [c \in Attached(s) \cup C |-> IF c \in C THEN home(c) ELSE s.active[c]]
    BY <1>6 DEF Attached
  <2>4. m = [j \in TabIndices(rest) |-> moved(j)]
    BY DEF TabIndices
  <2>. HIDE DEF f, h, m, move
  <2>5. /\ move.active = f /\ move.history = h /\ move.tabs = m
        /\ move.connected = rest.connected
    BY <1>3, <2>1, ScreenIsOK DEF Screens
  <2>. QED  BY <1>6, <2>2, <2>3, <2>4, <2>5
<1>11. Keeps(rest, move)
  BY <1>3, <1>4, <1>9, MoveClientsFromClosedTabKeeps
<1>12. ASSUME NEW j \in TabIndices(rest)
       PROVE  /\ moved(j).live = s.tabs[j].live /\ moved(j).pending = s.tabs[j].pending
              /\ moved(j).clients \in {s.tabs[j].clients, s.tabs[j].clients \cup here(j)}
  <2>1. s.tabs[j] \in Tabs /\ rest.tabs[j] = s.tabs[j]
    BY <1>2, <1>3, <1>4, ScreenFields
  <2>. HIDE DEF here, rest
  <2>2. AddClients(s.tabs[j], here(j)) \in
          {s.tabs[j], [s.tabs[j] EXCEPT !.clients = @ \cup here(j)]}
    BY <2>1 DEF AddClients, HasPanes
  <2>. QED  BY <2>1, <2>2 DEF Tabs
<1>. HIDE DEF rest, home, short, moved, move
<1>13. /\ t.tabs = g /\ t.active = move.active /\ t.history = move.history
       /\ t.connected = move.connected
  BY <1>11, ScreenIsOK DEF Keeps, Screens
<1>14. ASSUME NEW j \in TabIndices(rest)
       PROVE  /\ g[j].live = moved(j).live /\ g[j].pending = moved(j).pending
              /\ g[j].clients = moved(j).clients
  <2>1. move.tabs[j] \in Tabs /\ move.tabs[j] = moved(j) /\ j \in DOMAIN move.tabs
    BY <1>10, <1>11, ScreenFields DEF Keeps, SameBar
  <2>. QED  BY <2>1 DEF MoveDown, Tabs
<1>15. DOMAIN g = TabIndices(rest)
  BY <1>10
<1>. HIDE DEF g, t
<1>16. /\ TabIndices(t) = TabIndices(s) \ {i}
       /\ Attached(t) = Attached(s) \cup C
       /\ t.connected = s.connected
  BY <1>4, <1>10, <1>13, <1>15 DEF TabIndices, Attached
<1>17. \A d \in Attached(t) :
          /\ t.active[d] = IF d \in C THEN home(d) ELSE s.active[d]
          /\ History(t, d) = IF d \in C THEN short(d) ELSE History(s, d)
  BY <1>10, <1>13, <1>16 DEF History
<1>18. ASSUME NEW j \in TabIndices(s) \ {i}
       PROVE  /\ t.tabs[j].live = s.tabs[j].live /\ t.tabs[j].pending = s.tabs[j].pending
              /\ t.tabs[j].clients \in {s.tabs[j].clients, s.tabs[j].clients \cup here(j)}
  BY <1>4, <1>12, <1>13, <1>14
<1>. HIDE DEF here
<1>19. \A j : here(j) = {d \in C : HomeOf(TabIndices(s) \ {i}, History(s, d)) = j}
  BY <1>8 DEF here
<1>. QED  BY <1>5, <1>8, <1>16, <1>17, <1>18, <1>19 DEF Emptied

LEMMA CloseKeepsLevel ==
    ASSUME NEW s, ScreenOK(s), Level(s), NEW i \in TabIndices(s),
           s.tabs[i].clients \in {{}, Attached(s)},
           s.tabs[i].pending => \A c \in s.tabs[i].clients : s.active[c] = i
    PROVE  Level(CloseOneTab(s, i))
<1>. DEFINE t == CloseOneTab(s, i)
            C == s.tabs[i].clients
<1>1. CASE TabIndices(s) = {i}
  <2>1. TabIndices(t) = {} /\ Attached(t) = {}
    BY <1>1, LastClosed
  <2>2. At(t, 0, <<>>)
    BY <2>1 DEF At
  <2>. QED  BY <2>2 DEF Level
<1>2. CASE TabIndices(s) # {i}
  <2>. DEFINE left == TabIndices(s) \ {i}
  <2>1. Emptied(s, t, i, C)
    BY <1>2, CloseEmpties
  <2>. HIDE DEF t
  <2>2. PICK a, h : At(s, a, h)
    BY DEF Level
  <2>3. Attached(t) = Attached(s) /\ TabIndices(t) = left /\ t.connected = s.connected
    BY <2>1 DEF Emptied
  <2>4. \A j \in left :
          /\ t.tabs[j].pending = s.tabs[j].pending
          /\ t.tabs[j].clients \in
               {s.tabs[j].clients, s.tabs[j].clients
                  \cup {d \in C : HomeOf(left, History(s, d)) = j}}
    BY <2>1 DEF Emptied
  <2>5. CASE C = {}
    <3>1. \A d \in Attached(t) : t.active[d] = a /\ History(t, d) = h
      BY <2>1, <2>2, <2>3, <2>5 DEF Emptied, At
    <3>2. \A j \in left : t.tabs[j].clients = s.tabs[j].clients
      BY <2>4, <2>5
    <3>3. At(t, a, h)
      BY <2>2, <2>3, <2>4, <3>1, <3>2 DEF At
    <3>. QED  BY <3>3 DEF t, Level
  <2>6. CASE C # {}
    <3>. DEFINE b == HomeOf(left, h)
    <3>0. C = Attached(s)
      BY <2>6
    <3>1. \A d \in Attached(t) : t.active[d] = b /\ History(t, d) = Shorter(h)
      BY <2>1, <2>2, <2>3, <3>0 DEF Emptied, At
    <3>2. \A j : {d \in C : HomeOf(left, History(s, d)) = j}
                   = IF j = b THEN Attached(s) ELSE {}
      BY <2>2, <3>0 DEF At
    <3>. HIDE DEF b
    <3>3. ASSUME NEW j \in left
          PROVE  /\ t.tabs[j].clients \subseteq Attached(t)
                 /\ t.tabs[j].clients # {} /\ ~t.tabs[j].pending =>
                       j = b /\ t.tabs[j].clients = Attached(t)
      <4>1. /\ s.tabs[j].clients \subseteq Attached(s)
            /\ s.tabs[j].clients # {} /\ ~s.tabs[j].pending =>
                  j = a /\ s.tabs[j].clients = Attached(s)
        BY <2>2 DEF At
      <4>2. t.tabs[j].clients \in
              {s.tabs[j].clients, s.tabs[j].clients \cup IF j = b THEN Attached(s) ELSE {}}
        BY <2>4, <3>2
      <4>3. ~s.tabs[j].pending => s.tabs[j].clients = {}
        <5>1. i = a
          BY <2>2, <2>6, <3>0 DEF At
        <5>. QED  BY <4>1, <5>1
      <4>. QED  BY <2>3, <2>4, <4>1, <4>2, <4>3
    <3>4. At(t, b, Shorter(h))
      BY <2>2, <2>3, <3>1, <3>3 DEF At
    <3>. QED  BY <3>4 DEF t, Level
  <2>. QED  BY <2>5, <2>6
<1>. QED  BY <1>1, <1>2

(* Clients in step are level, and their tab lists all of them.             *)
LEMMA MirrorIsLevel ==
    ASSUME NEW s, Mirroring(s)
    PROVE  Level(s) /\ Even(s)
<1>1. CASE Attached(s) = {}
  <2>1. At(s, 0, <<>>)
    BY <1>1 DEF At, Mirroring
  <2>. QED  BY <1>1, <2>1 DEF Level, Even
<1>2. CASE Attached(s) # {}
  <2>1. PICK c : c \in Attached(s)
    BY <1>2
  <2>. DEFINE a == s.active[c]
              h == History(s, c)
  <2>2. \A d \in Attached(s) : s.active[d] = a /\ History(s, d) = h
    BY <2>1 DEF Mirroring
  <2>. HIDE DEF h
  <2>3. ASSUME NEW i \in TabIndices(s)
        PROVE  /\ s.tabs[i].clients \subseteq Attached(s)
               /\ i = a => s.tabs[i].clients = Attached(s)
               /\ i # a /\ ~s.tabs[i].pending => s.tabs[i].clients = {}
    <3>. DEFINE here == {d \in Attached(s) : s.active[d] = i}
    <3>1. /\ here \subseteq s.tabs[i].clients
          /\ s.tabs[i].clients \subseteq IF s.tabs[i].pending THEN Attached(s) ELSE here
      BY DEF Mirroring
    <3>2. here = IF i = a THEN Attached(s) ELSE {}
      BY <2>2
    <3>. QED  BY <3>1, <3>2
  <2>4. At(s, a, h)
    BY <2>2, <2>3 DEF At, Mirroring
  <2>5. Even(s)
    BY <2>2, <2>3 DEF Even
  <2>. QED  BY <2>4, <2>5 DEF Level
<1>. QED  BY <1>1, <1>2

LEMMA RenderKeepsLevel ==
    ASSUME NEW s, ScreenOK(s), Level(s)
    PROVE  Level(Render(s))
<1>1. CASE s.failed \/ Dead(s) = {}
  BY <1>1 DEF Render
<1>2. CASE ~s.failed /\ Dead(s) # {} /\ Cardinality(Dead(s)) = 1
  <2>. DEFINE i == LeastOf(Dead(s))
  <2>1. Dead(s) \in SUBSET Nat
    BY ScreenFields, BoundAssumption DEF Dead, Indices
  <2>2. i \in Dead(s)
    BY <1>2, <2>1, LeastExists
  <2>3. Render(s) = CloseOneTab(s, i)
    BY <1>2 DEF Render
  <2>. HIDE DEF i
  <2>4. i \in TabIndices(s) /\ ~s.tabs[i].pending
    BY <2>2 DEF Dead
  <2>5. s.tabs[i].clients \in {{}, Attached(s)}
    BY <2>4 DEF Level, At
  <2>. QED  BY <2>3, <2>4, <2>5, CloseKeepsLevel
<1>3. CASE ~s.failed /\ Dead(s) # {} /\ Cardinality(Dead(s)) # 1
  BY <1>3, FailKeepsLevel DEF Render
<1>. QED  BY <1>1, <1>2, <1>3

LEMMA FocusPaneKeepsLevel ==
    ASSUME Mirrored, NEW s, Good(s), Level(s), Even(s), NEW c \in Clients, NEW i
    PROVE  Level(FocusPane(s, c, i))
<1>. DEFINE t == GoToTab(s, i + 1, c)
            u == Render(t)
<1>1. ScreenOK(t) /\ Good(t) /\ Level(t)
  BY GoToTabKeeps, GoToKeepsLevel, SameBarIsGood DEF Good, Keeps
<1>. HIDE DEF t
<1>2. ScreenOK(u) /\ Level(u) /\ Level(Fail(u))
  BY <1>1, RenderIsGood, RenderKeepsLevel, FailKeepsLevel DEF Good
<1>. HIDE DEF u
<1>. QED  BY <1>2 DEF FocusPane, t, u

(* A mirrored client takes the history of another.                         *)
LEMMA AttachHistory ==
    ASSUME NEW s, ScreenOK(s), NEW c, TabIndices(s) # {}
    PROVE  LET t == AttachClient(s, c)
               hist == IF DOMAIN s.history = {} THEN <<>>
                       ELSE s.history[LeastOf(DOMAIN s.history)]
           IN  t.history = [d \in DOMAIN s.history \cup {c} |->
                              IF d = c THEN hist ELSE s.history[d]]
<1>. DEFINE home == IF Attached(s) # {} THEN s.active[LeastOf(Attached(s))]
                    ELSE LeastOf(TabIndices(s))
            hist == IF DOMAIN s.history = {} THEN <<>>
                    ELSE s.history[LeastOf(DOMAIN s.history)]
            f == [d \in DOMAIN s.active \cup {c} |-> IF d = c THEN home ELSE s.active[d]]
            h == [d \in DOMAIN s.history \cup {c} |-> IF d = c THEN hist ELSE s.history[d]]
            known == [s EXCEPT !.active = f, !.history = h,
                               !.connected = s.connected \cup {c}]
<1>1. AttachClient(s, c) = IF home \notin TabIndices(s) THEN Fail(known)
                           ELSE [known EXCEPT !.tabs[home] = AddClients(@, {c})]
  BY Zenon DEF AttachClient, home, hist
<1>. HIDE DEF home, f, h
<1>2. /\ Fail(known).history = h
      /\ [known EXCEPT !.tabs[home] = AddClients(@, {c})].history = h
  BY ScreenIsOK DEF Screens, Fail
<1>3. AttachClient(s, c).history = h
  BY <1>1, <1>2
<1>. QED  BY <1>3 DEF h

LEMMA AttachKeepsLevel ==
    ASSUME NEW s, ScreenOK(s), Mirroring(s), NEW c \in Clients, c \notin Attached(s),
           TabIndices(s) # {}
    PROVE  Level(AttachClient(s, c)) /\ Even(AttachClient(s, c))
<1>. DEFINE t == AttachClient(s, c)
            hist == IF DOMAIN s.history = {} THEN <<>>
                    ELSE s.history[LeastOf(DOMAIN s.history)]
<1>1. PICK home \in TabIndices(s) :
         /\ Attached(s) # {} => \E d \in Attached(s) : home = s.active[d]
         /\ AttachedAt(s, t, c, home)
  BY AttachMoves DEF Mirroring
<1>2. t.history = [d \in DOMAIN s.history \cup {c} |->
                      IF d = c THEN hist ELSE s.history[d]]
  BY AttachHistory
<1>3. \A d \in Attached(s) : s.active[d] = home
  BY <1>1 DEF Mirroring
<1>4. \A d \in Attached(s) : History(s, d) = hist
  <2>1. CASE DOMAIN s.history = {}
    BY <2>1 DEF History
  <2>2. CASE DOMAIN s.history # {}
    <3>. DEFINE e == LeastOf(DOMAIN s.history)
    <3>1. DOMAIN s.history \in SUBSET Nat
      BY ScreenFields, ClientsAreNats
    <3>2. e \in DOMAIN s.history
      BY <2>2, <3>1, LeastExists
    <3>3. e \in Attached(s) /\ History(s, e) = hist
      BY <2>2, <3>2 DEF Mirroring, History
    <3>. HIDE DEF e, hist
    <3>. QED  BY <3>3 DEF Mirroring
  <2>. QED  BY <2>1, <2>2
<1>. HIDE DEF hist, t
<1>5. \A d \in Attached(t) : t.active[d] = home /\ History(t, d) = hist
  <2>1. \A d \in Attached(s) : d # c
    OBVIOUS
  <2>2. \A d \in Attached(s) \cup {c} :
          History(t, d) = IF d = c THEN hist ELSE History(s, d)
    BY <1>2 DEF History
  <2>. QED  BY <1>1, <1>3, <1>4, <2>1, <2>2 DEF AttachedAt
<1>6. Attached(t) = Attached(s) \cup {c} /\ TabIndices(t) = TabIndices(s)
      /\ t.connected = Attached(t)
  BY <1>1 DEF AttachedAt, Mirroring
<1>7. ASSUME NEW i \in TabIndices(s)
      PROVE  /\ t.tabs[i].clients \subseteq Attached(t)
             /\ t.tabs[i].clients # {} /\ ~t.tabs[i].pending =>
                   i = home /\ t.tabs[i].clients = Attached(t)
             /\ i = home => t.tabs[i].clients \in {{}, Attached(t)}
  <2>. DEFINE here == {d \in Attached(s) : s.active[d] = i}
  <2>0. s.tabs[i] \in Tabs
    BY ScreenFields
  <2>1. /\ here \subseteq s.tabs[i].clients
        /\ s.tabs[i].clients \subseteq IF s.tabs[i].pending THEN Attached(s) ELSE here
    BY DEF Mirroring
  <2>2. here = IF i = home THEN Attached(s) ELSE {}
    BY <1>3
  <2>. HIDE DEF here
  <2>3. CASE i # home
    BY <1>1, <1>6, <2>1, <2>2, <2>3 DEF AttachedAt
  <2>4. CASE i = home
    <3>1. s.tabs[i].clients = Attached(s)
      BY <2>1, <2>2, <2>4
    <3>2. t.tabs[i] = AddClients(s.tabs[i], {c})
      BY <1>1, <2>4 DEF AttachedAt
    <3>3. \/ Attached(s) = {} /\ t.tabs[i] = s.tabs[i]
          \/ t.tabs[i] = [s.tabs[i] EXCEPT !.clients = @ \cup {c}]
      BY <3>1, <3>2 DEF AddClients
    <3>4. t.tabs[i].clients \in {{}, Attached(t)}
      BY <1>6, <2>0, <3>1, <3>3 DEF Tabs
    <3>. QED  BY <2>4, <3>4
  <2>. QED  BY <2>3, <2>4
<1>8. At(t, home, hist)
  BY <1>5, <1>6, <1>7 DEF At
<1>9. Even(t)
  BY <1>5, <1>6, <1>7 DEF Even
<1>. QED  BY <1>8, <1>9 DEF t, Level

(* A tab that has loaded takes everybody.                                  *)
LEMMA LoadTakesAll ==
    ASSUME Mirrored, NEW s, ScreenOK(s), Mirroring(s), NEW w \in Attached(s), NEW c,
           NEW i \in TabIndices(s), Actor(s, c) = w
    PROVE  Level(LoadTab(s, i, c)) /\ Even(LoadTab(s, i, c))
<1>. DEFINE src     == s.active[w]
            C       == s.tabs[src].clients
            g       == [s.tabs EXCEPT ![src] = RemoveClients(@, C)]
            drained == [s EXCEPT !.tabs = g]
            focus   == UpdateClientTabFocus(drained, s.connected, i)
            h       == [g EXCEPT ![i] = AddClients(Starts(@), C)]
            loaded  == [focus EXCEPT !.tabs = h]
<1>1. HasActiveTab(s, w) /\ w # NoClient /\ w \in Clients /\ src \in TabIndices(s)
  BY ScreenFields, ClientsAssumption DEF Mirroring, HasActiveTab, NoClient
<1>2. C = Attached(s)
  <2>. DEFINE here == {d \in Attached(s) : s.active[d] = src}
  <2>1. here = Attached(s)
    BY DEF Mirroring
  <2>2. /\ here \subseteq C
        /\ C \subseteq IF s.tabs[src].pending THEN Attached(s) ELSE here
    BY <1>1 DEF Mirroring
  <2>. QED  BY <2>1, <2>2
<1>3. \A j \in TabIndices(s) : s.tabs[j] \in Tabs
  BY ScreenFields
<1>4. [s EXCEPT !.tabs[src] = RemoveClients(@, C)] = drained
  OBVIOUS
<1>5. /\ drained.tabs = g /\ drained.active = s.active /\ drained.history = s.history
      /\ drained.connected = s.connected
  BY ScreenIsOK DEF Screens
<1>6. ScreenOK(drained)
  <2>1. Keeps(s, drained)
    BY <1>4, RemoveClientsKeeps
  <2>. QED  BY <2>1 DEF Keeps
<1>7. /\ DOMAIN g = TabIndices(s) /\ DOMAIN h = TabIndices(s)
      /\ \A j \in TabIndices(s) :
           /\ g[j] = IF j = src THEN RemoveClients(s.tabs[j], C) ELSE s.tabs[j]
           /\ h[j] = IF j = i THEN AddClients(Starts(g[j]), C) ELSE g[j]
  BY ScreenFields DEF TabIndices
<1>. HIDE DEF C, g, h
<1>8. /\ Attached(drained) = Attached(s) /\ drained.connected = Attached(drained)
      /\ \A d : History(drained, d) = History(s, d)
  BY <1>5 DEF Attached, History, Mirroring
<1>. HIDE DEF drained
<1>9. focus = UpdateClientTabFocus(drained, drained.connected, i)
  BY <1>5
<1>10. /\ focus.tabs = g /\ Attached(focus) = Attached(s) /\ focus.connected = s.connected
       /\ \A d \in Attached(s) :
            /\ focus.active[d] = i
            /\ History(focus, d) = Append(Without(History(s, d), i), s.active[d])
  <2>1. /\ focus.tabs = drained.tabs /\ Attached(focus) = Attached(drained)
        /\ focus.connected = drained.connected
        /\ \A d \in Attached(drained) :
             /\ focus.active[d] = i
             /\ History(focus, d)
                  = Append(Without(History(drained, d), i), drained.active[d])
    BY <1>6, <1>8, <1>9, AllFocused
  <2>. HIDE DEF focus
  <2>. QED  BY <1>5, <1>8, <2>1
<1>11. ScreenOK(focus)
  <2>1. Keeps(drained, focus)
    BY <1>3, <1>6, ScreenFields, UpdateClientTabFocusKeeps
  <2>. QED  BY <2>1 DEF Keeps
<1>12. LoadTab(s, i, c) = loaded
  <2>. DEFINE full == [focus EXCEPT
                         !.tabs[i] = AddClients([@ EXCEPT !.pending = FALSE, !.live = TRUE], C)]
  <2>1. full = loaded
    BY <1>10, Zenon DEF h, Starts
  <2>2. w \in Attached(full)
    <3>1. loaded.active = focus.active
      BY <1>11, ScreenIsOK DEF Screens
    <3>. QED  BY <1>10, <2>1, <3>1 DEF Attached
  <2>3. focus = UpdateClientTabFocus([s EXCEPT !.tabs[src] = RemoveClients(@, C)], s.connected, i)
    BY <1>4
  <2>. HIDE DEF loaded
  <2>4. LoadTab(s, i, c) = IF w \in Attached(full) THEN full ELSE AttachClient(full, w)
    BY <1>1, <2>3, Zenon DEF LoadTab, C
  <2>. QED  BY <2>1, <2>2, <2>4
<1>. HIDE DEF focus
<1>13. /\ loaded.tabs = h /\ loaded.active = focus.active /\ loaded.history = focus.history
       /\ loaded.connected = focus.connected
  BY <1>11, ScreenIsOK DEF Screens
<1>. HIDE DEF loaded
<1>14. /\ TabIndices(loaded) = TabIndices(s) /\ Attached(loaded) = Attached(s)
       /\ loaded.connected = Attached(s)
       /\ \A d \in Attached(s) :
            /\ loaded.active[d] = i
            /\ History(loaded, d) = Append(Without(History(s, d), i), s.active[d])
  BY <1>7, <1>10, <1>13 DEF TabIndices, Attached, History, Mirroring
<1>15. ASSUME NEW j \in TabIndices(s)
       PROVE  /\ loaded.tabs[j].clients \subseteq Attached(s)
              /\ j = i => loaded.tabs[j].clients = Attached(s)
              /\ j # i /\ ~loaded.tabs[j].pending => loaded.tabs[j].clients = {}
  <2>0. s.tabs[j] \in Tabs /\ C \in SUBSET Clients
    BY <1>1, <1>3 DEF C, Tabs
  <2>1. g[j] \in Tabs /\ g[j].pending = s.tabs[j].pending
        /\ g[j].clients = IF j = src THEN {} ELSE s.tabs[j].clients
    <3>1. CASE j = src
      <4>. DEFINE u == s.tabs[j]
      <4>1. g[j] = [u EXCEPT !.clients = u.clients \ C] /\ C = u.clients
        BY <1>7, <3>1 DEF RemoveClients, C
      <4>2. u \in Tabs
        BY <2>0
      <4>. HIDE DEF u, g, C
      <4>3. g[j] \in Tabs /\ g[j].pending = u.pending /\ g[j].clients = {}
        BY <4>1, <4>2 DEF Tabs
      <4>. QED  BY <3>1, <4>3 DEF u
    <3>2. CASE j # src
      BY <1>7, <2>0, <3>2
    <3>. QED  BY <3>1, <3>2
  <2>2. s.tabs[j].clients \subseteq Attached(s)
    BY DEF Mirroring
  <2>3. CASE j = i
    <3>1. h[j] = AddClients(Starts(g[j]), C)
      BY <1>7, <2>3
    <3>2. h[j].clients = g[j].clients \cup C
      BY <2>0, <2>1, <3>1, StartsType
    <3>. QED  BY <1>2, <1>13, <2>1, <2>2, <2>3, <3>2
  <2>4. CASE j # i
    <3>1. h[j] = g[j]
      BY <1>7, <2>4
    <3>2. j # src => {d \in Attached(s) : s.active[d] = j} = {}
      BY DEF Mirroring
    <3>3. ~s.tabs[j].pending /\ j # src => s.tabs[j].clients = {}
      BY <3>2 DEF Mirroring
    <3>. QED  BY <1>13, <2>1, <2>2, <2>4, <3>1, <3>3
  <2>. QED  BY <2>3, <2>4
<1>16. At(loaded, i, Append(Without(History(s, w), i), src))
  <2>1. \A d \in Attached(s) : s.active[d] = src /\ History(s, d) = History(s, w)
    BY DEF Mirroring
  <2>. HIDE DEF src
  <2>. QED  BY <1>14, <1>15, <2>1 DEF At
<1>17. Even(loaded)
  BY <1>14, <1>15 DEF Even
<1>. QED  BY <1>12, <1>16, <1>17 DEF Level

(* The first client comes to the tab that it has opened.                   *)
LEMMA LoadForFirst ==
    ASSUME Mirrored, NEW s, ScreenOK(s), Mirroring(s), Attached(s) = {}, NEW c \in Clients,
           NEW i \in TabIndices(s)
    PROVE  Level(LoadTab(s, i, c))
<1>. DEFINE focus  == UpdateClientTabFocus(s, s.connected, i)
            v      == AddClients(Starts(s.tabs[i]), {})
            h      == [s.tabs EXCEPT ![i] = v]
            loaded == [focus EXCEPT !.tabs = h]
<1>1. ~HasActiveTab(s, c) /\ Actor(s, c) = NoClient /\ ~HasActiveTab(s, NoClient)
  BY DEF HasActiveTab, Actor
<1>2. s.connected = {} /\ DOMAIN s.history = {}
  BY DEF Mirroring
<1>3. /\ focus.tabs = s.tabs /\ Attached(focus) = {} /\ focus.connected = {}
      /\ DOMAIN focus.history = {}
  <2>. DEFINE f == [d \in DOMAIN s.active \cup {} |-> IF d \in {} THEN i ELSE s.active[d]]
              k == [d \in DOMAIN s.history \cup ({} \cap Attached(s)) |->
                      IF d \in {} \cap Attached(s)
                      THEN Append(Without(History(s, d), i), s.active[d])
                      ELSE s.history[d]]
  <2>1. focus = [s EXCEPT !.active = f, !.history = k]
    BY <1>2 DEF UpdateClientTabFocus
  <2>2. DOMAIN f = {} /\ DOMAIN k = {}
    BY <1>2 DEF Attached
  <2>. HIDE DEF f, k, focus
  <2>3. /\ focus.tabs = s.tabs /\ focus.active = f /\ focus.history = k
        /\ focus.connected = s.connected
    BY <2>1, ScreenIsOK DEF Screens
  <2>. QED  BY <1>2, <2>2, <2>3 DEF Attached
<1>4. ScreenOK(focus)
  <2>1. s.connected \in SUBSET Clients /\ i \in Indices
    BY ScreenFields
  <2>2. Keeps(s, focus)
    BY <2>1, UpdateClientTabFocusKeeps
  <2>. QED  BY <2>2 DEF Keeps
<1>5. s.tabs[i] \in Tabs /\ v \in Tabs /\ v.clients = s.tabs[i].clients \cup {} /\ ~v.pending
  <2>1. s.tabs[i] \in Tabs
    BY ScreenFields
  <2>2. Starts(s.tabs[i]) \in Tabs /\ v.clients = s.tabs[i].clients \cup {} /\ ~v.pending
    BY <2>1, StartsType
  <2>3. v \in Tabs
    BY <2>2, AddClientsType
  <2>. QED  BY <2>1, <2>2, <2>3
<1>6. LoadTab(s, i, c) = IF c \in Attached(loaded) THEN loaded ELSE AttachClient(loaded, c)
  <2>. DEFINE full == [focus EXCEPT
                         !.tabs[i] = AddClients([@ EXCEPT !.pending = FALSE, !.live = TRUE], {})]
  <2>1. full = loaded
    BY <1>3, Zenon DEF h, v, Starts
  <2>. HIDE DEF loaded, focus
  <2>2. LoadTab(s, i, c) = IF c \in Attached(full) THEN full ELSE AttachClient(full, c)
    BY <1>1, Zenon DEF LoadTab, focus
  <2>. QED  BY <2>1, <2>2
<1>. HIDE DEF focus, v
<1>7. /\ loaded.tabs = h /\ loaded.active = focus.active /\ loaded.history = focus.history
      /\ loaded.connected = focus.connected /\ ScreenOK(loaded)
  <2>1. DOMAIN h = TabIndices(s) /\ h \in [DOMAIN h -> Tabs]
    BY <1>5, ScreenFields
  <2>. HIDE DEF h
  <2>2. DOMAIN h \subseteq Indices
    BY <2>1, ScreenFields
  <2>3. ScreenOK(loaded)
    BY <1>4, <2>1, <2>2, TabsReplaced
  <2>. QED  BY <1>4, <2>3, ScreenIsOK DEF Screens
<1>. HIDE DEF loaded
<1>8. /\ TabIndices(loaded) = TabIndices(s) /\ Attached(loaded) = {}
      /\ loaded.connected = {} /\ DOMAIN loaded.history = {}
      /\ \A j \in TabIndices(s) : loaded.tabs[j].clients = {}
  <2>1. \A j \in TabIndices(s) : s.tabs[j].clients = {}
    BY DEF Mirroring
  <2>2. DOMAIN h = TabIndices(s) /\ \A j \in TabIndices(s) : h[j] = IF j = i THEN v ELSE s.tabs[j]
    BY ScreenFields
  <2>3. \A j \in TabIndices(s) : h[j].clients = {}
    BY <1>5, <2>1, <2>2
  <2>. HIDE DEF h
  <2>. QED  BY <1>3, <1>7, <2>2, <2>3 DEF TabIndices, Attached
<1>9. Mirroring(loaded)
  BY <1>8 DEF Mirroring
<1>10. Level(AttachClient(loaded, c))
  BY <1>7, <1>8, <1>9, AttachKeepsLevel
<1>. QED  BY <1>6, <1>8, <1>10

LEMMA LoadKeepsLevel ==
    ASSUME Mirrored, NEW s, ScreenOK(s), Mirroring(s), NEW c \in Clients, NEW i
    PROVE  Level(LoadTab(s, i, c))
<1>1. CASE i \notin TabIndices(s)
  BY <1>1, MirrorIsLevel DEF LoadTab
<1>2. CASE i \in TabIndices(s) /\ Attached(s) = {}
  BY <1>2, LoadForFirst
<1>3. CASE i \in TabIndices(s) /\ Attached(s) # {}
  <2>1. Actor(s, c) \in Attached(s)
    <3>1. Attached(s) \in SUBSET Nat
      BY ScreenFields, ClientsAreNats
    <3>2. LeastOf(Attached(s)) \in Attached(s)
      BY <1>3, <3>1, LeastExists
    <3>. QED  BY <1>3, <3>2 DEF Actor, HasActiveTab
  <2>. QED  BY <1>3, <2>1, LoadTakesAll
<1>. QED  BY <1>1, <1>2, <1>3

(* The last entry of a history is one of those that a switch to it removes. *)
LEMMA WithoutLast ==
    ASSUME NEW h \in Seq(Indices), h # <<>>
    PROVE  Without(h, h[Len(h)]) = Without(SubSeq(h, 1, Len(h) - 1), h[Len(h)])
<1>. DEFINE i == h[Len(h)]
            n == Len(h) - 1
            l == SubSeq(h, 1, n)
            f == CHOOSE f : KeptOf(h, i, f, Len(h))
            g == CHOOSE g : KeptOf(l, i, g, Len(l))
<1>1. n \in Nat /\ Len(h) = n + 1 /\ l \in Seq(Indices) /\ Len(l) = n
      /\ \A k \in 1 .. n : l[k] = h[k]
  <2>1. Len(h) \in Nat /\ Len(h) # 0 /\ \A k \in 1 .. Len(h) : h[k] \in Indices
    OBVIOUS
  <2>2. n \in Nat /\ Len(h) = n + 1
    BY <2>1
  <2>. HIDE DEF n
  <2>3. l = [k \in 1 .. n |-> h[k]]
    BY <2>2
  <2>4. \A k \in 1 .. n : h[k] \in Indices
    BY <2>1, <2>2
  <2>5. l \in Seq(Indices) /\ Len(l) = n /\ \A k \in 1 .. n : l[k] = h[k]
    BY <2>2, <2>3, <2>4
  <2>. QED  BY <2>2, <2>5
<1>2. Len(h) \in Nat /\ Len(l) \in Nat
  BY <1>1
<1>. HIDE DEF i, l
<1>3. KeptOf(h, i, f, Len(h)) /\ KeptOf(l, i, g, Len(l))
  BY <1>1, <1>2, KeptExists
<1>4. Without(h, i) = f[Len(h)] /\ Without(l, i) = g[Len(l)]
  BY Zenon DEF Without, KeptOf
<1>. HIDE DEF f, g, n
<1>5. \A k \in 0 .. n + 1 : f[k] = IF k = 0 THEN <<>>
                                   ELSE IF h[k] = i THEN f[k - 1] ELSE Append(f[k - 1], h[k])
  BY <1>1, <1>3 DEF KeptOf
<1>6. \A k \in 0 .. n : g[k] = IF k = 0 THEN <<>>
                               ELSE IF h[k] = i THEN g[k - 1] ELSE Append(g[k - 1], h[k])
  <2>1. \A k \in 0 .. n : g[k] = IF k = 0 THEN <<>>
                                 ELSE IF l[k] = i THEN g[k - 1] ELSE Append(g[k - 1], l[k])
    BY <1>1, <1>3 DEF KeptOf
  <2>2. \A k \in 0 .. n : k # 0 => l[k] = h[k]
    BY <1>1
  <2>. QED  BY <2>1, <2>2
<1>. DEFINE bad == {k \in 0 .. n : f[k] # g[k]}
<1>7. bad = {}
  <2>. SUFFICES ASSUME bad # {} PROVE FALSE
    OBVIOUS
  <2>. DEFINE k == LeastOf(bad)
  <2>1. bad \in SUBSET Nat
    OBVIOUS
  <2>2. k \in bad /\ \A m \in bad : k <= m
    BY <2>1, LeastExists
  <2>. HIDE DEF k
  <2>3. k \in 0 .. n /\ f[k] # g[k]
    BY <2>2
  <2>4. k # 0
    BY <1>1, <1>5, <1>6, <2>3
  <2>5. k - 1 \in 0 .. n /\ ~ (k <= k - 1)
    BY <1>1, <2>3, <2>4
  <2>6. f[k - 1] = g[k - 1]
    BY <2>2, <2>5
  <2>. QED  BY <1>1, <1>5, <1>6, <2>3, <2>4, <2>6
<1>8. f[n] = g[n]
  BY <1>1, <1>7
<1>9. f[n + 1] = f[n]
  <2>1. n + 1 \in 0 .. n + 1 /\ n + 1 # 0 /\ (n + 1) - 1 = n /\ h[n + 1] = i
    BY <1>1 DEF i
  <2>. QED  BY <1>5, <2>1
<1>. QED  BY <1>1, <1>4, <1>8, <1>9 DEF i, l, n

(* The toggle-tab key takes everybody along, though it is one client's      *)
(* history that it uses up.                                                *)
LEMMA PopStaysTogether ==
    ASSUME Mirrored, NEW s, Good(s), InStep(s), NEW c \in DOMAIN s.history
    PROVE  Together(Render(PopHistory(s, c)))
<1>. DEFINE h    == s.history[c]
            prev == h[Len(h)]
            less == [s.history EXCEPT ![c] = SubSeq(h, 1, Len(h) - 1)]
            pop  == [s EXCEPT !.history = less]
            cur  == s.active[c]
            pos  == s.tabs[prev].position
<1>1. /\ ScreenOK(s) /\ Mirroring(s) /\ Level(s) /\ Even(s)
      /\ c \in Attached(s) /\ c \in Clients /\ cur \in TabIndices(s)
      /\ h \in Seq(Indices) /\ History(s, c) = h
  BY MirrorIsLevel, ScreenFields DEF Good, InStep, Mirroring, History
<1>2. CASE h = <<>>
  <2>1. PopHistory(s, c) = s
    BY <1>2 DEF PopHistory
  <2>. QED  BY <1>1, <2>1, RenderKeepsLevel, LevelIsTogether
<1>3. CASE h # <<>>
  <2>0. [s EXCEPT !.history[c] = SubSeq(@, 1, Len(@) - 1)] = pop
    OBVIOUS
  <2>1. /\ ScreenOK(pop)
        /\ pop.tabs = s.tabs /\ pop.active = s.active /\ pop.connected = s.connected
        /\ pop.failed = s.failed /\ DOMAIN pop.history = DOMAIN s.history
    BY <1>1, <1>3, <2>0, PoppedFields
  <2>2. pop.history = less
    BY <1>1, ScreenIsOK DEF Screens
  <2>3. PopHistory(s, c) = IF prev \notin TabIndices(s) THEN pop
                           ELSE SwitchActiveTab(pop, pos, c)
    BY <1>3, <2>0, Zenon DEF PopHistory
  <2>4. /\ TabIndices(pop) = TabIndices(s) /\ Attached(pop) = Attached(s)
        /\ Dead(pop) = Dead(s) /\ HasActiveTab(pop, c)
        /\ Together(pop)
    BY <1>1, <2>1, MirrorIsLevel, LevelIsTogether
       DEF TabIndices, Attached, Dead, HasActiveTab, Together
  <2>5. \A d \in Attached(s) :
           History(pop, d) = IF d = c THEN SubSeq(h, 1, Len(h) - 1) ELSE h
    <3>1. \A d \in Attached(s) : History(s, d) = h
      BY <1>1 DEF Mirroring
    <3>. QED  BY <2>2, <3>1 DEF History
  <2>. HIDE DEF pop, less
  <2>6. CASE prev \notin TabIndices(s) \ {cur}
    <3>1. Dead(pop) = {}
      BY <1>1, <1>3, <2>4, <2>6 DEF InStep, CanReturn
    <3>2. PopHistory(s, c) = pop
      <4>1. prev = cur => ~Leads(pop, pos, c)
        BY <2>1 DEF Leads
      <4>. QED  BY <2>3, <2>6, <4>1, SwitchStays
    <3>. QED  BY <2>4, <3>1, <3>2 DEF Render
  <2>7. CASE prev \in TabIndices(s) \ {cur}
    <3>. DEFINE t == SwitchActiveTab(pop, pos, c)
                C == pop.tabs[cur].clients
    <3>1. Leads(pop, pos, c)
      BY <1>1, <2>1, <2>4, <2>7 DEF Leads, Good, Distinct
    <3>2. pop.connected = Attached(pop) /\ pop.active[c] = cur
      BY <1>1, <2>1, <2>4 DEF Mirroring
    <3>3. PICK n \in TabIndices(pop) :
             /\ pop.tabs[n].position = pos
             /\ AllMoved(pop, t, cur, C, n)
      BY <1>1, <2>1, <3>1, <3>2, SwitchMovesAll
    <3>. HIDE DEF t
    <3>4. n = prev
      BY <2>1, <2>4, <2>7, <3>3 DEF Good, Distinct
    <3>5. \A d \in Attached(s) : t.active[d] = prev
      BY <2>4, <3>3, <3>4 DEF AllMoved
    <3>6. \A d \in Attached(s) : s.active[d] = cur
      BY <1>1 DEF Mirroring
    <3>7. \A d \in Attached(s) : History(t, d) = Append(Without(h, prev), cur)
      <4>1. Without(h, prev) = Without(SubSeq(h, 1, Len(h) - 1), prev)
        BY <1>1, <1>3, WithoutLast
      <4>2. \A d \in Attached(s) :
              History(t, d) = Append(Without(History(pop, d), prev), cur)
        BY <2>1, <2>4, <3>3, <3>4, <3>6 DEF AllMoved
      <4>. HIDE DEF h, prev, cur
      <4>. QED  BY <2>5, <4>1, <4>2
    <3>8. ASSUME NEW i \in TabIndices(s)
          PROVE  /\ t.tabs[i].clients \subseteq Attached(s)
                 /\ t.tabs[i].clients # {} /\ ~t.tabs[i].pending =>
                       i = prev /\ t.tabs[i].clients = Attached(s)
      <4>. DEFINE here == {d \in Attached(s) : s.active[d] = i}
      <4>0. s.tabs[i] \in Tabs
        BY <1>1, ScreenFields
      <4>1. /\ here \subseteq s.tabs[i].clients
            /\ s.tabs[i].clients \subseteq IF s.tabs[i].pending THEN Attached(s) ELSE here
        BY <1>1 DEF Mirroring
      <4>2. here = IF i = cur THEN Attached(s) ELSE {}
        BY <3>6
      <4>. HIDE DEF here
      <4>3. t.tabs[i] = IF i = cur THEN RemoveClients(s.tabs[i], C)
                        ELSE IF i = prev THEN AddClients(s.tabs[i], C) ELSE s.tabs[i]
        BY <2>1, <2>4, <3>3, <3>4 DEF AllMoved
      <4>. HIDE DEF prev, cur
      <4>4. CASE i = cur
        <5>1. t.tabs[i] = [s.tabs[i] EXCEPT !.clients = @ \ C] /\ C = s.tabs[i].clients
          BY <2>1, <4>3, <4>4 DEF RemoveClients
        <5>2. t.tabs[i].clients = {}
          BY <4>0, <5>1 DEF Tabs
        <5>. QED  BY <5>2
      <4>5. CASE i # cur /\ i = prev
        <5>1. C = Attached(s)
          <6>. DEFINE there == {d \in Attached(s) : s.active[d] = cur}
          <6>1. there = Attached(s)
            BY <3>6
          <6>2. /\ there \subseteq s.tabs[cur].clients
                /\ s.tabs[cur].clients \subseteq
                      IF s.tabs[cur].pending THEN Attached(s) ELSE there
            BY <1>1 DEF Mirroring
          <6>. QED  BY <2>1, <6>1, <6>2
        <5>2. t.tabs[i] = AddClients(s.tabs[i], C)
          BY <4>3, <4>5
        <5>. HIDE DEF C
        <5>3. /\ t.tabs[i].clients \in {s.tabs[i].clients, s.tabs[i].clients \cup C}
              /\ t.tabs[i].pending = s.tabs[i].pending
          BY <4>0, <5>2 DEF AddClients, Tabs
        <5>. QED  BY <4>1, <4>2, <4>5, <5>1, <5>3
      <4>6. CASE i # cur /\ i # prev
        BY <4>1, <4>2, <4>3, <4>6
      <4>. QED  BY <4>4, <4>5, <4>6
    <3>9. TabIndices(t) = TabIndices(s) /\ Attached(t) = Attached(s)
          /\ t.connected = s.connected
      BY <2>1, <2>4, <3>3 DEF AllMoved
    <3>10. At(t, prev, Append(Without(h, prev), cur))
      BY <1>1, <3>5, <3>7, <3>8, <3>9 DEF At, Mirroring
    <3>11. ScreenOK(t)
      BY <1>1, <2>1, SwitchActiveTabKeeps DEF t, Keeps
    <3>12. Level(t)
      BY <3>10 DEF Level
    <3>. QED  BY <2>3, <2>7, <3>11, <3>12, RenderKeepsLevel, LevelIsTogether DEF t
  <2>. QED  BY <2>6, <2>7
<1>. QED  BY <1>2, <1>3

(* The switches that waited: nothing dies of them, and each takes all.      *)
Whole(s) ==
    /\ ScreenOK(s) /\ Dead(s) = {} /\ Together(s)
    /\ TabIndices(s) # {} => s.connected = Attached(s)

LEMMA SwitchKeepsWhole ==
    ASSUME Mirrored, NEW s, Whole(s), NEW c \in Clients, NEW pos
    PROVE  Whole(SwitchActiveTab(s, pos, c))
<1>. DEFINE t   == SwitchActiveTab(s, pos, c)
            cur == s.active[c]
            C   == s.tabs[cur].clients
<1>1. CASE ~Leads(s, pos, c)
  BY <1>1, SwitchStays
<1>2. CASE Leads(s, pos, c)
  <2>1. ScreenOK(t)
    BY SwitchActiveTabKeeps DEF Whole, Keeps
  <2>2. cur \in TabIndices(s) /\ s.connected = Attached(s) /\ ScreenOK(s)
    BY <1>2 DEF Leads, HasActiveTab, Whole
  <2>3. PICK n \in TabIndices(s) : AllMoved(s, t, cur, C, n)
    BY <1>2, <2>2, SwitchMovesAll
  <2>. HIDE DEF t, cur, C
  <2>4. ASSUME NEW i \in TabIndices(s)
        PROVE  t.tabs[i].live = s.tabs[i].live /\ t.tabs[i].pending = s.tabs[i].pending
    <3>1. s.tabs[i] \in Tabs
      BY <2>2, ScreenFields
    <3>2. t.tabs[i] \in {RemoveClients(s.tabs[i], C), AddClients(s.tabs[i], C), s.tabs[i]}
      BY <2>3 DEF AllMoved
    <3>. QED  BY <3>1, <3>2 DEF RemoveClients, AddClients, Tabs
  <2>5. Dead(t) = {}
    BY <2>3, <2>4 DEF Whole, Dead, AllMoved
  <2>6. Together(t) /\ t.connected = Attached(t)
    BY <2>2, <2>3 DEF Together, AllMoved
  <2>. QED  BY <2>1, <2>5, <2>6 DEF Whole, t
<1>. QED  BY <1>1, <1>2

LEMMA DrainKeepsWhole ==
    ASSUME Mirrored, NEW s, Whole(s), NEW n \in Nat,
           NEW order, \A k \in 1 .. n : order[k][2] \in Clients
    PROVE  Whole(DrainSwitches(s, n, order))
<1>. DEFINE f == CHOOSE f : AfterOf(s, order, f, n)
<1>1. AfterOf(s, order, f, n)
  BY AfterExists
<1>2. DrainSwitches(s, n, order) = f[n]
  BY Zenon DEF DrainSwitches, AfterOf
<1>. HIDE DEF f
<1>. DEFINE bad == {k \in 0 .. n : ~Whole(f[k])}
<1>3. CASE bad = {}
  BY <1>2, <1>3
<1>4. CASE bad # {}
  <2>. DEFINE k == LeastOf(bad)
  <2>1. bad \in SUBSET Nat
    OBVIOUS
  <2>2. k \in bad /\ \A m \in bad : k <= m
    BY <1>4, <2>1, LeastExists
  <2>. HIDE DEF k
  <2>3. k \in 0 .. n /\ ~Whole(f[k])
    BY <2>2
  <2>4. f[k] = IF k = 0 THEN s ELSE GoToTab(f[k - 1], order[k][1], order[k][2])
    BY <1>1, <2>3 DEF AfterOf
  <2>5. k # 0
    BY <2>3, <2>4
  <2>6. k \in 1 .. n /\ k - 1 \in 0 .. n /\ ~ (k <= k - 1)
    BY <2>3, <2>5
  <2>7. Whole(f[k - 1])
    BY <2>2, <2>6
  <2>8. Whole(GoToTab(f[k - 1], order[k][1], order[k][2]))
    BY <2>6, <2>7, SwitchKeepsWhole DEF GoToTab
  <2>. QED  BY <2>3, <2>4, <2>5, <2>8
<1>. QED  BY <1>3, <1>4

(* What render() leaves has no dead tab, unless it failed.                  *)
LEMMA RenderedIsWhole ==
    ASSUME NEW s, Good(s), Level(s), ~Render(s).failed
    PROVE  Whole(Render(s))
<1>. DEFINE t == Render(s)
<1>1. ScreenOK(t) /\ Level(t)
  BY RenderIsGood, RenderKeepsLevel DEF Good
<1>2. Together(t) /\ (TabIndices(t) # {} => t.connected = Attached(t))
  BY <1>1, LevelIsTogether DEF Level, At
<1>3. Dead(t) = {}
  <2>1. CASE s.failed \/ Dead(s) = {}
    <3>1. t = s
      BY <2>1 DEF Render
    <3>. QED  BY <2>1, <3>1
  <2>2. CASE ~s.failed /\ Dead(s) # {} /\ Cardinality(Dead(s)) = 1
    <3>1. IsFiniteSet(Dead(s))
      BY TabsAreFinite, FS_Subset DEF Good, Dead
    <3>2. PICK d : Dead(s) = {d}
      BY <2>2, <3>1, FS_Singleton
    <3>. DEFINE i == LeastOf(Dead(s))
    <3>3. Dead(s) \in SUBSET Nat
      BY ScreenFields, BoundAssumption DEF Good, Dead, Indices
    <3>4. i \in Dead(s)
      BY <2>2, <3>3, LeastExists
    <3>5. t = CloseOneTab(s, i)
      BY <2>2 DEF Render
    <3>. HIDE DEF i
    <3>6. i \in TabIndices(s) /\ Dead(s) = {i}
      BY <3>2, <3>4 DEF Dead
    <3>7. CASE TabIndices(s) = {i}
      <4>1. TabIndices(t) = {}
        BY <3>5, <3>7, LastClosed DEF Good
      <4>. QED  BY <4>1 DEF Dead
    <3>8. CASE TabIndices(s) # {i}
      <4>1. Emptied(s, t, i, s.tabs[i].clients)
        BY <3>5, <3>6, <3>8, CloseEmpties DEF Good
      <4>2. /\ TabIndices(t) = TabIndices(s) \ {i}
            /\ \A j \in TabIndices(t) :
                 t.tabs[j].live = s.tabs[j].live /\ t.tabs[j].pending = s.tabs[j].pending
        BY <4>1 DEF Emptied
      <4>. QED  BY <3>6, <4>2 DEF Dead
    <3>. QED  BY <3>7, <3>8
  <2>3. CASE ~s.failed /\ Dead(s) # {} /\ Cardinality(Dead(s)) # 1
    <3>1. t = Fail(s)
      BY <2>3 DEF Render
    <3>2. Fail(s).failed
      BY ScreenIsOK DEF Good, Fail, Screens
    <3>. QED  BY <3>1, <3>2
  <2>. QED  BY <2>1, <2>2, <2>3
<1>. QED  BY <1>1, <1>2, <1>3 DEF Whole

----------------------------------------------------------------------------
(* The instructions.                                                       *)

LEMMA InStepIsLevel ==
    ASSUME Inv, InStep(screen)
    PROVE  /\ Good(screen) /\ ScreenOK(screen) /\ Mirroring(screen)
           /\ Level(screen) /\ Even(screen)
BY MirrorIsLevel DEF Inv, Good, InStep

LEMMA RenderedTogether ==
    ASSUME NEW s, Keeps(screen, s), Level(s)
    PROVE  Together(Render(s))
BY RenderKeepsLevel, LevelIsTogether DEF Keeps

LEMMA SameFocusTogether ==
    ASSUME NEW s, NEW t, Level(s), t.active = s.active
    PROVE  Together(t)
<1>1. Together(s)
  BY LevelIsTogether
<1>. QED  BY <1>1 DEF Together, Attached

LEMMA AddTabFocus ==
    ASSUME NEW s, ScreenOK(s), NEW i, NEW c
    PROVE  /\ AddTab(s, i, c).active = s.active
           /\ SetLive(AddTab(s, i, c), i, TRUE).active = s.active
<1>. DEFINE who == IF Actor(s, c) = NoClient THEN c ELSE Actor(s, c)
            tab == [position |-> Cardinality(TabIndices(s)), pending |-> TRUE,
                    live |-> FALSE, clients |-> {who}]
            g   == [j \in DOMAIN s.tabs \cup {i} |-> IF j = i THEN tab ELSE s.tabs[j]]
            t   == [s EXCEPT !.tabs = g]
<1>1. AddTab(s, i, c) = t
  BY DEF AddTab
<1>. HIDE DEF g
<1>2. t.active = s.active /\ SetLive(t, i, TRUE).active = s.active
  BY ScreenIsOK DEF Screens, SetLive
<1>. QED  BY <1>1, <1>2

LEMMA AttachedIsClient ==
    ASSUME NEW s, ScreenOK(s), Attached(s) # {}, NEW c \in Clients
    PROVE  (IF c \in Attached(s) THEN c ELSE LeastOf(Attached(s))) \in Clients
<1>1. Attached(s) \in SUBSET Nat
  BY ScreenFields, ClientsAreNats
<1>2. LeastOf(Attached(s)) \in Attached(s)
  BY <1>1, LeastExists
<1>. QED  BY <1>2, ScreenFields

LEMMA TogetherAfterMoves ==
    ASSUME Mirrored, Inv, InStep(screen), NEW c \in Clients,
           \/ NewTab(c) \/ CreateNamedTab(c) \/ BreakPane(c)
           \/ \E i \in Indices : GoToNamedTab(c, i)
           \/ \E step \in {-1, 1} : SwitchTab(c, step)
           \/ \E step \in {-1, 1} : MoveFocusOverEdge(c, step)
           \/ \E t \in Positions : GoToTabRequest(c, t)
    PROVE  Together(screen')
<1>. DEFINE s == screen
<1>0. Good(s) /\ ScreenOK(s) /\ Mirroring(s) /\ Level(s) /\ Even(s)
  BY InStepIsLevel
<1>1. ASSUME NewTab(c) PROVE Together(screen')
  <2>1. screen' = AddTab(s, NewTabIndex(s), c)
    BY <1>1 DEF NewTab
  <2>. QED  BY <1>0, <2>1, AddTabFocus, SameFocusTogether
<1>2. ASSUME CreateNamedTab(c) PROVE Together(screen')
  <2>. DEFINE t == Render(s)
              who == IF c \in Attached(screen) THEN c ELSE LeastOf(Attached(screen))
  <2>1. ScreenOK(t) /\ Level(t)
    BY <1>0, RenderIsGood, RenderKeepsLevel DEF Good
  <2>2. screen' = t \/ screen' = AddTab(t, NewTabIndex(t), who)
    BY <1>2, Zenon DEF CreateNamedTab
  <2>. DEFINE u == AddTab(t, NewTabIndex(t), who)
  <2>. HIDE DEF t
  <2>3. u.active = t.active
    BY <2>1, AddTabFocus
  <2>. HIDE DEF u
  <2>4. Together(u)
    BY <2>1, <2>3, SameFocusTogether
  <2>. QED  BY <2>1, <2>2, <2>4, LevelIsTogether DEF u
<1>3. ASSUME BreakPane(c) PROVE Together(screen')
  <2>. DEFINE i == NewTabIndex(s)
  <2>1. screen' = SetLive(AddTab(s, i, c), i, TRUE) \/ screen' = Fail(s)
    BY <1>3 DEF BreakPane
  <2>. DEFINE u == SetLive(AddTab(s, i, c), i, TRUE)
  <2>2. Level(Fail(s))
    BY <1>0, FailKeepsLevel
  <2>3. u.active = s.active
    BY <1>0, AddTabFocus
  <2>. HIDE DEF i, u
  <2>4. Together(u)
    BY <1>0, <2>3, SameFocusTogether
  <2>. QED  BY <2>1, <2>2, <2>4, LevelIsTogether DEF u
<1>4. ASSUME NEW i \in Indices, GoToNamedTab(c, i) PROVE Together(screen')
  <2>. DEFINE who == IF c \in Attached(screen) THEN c ELSE LeastOf(Attached(screen))
              t   == SwitchActiveTab(s, s.tabs[i].position, who)
  <2>1. screen' = Render(t) /\ Attached(s) # {}
    BY <1>4, Zenon DEF GoToNamedTab
  <2>2. who \in Clients
    BY <1>0, <2>1, AttachedIsClient
  <2>. HIDE DEF who
  <2>3. Keeps(s, t) /\ Level(t)
    BY <1>0, <2>2, SwitchActiveTabKeeps, SwitchKeepsLevel
  <2>. QED  BY <2>1, <2>3, RenderedTogether
<1>5. ASSUME NEW step \in {-1, 1}, SwitchTab(c, step) \/ MoveFocusOverEdge(c, step)
      PROVE  Together(screen')
  <2>. DEFINE t == SwitchTabBy(s, c, step)
  <2>1. screen' \in {s, t, Render(t)}
    BY <1>5 DEF SwitchTab, MoveFocusOverEdge
  <2>2. Keeps(s, t) /\ Level(t)
    BY <1>0, SwitchTabByKeeps, SwitchTabByKeepsLevel
  <2>. QED  BY <1>0, <2>1, <2>2, LevelIsTogether, RenderedTogether
<1>6. ASSUME NEW p \in Positions, GoToTabRequest(c, p) PROVE Together(screen')
  <2>. DEFINE who == IF c \in Attached(screen) THEN c ELSE LeastOf(Attached(screen))
              t   == GoToTab(s, p, who)
  <2>1. CASE Attached(screen) # {} /\ pending_tab_ids = {}
    <3>1. screen' = Render(t)
      BY <1>6, <2>1, Zenon DEF GoToTabRequest
    <3>2. who \in Clients
      BY <1>0, <2>1, AttachedIsClient
    <3>. HIDE DEF who
    <3>3. Keeps(s, t) /\ Level(t)
      BY <1>0, <3>2, GoToTabKeeps, GoToKeepsLevel
    <3>. QED  BY <3>1, <3>3, RenderedTogether
  <2>2. CASE ~ (Attached(screen) # {} /\ pending_tab_ids = {})
    <3>1. screen' = s
      BY <1>6, <2>2 DEF GoToTabRequest
    <3>. QED  BY <1>0, <3>1, LevelIsTogether
  <2>. QED  BY <2>1, <2>2
<1>. QED  BY <1>1, <1>2, <1>3, <1>4, <1>5, <1>6

LEMMA TogetherAfterCloses ==
    ASSUME Mirrored, Inv, InStep(screen), NEW c \in Clients,
           \/ \E step \in {-1, 1}, last \in BOOLEAN : BreakPaneSideways(c, step, last)
           \/ ToggleTab(c) \/ CloseTab(c)
           \/ \E i \in Indices : FocusPaneWithId(c, i)
           \/ NewPane(c) \/ CloseFocusedPane(c)
    PROVE  Together(screen')
<1>. DEFINE s == screen
<1>0. Good(s) /\ ScreenOK(s) /\ Mirroring(s) /\ Level(s) /\ Even(s)
  BY InStepIsLevel
<1>1. ASSUME NEW step \in {-1, 1}, NEW last \in BOOLEAN, BreakPaneSideways(c, step, last)
      PROVE  Together(screen')
  <2>. DEFINE src   == s.active[c]
              taken == IF last THEN SetLive(s, src, FALSE) ELSE s
              moved == SwitchTabBy(taken, c, step)
              shown == Render(moved)
              here  == shown.active[c]
  <2>1. screen' \in {Fail(s), Render(s), Fail(shown), Render(SetLive(shown, here, TRUE))}
    BY <1>1, Zenon DEF BreakPaneSideways
  <2>. HIDE DEF src, here
  <2>2. Keeps(s, taken) /\ ScreenOK(taken) /\ Level(taken) /\ Even(taken)
    BY <1>0, SetLiveKeeps, SetLiveKeepsLevel DEF Keeps, SameBar
  <2>. HIDE DEF taken
  <2>3. Keeps(taken, moved) /\ ScreenOK(moved) /\ Level(moved)
    BY <2>2, SwitchTabByKeeps, SwitchTabByKeepsLevel DEF Keeps
  <2>. HIDE DEF moved
  <2>4. Good(shown) /\ ScreenOK(shown) /\ Level(shown)
    BY <1>0, <2>2, <2>3, SameBarIsGood, RenderIsGood, RenderKeepsLevel DEF Good
  <2>. HIDE DEF shown
  <2>5. Level(SetLive(shown, here, TRUE)) /\ ScreenOK(SetLive(shown, here, TRUE))
    BY <2>4, SetLiveKeeps, SetLiveKeepsLevel DEF Keeps
  <2>6. /\ Level(Fail(s)) /\ Level(Render(s)) /\ Level(Fail(shown))
        /\ Level(Render(SetLive(shown, here, TRUE)))
    BY <1>0, <2>4, <2>5, FailKeepsLevel, RenderKeepsLevel
  <2>. QED  BY <2>1, <2>6, LevelIsTogether
<1>2. ASSUME ToggleTab(c) PROVE Together(screen')
  <2>1. CASE c \in DOMAIN s.history
    BY <1>0, <1>2, <2>1, PopStaysTogether DEF ToggleTab
  <2>2. CASE c \notin DOMAIN s.history
    BY <1>0, <1>2, <2>2, FailKeepsLevel, LevelIsTogether DEF ToggleTab
  <2>. QED  BY <2>1, <2>2
<1>3. ASSUME CloseTab(c) PROVE Together(screen')
  <2>. DEFINE d == Actor(s, c)
              i == s.active[d]
              t == CloseOneTab(s, i)
  <2>1. CASE d = NoClient
    BY <1>0, <1>3, <2>1, RenderKeepsLevel, LevelIsTogether DEF CloseTab
  <2>2. CASE d # NoClient
    <3>1. screen' = Render(t)
      BY <1>3, <2>2 DEF CloseTab, CloseTabAtIndex
    <3>2. d \in Attached(s)
      BY <1>0, <2>2, ActorType
    <3>. HIDE DEF d
    <3>3. i \in TabIndices(s) /\ \A e \in Attached(s) : s.active[e] = i
      BY <1>0, <3>2 DEF Mirroring
    <3>. HIDE DEF i
    <3>4. s.tabs[i].clients \in {{}, Attached(s)}
      BY <3>2, <3>3, <1>0 DEF Even
    <3>5. Level(t)
      BY <1>0, <3>3, <3>4, CloseKeepsLevel
    <3>6. ScreenOK(t)
      BY <1>0, CloseOneTabIsGood DEF Good
    <3>. QED  BY <3>1, <3>5, <3>6, RenderKeepsLevel, LevelIsTogether
  <2>. QED  BY <2>1, <2>2
<1>4. ASSUME NEW i \in Indices, FocusPaneWithId(c, i) PROVE Together(screen')
  BY <1>0, <1>4, FocusPaneKeepsLevel, LevelIsTogether DEF FocusPaneWithId
<1>5. ASSUME NewPane(c) \/ CloseFocusedPane(c) PROVE Together(screen')
  <2>. DEFINE i == s.active[Actor(s, c)]
  <2>1. PICK v \in BOOLEAN : screen' \in {Render(SetLive(s, i, v)), Render(s)}
    BY <1>5, Zenon DEF NewPane, CloseFocusedPane
  <2>. HIDE DEF i
  <2>2. Level(SetLive(s, i, v)) /\ ScreenOK(SetLive(s, i, v))
    BY <1>0, SetLiveKeeps, SetLiveKeepsLevel DEF Keeps
  <2>. QED  BY <1>0, <2>1, <2>2, RenderKeepsLevel, LevelIsTogether
<1>. QED  BY <1>1, <1>2, <1>3, <1>4, <1>5

LEMMA TogetherAfterAttach ==
    ASSUME Mirrored, Inv, InStep(screen), NEW c \in Clients,
           NEW how \in {"plain", "pane", "tab"}, NEW i, AddClient(c, how, i)
    PROVE  Together(screen')
<1>. DEFINE s == AttachClient(screen, c)
            t == CASE how = "plain" -> s
                   [] how = "pane"  -> FocusPane(s, c, i)
                   [] how = "tab"   -> GoToTab(s, i, c)
<1>0. Good(screen) /\ ScreenOK(screen) /\ Mirroring(screen) /\ Level(screen)
  BY InStepIsLevel
<1>1. screen' = (IF s.failed THEN s ELSE Render(t)) /\ c \notin Attached(screen)
  BY Zenon DEF AddClient
<1>2. CASE TabIndices(screen) = {}
  <2>1. Attached(screen) = {}
    BY <1>0, <1>2 DEF Mirroring
  <2>2. s = Fail(screen)
    BY <1>2, <2>1 DEF AttachClient
  <2>3. s.failed
    BY <1>0, <2>2, ScreenIsOK DEF Fail, Screens
  <2>. QED  BY <1>0, <1>1, <2>2, <2>3, FailKeepsLevel, LevelIsTogether
<1>3. CASE TabIndices(screen) # {}
  <2>1. Keeps(screen, s) /\ Level(s) /\ Even(s)
    BY <1>0, <1>1, <1>3, AttachClientKeeps, AttachKeepsLevel
  <2>. HIDE DEF s
  <2>2. Good(s) /\ ScreenOK(s)
    BY <1>0, <2>1, SameBarIsGood DEF Good
  <2>3. t \in {s, FocusPane(s, c, i), GoToTab(s, i, c)}
    OBVIOUS
  <2>4. /\ ScreenOK(FocusPane(s, c, i)) /\ Level(FocusPane(s, c, i))
        /\ ScreenOK(GoToTab(s, i, c)) /\ Level(GoToTab(s, i, c))
    BY <2>1, <2>2, FocusPaneIsGood, FocusPaneKeepsLevel, GoToTabKeeps, GoToKeepsLevel
       DEF Good, Keeps
  <2>. QED  BY <1>1, <2>1, <2>2, <2>3, <2>4, RenderKeepsLevel, LevelIsTogether
<1>. QED  BY <1>2, <1>3

LEMMA TogetherAfterLoading ==
    ASSUME Mirrored, Inv, InStep(screen), ApplyLayout
    PROVE  Together(screen')
<1>. DEFINE new == Head(loading)
            t   == LoadTab(screen, new.index, new.client)
            s   == Render(t)
            n   == Cardinality(pending_tab_switches)
<1>0. Good(screen) /\ ScreenOK(screen) /\ Mirroring(screen)
  BY InStepIsLevel
<1>1. new.client \in Clients
  <2>. DEFINE S == [index : Indices, client : Clients]
  <2>1. loading \in Seq(S) /\ loading # <<>>
    BY DEF ApplyLayout, Inv, OthersOK
  <2>. HIDE DEF S
  <2>2. new \in S
    BY <2>1
  <2>. QED  BY <2>2 DEF S
<1>. HIDE DEF new
<1>2. Keeps(screen, t) /\ Level(t)
  BY <1>0, <1>1, LoadTabKeeps, LoadKeepsLevel
<1>. HIDE DEF t
<1>3. Good(t) /\ Level(s)
  BY <1>0, <1>2, SameBarIsGood, RenderKeepsLevel DEF Keeps
<1>4. CASE screen' = s
  BY <1>3, <1>4, LevelIsTogether
<1>5. CASE screen' # s
  <2>1. PICK order \in [1 .. n -> pending_tab_switches] :
           screen' = Render(DrainSwitches(s, n, order))
    BY <1>5 DEF ApplyLayout, new, t
  <2>2. ~s.failed
    BY <1>5 DEF ApplyLayout, new, t
  <2>3. Whole(s)
    <3>1. ~Render(t).failed
      BY <2>2
    <3>2. Whole(Render(t))
      BY <1>2, <1>3, <3>1, RenderedIsWhole
    <3>. QED  BY <3>2
  <2>. HIDE DEF s
  <2>4. n \in Nat /\ \A k \in 1 .. n : order[k][2] \in Clients
    <3>1. pending_tab_switches \subseteq Positions \X Clients
      BY DEF Inv, OthersOK
    <3>2. IsFiniteSet(Positions \X Clients)
      <4>1. IsFiniteSet(Positions)
        BY FS_Interval, BoundAssumption DEF Positions
      <4>2. IsFiniteSet(Clients)
        BY ClientsAssumption
      <4>. QED  BY <4>1, <4>2, FS_Product
    <3>3. n \in Nat
      BY <3>1, <3>2, FS_Subset, FS_CardinalityType
    <3>. QED  BY <3>1, <3>3
  <2>. HIDE DEF n
  <2>5. Whole(DrainSwitches(s, n, order))
    BY <2>3, <2>4, DrainKeepsWhole
  <2>6. screen' = DrainSwitches(s, n, order)
    BY <2>1, <2>5 DEF Render, Whole
  <2>. QED  BY <2>5, <2>6 DEF Whole
<1>. QED  BY <1>4, <1>5

LEMMA TogetherStep ==
    ASSUME Mirrored, Inv, InStep(screen), Next
    PROVE  Together(screen')
<1>0. Good(screen) /\ ScreenOK(screen) /\ Level(screen)
  BY InStepIsLevel
<1>1. ASSUME NEW c \in Clients, Request(c)
      PROVE  Together(screen')
  BY <1>1, TogetherAfterMoves, TogetherAfterCloses DEF Request
<1>2. ASSUME NEW c \in Clients, NEW how \in {"plain", "pane", "tab"}, NEW i,
             AddClient(c, how, i)
      PROVE  Together(screen')
  BY <1>2, TogetherAfterAttach
<1>3. ASSUME NEW c \in Clients, RemoveClient(c)
      PROVE  Together(screen')
  <2>1. screen' = Render(DetachClient(screen, c))
    BY <1>3 DEF RemoveClient
  <2>2. ScreenOK(DetachClient(screen, c)) /\ Level(DetachClient(screen, c))
    BY <1>0, DetachClientKeeps, DetachKeepsLevel DEF Keeps
  <2>. QED  BY <2>1, <2>2, RenderKeepsLevel, LevelIsTogether
<1>4. ASSUME NEW i, ShellExits(i)
      PROVE  Together(screen')
  BY <1>0, <1>4, SetLiveKeepsLevel, LevelIsTogether DEF ShellExits
<1>5. CASE RenderRequest
  BY <1>0, <1>5, RenderKeepsLevel, LevelIsTogether DEF RenderRequest
<1>6. CASE ApplyLayout
  BY <1>6, TogetherAfterLoading
<1>. QED  BY <1>1, <1>2, <1>3, <1>4, <1>5, <1>6 DEF Next

(* Mirrored clients that are in step stay at one tab, however many clients   *)
(* and tabs there are, whatever is loading and whoever has left: the option  *)
(* mirror_session is kept by every instruction, the drain of the switches    *)
(* that waited and the closing of a dead tab in the same step included.      *)
THEOREM MirroredClientsStayTogether == Spec => MirroredStep
<1>1. Inv /\ [Next]_vars => [Mirrored /\ InStep(screen) => Together(screen')]_vars
  BY TogetherStep
<1>. QED  BY <1>1, TabsInvariant, PTL DEF Spec, MirroredStep

=============================================================================

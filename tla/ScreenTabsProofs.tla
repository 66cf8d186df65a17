-------------------------- MODULE ScreenTabsProofs --------------------------
(***************************************************************************)
(* Type correctness of ScreenTabs and the contiguity of the positions in   *)
(* the tab bar, for any set of clients and any number of tabs.             *)
(*                                                                         *)
(* Only AddTab and CloseOneTab change the set of tabs or their positions.  *)
(* Every other method of Screen keeps them: such a method is shown to have *)
(* a well-typed result and to Keep the bar.  Contiguity alone is not       *)
(* inductive: that closing a tab leaves no hole needs that no two tabs     *)
(* shared its position.                                                    *)
(***************************************************************************)
EXTENDS ScreenTabs, TLAPS, FiniteSetTheorems, WellFoundedInduction, SequenceTheorems

Distinct(s) ==
    \A i, j \in TabIndices(s) : s.tabs[i].position = s.tabs[j].position => i = j

(* A screen as the invariant wants it. *)
Good(s) == ScreenOK(s) /\ Contiguous(s) /\ Distinct(s)

(* t has the tabs of s, at the same positions. *)
SameBar(s, t) ==
    /\ TabIndices(t) = TabIndices(s)
    /\ \A i \in TabIndices(s) : t.tabs[i].position = s.tabs[i].position

Keeps(s, t) == ScreenOK(t) /\ SameBar(s, t)

----------------------------------------------------------------------------

(* Partial functions, and ScreenOK as membership in a set of records.       *)
Partial(D, R) == UNION {[E -> R] : E \in SUBSET D}

Screens == [tabs      : Partial(Indices, Tabs),
            active    : Partial(Clients, Indices),
            history   : Partial(Clients, Seq(Indices)),
            connected : SUBSET Clients,
            failed    : BOOLEAN,
            ended     : BOOLEAN]

LEMMA PartialMember ==
    ASSUME NEW D, NEW R, NEW f
    PROVE  f \in Partial(D, R) <=> DOMAIN f \subseteq D /\ f \in [DOMAIN f -> R]
BY DEF Partial

LEMMA ScreenIsOK ==
    ASSUME NEW s
    PROVE  ScreenOK(s) <=> s \in Screens
<1>1. ASSUME ScreenOK(s)
      PROVE  s \in Screens
  <2>1. s \in [tabs      : {s.tabs},
               active    : {s.active},
               history   : {s.history},
               connected : SUBSET Clients,
               failed    : BOOLEAN,
               ended     : BOOLEAN]
    BY <1>1 DEF ScreenOK
  <2>2. /\ s.tabs \in Partial(Indices, Tabs)
        /\ s.active \in Partial(Clients, Indices)
        /\ s.history \in Partial(Clients, Seq(Indices))
    BY <1>1, PartialMember DEF ScreenOK, TabIndices, Attached
  <2>. QED  BY <2>1, <2>2 DEF Screens
<1>2. ASSUME s \in Screens
      PROVE  ScreenOK(s)
  <2>1. /\ s.tabs \in Partial(Indices, Tabs)
        /\ s.active \in Partial(Clients, Indices)
        /\ s.history \in Partial(Clients, Seq(Indices))
    BY <1>2 DEF Screens
  <2>2. /\ DOMAIN s.tabs \subseteq Indices /\ s.tabs \in [DOMAIN s.tabs -> Tabs]
        /\ DOMAIN s.active \subseteq Clients /\ s.active \in [DOMAIN s.active -> Indices]
        /\ DOMAIN s.history \subseteq Clients
        /\ s.history \in [DOMAIN s.history -> Seq(Indices)]
    BY <2>1, PartialMember
  <2>. QED  BY <1>2, <2>2 DEF Screens, ScreenOK, TabIndices, Attached
<1>. QED  BY <1>1, <1>2

(* What ScreenOK says field by field. *)
LEMMA ScreenFields ==
    ASSUME NEW s, ScreenOK(s)
    PROVE  /\ TabIndices(s) \subseteq Indices
           /\ s.tabs \in [TabIndices(s) -> Tabs]
           /\ \A i \in TabIndices(s) : s.tabs[i] \in Tabs
           /\ Attached(s) \subseteq Clients
           /\ s.active \in [Attached(s) -> Indices]
           /\ \A c \in Attached(s) : s.active[c] \in Indices
           /\ DOMAIN s.history \subseteq Clients
           /\ s.history \in [DOMAIN s.history -> Seq(Indices)]
           /\ s.connected \in SUBSET Clients
           /\ s.failed \in BOOLEAN /\ s.ended \in BOOLEAN
<1>1. /\ s.tabs \in Partial(Indices, Tabs)
      /\ s.active \in Partial(Clients, Indices)
      /\ s.history \in Partial(Clients, Seq(Indices))
      /\ s.connected \in SUBSET Clients
      /\ s.failed \in BOOLEAN /\ s.ended \in BOOLEAN
  BY ScreenIsOK DEF Screens
<1>. QED  BY <1>1, PartialMember DEF TabIndices, Attached

(* The methods change a screen field by field. *)
LEMMA TabsReplaced ==
    ASSUME NEW s, ScreenOK(s), NEW f, DOMAIN f \subseteq Indices, f \in [DOMAIN f -> Tabs]
    PROVE  LET t == [s EXCEPT !.tabs = f] IN ScreenOK(t) /\ t.tabs = f
BY PartialMember, ScreenIsOK DEF Screens

LEMMA FocusReplaced ==
    ASSUME NEW s, ScreenOK(s),
           NEW f, DOMAIN f \subseteq Clients, f \in [DOMAIN f -> Indices],
           NEW h, DOMAIN h \subseteq Clients, h \in [DOMAIN h -> Seq(Indices)]
    PROVE  LET t == [s EXCEPT !.active = f, !.history = h]
           IN  ScreenOK(t) /\ t.tabs = s.tabs
BY PartialMember, ScreenIsOK DEF Screens

LEMMA ClientsReplaced ==
    ASSUME NEW s, ScreenOK(s),
           NEW f, DOMAIN f \subseteq Clients, f \in [DOMAIN f -> Indices],
           NEW h, DOMAIN h \subseteq Clients, h \in [DOMAIN h -> Seq(Indices)],
           NEW C \in SUBSET Clients
    PROVE  LET t == [s EXCEPT !.active = f, !.history = h, !.connected = C]
           IN  ScreenOK(t) /\ t.tabs = s.tabs
BY PartialMember, ScreenIsOK DEF Screens

LEMMA TabsAndFocusReplaced ==
    ASSUME NEW s, ScreenOK(s),
           NEW g, DOMAIN g \subseteq Indices, g \in [DOMAIN g -> Tabs],
           NEW f, DOMAIN f \subseteq Clients, f \in [DOMAIN f -> Indices],
           NEW h, DOMAIN h \subseteq Clients, h \in [DOMAIN h -> Seq(Indices)]
    PROVE  LET t == [s EXCEPT !.active = f, !.history = h, !.tabs = g]
           IN  ScreenOK(t) /\ t.tabs = g
BY PartialMember, ScreenIsOK DEF Screens

LEMMA LeastExists ==
    ASSUME NEW S \in SUBSET Nat, S # {}
    PROVE  LeastOf(S) \in S /\ \A y \in S : LeastOf(S) <= y
<1>1. PICK m \in S : \A y \in S : ~ (<<y, m>> \in OpToRel(<, Nat))
  BY WFMin, NatLessThanWellFounded, Zenon
<1>2. \A y \in S : ~ (y < m)
  BY <1>1, Zenon DEF OpToRel
<1>3. \A y \in S : m <= y
  BY <1>2, SMT
<1>. QED  BY <1>3, Zenon DEF LeastOf

LEMMA GreatestExists ==
    ASSUME NEW S \in SUBSET Indices, S # {}
    PROVE  \E m \in S : \A j \in S : j <= m
<1>. DEFINE T == {MaxIndex - i : i \in S}
<1>1. T \in SUBSET Nat /\ T # {}
  <2>1. \A i \in S : MaxIndex - i \in Nat
    BY BoundAssumption DEF Indices
  <2>. QED  BY <2>1
<1>2. LeastOf(T) \in T /\ \A y \in T : LeastOf(T) <= y
  BY <1>1, LeastExists
<1>3. PICK m \in S : LeastOf(T) = MaxIndex - m
  BY <1>2
<1>4. \A j \in S : MaxIndex - m <= MaxIndex - j
  BY <1>2, <1>3
<1>5. \A j \in S : j <= m
  BY <1>4, BoundAssumption DEF Indices
<1>. QED  BY <1>5

(* The index that get_new_tab_index returns is not that of a tab.          *)
LEMMA NewIndexIsFresh ==
    ASSUME NEW s, ScreenOK(s)
    PROVE  NewTabIndex(s) \in Nat /\ NewTabIndex(s) \notin TabIndices(s)
<1>1. CASE TabIndices(s) = {}
  BY <1>1 DEF NewTabIndex
<1>2. CASE TabIndices(s) # {}
  <2>. DEFINE top == CHOOSE i \in TabIndices(s) : \A j \in TabIndices(s) : j <= i
  <2>0. TabIndices(s) \subseteq Indices
    BY ScreenFields
  <2>1. top \in TabIndices(s) /\ \A j \in TabIndices(s) : j <= top
    BY <1>2, <2>0, GreatestExists, Zenon
  <2>2. NewTabIndex(s) = 1 + top
    BY <1>2, Zenon DEF NewTabIndex
  <2>. QED  BY <2>0, <2>1, <2>2, BoundAssumption DEF Indices
<1>. QED  BY <1>1, <1>2

LEMMA TabsAreFinite ==
    ASSUME NEW s, ScreenOK(s)
    PROVE  IsFiniteSet(TabIndices(s)) /\ Cardinality(TabIndices(s)) \in Nat
<1>1. IsFiniteSet(Indices)
  BY FS_Interval, BoundAssumption DEF Indices
<1>2. TabIndices(s) \subseteq Indices
  BY ScreenFields
<1>. QED  BY <1>1, <1>2, FS_Subset, FS_CardinalityType

LEMMA SameBarIsGood ==
    ASSUME NEW s, NEW t, Good(s), Keeps(s, t)
    PROVE  Good(t)
BY DEF Good, Keeps, SameBar, Contiguous, Distinct

LEMMA KeepsTransitive ==
    ASSUME NEW s, NEW t, NEW u, Keeps(s, t), Keeps(t, u)
    PROVE  Keeps(s, u)
BY DEF Keeps, SameBar

----------------------------------------------------------------------------
(* The methods that only rearrange clients. *)

LEMMA ClientsAreNats == Clients \subseteq Nat
BY ClientsAssumption

LEMMA FailKeeps ==
    ASSUME NEW s, ScreenOK(s)
    PROVE  Keeps(s, Fail(s))
BY ScreenIsOK DEF Fail, Keeps, SameBar, Screens, TabIndices

LEMMA AddClientsType ==
    ASSUME NEW t \in Tabs, NEW C \in SUBSET Clients
    PROVE  AddClients(t, C) \in Tabs /\ AddClients(t, C).position = t.position
BY DEF AddClients, Tabs

LEMMA OneTabReplaced ==
    ASSUME NEW s, ScreenOK(s), NEW i, NEW u,
           i \in TabIndices(s) => u \in Tabs /\ u.position = s.tabs[i].position
    PROVE  Keeps(s, [s EXCEPT !.tabs[i] = u])
<1>. DEFINE f == [s.tabs EXCEPT ![i] = u]
<1>1. f \in [TabIndices(s) -> Tabs]
  BY ScreenFields DEF TabIndices
<1>2. \A j \in TabIndices(s) : f[j].position = s.tabs[j].position
  BY DEF TabIndices
<1>3. [s EXCEPT !.tabs[i] = u] = [s EXCEPT !.tabs = f]
  OBVIOUS
<1>. HIDE DEF f
<1>. QED  BY <1>1, <1>2, <1>3, TabsReplaced, ScreenFields DEF Keeps, SameBar, TabIndices

LEMMA RemoveClientsType ==
    ASSUME NEW t \in Tabs, NEW C
    PROVE  RemoveClients(t, C) \in Tabs /\ RemoveClients(t, C).position = t.position
BY DEF RemoveClients, Tabs

LEMMA RemoveClientsKeeps ==
    ASSUME NEW s, ScreenOK(s), NEW i, NEW C
    PROVE  Keeps(s, [s EXCEPT !.tabs[i] = RemoveClients(@, C)])
<1>1. i \in TabIndices(s) =>
        /\ RemoveClients(s.tabs[i], C) \in Tabs
        /\ RemoveClients(s.tabs[i], C).position = s.tabs[i].position
  BY ScreenFields, RemoveClientsType
<1>. QED  BY <1>1, OneTabReplaced

LEMMA SetLiveKeeps ==
    ASSUME NEW s, ScreenOK(s), NEW i, NEW v \in BOOLEAN
    PROVE  Keeps(s, SetLive(s, i, v))
<1>. DEFINE u == [s.tabs[i] EXCEPT !.live = v]
<1>1. i \in TabIndices(s) => u \in Tabs /\ u.position = s.tabs[i].position
  BY ScreenFields DEF Tabs
<1>2. SetLive(s, i, v) = [s EXCEPT !.tabs[i] = u]
  BY DEF SetLive
<1>. HIDE DEF u
<1>3. Keeps(s, [s EXCEPT !.tabs[i] = u])
  BY <1>1, OneTabReplaced
<1>. QED  BY <1>2, <1>3

LEMMA AddClientsKeeps ==
    ASSUME NEW s, ScreenOK(s), NEW i, NEW C \in SUBSET Clients
    PROVE  Keeps(s, [s EXCEPT !.tabs[i] = AddClients(@, C)])
<1>1. i \in TabIndices(s) =>
        /\ AddClients(s.tabs[i], C) \in Tabs
        /\ AddClients(s.tabs[i], C).position = s.tabs[i].position
  BY ScreenFields, AddClientsType
<1>. QED  BY <1>1, OneTabReplaced

LEMMA MoveClientsBetweenTabsKeeps ==
    ASSUME NEW s, ScreenOK(s), NEW src, NEW dst, NEW C \in SUBSET Clients
    PROVE  Keeps(s, MoveClientsBetweenTabs(s, src, dst, C))
<1>. DEFINE drained == [s EXCEPT !.tabs[src] = RemoveClients(@, C)]
<1>1. Keeps(s, drained)
  BY RemoveClientsKeeps
<1>2. Keeps(drained, [drained EXCEPT !.tabs[dst] = AddClients(@, C)])
  BY <1>1, AddClientsKeeps DEF Keeps
<1>3. MoveClientsBetweenTabs(s, src, dst, C) = [drained EXCEPT !.tabs[dst] = AddClients(@, C)]
  BY DEF MoveClientsBetweenTabs
<1>. QED  BY <1>1, <1>2, <1>3, KeepsTransitive

----------------------------------------------------------------------------
(* The history of a client.  Without is a function defined by recursion on  *)
(* the length: such a function exists, because otherwise there would be a   *)
(* shortest prefix for which it does not.                                   *)

KeptOf(h, i, f, n) ==
    f = [k \in 0 .. n |->
           IF k = 0 THEN <<>>
           ELSE IF h[k] = i THEN f[k - 1] ELSE Append(f[k - 1], h[k])]

LEMMA KeptExists ==
    ASSUME NEW h \in Seq(Indices), NEW i
    PROVE  \A n \in Nat : \E f : KeptOf(h, i, f, n)
<1>. DEFINE bad == {n \in Nat : ~ \E f : KeptOf(h, i, f, n)}
<1>1. SUFFICES ASSUME bad # {}
               PROVE  FALSE
  OBVIOUS
<1>2. LeastOf(bad) \in bad /\ \A n \in bad : LeastOf(bad) <= n
  BY <1>1, LeastExists
<1>. DEFINE n == LeastOf(bad)
<1>. HIDE DEF n
<1>3. n \in Nat /\ ~ \E f : KeptOf(h, i, f, n)
  BY <1>2 DEF n
<1>4. CASE n = 0
  <2>1. KeptOf(h, i, [k \in 0 .. 0 |-> <<>>], 0)
    BY DEF KeptOf
  <2>. QED  BY <1>3, <1>4, <2>1
<1>5. CASE n # 0
  <2>1. n - 1 \in Nat /\ ~ (n <= n - 1)
    BY <1>3, <1>5
  <2>2. n - 1 \notin bad
    BY <1>2, <2>1 DEF n
  <2>3. PICK f : KeptOf(h, i, f, n - 1)
    BY <2>1, <2>2
  <2>. DEFINE last == IF h[n] = i THEN f[n - 1] ELSE Append(f[n - 1], h[n])
              g == [k \in 0 .. n |-> IF k = n THEN last ELSE f[k]]
  <2>4. \A k \in 0 .. n - 1 :
          f[k] = IF k = 0 THEN <<>>
                 ELSE IF h[k] = i THEN f[k - 1] ELSE Append(f[k - 1], h[k])
    BY <2>3 DEF KeptOf
  <2>5. \A k \in 0 .. n :
          g[k] = IF k = 0 THEN <<>>
                 ELSE IF h[k] = i THEN g[k - 1] ELSE Append(g[k - 1], h[k])
    BY <1>3, <1>5, <2>4
  <2>6. KeptOf(h, i, g, n)
    BY <2>5 DEF KeptOf
  <2>. QED  BY <1>3, <2>6
<1>. QED  BY <1>4, <1>5

LEMMA WithoutType ==
    ASSUME NEW h \in Seq(Indices), NEW i
    PROVE  Without(h, i) \in Seq(Indices)
<1>. DEFINE f == CHOOSE f : KeptOf(h, i, f, Len(h))
<1>0. Len(h) \in Nat /\ \A k \in 1 .. Len(h) : h[k] \in Indices
  OBVIOUS
<1>1. KeptOf(h, i, f, Len(h))
  BY <1>0, KeptExists
<1>2. Without(h, i) = f[Len(h)]
  BY Zenon DEF Without, KeptOf
<1>. HIDE DEF f
<1>. DEFINE bad == {k \in 0 .. Len(h) : f[k] \notin Seq(Indices)}
<1>3. CASE bad = {}
  BY <1>0, <1>2, <1>3
<1>4. CASE bad # {}
  <2>. DEFINE k == LeastOf(bad)
  <2>1. bad \in SUBSET Nat
    OBVIOUS
  <2>2. k \in bad /\ \A m \in bad : k <= m
    BY <1>4, <2>1, LeastExists
  <2>. HIDE DEF k
  <2>0. k \in 0 .. Len(h) /\ f[k] \notin Seq(Indices)
    BY <2>2
  <2>3. f[k] = IF k = 0 THEN <<>>
               ELSE IF h[k] = i THEN f[k - 1] ELSE Append(f[k - 1], h[k])
    BY <1>1, <2>2 DEF KeptOf
  <2>. HIDE DEF bad
  <2>4. k # 0
    <3>1. <<>> \in Seq(Indices)
      OBVIOUS
    <3>. QED  BY <2>0, <2>3, <3>1
  <2>5. k \in 1 .. Len(h) /\ k - 1 \in 0 .. Len(h) /\ ~ (k <= k - 1)
    BY <1>0, <2>0, <2>4
  <2>6. f[k - 1] \in Seq(Indices)
    BY <2>2, <2>5 DEF bad
  <2>7. Append(f[k - 1], h[k]) \in Seq(Indices)
    BY <1>0, <2>5, <2>6
  <2>. QED  BY <2>0, <2>3, <2>4, <2>6, <2>7
<1>. QED  BY <1>3, <1>4

----------------------------------------------------------------------------
(* The methods of Screen that leave the tab bar alone. *)

LEMMA HistoryType ==
    ASSUME NEW s, ScreenOK(s), NEW c
    PROVE  History(s, c) \in Seq(Indices)
<1>1. CASE c \in DOMAIN s.history
  BY <1>1, ScreenFields DEF History
<1>2. CASE c \notin DOMAIN s.history
  BY <1>2 DEF History
<1>. QED  BY <1>1, <1>2

LEMMA UpdateClientTabFocusKeeps ==
    ASSUME NEW s, ScreenOK(s), NEW C \in SUBSET Clients, NEW i \in Indices
    PROVE  Keeps(s, UpdateClientTabFocus(s, C, i))
<1>. DEFINE f == [c \in DOMAIN s.active \cup C |-> IF c \in C THEN i ELSE s.active[c]]
            h == [c \in DOMAIN s.history \cup (C \cap Attached(s)) |->
                    IF c \in C \cap Attached(s)
                    THEN Append(Without(History(s, c), i), s.active[c])
                    ELSE s.history[c]]
<1>1. DOMAIN f \subseteq Clients /\ f \in [DOMAIN f -> Indices]
  BY ScreenFields DEF Attached
<1>2. \A c \in C \cap Attached(s) :
        Append(Without(History(s, c), i), s.active[c]) \in Seq(Indices)
  <2>. SUFFICES ASSUME NEW c \in C \cap Attached(s)
                PROVE  Append(Without(History(s, c), i), s.active[c]) \in Seq(Indices)
    OBVIOUS
  <2>1. Without(History(s, c), i) \in Seq(Indices)
    BY HistoryType, WithoutType
  <2>2. s.active[c] \in Indices
    BY ScreenFields
  <2>. QED  BY <2>1, <2>2
<1>3. DOMAIN h \subseteq Clients /\ h \in [DOMAIN h -> Seq(Indices)]
  <2>1. \A c \in DOMAIN s.history : s.history[c] \in Seq(Indices)
    BY ScreenFields
  <2>. QED  BY <1>2, <2>1, ScreenFields
<1>4. UpdateClientTabFocus(s, C, i) = [s EXCEPT !.active = f, !.history = h]
  BY DEF UpdateClientTabFocus
<1>. HIDE DEF f, h
<1>5. Keeps(s, [s EXCEPT !.active = f, !.history = h])
  BY <1>1, <1>3, FocusReplaced DEF Keeps, SameBar, TabIndices
<1>. QED  BY <1>4, <1>5

LEMMA SwitchActiveTabKeeps ==
    ASSUME NEW s, ScreenOK(s), NEW pos, NEW c \in Clients
    PROVE  Keeps(s, SwitchActiveTab(s, pos, c))
<1>. DEFINE found == {i \in TabIndices(s) : s.tabs[i].position = pos}
            cur   == s.active[c]
            new   == LeastOf(found)
            stays == found = {} \/ ~HasActiveTab(s, c) \/ s.tabs[cur].position = pos
            all   == UpdateClientTabFocus(
                       MoveClientsBetweenTabs(s, cur, new, s.tabs[cur].clients),
                       s.connected, new)
            one   == UpdateClientTabFocus(
                       MoveClientsBetweenTabs(s, cur, new, {c}), {c}, new)
<1>1. CASE stays
  BY <1>1 DEF SwitchActiveTab, Keeps, SameBar
<1>2. CASE ~stays
  <2>1. found # {} /\ found \in SUBSET Nat
    BY <1>2, ScreenFields, BoundAssumption DEF Indices
  <2>2. new \in found
    BY <2>1, LeastExists
  <2>3. new \in Indices
    BY <2>2, ScreenFields
  <2>4. cur \in TabIndices(s) /\ s.tabs[cur].clients \in SUBSET Clients
    BY <1>2, ScreenFields DEF HasActiveTab, Tabs
  <2>5. Keeps(s, all)
    <3>1. Keeps(s, MoveClientsBetweenTabs(s, cur, new, s.tabs[cur].clients))
      BY <2>4, MoveClientsBetweenTabsKeeps
    <3>. QED  BY <3>1, <2>3, ScreenFields, UpdateClientTabFocusKeeps, KeepsTransitive DEF Keeps
  <2>6. Keeps(s, one)
    <3>1. Keeps(s, MoveClientsBetweenTabs(s, cur, new, {c}))
      BY MoveClientsBetweenTabsKeeps
    <3>. QED  BY <3>1, <2>3, UpdateClientTabFocusKeeps, KeepsTransitive DEF Keeps
  <2>7. SwitchActiveTab(s, pos, c) = IF Mirrored THEN all ELSE one
    BY <1>2, Zenon DEF SwitchActiveTab
  <2>. HIDE DEF all, one
  <2>. QED  BY <2>5, <2>6, <2>7
<1>. QED  BY <1>1, <1>2

LEMMA GoToTabKeeps ==
    ASSUME NEW s, ScreenOK(s), NEW t, NEW c \in Clients
    PROVE  Keeps(s, GoToTab(s, t, c))
BY SwitchActiveTabKeeps DEF GoToTab

LEMMA ActorType ==
    ASSUME NEW s, ScreenOK(s), NEW c \in Clients
    PROVE  /\ Actor(s, c) \in Clients \cup {NoClient}
           /\ Actor(s, c) # NoClient <=> Actor(s, c) \in Clients
           /\ Actor(s, c) # NoClient => Actor(s, c) \in Attached(s)
<1>1. NoClient \notin Clients
  BY ClientsAssumption DEF NoClient
<1>2. Attached(s) \in SUBSET Nat /\ Attached(s) \subseteq Clients
  BY ScreenFields, ClientsAreNats
<1>3. Attached(s) # {} => LeastOf(Attached(s)) \in Attached(s)
  BY <1>2, LeastExists
<1>. QED  BY <1>1, <1>2, <1>3 DEF Actor, HasActiveTab

LEMMA SwitchTabByKeeps ==
    ASSUME NEW s, ScreenOK(s), NEW c \in Clients, NEW step
    PROVE  Keeps(s, SwitchTabBy(s, c, step))
<1>1. CASE HasActiveTab(s, Actor(s, c))
  <2>1. Actor(s, c) \in Clients
    BY <1>1, ScreenFields DEF HasActiveTab
  <2>. QED  BY <1>1, <2>1, SwitchActiveTabKeeps DEF SwitchTabBy
<1>2. CASE ~HasActiveTab(s, Actor(s, c))
  BY <1>2 DEF SwitchTabBy, Keeps, SameBar
<1>. QED  BY <1>1, <1>2

LEMMA PopHistoryKeeps ==
    ASSUME NEW s, ScreenOK(s), NEW c \in DOMAIN s.history
    PROVE  Keeps(s, PopHistory(s, c))
<1>. DEFINE h    == s.history[c]
            prev == h[Len(h)]
            less == [s.history EXCEPT ![c] = SubSeq(h, 1, Len(h) - 1)]
            pop  == [s EXCEPT !.history = less]
<1>1. CASE h = <<>>
  BY <1>1 DEF PopHistory, Keeps, SameBar
<1>2. CASE h # <<>>
  <2>0. h \in Seq(Indices) /\ c \in Clients
    BY ScreenFields
  <2>1. SubSeq(h, 1, Len(h) - 1) \in Seq(Indices)
    BY <1>2, <2>0
  <2>2. DOMAIN less \subseteq Clients /\ less \in [DOMAIN less -> Seq(Indices)]
    BY <2>1, ScreenFields
  <2>3. pop = [s EXCEPT !.active = s.active, !.history = less]
    BY ScreenIsOK DEF Screens
  <2>4. DOMAIN s.active \subseteq Clients /\ s.active \in [DOMAIN s.active -> Indices]
    BY ScreenFields DEF Attached
  <2>. HIDE DEF less
  <2>5. Keeps(s, [s EXCEPT !.active = s.active, !.history = less])
    BY <2>2, <2>4, FocusReplaced DEF Keeps, SameBar, TabIndices
  <2>6. Keeps(s, pop)
    BY <2>3, <2>5
  <2>. HIDE DEF pop
  <2>7. \A p : Keeps(s, SwitchActiveTab(pop, p, c))
    BY <2>0, <2>6, SwitchActiveTabKeeps, KeepsTransitive DEF Keeps
  <2>8. PopHistory(s, c) = IF prev \notin TabIndices(s) THEN pop
                           ELSE SwitchActiveTab(pop, s.tabs[prev].position, c)
    BY <1>2 DEF PopHistory, pop, less
  <2>. QED  BY <2>6, <2>7, <2>8
<1>. QED  BY <1>1, <1>2

LEMMA DetachClientKeeps ==
    ASSUME NEW s, ScreenOK(s), NEW c
    PROVE  Keeps(s, DetachClient(s, c))
<1>. DEFINE g == [i \in DOMAIN s.tabs |-> RemoveClients(s.tabs[i], {c})]
            f == [d \in DOMAIN s.active \ {c} |-> s.active[d]]
            h == [d \in DOMAIN s.history \ {c} |-> s.history[d]]
            C == s.connected \ {c}
<1>1. \A i \in DOMAIN s.tabs : g[i] \in Tabs /\ g[i].position = s.tabs[i].position
  BY ScreenFields, RemoveClientsType DEF TabIndices
<1>2. /\ DOMAIN g = TabIndices(s)
      /\ DOMAIN g \subseteq Indices /\ g \in [DOMAIN g -> Tabs]
  BY <1>1, ScreenFields DEF TabIndices
<1>3. DOMAIN f \subseteq Clients /\ f \in [DOMAIN f -> Indices]
  BY ScreenFields DEF Attached
<1>4. DOMAIN h \subseteq Clients /\ h \in [DOMAIN h -> Seq(Indices)]
  BY ScreenFields
<1>5. C \in SUBSET Clients
  BY ScreenFields
<1>6. DetachClient(s, c) =
        [s EXCEPT !.tabs = g, !.active = f, !.history = h, !.connected = C]
  BY DEF DetachClient
<1>7. \A i \in TabIndices(s) : g[i].position = s.tabs[i].position
  BY <1>1 DEF TabIndices
<1>. HIDE DEF g, f, h, C
<1>8. LET t == [s EXCEPT !.tabs = g, !.active = f, !.history = h, !.connected = C]
      IN  ScreenOK(t) /\ t.tabs = g
  <2>1. /\ g \in Partial(Indices, Tabs)
        /\ f \in Partial(Clients, Indices)
        /\ h \in Partial(Clients, Seq(Indices))
    BY <1>2, <1>3, <1>4, PartialMember
  <2>. QED  BY <1>5, <2>1, ScreenIsOK DEF Screens
<1>. QED  BY <1>2, <1>6, <1>7, <1>8 DEF Keeps, SameBar, TabIndices

LEMMA LeastTab ==
    ASSUME NEW s, ScreenOK(s), TabIndices(s) # {}
    PROVE  LeastOf(TabIndices(s)) \in TabIndices(s)
<1>1. TabIndices(s) \in SUBSET Nat
  BY ScreenFields, BoundAssumption DEF Indices
<1>. QED  BY <1>1, LeastExists

LEMMA AttachClientKeeps ==
    ASSUME NEW s, ScreenOK(s), NEW c \in Clients
    PROVE  Keeps(s, AttachClient(s, c))
<1>. DEFINE home == IF Attached(s) # {} THEN s.active[LeastOf(Attached(s))]
                    ELSE LeastOf(TabIndices(s))
            hist == IF DOMAIN s.history = {} THEN <<>>
                    ELSE s.history[LeastOf(DOMAIN s.history)]
            f == [d \in DOMAIN s.active \cup {c} |-> IF d = c THEN home ELSE s.active[d]]
            h == [d \in DOMAIN s.history \cup {c} |-> IF d = c THEN hist ELSE s.history[d]]
            C == s.connected \cup {c}
            known == [s EXCEPT !.active = f, !.history = h, !.connected = C]
<1>1. CASE Attached(s) = {} /\ TabIndices(s) = {}
  BY <1>1, FailKeeps DEF AttachClient
<1>2. CASE ~(Attached(s) = {} /\ TabIndices(s) = {})
  <2>1. home \in Indices
    <3>1. CASE Attached(s) # {}
      <4>1. LeastOf(Attached(s)) \in Attached(s)
        BY <3>1, ScreenFields, ClientsAreNats, LeastExists
      <4>. QED  BY <3>1, <4>1, ScreenFields
    <3>2. CASE Attached(s) = {}
      BY <1>2, <3>2, LeastTab, ScreenFields
    <3>. QED  BY <3>1, <3>2
  <2>2. hist \in Seq(Indices)
    <3>1. CASE DOMAIN s.history = {}
      BY <3>1
    <3>2. CASE DOMAIN s.history # {}
      <4>1. LeastOf(DOMAIN s.history) \in DOMAIN s.history
        BY <3>2, ScreenFields, ClientsAreNats, LeastExists
      <4>. QED  BY <3>2, <4>1, ScreenFields
    <3>. QED  BY <3>1, <3>2
  <2>. HIDE DEF home, hist
  <2>3. f \in Partial(Clients, Indices)
    <3>1. DOMAIN f \subseteq Clients /\ f \in [DOMAIN f -> Indices]
      BY <2>1, ScreenFields DEF Attached
    <3>. QED  BY <3>1, PartialMember
  <2>4. h \in Partial(Clients, Seq(Indices))
    <3>1. DOMAIN h \subseteq Clients /\ h \in [DOMAIN h -> Seq(Indices)]
      BY <2>2, ScreenFields
    <3>. QED  BY <3>1, PartialMember
  <2>5. C \in SUBSET Clients
    BY ScreenFields
  <2>6. AttachClient(s, c) = IF home \notin TabIndices(s) THEN Fail(known)
                             ELSE [known EXCEPT !.tabs[home] = AddClients(@, {c})]
    BY <1>2, Zenon DEF AttachClient, home, hist
  <2>. HIDE DEF f, h, C
  <2>7. Keeps(s, known)
    BY <2>3, <2>4, <2>5, ScreenIsOK DEF Keeps, SameBar, Screens, TabIndices
  <2>. HIDE DEF known
  <2>8. ScreenOK(known)
    BY <2>7 DEF Keeps
  <2>9. Keeps(s, Fail(known))
    BY <2>7, <2>8, FailKeeps, KeepsTransitive
  <2>10. Keeps(s, [known EXCEPT !.tabs[home] = AddClients(@, {c})])
    BY <2>7, <2>8, AddClientsKeeps, KeepsTransitive
  <2>. QED  BY <2>6, <2>9, <2>10
<1>. QED  BY <1>1, <1>2

LEMMA LoadTabKeeps ==
    ASSUME NEW s, ScreenOK(s), NEW i, NEW c \in Clients
    PROVE  Keeps(s, LoadTab(s, i, c))
<1>. DEFINE who     == IF Actor(s, c) = NoClient THEN c ELSE Actor(s, c)
            src     == s.active[who]
            shows   == HasActiveTab(s, who)
            leaving == IF ~shows THEN {} ELSE IF Mirrored THEN s.tabs[src].clients ELSE {who}
            drained == IF ~shows THEN s
                       ELSE [s EXCEPT !.tabs[src] = RemoveClients(@, leaving)]
            focus   == IF Mirrored THEN UpdateClientTabFocus(drained, s.connected, i)
                       ELSE IF shows THEN UpdateClientTabFocus(drained, {who}, i)
                       ELSE drained
            start(t) == [t EXCEPT !.pending = FALSE, !.live = TRUE]
            loaded  == [focus EXCEPT !.tabs[i] = AddClients(start(@), leaving)]
<1>1. CASE i \notin TabIndices(s)
  BY <1>1 DEF LoadTab, Keeps, SameBar
<1>2. CASE i \in TabIndices(s)
  <2>1. who \in Clients
    BY ActorType
  <2>2. i \in Indices
    BY <1>2, ScreenFields
  <2>3. leaving \in SUBSET Clients
    BY <2>1, ScreenFields DEF HasActiveTab, Tabs
  <2>4. Keeps(s, drained)
    <3>1. Keeps(s, [s EXCEPT !.tabs[src] = RemoveClients(@, leaving)])
      BY RemoveClientsKeeps
    <3>2. Keeps(s, s)
      BY DEF Keeps, SameBar
    <3>. QED  BY <3>1, <3>2
  <2>5. LoadTab(s, i, c) = IF who \in Attached(loaded) THEN loaded
                           ELSE AttachClient(loaded, who)
    BY <1>2, Zenon DEF LoadTab
  <2>. HIDE DEF drained, leaving
  <2>6. Keeps(s, focus)
    <3>1. ScreenOK(drained)
      BY <2>4 DEF Keeps
    <3>2. Keeps(s, UpdateClientTabFocus(drained, s.connected, i))
      BY <2>2, <2>4, <3>1, ScreenFields, UpdateClientTabFocusKeeps, KeepsTransitive
    <3>3. Keeps(s, UpdateClientTabFocus(drained, {who}, i))
      BY <2>1, <2>2, <2>4, <3>1, UpdateClientTabFocusKeeps, KeepsTransitive
    <3>. QED  BY <2>4, <3>2, <3>3
  <2>. HIDE DEF focus
  <2>7. ScreenOK(focus) /\ i \in TabIndices(focus)
    BY <1>2, <2>6 DEF Keeps, SameBar
  <2>8. Keeps(s, loaded)
    <3>1. focus.tabs[i] \in Tabs
      BY <2>7, ScreenFields
    <3>2. start(focus.tabs[i]) \in Tabs /\ start(focus.tabs[i]).position = focus.tabs[i].position
      BY <3>1 DEF Tabs
    <3>. DEFINE u == AddClients(start(focus.tabs[i]), leaving)
    <3>. HIDE DEF start
    <3>3. u \in Tabs /\ u.position = focus.tabs[i].position
      BY <2>3, <3>2, AddClientsType
    <3>. HIDE DEF u
    <3>4. Keeps(focus, [focus EXCEPT !.tabs[i] = u])
      BY <2>7, <3>3, OneTabReplaced
    <3>5. loaded = [focus EXCEPT !.tabs[i] = u]
      BY DEF u
    <3>. QED  BY <2>6, <3>4, <3>5, KeepsTransitive
  <2>. HIDE DEF loaded
  <2>9. Keeps(s, AttachClient(loaded, who))
    BY <2>1, <2>8, AttachClientKeeps, KeepsTransitive DEF Keeps
  <2>. QED  BY <2>5, <2>8, <2>9
<1>. QED  BY <1>1, <1>2

(* As for Without: the recursive function of DrainSwitches exists, and the  *)
(* first of its values that would not keep the tab bar cannot be.           *)
AfterOf(s, order, f, n) ==
    f = [k \in 0 .. n |->
           IF k = 0 THEN s ELSE GoToTab(f[k - 1], order[k][1], order[k][2])]

LEMMA AfterExists ==
    ASSUME NEW s, NEW order
    PROVE  \A n \in Nat : \E f : AfterOf(s, order, f, n)
<1>. DEFINE bad == {n \in Nat : ~ \E f : AfterOf(s, order, f, n)}
<1>1. SUFFICES ASSUME bad # {}
               PROVE  FALSE
  OBVIOUS
<1>2. LeastOf(bad) \in bad /\ \A n \in bad : LeastOf(bad) <= n
  BY <1>1, LeastExists
<1>. DEFINE n == LeastOf(bad)
<1>. HIDE DEF n
<1>3. n \in Nat /\ ~ \E f : AfterOf(s, order, f, n)
  BY <1>2 DEF n
<1>4. CASE n = 0
  <2>1. AfterOf(s, order, [k \in 0 .. 0 |-> s], 0)
    BY DEF AfterOf
  <2>. QED  BY <1>3, <1>4, <2>1
<1>5. CASE n # 0
  <2>1. n - 1 \in Nat /\ ~ (n <= n - 1)
    BY <1>3, <1>5
  <2>2. n - 1 \notin bad
    BY <1>2, <2>1 DEF n
  <2>3. PICK f : AfterOf(s, order, f, n - 1)
    BY <2>1, <2>2
  <2>. DEFINE last == GoToTab(f[n - 1], order[n][1], order[n][2])
              g == [k \in 0 .. n |-> IF k = n THEN last ELSE f[k]]
  <2>4. \A k \in 0 .. n - 1 :
          f[k] = IF k = 0 THEN s ELSE GoToTab(f[k - 1], order[k][1], order[k][2])
    BY <2>3 DEF AfterOf
  <2>5. \A k \in 0 .. n :
          g[k] = IF k = 0 THEN s ELSE GoToTab(g[k - 1], order[k][1], order[k][2])
    BY <1>3, <1>5, <2>4
  <2>6. AfterOf(s, order, g, n)
    BY <2>5 DEF AfterOf
  <2>. QED  BY <1>3, <2>6
<1>. QED  BY <1>4, <1>5

LEMMA DrainSwitchesKeeps ==
    ASSUME NEW s, ScreenOK(s), NEW n \in Nat,
           NEW order, \A k \in 1 .. n : order[k][2] \in Clients
    PROVE  Keeps(s, DrainSwitches(s, n, order))
<1>. DEFINE f == CHOOSE f : AfterOf(s, order, f, n)
<1>1. AfterOf(s, order, f, n)
  BY AfterExists
<1>2. DrainSwitches(s, n, order) = f[n]
  BY Zenon DEF DrainSwitches, AfterOf
<1>. HIDE DEF f
<1>. DEFINE bad == {k \in 0 .. n : ~Keeps(s, f[k])}
<1>3. CASE bad = {}
  BY <1>2, <1>3
<1>4. CASE bad # {}
  <2>. DEFINE k == LeastOf(bad)
  <2>1. bad \in SUBSET Nat
    OBVIOUS
  <2>2. k \in bad /\ \A m \in bad : k <= m
    BY <1>4, <2>1, LeastExists
  <2>. HIDE DEF k
  <2>3. k \in 0 .. n /\ ~Keeps(s, f[k])
    BY <2>2
  <2>4. f[k] = IF k = 0 THEN s ELSE GoToTab(f[k - 1], order[k][1], order[k][2])
    BY <1>1, <2>3 DEF AfterOf
  <2>5. Keeps(s, s)
    BY DEF Keeps, SameBar
  <2>6. k # 0
    BY <2>3, <2>4, <2>5
  <2>7. k \in 1 .. n /\ k - 1 \in 0 .. n /\ ~ (k <= k - 1)
    BY <2>3, <2>6
  <2>8. Keeps(s, f[k - 1])
    BY <2>2, <2>7
  <2>9. Keeps(s, GoToTab(f[k - 1], order[k][1], order[k][2]))
    BY <2>7, <2>8, GoToTabKeeps, KeepsTransitive DEF Keeps
  <2>. QED  BY <2>3, <2>4, <2>6, <2>9
<1>. QED  BY <1>3, <1>4

LEMMA MoveClientsFromClosedTabKeeps ==
    ASSUME NEW s, ScreenOK(s), TabIndices(s) # {}, NEW C \in SUBSET Clients
    PROVE  Keeps(s, MoveClientsFromClosedTab(s, C))
<1>. DEFINE prev(c) == History(s, c)
            home(c) == IF prev(c) # <<>> /\ prev(c)[Len(prev(c))] \in TabIndices(s)
                       THEN prev(c)[Len(prev(c))]
                       ELSE LeastOf(TabIndices(s))
            short(c) == IF prev(c) = <<>> THEN <<>> ELSE SubSeq(prev(c), 1, Len(prev(c)) - 1)
            f == [c \in DOMAIN s.active \cup C |-> IF c \in C THEN home(c) ELSE s.active[c]]
            h == [c \in DOMAIN s.history \cup C |->
                    IF c \notin C THEN s.history[c] ELSE short(c)]
            moved(i) == LET here == {c \in C : home(c) = i}
                        IN  IF here = {} THEN s.tabs[i] ELSE AddClients(s.tabs[i], here)
            g == [i \in DOMAIN s.tabs |-> moved(i)]
<1>1. \A c : home(c) \in Indices
  BY LeastTab, ScreenFields
<1>2. \A c : short(c) \in Seq(Indices)
  <2>. SUFFICES ASSUME NEW c PROVE short(c) \in Seq(Indices)
    OBVIOUS
  <2>1. prev(c) \in Seq(Indices)
    BY HistoryType
  <2>. HIDE DEF prev
  <2>2. prev(c) # <<>> => SubSeq(prev(c), 1, Len(prev(c)) - 1) \in Seq(Indices)
    BY <2>1
  <2>. QED  BY <2>2
<1>3. \A i \in TabIndices(s) : moved(i) \in Tabs /\ moved(i).position = s.tabs[i].position
  <2>. SUFFICES ASSUME NEW i \in TabIndices(s)
                PROVE  moved(i) \in Tabs /\ moved(i).position = s.tabs[i].position
    OBVIOUS
  <2>. DEFINE here == {c \in C : home(c) = i}
  <2>1. s.tabs[i] \in Tabs /\ here \in SUBSET Clients
    BY ScreenFields
  <2>2. moved(i) = IF here = {} THEN s.tabs[i] ELSE AddClients(s.tabs[i], here)
    OBVIOUS
  <2>. HIDE DEF here, moved
  <2>. QED  BY <2>1, <2>2, AddClientsType
<1>4. MoveClientsFromClosedTab(s, C) = [s EXCEPT !.active = f, !.history = h, !.tabs = g]
  BY DEF MoveClientsFromClosedTab
<1>. HIDE DEF home, short, moved
<1>5. g \in Partial(Indices, Tabs) /\ g \in [TabIndices(s) -> Tabs]
  BY <1>3, ScreenFields, PartialMember DEF TabIndices
<1>6. f \in Partial(Clients, Indices)
  <2>1. DOMAIN f \subseteq Clients /\ f \in [DOMAIN f -> Indices]
    BY <1>1, ScreenFields DEF Attached
  <2>. QED  BY <2>1, PartialMember
<1>7. h \in Partial(Clients, Seq(Indices))
  <2>1. DOMAIN h \subseteq Clients /\ h \in [DOMAIN h -> Seq(Indices)]
    BY <1>2, ScreenFields
  <2>. QED  BY <2>1, PartialMember
<1>8. \A i \in TabIndices(s) : g[i].position = s.tabs[i].position
  BY <1>3 DEF TabIndices
<1>. HIDE DEF f, g, h
<1>. QED  BY <1>4, <1>5, <1>6, <1>7, <1>8, ScreenIsOK DEF Keeps, SameBar, Screens, TabIndices

----------------------------------------------------------------------------
(* The methods that change the tab bar. *)

LEMMA AddTabIsGood ==
    ASSUME NEW s, Good(s), NEW c \in Clients, NEW i \in Indices, i \notin TabIndices(s)
    PROVE  /\ Good(AddTab(s, i, c))
           /\ TabIndices(AddTab(s, i, c)) = TabIndices(s) \cup {i}
<1>. DEFINE n   == Cardinality(TabIndices(s))
            who == IF Actor(s, c) = NoClient THEN c ELSE Actor(s, c)
            tab == [position |-> n, pending |-> TRUE, live |-> FALSE, clients |-> {who}]
            g   == [j \in TabIndices(s) \cup {i} |-> IF j = i THEN tab ELSE s.tabs[j]]
            t   == [s EXCEPT !.tabs = g]
<1>0. ScreenOK(s)
  BY DEF Good
<1>1. IsFiniteSet(TabIndices(s)) /\ n \in Nat
  BY <1>0, TabsAreFinite
<1>2. tab \in Tabs
  BY <1>0, <1>1, ActorType DEF Tabs
<1>3. Cardinality(TabIndices(s) \cup {i}) = n + 1
  BY <1>1, FS_AddElement
<1>4. AddTab(s, i, c) = t
  BY DEF AddTab, TabIndices
<1>5. \A j \in TabIndices(s) : s.tabs[j] \in Tabs /\ s.tabs[j].position \in 0 .. n - 1
  BY <1>0, ScreenFields DEF Good, Contiguous
<1>. HIDE DEF n
<1>6. /\ DOMAIN g = TabIndices(s) \cup {i}
      /\ g \in [DOMAIN g -> Tabs]
      /\ g[i].position = n
      /\ \A j \in TabIndices(s) : g[j].position = s.tabs[j].position
  BY <1>2, <1>5
<1>. HIDE DEF tab, g
<1>7. ScreenOK(t) /\ t.tabs = g
  BY <1>0, <1>6, ScreenFields, TabsReplaced
<1>. HIDE DEF t
<1>8. TabIndices(t) = TabIndices(s) \cup {i}
  BY <1>6, <1>7 DEF TabIndices
<1>9. Contiguous(t)
  <2>1. {g[j].position : j \in TabIndices(s) \cup {i}} = (0 .. n - 1) \cup {n}
    <3>1. {g[j].position : j \in TabIndices(s) \cup {i}}
            = {s.tabs[j].position : j \in TabIndices(s)} \cup {n}
      BY <1>6
    <3>2. {s.tabs[j].position : j \in TabIndices(s)} = 0 .. n - 1
      BY DEF Good, Contiguous, n
    <3>. QED  BY <3>1, <3>2
  <2>2. (0 .. n - 1) \cup {n} = 0 .. (n + 1) - 1
    BY <1>1
  <2>. QED  BY <1>3, <1>7, <1>8, <2>1, <2>2 DEF Contiguous
<1>10. Distinct(t)
  <2>1. \A j, k \in TabIndices(s) : s.tabs[j].position = s.tabs[k].position => j = k
    BY DEF Good, Distinct
  <2>2. \A j \in TabIndices(s) : g[j].position # n
    BY <1>1, <1>5, <1>6
  <2>. QED  BY <1>6, <1>7, <1>8, <2>1, <2>2 DEF Distinct
<1>. QED  BY <1>4, <1>7, <1>8, <1>9, <1>10 DEF Good

LEMMA CloseOneTabIsGood ==
    ASSUME NEW s, Good(s), NEW i
    PROVE  Good(CloseOneTab(s, i))
<1>. DEFINE gone == s.tabs[i]
            left == [j \in TabIndices(s) \ {i} |-> s.tabs[j]]
            rest == [s EXCEPT !.tabs = left]
            move == MoveClientsFromClosedTab(rest, gone.clients)
            g    == [j \in DOMAIN move.tabs |-> MoveDown(move.tabs[j], gone.position)]
            t    == [move EXCEPT !.tabs = g]
            n    == Cardinality(TabIndices(s))
<1>0. ScreenOK(s) /\ IsFiniteSet(TabIndices(s)) /\ n \in Nat
  BY TabsAreFinite DEF Good
<1>1. CASE i \notin TabIndices(s)
  BY <1>0, <1>1, FailKeeps, SameBarIsGood DEF CloseOneTab
<1>. SUFFICES ASSUME i \in TabIndices(s)
              PROVE  Good(CloseOneTab(s, i))
  BY <1>1
<1>2. DOMAIN left = TabIndices(s) \ {i} /\ left \in [DOMAIN left -> Tabs]
  BY <1>0, ScreenFields
<1>. HIDE DEF left
<1>3. ScreenOK(rest) /\ rest.tabs = left
  BY <1>0, <1>2, ScreenFields, TabsReplaced
<1>4. TabIndices(rest) = TabIndices(s) \ {i}
  BY <1>2, <1>3 DEF TabIndices
<1>5. Cardinality(TabIndices(s) \ {i}) = n - 1
  BY <1>0, FS_RemoveElement
<1>6. CASE TabIndices(rest) = {}
  <2>. DEFINE u == [rest EXCEPT !.active = <<>>, !.ended = TRUE]
  <2>1. CloseOneTab(s, i) = u
    BY <1>6, Zenon DEF CloseOneTab, left, TabIndices
  <2>2. <<>> \in Partial(Clients, Indices)
    <3>1. DOMAIN (<<>>) \subseteq Clients /\ <<>> \in [DOMAIN (<<>>) -> Indices]
      OBVIOUS
    <3>. QED  BY <3>1, PartialMember
  <2>. HIDE DEF rest
  <2>3. ScreenOK(u) /\ u.tabs = rest.tabs
    BY <1>3, <2>2, ScreenIsOK DEF Screens
  <2>. HIDE DEF u
  <2>4. TabIndices(u) = {}
    BY <1>6, <2>3 DEF TabIndices
  <2>5. Contiguous(u) /\ Distinct(u)
    BY <2>4, FS_EmptySet DEF Contiguous, Distinct
  <2>. QED  BY <2>1, <2>3, <2>5 DEF Good
<1>7. CASE TabIndices(rest) # {}
  <2>0. CloseOneTab(s, i) = t
    BY <1>7, Zenon DEF CloseOneTab, left, TabIndices
  <2>1. gone.clients \in SUBSET Clients /\ gone.position \in Nat
    BY <1>0, ScreenFields DEF Tabs
  <2>. HIDE DEF rest
  <2>2. Keeps(rest, move)
    BY <1>3, <1>7, <2>1, MoveClientsFromClosedTabKeeps
  <2>. HIDE DEF move
  <2>3. /\ ScreenOK(move) /\ TabIndices(move) = TabIndices(s) \ {i}
        /\ \A j \in TabIndices(s) \ {i} : move.tabs[j].position = s.tabs[j].position
    BY <1>2, <1>3, <1>4, <2>2 DEF Keeps, SameBar, left
  <2>4. \A j \in TabIndices(s) :
          s.tabs[j].position \in Nat /\ s.tabs[j].position \in 0 .. n - 1
    BY <1>0, ScreenFields DEF Good, Contiguous, Tabs
  <2>5. \A u \in Tabs :
          /\ MoveDown(u, gone.position) \in Tabs
          /\ MoveDown(u, gone.position).position =
               IF u.position > gone.position THEN u.position - 1 ELSE u.position
    BY <2>1 DEF Tabs, MoveDown
  <2>6. /\ DOMAIN g = TabIndices(s) \ {i} /\ g \in [DOMAIN g -> Tabs]
        /\ \A j \in TabIndices(s) \ {i} :
             g[j].position = IF s.tabs[j].position > gone.position
                             THEN s.tabs[j].position - 1 ELSE s.tabs[j].position
    BY <2>3, <2>5, ScreenFields DEF TabIndices
  <2>. HIDE DEF g
  <2>7. ScreenOK(t) /\ t.tabs = g
    BY <2>3, <2>6, ScreenFields, TabsReplaced
  <2>. HIDE DEF t
  <2>8. TabIndices(t) = TabIndices(s) \ {i}
    BY <2>6, <2>7 DEF TabIndices
  <2>9. \A j \in TabIndices(s) \ {i} : s.tabs[j].position # gone.position
    BY DEF Good, Distinct
  <2>10. Distinct(t)
    <3>. SUFFICES ASSUME NEW j \in TabIndices(s) \ {i}, NEW k \in TabIndices(s) \ {i},
                         g[j].position = g[k].position
                  PROVE  s.tabs[j].position = s.tabs[k].position
      BY <2>7, <2>8 DEF Good, Distinct
    <3>. QED  BY <2>1, <2>4, <2>6, <2>9
  <2>11. Contiguous(t)
    <3>1. \A j \in TabIndices(s) \ {i} : g[j].position \in 0 .. n - 2
      BY <1>0, <2>1, <2>4, <2>6, <2>9
    <3>2. ASSUME NEW p \in 0 .. n - 2
          PROVE  \E j \in TabIndices(s) \ {i} : g[j].position = p
      <4>. DEFINE q == IF p < gone.position THEN p ELSE p + 1
      <4>1. q \in 0 .. n - 1 /\ q # gone.position
        BY <1>0, <2>1, <3>2
      <4>2. PICK j \in TabIndices(s) : s.tabs[j].position = q
        BY <4>1 DEF Good, Contiguous
      <4>3. j # i
        BY <4>1, <4>2
      <4>. QED  BY <1>0, <2>1, <2>6, <3>2, <4>2, <4>3
    <3>3. {g[j].position : j \in TabIndices(s) \ {i}} = 0 .. n - 2
      BY <3>1, <3>2
    <3>4. n - 2 = (n - 1) - 1
      BY <1>0
    <3>. QED  BY <1>5, <2>7, <2>8, <3>3, <3>4 DEF Contiguous
  <2>. QED  BY <2>0, <2>7, <2>10, <2>11 DEF Good
<1>. QED  BY <1>6, <1>7

LEMMA RenderIsGood ==
    ASSUME NEW s, Good(s)
    PROVE  Good(Render(s))
BY CloseOneTabIsGood, FailKeeps, SameBarIsGood DEF Render, Good

LEMMA KeepsThenRender ==
    ASSUME NEW s, Good(s), NEW t, Keeps(s, t)
    PROVE  Good(t) /\ Good(Render(t))
BY SameBarIsGood, RenderIsGood

LEMMA FocusPaneIsGood ==
    ASSUME NEW s, Good(s), NEW c \in Clients, NEW i
    PROVE  Good(FocusPane(s, c, i))
<1>1. Good(Render(GoToTab(s, i + 1, c)))
  BY GoToTabKeeps, KeepsThenRender DEF Good
<1>2. Good(Fail(Render(GoToTab(s, i + 1, c))))
  BY <1>1, FailKeeps, SameBarIsGood DEF Good
<1>. QED  BY <1>1, <1>2 DEF FocusPane

----------------------------------------------------------------------------
(* The invariant and its preservation, one step per instruction. *)

OthersOK ==
    /\ loading \in Seq([index : Indices, client : Clients])
    /\ pending_tab_ids \subseteq Indices
    /\ pending_tab_switches \subseteq Positions \X Clients

Inv == Good(screen) /\ OthersOK

LEMMA LoadingGrows ==
    ASSUME OthersOK, NEW i \in Indices, NEW c \in Clients
    PROVE  Append(loading, [index |-> i, client |-> c])
             \in Seq([index : Indices, client : Clients])
BY DEF OthersOK

LEMMA InitInv == Init => Inv
<1>. SUFFICES ASSUME Init PROVE Inv
  OBVIOUS
<1>1. \A D, R : <<>> \in Partial(D, R)
  <2>1. \A D, R : DOMAIN (<<>>) \subseteq D /\ <<>> \in [DOMAIN (<<>>) -> R]
    OBVIOUS
  <2>. QED  BY <2>1, PartialMember
<1>2. ScreenOK(screen)
  BY <1>1, ScreenIsOK DEF Init, Screens
<1>3. TabIndices(screen) = {}
  BY DEF Init, TabIndices
<1>4. Contiguous(screen) /\ Distinct(screen)
  BY <1>3, FS_EmptySet DEF Contiguous, Distinct
<1>. QED  BY <1>2, <1>4 DEF Init, Inv, Good, OthersOK

LEMMA RequestIsGood ==
    ASSUME Inv, NEW c \in Clients, Request(c)
    PROVE  Inv'
<1>0. Good(screen) /\ ScreenOK(screen) /\ OthersOK
  BY DEF Inv, Good
<1>. DEFINE first == IF c \in Attached(screen) THEN c ELSE LeastOf(Attached(screen))
<1>00. Attached(screen) # {} => first \in Clients
  BY <1>0, ScreenFields, ClientsAreNats, LeastExists
<1>. HIDE DEF first
<1>1. CASE NewTab(c)
  <2>. DEFINE i == NewTabIndex(screen)
  <2>1. i \in Indices /\ i \notin TabIndices(screen)
    BY <1>0, <1>1, NewIndexIsFresh, BoundAssumption DEF NewTab, Indices
  <2>2. /\ screen' = AddTab(screen, i, c)
        /\ loading' = Append(loading, [index |-> i, client |-> c])
        /\ pending_tab_ids' = pending_tab_ids \cup {i}
        /\ UNCHANGED pending_tab_switches
    BY <1>1, Zenon DEF NewTab
  <2>. HIDE DEF i
  <2>3. Good(screen')
    BY <1>0, <2>1, <2>2, AddTabIsGood
  <2>4. OthersOK'
    BY <1>0, <2>1, <2>2 DEF OthersOK
  <2>. QED  BY <2>3, <2>4 DEF Inv
<1>2. CASE CreateNamedTab(c)
  <2>. DEFINE s == Render(screen)
              i == NewTabIndex(s)
  <2>1. Good(s) /\ first \in Clients
    BY <1>0, <1>00, <1>2, RenderIsGood DEF CreateNamedTab
  <2>2. \/ screen' = s /\ UNCHANGED loading
        \/ /\ i <= MaxIndex /\ screen' = AddTab(s, i, first)
           /\ loading' = Append(loading, [index |-> i, client |-> first])
    BY <1>2, Zenon DEF CreateNamedTab, first
  <2>3. i <= MaxIndex => i \in Indices /\ i \notin TabIndices(s)
    BY <2>1, NewIndexIsFresh, BoundAssumption DEF Indices, Good
  <2>4. UNCHANGED <<pending_tab_ids, pending_tab_switches>>
    BY <1>2 DEF CreateNamedTab
  <2>. HIDE DEF i, s
  <2>5. CASE screen' = s /\ UNCHANGED loading
    BY <1>0, <2>1, <2>4, <2>5 DEF Inv, OthersOK
  <2>6. CASE /\ i <= MaxIndex /\ screen' = AddTab(s, i, first)
             /\ loading' = Append(loading, [index |-> i, client |-> first])
    <3>1. Good(screen')
      BY <2>1, <2>3, <2>6, AddTabIsGood
    <3>2. OthersOK'
      BY <1>0, <2>1, <2>3, <2>4, <2>6, LoadingGrows DEF OthersOK
    <3>. QED  BY <3>1, <3>2 DEF Inv
  <2>. QED  BY <2>2, <2>5, <2>6
<1>3. ASSUME NEW i \in Indices, GoToNamedTab(c, i)
      PROVE  Inv'
  <2>1. first \in Clients
    BY <1>00, <1>3 DEF GoToNamedTab
  <2>2. screen' = Render(SwitchActiveTab(screen, screen.tabs[i].position, first))
    BY <1>3 DEF GoToNamedTab, first
  <2>3. Good(screen')
    BY <1>0, <2>1, <2>2, SwitchActiveTabKeeps, KeepsThenRender
  <2>. QED  BY <1>0, <1>3, <2>3 DEF GoToNamedTab, Unchanged, Inv, OthersOK
<1>4. CASE BreakPane(c)
  <2>. DEFINE i == NewTabIndex(screen)
  <2>1. i \in Indices /\ i \notin TabIndices(screen)
    BY <1>0, <1>4, NewIndexIsFresh, BoundAssumption DEF BreakPane, Indices
  <2>2. Good(AddTab(screen, i, c))
    BY <1>0, <2>1, AddTabIsGood
  <2>3. Good(SetLive(AddTab(screen, i, c), i, TRUE))
    BY <2>2, SetLiveKeeps, SameBarIsGood DEF Good
  <2>4. Good(Fail(screen))
    BY <1>0, FailKeeps, SameBarIsGood
  <2>5. /\ screen' = SetLive(AddTab(screen, i, c), i, TRUE) \/ screen' = Fail(screen)
        /\ \/ loading' = Append(loading, [index |-> i, client |-> c])
           \/ loading' = loading
        /\ UNCHANGED <<pending_tab_ids, pending_tab_switches>>
    BY <1>4, Zenon DEF BreakPane
  <2>6. Good(screen')
    BY <2>3, <2>4, <2>5
  <2>. HIDE DEF i
  <2>7. OthersOK'
    BY <1>0, <2>1, <2>5, LoadingGrows DEF OthersOK
  <2>. QED  BY <2>6, <2>7 DEF Inv
<1>5. ASSUME NEW step \in {-1, 1}, NEW last \in BOOLEAN, BreakPaneSideways(c, step, last)
      PROVE  Inv'
  <2>. DEFINE src   == screen.active[c]
              taken == IF last THEN SetLive(screen, src, FALSE) ELSE screen
              shown == Render(SwitchTabBy(taken, c, step))
  <2>1. Good(taken)
    BY <1>0, SetLiveKeeps, SameBarIsGood
  <2>2. Good(shown)
    BY <2>1, SwitchTabByKeeps, KeepsThenRender DEF Good
  <2>3. Good(Render(SetLive(shown, shown.active[c], TRUE)))
    BY <2>2, SetLiveKeeps, KeepsThenRender DEF Good
  <2>4. Good(Fail(screen)) /\ Good(Fail(shown)) /\ Good(Render(screen))
    <3>. HIDE DEF shown
    <3>1. \A s : Good(s) => Good(Fail(s))
      BY FailKeeps, SameBarIsGood DEF Good
    <3>. QED  BY <1>0, <2>2, <3>1, RenderIsGood
  <2>5. screen' \in {Fail(screen), Render(screen), Fail(shown),
                     Render(SetLive(shown, shown.active[c], TRUE))}
    BY <1>5, Zenon DEF BreakPaneSideways
  <2>. HIDE DEF shown
  <2>. QED  BY <1>0, <1>5, <2>3, <2>4, <2>5 DEF BreakPaneSideways, Unchanged, Inv, OthersOK
<1>6. ASSUME NEW step \in {-1, 1}, SwitchTab(c, step) \/ MoveFocusOverEdge(c, step)
      PROVE  Inv'
  <2>1. Good(SwitchTabBy(screen, c, step)) /\ Good(Render(SwitchTabBy(screen, c, step)))
    BY <1>0, SwitchTabByKeeps, KeepsThenRender
  <2>. QED  BY <1>0, <1>6, <2>1 DEF SwitchTab, MoveFocusOverEdge, Unchanged, Inv, OthersOK
<1>7. ASSUME NEW t \in Positions, GoToTabRequest(c, t)
      PROVE  Inv'
  <2>1. CASE Attached(screen) # {} /\ pending_tab_ids = {}
    <3>1. Good(Render(GoToTab(screen, t, first)))
      BY <1>0, <1>00, <2>1, GoToTabKeeps, KeepsThenRender
    <3>. QED  BY <1>0, <1>7, <2>1, <3>1 DEF GoToTabRequest, first, Inv, OthersOK
  <2>2. CASE ~(Attached(screen) # {} /\ pending_tab_ids = {})
    BY <1>0, <1>7, <2>2 DEF GoToTabRequest, Inv, OthersOK
  <2>. QED  BY <2>1, <2>2
<1>8. CASE ToggleTab(c)
  <2>1. c \in DOMAIN screen.history => Good(Render(PopHistory(screen, c)))
    BY <1>0, PopHistoryKeeps, KeepsThenRender
  <2>2. Good(Fail(screen))
    BY <1>0, FailKeeps, SameBarIsGood
  <2>. QED  BY <1>0, <1>8, <2>1, <2>2 DEF ToggleTab, Unchanged, Inv, OthersOK
<1>9. CASE CloseTab(c)
  <2>1. \A i : Good(CloseTabAtIndex(screen, i))
    BY <1>0, CloseOneTabIsGood, RenderIsGood DEF CloseTabAtIndex
  <2>2. Good(Render(screen))
    BY <1>0, RenderIsGood
  <2>. QED  BY <1>0, <1>9, <2>1, <2>2 DEF CloseTab, Unchanged, Inv, OthersOK
<1>10. ASSUME NEW i \in Indices, FocusPaneWithId(c, i)
       PROVE  Inv'
  <2>1. Good(FocusPane(screen, c, i))
    BY <1>0, FocusPaneIsGood
  <2>. QED  BY <1>0, <1>10, <2>1 DEF FocusPaneWithId, Unchanged, Inv, OthersOK
<1>11. CASE NewPane(c) \/ CloseFocusedPane(c)
  <2>1. \A i : \A v \in BOOLEAN : Good(Render(SetLive(screen, i, v)))
    BY <1>0, SetLiveKeeps, KeepsThenRender
  <2>2. Good(Render(screen))
    BY <1>0, RenderIsGood
  <2>. QED  BY <1>0, <1>11, <2>1, <2>2
            DEF NewPane, CloseFocusedPane, Unchanged, Inv, OthersOK
<1>. QED  BY <1>1, <1>2, <1>3, <1>4, <1>5, <1>6, <1>7, <1>8, <1>9, <1>10, <1>11 DEF Request

LEMMA ApplyLayoutIsGood ==
    ASSUME Inv, ApplyLayout
    PROVE  Inv'
<1>. DEFINE new  == Head(loading)
            s    == Render(LoadTab(screen, new.index, new.client))
            left == pending_tab_ids \ {new.index}
            n    == Cardinality(pending_tab_switches)
<1>0. Good(screen) /\ ScreenOK(screen) /\ OthersOK
  BY DEF Inv, Good
<1>1. new.client \in Clients /\ Tail(loading) \in Seq([index : Indices, client : Clients])
  <2>. DEFINE R == [index : Indices, client : Clients]
  <2>1. loading \in Seq(R) /\ loading # <<>>
    BY <1>0 DEF ApplyLayout, OthersOK
  <2>2. \A r \in R : r.client \in Clients
    OBVIOUS
  <2>. HIDE DEF R
  <2>3. Head(loading) \in R /\ Tail(loading) \in Seq(R)
    BY <2>1
  <2>. QED  BY <2>2, <2>3 DEF R
<1>. HIDE DEF new
<1>2. Good(s)
  BY <1>0, <1>1, LoadTabKeeps, KeepsThenRender
<1>3. /\ loading' = Tail(loading) /\ pending_tab_ids' = left
      /\ IF s.failed \/ left # {} \/ n = 0
         THEN screen' = s /\ UNCHANGED pending_tab_switches
         ELSE /\ pending_tab_switches' = {}
              /\ \E order \in [1 .. n -> pending_tab_switches] :
                   screen' = Render(DrainSwitches(s, n, order))
  BY Zenon DEF ApplyLayout, new
<1>. HIDE DEF s
<1>4. n \in Nat
  <2>1. IsFiniteSet(Positions \X Clients)
    <3>1. IsFiniteSet(Positions) /\ IsFiniteSet(Clients)
      BY FS_Interval, BoundAssumption, ClientsAssumption DEF Positions
    <3>. QED  BY <3>1, FS_Product
  <2>2. IsFiniteSet(pending_tab_switches)
    BY <1>0, <2>1, FS_Subset DEF OthersOK
  <2>. QED  BY <2>2, FS_CardinalityType
<1>. HIDE DEF n
<1>5. Good(screen')
  <2>1. ASSUME NEW order \in [1 .. n -> pending_tab_switches]
        PROVE  Good(Render(DrainSwitches(s, n, order)))
    <3>1. \A k \in 1 .. n : order[k][2] \in Clients
      BY <1>0 DEF OthersOK
    <3>. QED  BY <1>2, <1>4, <3>1, DrainSwitchesKeeps, KeepsThenRender DEF Good
  <2>. QED  BY <1>2, <1>3, <2>1
<1>6. OthersOK'
  BY <1>0, <1>1, <1>3 DEF OthersOK
<1>. QED  BY <1>5, <1>6 DEF Inv

LEMMA AddClientIsGood ==
    ASSUME Inv, NEW c \in Clients, NEW how \in {"plain", "pane", "tab"},
           NEW i \in Positions, AddClient(c, how, i)
    PROVE  Inv'
<1>. DEFINE s == AttachClient(screen, c)
<1>0. Good(screen) /\ ScreenOK(screen) /\ OthersOK
  BY DEF Inv, Good
<1>1. Good(s)
  BY <1>0, AttachClientKeeps, SameBarIsGood
<1>2. screen' \in {s, Render(s), Render(FocusPane(s, c, i)), Render(GoToTab(s, i, c))}
  BY Zenon DEF AddClient
<1>. HIDE DEF s
<1>3. Good(Render(s)) /\ Good(Render(FocusPane(s, c, i))) /\ Good(Render(GoToTab(s, i, c)))
  BY <1>1, RenderIsGood, FocusPaneIsGood, GoToTabKeeps, KeepsThenRender DEF Good
<1>. QED  BY <1>0, <1>1, <1>2, <1>3 DEF AddClient, Unchanged, Inv, OthersOK

LEMMA NextInv == Inv /\ [Next]_vars => Inv'
<1>. SUFFICES ASSUME Inv, [Next]_vars PROVE Inv'
  OBVIOUS
<1>0. Good(screen) /\ ScreenOK(screen) /\ OthersOK
  BY DEF Inv, Good
<1>1. ASSUME NEW c \in Clients, RemoveClient(c)
      PROVE  Inv'
  <2>1. Good(Render(DetachClient(screen, c)))
    BY <1>0, DetachClientKeeps, KeepsThenRender
  <2>. QED  BY <1>0, <1>1, <2>1 DEF RemoveClient, Unchanged, Inv, OthersOK
<1>2. ASSUME NEW i \in Indices, ShellExits(i)
      PROVE  Inv'
  <2>1. Good(SetLive(screen, i, FALSE))
    BY <1>0, SetLiveKeeps, SameBarIsGood
  <2>. QED  BY <1>0, <1>2, <2>1 DEF ShellExits, Unchanged, Inv, OthersOK
<1>3. CASE RenderRequest
  BY <1>0, <1>3, RenderIsGood DEF RenderRequest, Unchanged, Inv, OthersOK
<1>4. CASE UNCHANGED vars
  BY <1>0, <1>4 DEF vars, Inv, OthersOK
<1>. QED  BY <1>1, <1>2, <1>3, <1>4, RequestIsGood, AddClientIsGood, ApplyLayoutIsGood
          DEF Next

(* The inductive invariant holds in every reachable state.                  *)
THEOREM TabsInvariant == Spec => []Inv
<1>1. Init => Inv
  BY InitInv
<1>2. Inv /\ [Next]_vars => Inv'
  BY NextInv
<1>. QED  BY <1>1, <1>2, PTL DEF Spec

(* The screen, the NewTab requests under way and the switches that wait     *)
(* are well formed: in particular screen.rs never closes a tab into a       *)
(* negative position or files a client under an index no tab has had.       *)
THEOREM TypeCorrect == Spec => []TypeOK
<1>1. Inv => TypeOK
  BY DEF Inv, Good, OthersOK, TypeOK
<1>. QED  BY <1>1, TabsInvariant, PTL

(* The tabs of a session occupy the positions 0 .. n - 1 at all times, for   *)
(* any clients, any number of tabs and any order of requests.               *)
THEOREM ContiguityHolds == Spec => []PositionsContiguous
<1>1. Inv => PositionsContiguous
  BY DEF Inv, Good, PositionsContiguous
<1>. QED  BY <1>1, TabsInvariant, PTL

=============================================================================

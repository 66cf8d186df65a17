--------------------------- MODULE ServerLoopProofs ---------------------------
(***************************************************************************)
(* What holds of clients that come and go, for any number of connections,  *)
(* sizes and sessions.                                                     *)
(*                                                                         *)
(* Type correctness of ServerLoop needs that FreshId finds an id: the ids  *)
(* in use belong to different connections, none of them new (IdsAreKept),  *)
(* so there are fewer of them than connections.                            *)
(*                                                                         *)
(* That routers own their ids (Calm) needs that whatever is on its way to  *)
(* the loop and removes a client was sent by that client's own router, as  *)
(* its last message, and that the removal under way is of the client that  *)
(* asked: then no id changes hands while it is still named somewhere.      *)
(*                                                                         *)
(* That the loop survives (Steady) needs an order in its queue: what needs *)
(* a session stands behind the instruction that starts it (Prepared), as   *)
(* nobody but init_zellij_client talks to a server without a session.      *)
(*                                                                         *)
(* That the screen knows its clients (Known) is about what it will know    *)
(* (After): a client comes once, before it leaves and under an id that is  *)
(* still its own (ComesOnce), so that the screen is told in that order;    *)
(* and until the first tab is loaded nobody but the client that starts the *)
(* session is there, whom ApplyLayout adds (SessionStarts, TabStarts).     *)
(***************************************************************************)
EXTENDS ServerLoop, TLAPS, FiniteSetTheorems, WellFoundedInduction, SequenceTheorems

----------------------------------------------------------------------------
(* What is under way. *)

Partial(D, R) == UNION {[E -> R] : E \in SUBSET D}

Entries   == [conn : Conns, size : Sizes \cup {NoSize}]
Registers == Partial(Ids, Entries)

AboutKinds == {"Mode", "ConnStatus", "ClientExit", "RemoveClient", "SwitchSession"}
SizedKinds == {"NewClient", "AttachClient"}
BareKinds  == {"Error", "UnblockInputThread", "RenderNone"}

AboutMsgs  == [kind : AboutKinds, id : Ids, conn : Conns]
SizedMsgs  == [kind : SizedKinds, id : Ids, conn : Conns, size : Sizes]
DetachMsgs == [kind : {"DetachSession"}, ids : Seq(Ids), conn : Conns \cup {NoConn}]
KillMsgs   == [kind : {"KillSession"}, conn : Conns]
RenderMsgs == [kind : {"Render"}, frames : SUBSET Ids, conn : {NoConn}]
BareMsgs   == [kind : BareKinds, conn : {NoConn}]

(* The instructions for the main loop, i being the ids of the connections:  *)
(* a client comes and attaches under the id it was given.                   *)
ServerMsgs(i) ==
    AboutMsgs \cup {m \in SizedMsgs : m.id = i[m.conn]} \cup DetachMsgs
      \cup KillMsgs \cup RenderMsgs \cup BareMsgs

ScreenMsgs ==
    [kind : {"TerminalResize"}, size : Sizes \cup {NoSize}]
      \cup [kind : {"NewTab", "AddClient"}, id : Ids, conn : Conns]
      \cup [kind : {"RemoveClient"}, id : Ids]
      \cup [kind : {"Command"}]

Screens ==
    [clients : Partial(Ids, Conns), size : Sizes \cup {NoSize},
     tabs : {"none", "loading", "loaded", "closed"},
     loading : Seq([id : Ids, conn : Conns]), up : BOOLEAN]

Removals ==
    [ids : Seq(Ids), half : BOOLEAN, announce : BOOLEAN,
     asker : Conns \cup {NoConn}, next : {"running", "killed", "error"}]

Phases == {"away", "connected", "asked", "attached", "left"}
Hearing == [first : {"nothing", "mode", "connected", "other", "bye"}, bye : BOOLEAN]

(* TypeOK with what is under way, and without what only changes with it.    *)
ThreadsTyped ==
    /\ setting \in Settings
    /\ client \in [Conns -> Phases]
    /\ heard \in [Conns -> Hearing]
    /\ id \in [Conns -> Ids \cup {0}]
    /\ router \in [Conns -> {"none", "on", "done"}]
    /\ arriving \in Conns \cup {NoConn}
    /\ measured \in [Conns -> Sizes \cup {NoSize}]
    /\ loop \in {"running", "killed", "error", "panicked", "hung"}
    /\ inputs \in Nat

ServerTyped ==
    /\ clients \in Registers
    /\ senders \in Partial(Ids, Conns)
    /\ session \in BOOLEAN
    /\ toServer \in Seq(ServerMsgs(id))
    /\ toScreen \in Seq(ScreenMsgs)
    /\ screen \in Screens
    /\ main \in Removals
    /\ main.half => main.ids # <<>>

(* An id is given to one connection, which keeps it.                        *)
IdsAreKept ==
    /\ \A c \in Conns : client[c] = "away" => id[c] = 0 /\ router[c] = "none"
    /\ \A c \in Conns : router[c] # "none" => id[c] # 0
    /\ \A c \in Conns : measured[c] # NoSize => router[c] = "on"
    /\ arriving # NoConn => id[arriving] # 0 /\ router[arriving] = "none"
    /\ \A k \in DOMAIN clients : id[clients[k].conn] = k

Typed == ThreadsTyped /\ ServerTyped /\ IdsAreKept

----------------------------------------------------------------------------
(* Functions that are partial, and the ids that are free                    *)

LEMMA PartialMember ==
    ASSUME NEW D, NEW R, NEW f
    PROVE  f \in Partial(D, R) <=> DOMAIN f \subseteq D /\ f \in [DOMAIN f -> R]
BY DEF Partial

LEMMA EmptyIsPartial == \A D, R : <<>> \in Partial(D, R)
<1>1. \A D, R : DOMAIN (<<>>) \subseteq D /\ <<>> \in [DOMAIN (<<>>) -> R]
  OBVIOUS
<1>. QED  BY <1>1, PartialMember

LEMMA PutIsPartial ==
    ASSUME NEW D, NEW R, NEW f \in Partial(D, R), NEW k \in D, NEW v \in R
    PROVE  /\ Put(f, k, v) \in Partial(D, R)
           /\ DOMAIN Put(f, k, v) = DOMAIN f \cup {k}
           /\ Put(f, k, v)[k] = v
           /\ \A j \in DOMAIN f \ {k} : Put(f, k, v)[j] = f[j]
BY PartialMember DEF Put

LEMMA DropIsPartial ==
    ASSUME NEW D, NEW R, NEW f \in Partial(D, R), NEW k
    PROVE  /\ Drop(f, k) \in Partial(D, R)
           /\ DOMAIN Drop(f, k) = DOMAIN f \ {k}
           /\ \A j \in DOMAIN f \ {k} : Drop(f, k)[j] = f[j]
BY PartialMember DEF Drop

LEMMA Counting ==
    /\ Cardinality(Conns) \in Nat
    /\ IsFiniteSet(Ids) /\ Cardinality(Ids) = Cardinality(Conns)
    /\ \A S \in SUBSET Ids : IsFiniteSet(S) /\ Cardinality(S) \in Nat
<1>1. Cardinality(Conns) \in Nat
  BY ConnsAssumption, FS_CardinalityType
<1>2. IsFiniteSet(Ids) /\ Cardinality(Ids) = Cardinality(Conns)
  BY <1>1, FS_Interval DEF Ids
<1>3. \A S \in SUBSET Ids : IsFiniteSet(S) /\ Cardinality(S) \in Nat
  BY <1>2, FS_Subset, FS_CardinalityType
<1>. QED  BY <1>1, <1>2, <1>3

LEMMA OneIsAnId == Conns # {} => 1 \in Ids
<1>1. SUFFICES ASSUME Conns # {} PROVE Cardinality(Conns) # 0
  BY Counting DEF Ids
<1>. QED  BY <1>1, ConnsAssumption, FS_EmptySet

LEMMA LeastExists ==
    ASSUME NEW S \in SUBSET Nat, S # {}
    PROVE  \E m \in S : \A y \in S : m <= y
<1>1. PICK m \in S : \A y \in S : ~ (<<y, m>> \in OpToRel(<, Nat))
  BY WFMin, NatLessThanWellFounded, Zenon
<1>2. \A y \in S : ~ (y < m)
  BY <1>1, Zenon DEF OpToRel
<1>. QED  BY <1>2, SMT

(* session_state.new_client finds an id: there is one as long as not all    *)
(* connections have theirs.                                                 *)
LEMMA FreshIdIsFree ==
    ASSUME NEW cs, DOMAIN cs \subseteq Ids
    PROVE  /\ FreshId(cs) \in 1 .. Cardinality(DOMAIN cs) + 1
           /\ FreshId(cs) \notin DOMAIN cs
<1>. DEFINE n    == Cardinality(DOMAIN cs)
            Free == {k \in 1 .. n + 1 : k \notin DOMAIN cs}
<1>1. n \in Nat /\ IsFiniteSet(DOMAIN cs)
  BY Counting
<1>2. Free # {}
  <2>1. SUFFICES ASSUME 1 .. n + 1 \subseteq DOMAIN cs PROVE FALSE
    OBVIOUS
  <2>2. Cardinality(1 .. n + 1) <= n
    BY <2>1, <1>1, FS_Subset
  <2>3. Cardinality(1 .. n + 1) = n + 1
    BY <1>1, FS_Interval
  <2>. QED  BY <1>1, <2>2, <2>3
<1>3. Free \subseteq Nat
  BY <1>1
<1>4. PICK m \in Free : \A k \in Free : m <= k
  BY <1>2, <1>3, LeastExists
<1>5. \A j \in 1 .. m - 1 : j \in DOMAIN cs
  BY <1>1, <1>3, <1>4
<1>6. \E k \in 1 .. n + 1 : k \notin DOMAIN cs /\ \A j \in 1 .. k - 1 : j \in DOMAIN cs
  BY <1>4, <1>5
<1>. QED  BY <1>6 DEF FreshId

LEMMA MinSizeTyped ==
    ASSUME NEW cs \in Registers
    PROVE  /\ MinSize(cs) \in Sizes \cup {NoSize}
           /\ (\E k \in DOMAIN cs : cs[k].size # NoSize) => MinSize(cs) # NoSize
<1>. DEFINE sizes == {cs[k].size : k \in DOMAIN cs} \ {NoSize}
<1>1. sizes \subseteq Sizes
  <2>1. cs \in [DOMAIN cs -> Entries]
    BY PartialMember DEF Registers
  <2>. QED  BY <2>1 DEF Entries
<1>2. CASE sizes = {}
  BY <1>2 DEF MinSize
<1>3. CASE sizes # {}
  <2>1. PICK m \in sizes : \A y \in sizes : m <= y
    BY <1>1, <1>3, LeastExists, SizesAssumption
  <2>2. MinSize(cs) = CHOOSE s \in sizes : \A t \in sizes : s <= t
    BY <1>3 DEF MinSize
  <2>3. MinSize(cs) \in sizes
    BY <2>1, <2>2
  <2>. QED  BY <2>3, <1>1, SizesAssumption
<1>. QED  BY <1>2, <1>3

LEMMA OrdersAreSequences ==
    ASSUME NEW S \in SUBSET Ids, NEW o \in Orders(S)
    PROVE  o \in Seq(Ids)
<1>1. Cardinality(S) \in Nat
  BY Counting
<1>2. o \in [1 .. Cardinality(S) -> S]
  BY DEF Orders
<1>3. o \in Seq(S)
  BY <1>1, <1>2, SeqDef
<1>. QED  BY <1>3, SeqMonotonic

LEMMA TellTyped ==
    ASSUME NEW h \in [Conns -> Hearing], NEW K,
           NEW what \in {"mode", "connected", "other", "bye"}
    PROVE  Tell(h, K, what) \in [Conns -> Hearing]
BY DEF Tell, Hearing

----------------------------------------------------------------------------
(* The router threads *)

LEMMA MessagesTyped ==
    ASSUME Typed, NEW c \in Conns, router[c] # "none"
    PROVE  /\ id[c] \in Ids
           /\ \A kind \in AboutKinds : About(kind, c) \in ServerMsgs(id)
           /\ \A kind \in SizedKinds, s \in Sizes : Sized(kind, c, s) \in ServerMsgs(id)
           /\ \A ids \in Seq(Ids) : Detaching(c, ids) \in ServerMsgs(id)
           /\ [kind |-> "KillSession", conn |-> c] \in ServerMsgs(id)
<1>1. id[c] \in Ids
  BY DEF Typed, ThreadsTyped, IdsAreKept
<1>2. \A kind \in AboutKinds : About(kind, c) \in AboutMsgs
  BY <1>1 DEF About, AboutMsgs
<1>3. \A kind \in SizedKinds, s \in Sizes :
         Sized(kind, c, s) \in SizedMsgs
         /\ Sized(kind, c, s).id = id[Sized(kind, c, s).conn]
  BY <1>1 DEF Sized, SizedMsgs
<1>4. \A ids \in Seq(Ids) : Detaching(c, ids) \in DetachMsgs
  BY DEF Detaching, DetachMsgs
<1>5. [kind |-> "KillSession", conn |-> c] \in KillMsgs
  BY DEF KillMsgs
<1>. QED  BY <1>1, <1>2, <1>3, <1>4, <1>5 DEF ServerMsgs

LEMMA BareTyped ==
    \A kind \in BareKinds : [kind |-> kind, conn |-> NoConn] \in ServerMsgs(id)
BY DEF ServerMsgs, BareMsgs

LEMMA RouteTyped ==
    ASSUME Typed, NEW c \in Conns, NEW phase \in Phases \ {"away"}, NEW ends \in BOOLEAN,
           NEW msgs \in Seq(ServerMsgs(id)), Route(c, phase, ends, msgs)
    PROVE  Typed'
<1>. USE DEF Typed, Route, Routing, serverVars
<1>1. ThreadsTyped'
  BY DEF ThreadsTyped, Phases
<1>2. toServer' \in Seq(ServerMsgs(id))
  BY ConcatProperties DEF ServerTyped
<1>3. ServerTyped'
  BY <1>2 DEF ServerTyped
<1>4. IdsAreKept'
  BY DEF IdsAreKept, ThreadsTyped
<1>. QED  BY <1>1, <1>3, <1>4

LEMMA RouteMessages ==
    ASSUME Typed, NEW c \in Conns,
           \/ RouteServerMode(c) \/ RouteFirstMessage(c) \/ RouteInit(c)
           \/ RouteConnStatus(c) \/ RouteKillSession(c) \/ RouteDetach(c)
           \/ RouteQuit(c) \/ RouteClientExited(c)
    PROVE  Typed'
<1>1. router[c] # "none"
  BY DEF RouteServerMode, RouteFirstMessage, RouteInit, RouteConnStatus, RouteKillSession,
         RouteDetach, RouteQuit, RouteClientExited, Route, Routing
<1>2. /\ id[c] \in Ids
      /\ \A kind \in AboutKinds : About(kind, c) \in ServerMsgs(id)
      /\ \A kind \in SizedKinds, s \in Sizes : Sized(kind, c, s) \in ServerMsgs(id)
      /\ \A ids \in Seq(Ids) : Detaching(c, ids) \in ServerMsgs(id)
      /\ [kind |-> "KillSession", conn |-> c] \in ServerMsgs(id)
  BY <1>1, MessagesTyped
<1>3. ASSUME NEW phase \in Phases \ {"away"}, NEW ends \in BOOLEAN,
             NEW m \in ServerMsgs(id), Route(c, phase, ends, <<m>>)
      PROVE  Typed'
  <2>1. <<m>> \in Seq(ServerMsgs(id))
    OBVIOUS
  <2>. QED  BY <1>3, <2>1, RouteTyped
<1>4. ASSUME RouteServerMode(c) PROVE Typed'
  BY <1>2, <1>3, <1>4 DEF RouteServerMode, Phases, AboutKinds
<1>5. ASSUME RouteFirstMessage(c) PROVE Typed'
  BY <1>2, <1>3, <1>5 DEF RouteFirstMessage, Phases, SizedKinds
<1>6. ASSUME RouteInit(c) PROVE Typed'
  <2>1. PICK s \in Sizes :
           Route(c, "attached", TRUE, <<Sized("NewClient", c, s), Detaching(c, <<1>>)>>)
    BY <1>6 DEF RouteInit
  <2>2. 1 \in Ids
    BY OneIsAnId
  <2>3. <<1>> \in Seq(Ids)
    BY <2>2
  <2>4. Sized("NewClient", c, s) \in ServerMsgs(id) /\ Detaching(c, <<1>>) \in ServerMsgs(id)
    BY <1>2, <2>3 DEF SizedKinds
  <2>5. <<Sized("NewClient", c, s), Detaching(c, <<1>>)>> \in Seq(ServerMsgs(id))
    BY <2>4
  <2>. QED  BY <2>1, <2>5, RouteTyped DEF Phases
<1>7. ASSUME RouteConnStatus(c) PROVE Typed'
  BY <1>2, <1>3, <1>7 DEF RouteConnStatus, Phases, AboutKinds
<1>8. ASSUME RouteKillSession(c) PROVE Typed'
  BY <1>2, <1>3, <1>8 DEF RouteKillSession, Phases
<1>9. ASSUME RouteDetach(c) PROVE Typed'
  <2>1. <<id[c]>> \in Seq(Ids)
    BY <1>2
  <2>. QED  BY <1>2, <1>3, <1>9, <2>1 DEF RouteDetach, Phases
<1>10. ASSUME RouteQuit(c) PROVE Typed'
  BY <1>2, <1>3, <1>10 DEF RouteQuit, Phases, AboutKinds
<1>11. ASSUME RouteClientExited(c) PROVE Typed'
  BY <1>2, <1>3, <1>11 DEF RouteClientExited, Phases, AboutKinds
<1>. QED  BY <1>4, <1>5, <1>6, <1>7, <1>8, <1>9, <1>10, <1>11

LEMMA EndOfStreamTyped ==
    ASSUME Typed, NEW c \in Conns, RouteEndOfStream(c)
    PROVE  Typed'
<1>. USE DEF Typed, RouteEndOfStream, Routing, serverVars
<1>1. About("RemoveClient", c) \in ServerMsgs(id)
  BY MessagesTyped DEF AboutKinds
<1>2. ThreadsTyped'
  BY TellTyped DEF ThreadsTyped
<1>3. toServer' \in Seq(ServerMsgs(id))
  BY <1>1, AppendProperties DEF ServerTyped
<1>4. ServerTyped'
  BY <1>3 DEF ServerTyped
<1>5. IdsAreKept'
  BY DEF IdsAreKept, ThreadsTyped
<1>. QED  BY <1>2, <1>4, <1>5

LEMMA DepartureTyped ==
    ASSUME Typed, NEW c \in Conns, Leave(c) \/ Die(c)
    PROVE  Typed'
<1>. USE DEF Typed, Leave, Die, serverVars
<1>1. ThreadsTyped'
  BY DEF ThreadsTyped, Phases
<1>2. ServerTyped'
  BY DEF ServerTyped
<1>3. IdsAreKept'
  BY DEF IdsAreKept, ThreadsTyped
<1>. QED  BY <1>1, <1>2, <1>3

LEMMA SetClientSizeTyped ==
    ASSUME NEW cs \in Registers, NEW k \in Ids, NEW s \in Sizes, NEW c \in Conns
    PROVE  /\ SetClientSize(cs, k, s, c) \in Registers
           /\ DOMAIN SetClientSize(cs, k, s, c) = DOMAIN cs \cup {k}
           /\ \A j \in DOMAIN cs : SetClientSize(cs, k, s, c)[j].conn = cs[j].conn
           /\ k \notin DOMAIN cs => SetClientSize(cs, k, s, c)[k].conn = c
           /\ MinSize(SetClientSize(cs, k, s, c)) \in Sizes
<1>. DEFINE entry == [conn |-> IF k \in DOMAIN cs THEN cs[k].conn ELSE c, size |-> s]
            new   == Put(cs, k, entry)
<1>1. cs \in [DOMAIN cs -> Entries]
  BY PartialMember DEF Registers
<1>2. entry \in Entries
  BY <1>1 DEF Entries
<1>3. /\ new \in Registers
      /\ DOMAIN new = DOMAIN cs \cup {k}
      /\ new[k] = entry
      /\ \A j \in DOMAIN cs \ {k} : new[j] = cs[j]
  BY <1>2, PutIsPartial DEF Registers
<1>4. SetClientSize(cs, k, s, c) = new
  BY DEF SetClientSize
<1>5. MinSize(new) \in Sizes
  BY <1>3, MinSizeTyped, SizesAssumption
<1>. QED  BY <1>3, <1>4, <1>5

LEMMA ResizeTyped ==
    ASSUME Typed, NEW c \in Conns, NEW s \in Sizes, RouteResize(c, s)
    PROVE  Typed'
<1>. USE DEF Typed, RouteResize, Routing
<1>. DEFINE new == SetClientSize(clients, id[c], s, c)
<1>1. id[c] \in Ids
  BY MessagesTyped
<1>2. /\ new \in Registers
      /\ DOMAIN new = DOMAIN clients \cup {id[c]}
      /\ \A j \in DOMAIN clients : new[j].conn = clients[j].conn
      /\ id[c] \notin DOMAIN clients => new[id[c]].conn = c
      /\ MinSize(new) \in Sizes
  BY <1>1, SetClientSizeTyped DEF ServerTyped
<1>3. ThreadsTyped'
  BY <1>2 DEF ThreadsTyped
<1>4. ServerTyped'
  BY <1>2 DEF ServerTyped
<1>5. IdsAreKept'
  BY <1>2 DEF IdsAreKept, ThreadsTyped
<1>. QED  BY <1>3, <1>4, <1>5

LEMMA ResizeAnnounceTyped ==
    ASSUME Typed, NEW c \in Conns, RouteResizeAnnounce(c)
    PROVE  Typed'
<1>. USE DEF Typed, RouteResizeAnnounce
<1>. DEFINE m == [kind |-> "TerminalResize", size |-> measured[c]]
<1>1. m \in ScreenMsgs
  BY DEF ThreadsTyped, ScreenMsgs
<1>2. Panicking \in ServerMsgs(id)
  BY BareTyped DEF Panicking, BareKinds
<1>3. ThreadsTyped'
  BY DEF ThreadsTyped
<1>4. toServer' \in Seq(ServerMsgs(id))
  <2>1. Append(toServer, Panicking) \in Seq(ServerMsgs(id))
    BY <1>2, AppendProperties DEF ServerTyped
  <2>. QED  BY <2>1 DEF ServerTyped
<1>5. toScreen' \in Seq(ScreenMsgs)
  BY <1>1, AppendProperties DEF ServerTyped
<1>6. ServerTyped'
  BY <1>4, <1>5 DEF ServerTyped
<1>7. IdsAreKept'
  BY DEF IdsAreKept, ThreadsTyped
<1>. QED  BY <1>3, <1>6, <1>7

LEMMA AnswerTyped ==
    ASSUME Typed, NEW c \in Conns, RouteSwitchToMode(c) \/ RouteCommand(c)
    PROVE  Typed'
<1>. USE DEF Typed, RouteSwitchToMode, RouteCommand, Routing, serverVars
<1>1. About("RemoveClient", c) \in ServerMsgs(id)
  BY MessagesTyped DEF AboutKinds
<1>2. [kind |-> "Command"] \in ScreenMsgs
  BY DEF ScreenMsgs
<1>3. ThreadsTyped'
  BY TellTyped DEF ThreadsTyped
<1>4. toServer' \in Seq(ServerMsgs(id))
  <2>1. Append(toServer, About("RemoveClient", c)) \in Seq(ServerMsgs(id))
    BY <1>1, AppendProperties DEF ServerTyped
  <2>. QED  BY <2>1 DEF ServerTyped
<1>5. toScreen' \in Seq(ScreenMsgs)
  BY <1>2, AppendProperties DEF ServerTyped
<1>6. ServerTyped'
  BY <1>4, <1>5 DEF ServerTyped
<1>7. IdsAreKept'
  BY DEF IdsAreKept, ThreadsTyped
<1>. QED  BY <1>3, <1>6, <1>7

----------------------------------------------------------------------------
(* The listener *)

(* As long as a connection has no id, one of the ids is free.               *)
LEMMA IdForNewClient ==
    ASSUME Typed, NEW c \in Conns, client[c] = "away"
    PROVE  FreshId(clients) \in Ids /\ FreshId(clients) \notin DOMAIN clients
<1>. USE DEF Typed
<1>. DEFINE R == DOMAIN clients
            f == [k \in R |-> clients[k].conn]
<1>1. R \subseteq Ids /\ clients \in [R -> Entries]
  BY PartialMember DEF ServerTyped, Registers
<1>2. \A k \in R : id[clients[k].conn] = k /\ k # 0
  BY <1>1 DEF IdsAreKept, Ids
<1>3. id[c] = 0
  BY DEF IdsAreKept
<1>4. f \in [R -> Conns \ {c}]
  BY <1>1, <1>2, <1>3 DEF Entries
<1>5. \A j, k \in R : f[j] = f[k] => j = k
  BY <1>2
<1>6. f \in Injection(R, Conns \ {c})
  BY <1>4, <1>5 DEF Injection, IsInjective
<1>7. IsFiniteSet(Conns \ {c}) /\ Cardinality(Conns \ {c}) = Cardinality(Conns) - 1
  BY ConnsAssumption, FS_RemoveElement
<1>8. Cardinality(R) <= Cardinality(Conns) - 1
  BY <1>6, <1>7, FS_Injection
<1>9. Cardinality(R) \in Nat /\ Cardinality(Conns) \in Nat
  BY <1>1, Counting
<1>10. FreshId(clients) \in 1 .. Cardinality(R) + 1 /\ FreshId(clients) \notin R
  BY <1>1, FreshIdIsFree
<1>. QED  BY <1>8, <1>9, <1>10 DEF Ids

LEMMA AcceptTyped ==
    ASSUME Typed, NEW c \in Conns, Accept(c)
    PROVE  Typed'
<1>. USE DEF Typed, Accept
<1>. DEFINE k     == FreshId(clients)
            entry == [conn |-> c, size |-> NoSize]
<1>1. k \in Ids /\ k \notin DOMAIN clients
  BY IdForNewClient
<1>2. entry \in Entries
  BY DEF Entries
<1>3. /\ clients' \in Registers
      /\ DOMAIN clients' = DOMAIN clients \cup {k}
      /\ clients'[k] = entry
      /\ \A j \in DOMAIN clients \ {k} : clients'[j] = clients[j]
  <2>1. clients' = Put(clients, k, entry)
    OBVIOUS
  <2>2. clients \in Partial(Ids, Entries)
    BY DEF ServerTyped, Registers
  <2>. HIDE DEF Typed, Accept, k, entry
  <2>. QED  BY <2>1, <2>2, <1>1, <1>2, PutIsPartial DEF Registers
<1>4. /\ id' = [id EXCEPT ![c] = k]
      /\ id \in [Conns -> Ids \cup {0}] /\ id[c] = 0 /\ 0 \notin Ids
  BY DEF ThreadsTyped, IdsAreKept, Ids
<1>5. ThreadsTyped'
  BY <1>1, <1>4 DEF ThreadsTyped, Phases
<1>6. toServer' \in Seq(ServerMsgs(id'))
  <2>1. ServerMsgs(id) \subseteq ServerMsgs(id')
    <3>1. \A m \in SizedMsgs : m.id = id[m.conn] => m.id = id'[m.conn]
      BY <1>4 DEF SizedMsgs
    <3>. QED  BY <3>1 DEF ServerMsgs
  <2>. QED  BY <2>1, SeqMonotonic DEF ServerTyped
<1>7. ServerTyped'
  BY <1>3, <1>6 DEF ServerTyped
<1>8. IdsAreKept'
  <2>1. \A d \in Conns \ {c} : id'[d] = id[d] /\ client'[d] = client[d]
    BY <1>4 DEF ThreadsTyped
  <2>2. id'[c] = k /\ k # 0 /\ client'[c] = "connected"
    BY <1>1, <1>4 DEF ThreadsTyped
  <2>3. \A j \in DOMAIN clients : clients[j].conn # c /\ clients[j].conn \in Conns
    <3>1. DOMAIN clients \subseteq Ids /\ clients \in [DOMAIN clients -> Entries]
      BY PartialMember DEF ServerTyped, Registers
    <3>. QED  BY <3>1, <1>4 DEF IdsAreKept, Entries
  <2>4. \A j \in DOMAIN clients' : id'[clients'[j].conn] = j
    BY <1>3, <1>1, <2>1, <2>2, <2>3 DEF IdsAreKept
  <2>. QED  BY <2>1, <2>2, <2>4 DEF IdsAreKept
<1>. QED  BY <1>5, <1>7, <1>8

LEMMA WelcomeTyped ==
    ASSUME Typed, Welcome
    PROVE  Typed'
<1>. USE DEF Typed, Welcome
<1>1. arriving \in Conns /\ id[arriving] \in Ids
  BY DEF ThreadsTyped, IdsAreKept
<1>2. senders' \in Partial(Ids, Conns)
  BY <1>1, PutIsPartial DEF ServerTyped
<1>3. ThreadsTyped'
  BY TellTyped DEF ThreadsTyped
<1>4. ServerTyped'
  BY <1>2 DEF ServerTyped
<1>5. IdsAreKept'
  BY <1>1 DEF IdsAreKept, ThreadsTyped
<1>. QED  BY <1>3, <1>4, <1>5

----------------------------------------------------------------------------
(* The main loop *)

LEMMA HeadTyped ==
    ASSUME Typed, toServer # <<>>
    PROVE  /\ Tail(toServer) \in Seq(ServerMsgs(id))
           /\ Msg \in ServerMsgs(id)
           /\ Msg.conn \in Conns \cup {NoConn}
           /\ Msg.kind \in AboutKinds \cup SizedKinds => Msg.id \in Ids /\ Msg.conn \in Conns
           /\ Msg.kind \in SizedKinds => Msg.size \in Sizes /\ Msg.id = id[Msg.conn]
           /\ Msg.kind = "DetachSession" => Msg.ids \in Seq(Ids)
           /\ Msg.kind = "Render" => Msg.frames \subseteq Ids
<1>1. toServer \in Seq(ServerMsgs(id))
  BY DEF Typed, ServerTyped
<1>2. Msg \in ServerMsgs(id) /\ Tail(toServer) \in Seq(ServerMsgs(id))
  BY <1>1, HeadTailProperties DEF Msg
<1>. USE DEF AboutKinds, SizedKinds, BareKinds
<1>3. CASE Msg \in AboutMsgs
  BY <1>2, <1>3 DEF AboutMsgs
<1>4. CASE Msg \in SizedMsgs /\ Msg.id = id[Msg.conn]
  BY <1>2, <1>4 DEF SizedMsgs
<1>5. CASE Msg \in DetachMsgs
  BY <1>2, <1>5 DEF DetachMsgs
<1>6. CASE Msg \in KillMsgs
  BY <1>2, <1>6 DEF KillMsgs
<1>7. CASE Msg \in RenderMsgs
  BY <1>2, <1>7 DEF RenderMsgs
<1>8. CASE Msg \in BareMsgs
  BY <1>2, <1>8 DEF BareMsgs
<1>. QED  BY <1>2, <1>3, <1>4, <1>5, <1>6, <1>7, <1>8 DEF ServerMsgs

LEMMA IdleTyped == Idle \in Removals /\ ~Idle.half
BY DEF Idle, Removals

LEMMA RemovalTyped ==
    ASSUME Typed, toServer # <<>>, NEW ids \in Seq(Ids), NEW announce \in BOOLEAN,
           NEW next \in {"running", "killed", "error"}
    PROVE  /\ Removal(ids, announce, next) \in Removals
           /\ ~Removal(ids, announce, next).half
<1>1. Msg.conn \in Conns \cup {NoConn}
  BY HeadTyped
<1>. QED  BY <1>1, IdleTyped DEF Removal, Removals

LEMMA DispatchTyped ==
    ASSUME Typed, toServer # <<>>, NEW h \in [Conns -> Hearing], NEW m \in Removals, ~m.half,
           Dispatch(h, m)
    PROVE  Typed'
<1>. USE DEF Typed, Dispatch
<1>1. Tail(toServer) \in Seq(ServerMsgs(id))
  BY HeadTyped
<1>2. ThreadsTyped'
  BY DEF ThreadsTyped
<1>3. ServerTyped'
  BY <1>1 DEF ServerTyped
<1>4. IdsAreKept'
  BY DEF IdsAreKept
<1>. QED  BY <1>2, <1>3, <1>4

LEMMA EndLoopTyped ==
    ASSUME Typed, toServer # <<>>, NEW how \in {"panicked", "hung"}, EndLoop(how)
    PROVE  Typed'
<1>. USE DEF Typed, EndLoop
<1>1. Tail(toServer) \in Seq(ServerMsgs(id))
  BY HeadTyped
<1>2. ThreadsTyped'
  BY DEF ThreadsTyped
<1>3. ServerTyped'
  BY <1>1 DEF ServerTyped
<1>4. IdsAreKept'
  BY DEF IdsAreKept
<1>. QED  BY <1>2, <1>3, <1>4

LEMMA RequeueDetachTyped ==
    ASSUME Typed, toServer # <<>>, NEW ids \in Seq(Ids), RequeueDetach(ids)
    PROVE  Typed'
<1>. USE DEF Typed, RequeueDetach
<1>1. Tail(toServer) \in Seq(ServerMsgs(id))
  BY HeadTyped
<1>2. Detaching(NoConn, ids) \in DetachMsgs
  BY DEF Detaching, DetachMsgs
<1>3. toServer' \in Seq(ServerMsgs(id))
  BY <1>1, <1>2, AppendProperties DEF ServerMsgs
<1>4. ThreadsTyped'
  BY DEF ThreadsTyped
<1>5. ServerTyped'
  BY <1>3 DEF ServerTyped
<1>6. IdsAreKept'
  BY DEF IdsAreKept
<1>. QED  BY <1>4, <1>5, <1>6

LEMMA AnnouncementTyped ==
    ASSUME NEW cs \in Registers, NEW k \in Ids
    PROVE  Announcement(cs, k) \in Seq(ScreenMsgs)
<1>. DEFINE resize == [kind |-> "TerminalResize", size |-> MinSize(cs)]
            remove == [kind |-> "RemoveClient", id |-> k]
<1>1. resize \in ScreenMsgs
  BY MinSizeTyped DEF ScreenMsgs
<1>2. remove \in ScreenMsgs
  BY DEF ScreenMsgs
<1>3. <<>> \in Seq(ScreenMsgs) /\ <<resize>> \in Seq(ScreenMsgs) /\ <<remove>> \in Seq(ScreenMsgs)
  BY <1>1, <1>2
<1>4. (IF MinSize(cs) = NoSize THEN <<>> ELSE <<resize>>) \in Seq(ScreenMsgs)
  BY <1>3
<1>. QED  BY <1>3, <1>4, ConcatProperties DEF Announcement

LEMMA ResizedClients ==
    ASSUME Typed, NEW k \in Ids, NEW s \in Sizes, NEW c \in Conns, id[c] = k,
           NEW new, new = SetClientSize(clients, k, s, c)
    PROVE  /\ new \in Registers
           /\ \A j \in DOMAIN new : id[new[j].conn] = j
           /\ MinSize(new) \in Sizes
<1>1. /\ new \in Registers
      /\ DOMAIN new = DOMAIN clients \cup {k}
      /\ \A j \in DOMAIN clients : new[j].conn = clients[j].conn
      /\ k \notin DOMAIN clients => new[k].conn = c
      /\ MinSize(new) \in Sizes
  <2>1. clients \in Registers
    BY DEF Typed, ServerTyped
  <2>. DEFINE set == SetClientSize(clients, k, s, c)
  <2>2. /\ set \in Registers
        /\ DOMAIN set = DOMAIN clients \cup {k}
        /\ \A j \in DOMAIN clients : set[j].conn = clients[j].conn
        /\ k \notin DOMAIN clients => set[k].conn = c
        /\ MinSize(set) \in Sizes
    BY <2>1, SetClientSizeTyped
  <2>3. new = set
    OBVIOUS
  <2>. QED  BY <2>2, <2>3, Zenon
<1>. QED  BY <1>1 DEF Typed, IdsAreKept

LEMMA NewClientTyped ==
    ASSUME Typed, HandleNewClient
    PROVE  Typed'
<1>. USE DEF HandleNewClient, Takes
<1>1. /\ Tail(toServer) \in Seq(ServerMsgs(id))
      /\ Msg.id \in Ids /\ Msg.conn \in Conns /\ Msg.size \in Sizes /\ Msg.id = id[Msg.conn]
  BY HeadTyped DEF SizedKinds, Msg
<1>2. clients' \in Registers /\ \A j \in DOMAIN clients' : id[clients'[j].conn] = j
  BY <1>1, ResizedClients
<1>3. NewScreen(Msg.size) \in Screens
  <2>1. <<>> \in Partial(Ids, Conns)
    BY EmptyIsPartial
  <2>2. <<>> \in Seq([id : Ids, conn : Conns])
    OBVIOUS
  <2>. QED  BY <1>1, <2>1, <2>2 DEF NewScreen, Screens
<1>4. [kind |-> "NewTab", id |-> Msg.id, conn |-> Msg.conn] \in ScreenMsgs
  BY <1>1 DEF ScreenMsgs
<1>5. toScreen' \in Seq(ScreenMsgs)
  BY <1>4
<1>6. ThreadsTyped'
  BY DEF Typed, ThreadsTyped
<1>7. ServerTyped'
  BY <1>1, <1>2, <1>3, <1>5 DEF Typed, ServerTyped
<1>8. IdsAreKept'
  BY <1>2 DEF Typed, IdsAreKept
<1>. QED  BY <1>6, <1>7, <1>8 DEF Typed

LEMMA AttachClientTyped ==
    ASSUME Typed, HandleAttachClient
    PROVE  Typed'
<1>. USE DEF HandleAttachClient, Takes
<1>1. /\ Tail(toServer) \in Seq(ServerMsgs(id))
      /\ Msg.id \in Ids /\ Msg.conn \in Conns /\ Msg.size \in Sizes /\ Msg.id = id[Msg.conn]
  BY HeadTyped DEF SizedKinds, Msg
<1>2. CASE EndLoop("panicked")
  BY <1>2, EndLoopTyped
<1>3. CASE ~EndLoop("panicked")
  <2>1. /\ clients' = SetClientSize(clients, Msg.id, Msg.size, Msg.conn)
        /\ toServer' = Tail(toServer)
        /\ toScreen' = toScreen \o
                 <<[kind |-> "TerminalResize", size |-> MinSize(clients')],
                   [kind |-> "AddClient", id |-> Msg.id, conn |-> Msg.conn]>>
        /\ \/ heard' = Tell(heard, {Msg.id}, "other") /\ main' = Idle
           \/ UNCHANGED heard /\ main' = Removal(<<Msg.id>>, FALSE, "running")
        /\ UNCHANGED <<client, id, router, arriving, setting, senders, session, screen,
                           loop, measured, inputs>>
    BY <1>3
  <2>2. /\ clients' \in Registers
        /\ \A j \in DOMAIN clients' : id[clients'[j].conn] = j
        /\ MinSize(clients') \in Sizes
    BY <1>1, <2>1, ResizedClients
  <2>3. toScreen' \in Seq(ScreenMsgs)
    <3>1. /\ [kind |-> "TerminalResize", size |-> MinSize(clients')] \in ScreenMsgs
          /\ [kind |-> "AddClient", id |-> Msg.id, conn |-> Msg.conn] \in ScreenMsgs
      BY <1>1, <2>2 DEF ScreenMsgs
    <3>2. <<[kind |-> "TerminalResize", size |-> MinSize(clients')],
            [kind |-> "AddClient", id |-> Msg.id, conn |-> Msg.conn]>> \in Seq(ScreenMsgs)
      BY <3>1
    <3>. QED  BY <3>2, <2>1, ConcatProperties DEF Typed, ServerTyped
  <2>4. main' \in Removals /\ ~main'.half
    <3>1. <<Msg.id>> \in Seq(Ids)
      BY <1>1
    <3>. QED  BY <3>1, <2>1, IdleTyped, RemovalTyped
  <2>5. heard' \in [Conns -> Hearing]
    <3>1. heard \in [Conns -> Hearing]
      BY DEF Typed, ThreadsTyped
    <3>2. Tell(heard, {Msg.id}, "other") \in [Conns -> Hearing]
      BY <3>1, TellTyped
    <3>. QED  BY <2>1, <3>1, <3>2
  <2>6. ThreadsTyped'
    BY <2>1, <2>5 DEF Typed, ThreadsTyped
  <2>7. ServerTyped'
    BY <1>1, <2>1, <2>2, <2>3, <2>4 DEF Typed, ServerTyped
  <2>8. IdsAreKept'
    BY <2>1, <2>2 DEF Typed, IdsAreKept
  <2>. QED  BY <2>6, <2>7, <2>8 DEF Typed
<1>. QED  BY <1>2, <1>3

LEMMA SwitchSessionTyped ==
    ASSUME Typed, HandleSwitchSession
    PROVE  Typed'
<1>. USE DEF HandleSwitchSession, Takes
<1>1. Tail(toServer) \in Seq(ServerMsgs(id)) /\ Msg.id \in Ids
  BY HeadTyped DEF AboutKinds, Msg
<1>2. CASE EndLoop("panicked")
  BY <1>2, EndLoopTyped
<1>3. CASE ~EndLoop("panicked")
  <2>1. /\ toServer' = Tail(toServer)
        /\ toScreen' = toScreen \o Announcement(clients, Msg.id)
        /\ \/ /\ heard' = Tell(heard, {Msg.id}, "bye")
              /\ main' = Removal(<<Msg.id>>, FALSE, "running")
           \/ /\ UNCHANGED heard
              /\ main' = Removal(<<Msg.id, Msg.id>>, FALSE, "running")
        /\ UNCHANGED <<client, id, router, arriving, clients, setting, senders, session,
                           screen, loop, measured, inputs>>
    BY <1>3
  <2>2. toScreen' \in Seq(ScreenMsgs)
    BY <1>1, <2>1, AnnouncementTyped, ConcatProperties DEF Typed, ServerTyped
  <2>3. main' \in Removals /\ ~main'.half
    <3>1. <<Msg.id>> \in Seq(Ids) /\ <<Msg.id, Msg.id>> \in Seq(Ids)
      BY <1>1
    <3>. QED  BY <3>1, <2>1, RemovalTyped
  <2>4. heard' \in [Conns -> Hearing]
    <3>1. heard \in [Conns -> Hearing]
      BY DEF Typed, ThreadsTyped
    <3>2. Tell(heard, {Msg.id}, "bye") \in [Conns -> Hearing]
      BY <3>1, TellTyped
    <3>. QED  BY <2>1, <3>1, <3>2
  <2>5. ThreadsTyped'
    BY <2>1, <2>4 DEF Typed, ThreadsTyped
  <2>6. ServerTyped'
    BY <1>1, <2>1, <2>2, <2>3 DEF Typed, ServerTyped
  <2>7. IdsAreKept'
    BY <2>1 DEF Typed, IdsAreKept
  <2>. QED  BY <2>5, <2>6, <2>7 DEF Typed
<1>. QED  BY <1>2, <1>3

LEMMA AnswersTyped ==
    ASSUME Typed,
           \/ HandleUnblockInputThread \/ HandleRemoveClient \/ HandleDetachSession
           \/ HandleConnStatus \/ HandleMode
    PROVE  Typed'
<1>0. toServer # <<>>
  BY DEF HandleUnblockInputThread, HandleRemoveClient, HandleDetachSession,
         HandleConnStatus, HandleMode, Takes
<1>1. heard \in [Conns -> Hearing]
  BY DEF Typed, ThreadsTyped
<1>2. \A K : /\ Tell(heard, K, "other") \in [Conns -> Hearing]
             /\ Tell(heard, K, "connected") \in [Conns -> Hearing]
             /\ Tell(heard, K, "mode") \in [Conns -> Hearing]
  BY <1>1, TellTyped
<1>3. ASSUME HandleUnblockInputThread PROVE Typed'
  <2>1. CASE Dispatch(Tell(heard, Registered, "other"), Idle)
    BY <1>0, <1>2, <2>1, IdleTyped, DispatchTyped
  <2>2. CASE EndLoop("hung")
    BY <1>0, <2>2, EndLoopTyped
  <2>. QED  BY <1>3, <2>1, <2>2 DEF HandleUnblockInputThread
<1>4. ASSUME HandleRemoveClient PROVE Typed'
  <2>1. Msg.id \in Ids
    BY <1>0, <1>4, HeadTyped DEF HandleRemoveClient, Takes, Msg, AboutKinds
  <2>2. <<Msg.id>> \in Seq(Ids)
    BY <2>1
  <2>3. RemoveOne(Msg.id) \in Removals /\ ~RemoveOne(Msg.id).half
    BY <1>0, <2>2, RemovalTyped DEF RemoveOne
  <2>. QED  BY <1>0, <1>1, <1>4, <2>3, DispatchTyped DEF HandleRemoveClient
<1>5. ASSUME HandleDetachSession PROVE Typed'
  <2>1. Msg.ids \in Seq(Ids)
    BY <1>0, <1>5, HeadTyped DEF HandleDetachSession, Takes, Msg
  <2>2. LET m == Removal(Msg.ids, TRUE, "running") IN m \in Removals /\ ~m.half
    BY <1>0, <2>1, RemovalTyped
  <2>. QED  BY <1>0, <1>1, <1>5, <2>2, DispatchTyped DEF HandleDetachSession
<1>6. ASSUME HandleConnStatus PROVE Typed'
  <2>1. Msg.id \in Ids
    BY <1>0, <1>6, HeadTyped DEF HandleConnStatus, Takes, Msg, AboutKinds
  <2>2. <<Msg.id>> \in Seq(Ids)
    BY <2>1
  <2>3. LET m == Removal(<<Msg.id>>, FALSE, "running") IN m \in Removals /\ ~m.half
    BY <1>0, <2>2, RemovalTyped
  <2>. QED  BY <1>0, <1>2, <1>6, <2>3, DispatchTyped DEF HandleConnStatus
<1>7. ASSUME HandleMode PROVE Typed'
  <2>1. CASE Dispatch(Tell(heard, {Msg.id}, "mode"), Idle)
    BY <1>0, <1>2, <2>1, IdleTyped, DispatchTyped
  <2>2. CASE Dispatch(heard, Idle)
    BY <1>0, <1>1, <2>2, IdleTyped, DispatchTyped
  <2>. QED  BY <1>7, <2>1, <2>2 DEF HandleMode
<1>. QED  BY <1>3, <1>4, <1>5, <1>6, <1>7

(* Handlers that remove many                                                *)
LEMMA DeparturesTyped ==
    ASSUME Typed,
           \/ HandleClientExit \/ HandleKillSession \/ HandleError
           \/ HandleRender \/ HandleRenderNone
    PROVE  Typed'
<1>0. toServer # <<>>
  BY DEF HandleClientExit, HandleKillSession, HandleError, HandleRender, HandleRenderNone, Takes
<1>1. heard \in [Conns -> Hearing] /\ Registered \subseteq Ids
  BY PartialMember DEF Typed, ThreadsTyped, ServerTyped, Registers, Registered
<1>2. \A o \in Orders(Registered) : o \in Seq(Ids)
  BY <1>1, OrdersAreSequences
<1>3. ASSUME NEW o \in Orders(Registered), RequeueDetach(o)
      PROVE  Typed'
  BY <1>0, <1>2, <1>3, RequeueDetachTyped
<1>4. ASSUME NEW o \in Orders(Registered), NEW next \in {"running", "killed", "error"},
             Dispatch(heard, Removal(o, FALSE, next))
      PROVE  Typed'
  <2>1. Removal(o, FALSE, next) \in Removals /\ ~Removal(o, FALSE, next).half
    BY <1>0, <1>2, RemovalTyped
  <2>. QED  BY <1>0, <1>1, <1>4, <2>1, DispatchTyped
<1>5. ASSUME HandleClientExit PROVE Typed'
  <2>1. CASE Dispatch(heard, RemoveOne(Msg.id))
    <3>1. Msg.id \in Ids
      BY <1>0, <1>5, HeadTyped DEF HandleClientExit, Takes, Msg, AboutKinds
    <3>2. <<Msg.id>> \in Seq(Ids)
      BY <3>1
    <3>3. RemoveOne(Msg.id) \in Removals /\ ~RemoveOne(Msg.id).half
      BY <1>0, <3>2, RemovalTyped DEF RemoveOne
    <3>. QED  BY <1>0, <1>1, <2>1, <3>3, DispatchTyped
  <2>2. CASE \E o \in Orders(Registered) : RequeueDetach(o)
    BY <1>3, <2>2
  <2>. QED  BY <1>5, <2>1, <2>2 DEF HandleClientExit
<1>6. ASSUME HandleKillSession PROVE Typed'
  BY <1>4, <1>6 DEF HandleKillSession
<1>7. ASSUME HandleError PROVE Typed'
  BY <1>4, <1>7 DEF HandleError
<1>8. ASSUME HandleRender PROVE Typed'
  <2>1. PICK lost \in SUBSET {k \in Msg.frames : TooSlow(k)} :
        \E o \in Orders(lost) :
          Dispatch(Tell(heard, Msg.frames \ lost, "other"), Removal(o, FALSE, "running"))
    BY <1>8 DEF HandleRender
  <2>2. PICK o \in Orders(lost) :
          Dispatch(Tell(heard, Msg.frames \ lost, "other"), Removal(o, FALSE, "running"))
    BY <2>1
  <2>3. lost \subseteq Ids
    BY <1>0, <1>8, HeadTyped DEF HandleRender, Takes, Msg
  <2>4. o \in Seq(Ids)
    BY <2>3, OrdersAreSequences
  <2>5. LET m == Removal(o, FALSE, "running") IN m \in Removals /\ ~m.half
    BY <1>0, <2>4, RemovalTyped
  <2>6. Tell(heard, Msg.frames \ lost, "other") \in [Conns -> Hearing]
    BY <1>1, TellTyped
  <2>. QED  BY <1>0, <2>2, <2>5, <2>6, DispatchTyped
<1>9. ASSUME HandleRenderNone PROVE Typed'
  <2>1. PICK o \in Orders(Registered) :
          IF Foreground THEN RequeueDetach(o)
          ELSE Dispatch(heard, Removal(o, FALSE, "running"))
    BY <1>9 DEF HandleRenderNone
  <2>. QED  BY <1>3, <1>4, <2>1
<1>. QED  BY <1>5, <1>6, <1>7, <1>8, <1>9

LEMMA RemovalStepsTyped ==
    ASSUME Typed, DropSender \/ Unregister \/ FinishInstruction
    PROVE  Typed'
<1>1. ASSUME DropSender PROVE Typed'
  <2>. USE DEF Typed, DropSender
  <2>1. senders' \in Partial(Ids, Conns)
    BY <1>1, DropIsPartial DEF ServerTyped
  <2>2. main' \in Removals /\ main'.ids # <<>>
    BY <1>1 DEF ServerTyped, Removals
  <2>3. ThreadsTyped'
    BY <1>1, TellTyped DEF ThreadsTyped
  <2>4. ServerTyped'
    BY <1>1, <2>1, <2>2 DEF ServerTyped
  <2>5. IdsAreKept'
    BY <1>1 DEF IdsAreKept
  <2>. QED  BY <2>3, <2>4, <2>5
<1>2. ASSUME Unregister PROVE Typed'
  <2>1. /\ main.half /\ main.ids \in Seq(Ids) /\ main.ids # <<>> /\ main \in Removals
        /\ clients \in Partial(Ids, Entries) /\ toScreen \in Seq(ScreenMsgs)
    BY <1>2 DEF Typed, Unregister, ServerTyped, Removals, Registers
  <2>2. Head(main.ids) \in Ids /\ Tail(main.ids) \in Seq(Ids)
    BY <2>1, HeadTailProperties
  <2>3. /\ clients' = Drop(clients, Head(main.ids))
        /\ main' \in {Idle, [main EXCEPT !.half = FALSE, !.ids = Tail(@)]}
        /\ toScreen' \in {toScreen, toScreen \o Announcement(clients', Head(main.ids))}
        /\ loop' \in {"panicked", loop}
        /\ UNCHANGED <<client, heard, id, router, arriving, setting, senders, session,
                       toServer, screen, measured, inputs>>
    BY <1>2 DEF Unregister
  <2>4. /\ clients' \in Registers
        /\ DOMAIN clients' = DOMAIN clients \ {Head(main.ids)}
        /\ \A j \in DOMAIN clients' : clients'[j] = clients[j]
    <3>. DEFINE rest == Drop(clients, Head(main.ids))
    <3>1. rest \in Partial(Ids, Entries)
      BY <2>1, DropIsPartial
    <3>2. DOMAIN rest = DOMAIN clients \ {Head(main.ids)}
      BY DEF Drop
    <3>3. \A j \in DOMAIN rest : rest[j] = clients[j]
      BY DEF Drop
    <3>. HIDE DEF rest
    <3>. QED  BY <2>3, <3>1, <3>2, <3>3 DEF Registers, rest
  <2>5. main' \in Removals /\ ~main'.half
    <3>1. LET m == [main EXCEPT !.half = FALSE, !.ids = Tail(@)] IN m \in Removals /\ ~m.half
      BY <2>1, <2>2 DEF Removals
    <3>. QED  BY <3>1, <2>3, IdleTyped
  <2>6. toScreen' \in Seq(ScreenMsgs)
    <3>1. Announcement(clients', Head(main.ids)) \in Seq(ScreenMsgs)
      BY <2>2, <2>4, AnnouncementTyped
    <3>2. toScreen \o Announcement(clients', Head(main.ids)) \in Seq(ScreenMsgs)
      BY <3>1, <2>1, ConcatProperties
    <3>. QED  BY <3>2, <2>1, <2>3
  <2>7. ThreadsTyped'
    BY <2>3 DEF Typed, ThreadsTyped
  <2>8. ServerTyped'
    BY <2>3, <2>4, <2>5, <2>6 DEF Typed, ServerTyped
  <2>9. IdsAreKept'
    BY <2>3, <2>4 DEF Typed, IdsAreKept
  <2>. QED  BY <2>7, <2>8, <2>9 DEF Typed
<1>3. ASSUME FinishInstruction PROVE Typed'
  <2>. USE DEF Typed, FinishInstruction
  <2>1. ThreadsTyped'
    BY <1>3 DEF ThreadsTyped, ServerTyped, Removals
  <2>2. ServerTyped'
    BY <1>3, IdleTyped DEF ServerTyped
  <2>3. IdsAreKept'
    BY <1>3 DEF IdsAreKept
  <2>. QED  BY <2>1, <2>2, <2>3
<1>. QED  BY <1>1, <1>2, <1>3

----------------------------------------------------------------------------
(* The screen thread *)

LEMMA ScreenBecomesTyped ==
    ASSUME Typed, NEW s \in Screens, NEW msgs \in Seq(ServerMsgs(id)),
           ScreenBecomes(s, msgs), toScreen' \in Seq(ScreenMsgs)
    PROVE  Typed'
<1>. USE DEF Typed, ScreenBecomes
<1>1. toServer' \in Seq(ServerMsgs(id))
  BY ConcatProperties DEF ServerTyped
<1>2. ThreadsTyped'
  BY DEF ThreadsTyped
<1>3. ServerTyped'
  BY <1>1 DEF ServerTyped
<1>4. IdsAreKept'
  BY DEF IdsAreKept
<1>. QED  BY <1>2, <1>3, <1>4

LEMMA FramesTyped ==
    ASSUME NEW s \in Screens
    PROVE  /\ Frames(s) \in Seq(ServerMsgs(id))
           /\ Unblocking \o Frames(s) \in Seq(ServerMsgs(id))
<1>1. DOMAIN s.clients \subseteq Ids
  BY PartialMember DEF Screens
<1>2. [kind |-> "Render", frames |-> DOMAIN s.clients, conn |-> NoConn] \in ServerMsgs(id)
  BY <1>1 DEF ServerMsgs, RenderMsgs
<1>3. Frames(s) \in Seq(ServerMsgs(id))
  BY <1>2 DEF Frames
<1>4. Unblocking \in Seq(ServerMsgs(id))
  BY BareTyped DEF Unblocking, BareKinds
<1>. QED  BY <1>3, <1>4, ConcatProperties

LEMMA ScreenHeadTyped ==
    ASSUME Typed, toScreen # <<>>
    PROVE  /\ Tail(toScreen) \in Seq(ScreenMsgs)
           /\ Head(toScreen).kind = "TerminalResize" =>
                Head(toScreen).size \in Sizes \cup {NoSize}
           /\ Head(toScreen).kind \in {"NewTab", "AddClient"} =>
                Head(toScreen).id \in Ids /\ Head(toScreen).conn \in Conns
<1>1. Head(toScreen) \in ScreenMsgs /\ Tail(toScreen) \in Seq(ScreenMsgs)
  BY HeadTailProperties DEF Typed, ServerTyped
<1>. QED  BY <1>1 DEF ScreenMsgs

LEMMA ScreenReplaced ==
    ASSUME NEW s \in Screens
    PROVE  /\ \A n \in Sizes \cup {NoSize} : [s EXCEPT !.size = n] \in Screens
           /\ \A f \in Partial(Ids, Conns) :
                /\ [s EXCEPT !.clients = f] \in Screens
                /\ [s EXCEPT !.tabs = "closed", !.clients = f] \in Screens
                /\ [s EXCEPT !.tabs = "loaded", !.loading = <<>>, !.clients = f] \in Screens
           /\ \A l \in Seq([id : Ids, conn : Conns]) :
                [s EXCEPT !.tabs = "loading", !.loading = l] \in Screens
           /\ [s EXCEPT !.up = FALSE] \in Screens
           /\ s.clients \in Partial(Ids, Conns)
           /\ s.loading \in Seq([id : Ids, conn : Conns])
<1>1. <<>> \in Seq([id : Ids, conn : Conns])
  OBVIOUS
<1>. QED  BY <1>1 DEF Screens

LEMMA ScreenTyped ==
    ASSUME Typed, ScreenThread \/ ScreenClosesLastTab
    PROVE  Typed'
<1>1. screen \in Screens /\ screen.clients \in Partial(Ids, Conns)
  BY ScreenReplaced DEF Typed, ServerTyped
<1>2. toScreen \in Seq(ScreenMsgs)
  BY DEF Typed, ServerTyped
<1>3. <<>> \in Seq(ServerMsgs(id))
  OBVIOUS
<1>4. \A kind : ScreenTakes(kind) => toScreen # <<>> /\ toScreen' = Tail(toScreen)
                                     /\ Head(toScreen).kind = kind
  BY DEF ScreenTakes
<1>5. ASSUME ScreenResizes PROVE Typed'
  <2>. DEFINE s == [screen EXCEPT !.size = Head(toScreen).size]
  <2>1. toScreen' \in Seq(ScreenMsgs) /\ Head(toScreen).size \in Sizes \cup {NoSize}
    BY <1>4, <1>5, ScreenHeadTyped DEF ScreenResizes
  <2>2. s \in Screens
    BY <1>1, <2>1, ScreenReplaced
  <2>. QED  BY <1>1, <1>5, <2>1, <2>2, FramesTyped, ScreenBecomesTyped DEF ScreenResizes
<1>6. ASSUME ScreenNewTab PROVE Typed'
  <2>. DEFINE l == <<[id |-> Head(toScreen).id, conn |-> Head(toScreen).conn]>>
              s == [screen EXCEPT !.tabs = "loading", !.loading = l]
  <2>1. /\ toScreen' \in Seq(ScreenMsgs)
        /\ Head(toScreen).id \in Ids /\ Head(toScreen).conn \in Conns
    BY <1>4, <1>6, ScreenHeadTyped DEF ScreenNewTab
  <2>2. l \in Seq([id : Ids, conn : Conns])
    BY <2>1
  <2>3. s \in Screens
    BY <1>1, <2>2, ScreenReplaced
  <2>. QED  BY <1>3, <1>6, <2>1, <2>3, ScreenBecomesTyped DEF ScreenNewTab
<1>7. ASSUME ScreenApplyLayout PROVE Typed'
  <2>. DEFINE new == Head(screen.loading)
              f   == IF screen.clients = <<>> THEN Put(screen.clients, new.id, new.conn)
                     ELSE screen.clients
              s   == [screen EXCEPT !.tabs = "loaded", !.loading = <<>>, !.clients = f]
  <2>1. new \in [id : Ids, conn : Conns]
    <3>1. screen.loading \in Seq([id : Ids, conn : Conns]) /\ screen.loading # <<>>
      BY <1>1, <1>7, ScreenReplaced DEF ScreenApplyLayout
    <3>. QED  BY <3>1, HeadTailProperties
  <2>2. f \in Partial(Ids, Conns)
    <3>1. Put(screen.clients, new.id, new.conn) \in Partial(Ids, Conns)
      BY <1>1, <2>1, PutIsPartial
    <3>. QED  BY <1>1, <3>1
  <2>3. s \in Screens
    BY <1>1, <2>2, ScreenReplaced
  <2>4. ScreenBecomes(s, Unblocking \o Frames(s)) /\ toScreen' = toScreen
    BY <1>7 DEF ScreenApplyLayout
  <2>. QED  BY <1>2, <2>3, <2>4, FramesTyped, ScreenBecomesTyped
<1>8. ASSUME ScreenAddClient PROVE Typed'
  <2>. DEFINE f == Put(screen.clients, Head(toScreen).id, Head(toScreen).conn)
              s == [screen EXCEPT !.clients = f]
              t == [screen EXCEPT !.up = FALSE]
  <2>1. /\ toScreen' \in Seq(ScreenMsgs)
        /\ Head(toScreen).id \in Ids /\ Head(toScreen).conn \in Conns
    BY <1>4, <1>8, ScreenHeadTyped DEF ScreenAddClient
  <2>2. f \in Partial(Ids, Conns)
    BY <1>1, <2>1, PutIsPartial
  <2>3. s \in Screens /\ t \in Screens
    BY <1>1, <2>2, ScreenReplaced
  <2>4. <<Panicking>> \in Seq(ServerMsgs(id))
    BY BareTyped DEF Panicking, BareKinds
  <2>5. CASE ScreenBecomes(t, <<Panicking>>)
    BY <2>1, <2>3, <2>4, <2>5, ScreenBecomesTyped
  <2>6. CASE ScreenBecomes(s, Frames(s))
    BY <2>1, <2>3, <2>6, FramesTyped, ScreenBecomesTyped
  <2>. QED  BY <1>8, <2>5, <2>6 DEF ScreenAddClient
<1>9. ASSUME ScreenRemoveClient PROVE Typed'
  <2>. DEFINE s == [screen EXCEPT !.clients = Drop(screen.clients, Head(toScreen).id)]
  <2>1. toScreen' \in Seq(ScreenMsgs)
    BY <1>4, <1>9, ScreenHeadTyped DEF ScreenRemoveClient
  <2>2. Drop(screen.clients, Head(toScreen).id) \in Partial(Ids, Conns)
    BY <1>1, DropIsPartial
  <2>3. s \in Screens
    BY <1>1, <2>2, ScreenReplaced
  <2>4. ScreenBecomes(s, Frames(s))
    BY <1>9 DEF ScreenRemoveClient
  <2>. QED  BY <2>1, <2>3, <2>4, FramesTyped, ScreenBecomesTyped
<1>10. ASSUME ScreenCommand PROVE Typed'
  <2>1. toScreen' \in Seq(ScreenMsgs)
    BY <1>4, <1>10, ScreenHeadTyped DEF ScreenCommand
  <2>. QED  BY <1>1, <1>10, <2>1, FramesTyped, ScreenBecomesTyped DEF ScreenCommand
<1>11. ASSUME ScreenClosesLastTab PROVE Typed'
  <2>. DEFINE s == [screen EXCEPT !.tabs = "closed", !.clients = <<>>]
              m == [kind |-> "RenderNone", conn |-> NoConn]
  <2>1. s \in Screens
    BY <1>1, EmptyIsPartial, ScreenReplaced
  <2>2. <<m>> \in Seq(ServerMsgs(id))
    BY BareTyped DEF BareKinds
  <2>. QED  BY <1>2, <1>11, <2>1, <2>2, ScreenBecomesTyped DEF ScreenClosesLastTab
<1>. QED
  BY <1>5, <1>6, <1>7, <1>8, <1>9, <1>10, <1>11 DEF ScreenThread

LEMMA PluginSwitchesTyped ==
    ASSUME Typed, NEW k, PluginSwitchesSession(k)
    PROVE  Typed'
<1>. USE DEF Typed, PluginSwitchesSession
<1>. DEFINE m == [kind |-> "SwitchSession", id |-> k, conn |-> screen.clients[k]]
<1>1. screen.clients \in Partial(Ids, Conns)
  BY ScreenReplaced DEF ServerTyped
<1>2. k \in Ids /\ screen.clients[k] \in Conns
  BY <1>1, PartialMember
<1>3. m \in ServerMsgs(id)
  BY <1>2 DEF ServerMsgs, AboutMsgs, AboutKinds
<1>4. Append(toServer, m) \in Seq(ServerMsgs(id))
  BY <1>3, AppendProperties DEF ServerTyped
<1>5. ThreadsTyped'
  BY DEF ThreadsTyped
<1>6. ServerTyped'
  BY <1>4 DEF ServerTyped
<1>7. IdsAreKept'
  BY DEF IdsAreKept
<1>. QED  BY <1>5, <1>6, <1>7

----------------------------------------------------------------------------
LEMMA InitTyped == Init => Typed
<1>. SUFFICES ASSUME Init PROVE Typed
  OBVIOUS
<1>1. ThreadsTyped
  BY DEF Init, ThreadsTyped, Phases, Hearing
<1>2. NewScreen(NoSize) \in Screens
  <2>1. <<>> \in Seq([id : Ids, conn : Conns])
    OBVIOUS
  <2>. QED  BY <2>1, EmptyIsPartial DEF NewScreen, Screens
<1>3. ServerTyped
  <2>1. <<>> \in Seq(ServerMsgs(id)) /\ <<>> \in Seq(ScreenMsgs)
    OBVIOUS
  <2>2. <<>> \in Partial(Ids, Entries) /\ <<>> \in Partial(Ids, Conns)
    BY EmptyIsPartial
  <2>. QED  BY <1>2, <2>1, <2>2, IdleTyped DEF Init, ServerTyped, Registers
<1>4. IdsAreKept
  BY DEF Init, IdsAreKept
<1>. QED  BY <1>1, <1>3, <1>4 DEF Typed

LEMMA StepTyped == Typed /\ [Next]_vars => Typed'
<1>. SUFFICES ASSUME Typed, [Next]_vars PROVE Typed'
  OBVIOUS
<1>1. ASSUME NEW c \in Conns, Accept(c) PROVE Typed'
  BY <1>1, AcceptTyped
<1>2. ASSUME Welcome PROVE Typed'
  BY <1>2, WelcomeTyped
<1>3. ASSUME NEW c \in Conns, Router(c) PROVE Typed'
  BY <1>3, RouteMessages, EndOfStreamTyped, ResizeTyped, ResizeAnnounceTyped, AnswerTyped
     DEF Router
<1>4. ASSUME NEW c \in Conns, Leave(c) \/ Die(c) PROVE Typed'
  BY <1>4, DepartureTyped
<1>5. ASSUME MainLoop PROVE Typed'
  BY <1>5, NewClientTyped, AttachClientTyped, SwitchSessionTyped, AnswersTyped,
     DeparturesTyped, RemovalStepsTyped DEF MainLoop
<1>6. ASSUME ScreenThread \/ ScreenClosesLastTab PROVE Typed'
  BY <1>6, ScreenTyped
<1>7. ASSUME NEW k, PluginSwitchesSession(k) PROVE Typed'
  BY <1>7, PluginSwitchesTyped
<1>8. CASE UNCHANGED vars
  BY <1>8 DEF vars, Typed, ThreadsTyped, ServerTyped, IdsAreKept
<1>. QED  BY <1>1, <1>2, <1>3, <1>4, <1>5, <1>6, <1>7, <1>8 DEF Next

LEMMA TypedInvariant == Spec => []Typed
BY InitTyped, StepTyped, PTL DEF Spec

(* The threads' variables, the registry, the senders and the removals under *)
(* way have their types: an id that is given, passed on, registered or      *)
(* removed is one of as many ids as there are connections.                  *)
THEOREM TypeCorrect == Spec => []TypeOK
<1>1. ASSUME Typed PROVE TypeOK
  <2>1. ThreadsTyped /\ clients \in Partial(Ids, Entries) /\ senders \in Partial(Ids, Conns)
    BY <1>1 DEF Typed, ServerTyped, Registers
  <2>2. screen.clients \in Partial(Ids, Conns) /\ screen.size \in Sizes \cup {NoSize}
    BY <1>1 DEF Typed, ServerTyped, Screens
  <2>3. main.ids \in Seq(Ids)
    BY <1>1 DEF Typed, ServerTyped, Removals
  <2>4. DOMAIN clients \subseteq Ids /\ clients \in [DOMAIN clients -> Entries]
    BY <2>1, PartialMember
  <2>5. DOMAIN senders \subseteq Ids /\ senders \in [DOMAIN senders -> Conns]
    BY <2>1, PartialMember
  <2>6. /\ DOMAIN screen.clients \subseteq Ids
        /\ screen.clients \in [DOMAIN screen.clients -> Conns]
    BY <2>2, PartialMember
  <2>. QED
    BY <2>1, <2>2, <2>3, <2>4, <2>5, <2>6
       DEF TypeOK, ThreadsTyped, Registered, Entries, Phases, Hearing
<1>. QED  BY <1>1, TypedInvariant, PTL

----------------------------------------------------------------------------
(* Ids while clients leave by their own doing: nobody is slow or switched   *)
(* to another session, the last tab stays, and no client is sent that       *)
(* names ids which may not be its own.                                      *)

Orderly ==
    /\ ~Early
    /\ \A s \in Settings :
         /\ s.slow = {} /\ ~s.foreground /\ ~s.tabsClose /\ s.switches = 0
         /\ \A c \in Conns : s.role[c] \notin {"init", "kill"}

(* Nothing makes the loop remove a client but the client's own router.      *)
Alarms == {"Error", "KillSession", "RenderNone", "SwitchSession"}

NoAlarm ==
    /\ screen.up /\ screen.tabs # "closed"
    /\ \A c \in Conns : measured[c] # NoSize => session
    /\ \A n \in 1 .. Len(toServer) : toServer[n].kind \notin Alarms

OwnsEntry(c, i, cs)  == i[c] \in DOMAIN cs /\ cs[i[c]].conn = c
OwnsSender(c, i, ss) == i[c] \in DOMAIN ss /\ ss[i[c]] = c

(* The instructions with which a router lets its client go                  *)
Leaving(m) == m.kind \in {"ClientExit", "RemoveClient", "ConnStatus", "DetachSession"}

AsksForItself(m, i) ==
    /\ m.conn \in Conns
    /\ IF m.kind = "DetachSession" THEN m.ids = <<i[m.conn]>> ELSE m.id = i[m.conn]

(* Nobody has asked yet for c to be removed.                                *)
NotAsked(c, q, m) ==
    /\ m # Idle => m.asker # c
    /\ \A n \in 1 .. Len(q) : Leaving(q[n]) => q[n].conn # c

(* A router lets its client go once, with its last message.                 *)
RequestsAreOwn(i, cs, ss, q, m) ==
    \A n \in 1 .. Len(q) : Leaving(q[n]) =>
         /\ AsksForItself(q[n], i)
         /\ OwnsEntry(q[n].conn, i, cs) /\ OwnsSender(q[n].conn, i, ss)
         /\ \A j \in 1 .. Len(q) : Leaving(q[j]) /\ q[j].conn = q[n].conn => j = n
         /\ m # Idle => m.asker # q[n].conn

(* What the main loop is removing is the client that asked for it.          *)
RemovalIsOwn(i, cs, ss, m) ==
    m # Idle =>
        /\ m.asker \in Conns /\ m.ids = <<i[m.asker]>> /\ m.next = "running"
        /\ OwnsEntry(m.asker, i, cs)
        /\ m.half => i[m.asker] \notin DOMAIN ss

OwnIds ==
    /\ \A c \in Conns : router[c] = "on" =>
         OwnsEntry(c, id, clients) /\ OwnsSender(c, id, senders)
    /\ \A c \in Conns : router[c] # "done" => NotAsked(c, toServer, main)
    /\ arriving # NoConn => OwnsEntry(arriving, id, clients) /\ router[arriving] = "none"
    /\ \A k \in DOMAIN senders : k \in DOMAIN clients /\ clients[k].conn = senders[k]
    /\ RequestsAreOwn(id, clients, senders, toServer, main)
    /\ RemovalIsOwn(id, clients, senders, main)

LEMMA OrderlyMeans ==
    ASSUME Orderly, Typed
    PROVE  /\ \A k : ~TooSlow(k)
           /\ ~Foreground /\ ~TabsClose /\ setting.switches = 0
           /\ \A c \in Conns : Role[c] \notin {"init", "kill"}
<1>1. setting \in Settings
  BY DEF Typed, ThreadsTyped
<1>. QED  BY <1>1 DEF Orderly, TooSlow, Slow, Foreground, TabsClose, Role

(* The queue of the loop loses its first message, for d = 1, and grows by   *)
(* messages that nobody leaves with.                                        *)
QuietKinds == {"Mode", "NewClient", "AttachClient", "Render", "UnblockInputThread"}

QuietQueue(d) ==
    \A n \in 1 .. Len(toServer') :
        \/ n + d \in 1 .. Len(toServer) /\ toServer'[n] = toServer[n + d]
        \/ toServer'[n].kind \in QuietKinds

LEMMA QueueTyped ==
    ASSUME Typed
    PROVE  /\ toServer \in Seq(ServerMsgs(id)) /\ Len(toServer) \in Nat
           /\ toServer # <<>> => Len(toServer) > 0 /\ Msg = toServer[1]
BY LenProperties, EmptySeq DEF Typed, ServerTyped, Msg

LEMMA QueueSame ==
    ASSUME Typed, toServer' = toServer
    PROVE  QuietQueue(0)
BY QueueTyped DEF QuietQueue

LEMMA QueueShrinks ==
    ASSUME Typed, toServer # <<>>, toServer' = Tail(toServer)
    PROVE  /\ Len(toServer') = Len(toServer) - 1
           /\ \A n \in 1 .. Len(toServer') :
                n + 1 \in 1 .. Len(toServer) /\ toServer'[n] = toServer[n + 1]
           /\ QuietQueue(1)
<1>1. /\ Len(toServer') = Len(toServer) - 1
      /\ \A n \in 1 .. Len(toServer') : toServer'[n] = toServer[n + 1]
  BY QueueTyped, HeadTailProperties
<1>. QED  BY <1>1, QueueTyped DEF QuietQueue

LEMMA QueueGrows ==
    ASSUME Typed, NEW msgs \in Seq(ServerMsgs(id)), toServer' = toServer \o msgs,
           \A n \in 1 .. Len(msgs) : msgs[n].kind \in QuietKinds
    PROVE  QuietQueue(0)
<1>1. /\ Len(toServer') = Len(toServer) + Len(msgs)
      /\ \A n \in 1 .. Len(toServer) + Len(msgs) :
           toServer'[n] = IF n <= Len(toServer) THEN toServer[n] ELSE msgs[n - Len(toServer)]
  BY QueueTyped, ConcatProperties
<1>2. Len(msgs) \in Nat /\ Len(toServer) \in Nat
  BY QueueTyped, LenProperties
<1>3. ASSUME NEW n \in 1 .. Len(toServer'), n > Len(toServer)
      PROVE  toServer'[n].kind \in QuietKinds
  <2>1. n - Len(toServer) \in 1 .. Len(msgs)
    BY <1>1, <1>2, <1>3
  <2>. QED  BY <1>1, <1>2, <1>3, <2>1
<1>4. ASSUME NEW n \in 1 .. Len(toServer'), n <= Len(toServer)
      PROVE  n + 0 \in 1 .. Len(toServer) /\ toServer'[n] = toServer[n + 0]
  BY <1>1, <1>2, <1>4
<1>. QED  BY <1>1, <1>2, <1>3, <1>4 DEF QuietQueue

LEMMA QueueAppended ==
    ASSUME Typed, NEW m, toServer' = Append(toServer, m)
    PROVE  /\ Len(toServer') = Len(toServer) + 1
           /\ \A n \in 1 .. Len(toServer) : toServer'[n] = toServer[n]
           /\ toServer'[Len(toServer) + 1] = m
BY QueueTyped

(* A step after which everybody owns what it owned.                         *)
EntriesKept ==
    \A k \in DOMAIN clients : k \in DOMAIN clients' /\ clients'[k].conn = clients[k].conn

LEMMA EntriesKeptByResize ==
    ASSUME NEW k, NEW n, NEW c, clients' = SetClientSize(clients, k, n, c)
    PROVE  EntriesKept
BY DEF SetClientSize, Put, EntriesKept

LEMMA QuietStep ==
    ASSUME Typed, OwnIds, EntriesKept, NEW d \in {0, 1}, QuietQueue(d),
           UNCHANGED <<id, router, arriving, senders, main>>
    PROVE  OwnIds'
<1>1. \A c : OwnsEntry(c, id, clients) => OwnsEntry(c, id, clients')
  BY DEF OwnsEntry, EntriesKept
<1>2. \A n \in 1 .. Len(toServer') : Leaving(toServer'[n]) =>
         n + d \in 1 .. Len(toServer) /\ toServer'[n] = toServer[n + d]
  BY DEF QuietQueue, Leaving, QuietKinds
<1>3. \A c : NotAsked(c, toServer, main) => NotAsked(c, toServer', main)
  BY <1>2 DEF NotAsked
<1>4. RequestsAreOwn(id, clients', senders, toServer', main)
  <2>. SUFFICES ASSUME NEW n \in 1 .. Len(toServer'), Leaving(toServer'[n])
                PROVE  /\ AsksForItself(toServer'[n], id)
                       /\ OwnsEntry(toServer'[n].conn, id, clients')
                       /\ OwnsSender(toServer'[n].conn, id, senders)
                       /\ \A j \in 1 .. Len(toServer') :
                            Leaving(toServer'[j]) /\ toServer'[j].conn = toServer'[n].conn
                              => j = n
                       /\ main # Idle => main.asker # toServer'[n].conn
    BY DEF RequestsAreOwn
  <2>1. n + d \in 1 .. Len(toServer) /\ toServer'[n] = toServer[n + d]
    BY <1>2
  <2>2. /\ AsksForItself(toServer[n + d], id)
        /\ OwnsEntry(toServer[n + d].conn, id, clients)
        /\ OwnsSender(toServer[n + d].conn, id, senders)
        /\ \A j \in 1 .. Len(toServer) :
             Leaving(toServer[j]) /\ toServer[j].conn = toServer[n + d].conn => j = n + d
        /\ main # Idle => main.asker # toServer[n + d].conn
    BY <2>1 DEF OwnIds, RequestsAreOwn
  <2>3. ASSUME NEW j \in 1 .. Len(toServer'), Leaving(toServer'[j]),
               toServer'[j].conn = toServer'[n].conn
        PROVE  j = n
    <3>1. j + d \in 1 .. Len(toServer) /\ toServer'[j] = toServer[j + d]
      BY <1>2, <2>3
    <3>2. j + d = n + d
      BY <2>1, <2>2, <2>3, <3>1
    <3>. QED  BY <3>2
  <2>. QED  BY <1>1, <2>1, <2>2, <2>3
<1>5. \A k \in DOMAIN senders : k \in DOMAIN clients' /\ clients'[k].conn = senders[k]
  BY DEF OwnIds, EntriesKept
<1>6. RemovalIsOwn(id, clients', senders, main)
  BY <1>1 DEF OwnIds, RemovalIsOwn
<1>. QED  BY <1>1, <1>3, <1>4, <1>5, <1>6 DEF OwnIds

(* Two connections that own their entries have different ids.               *)
LEMMA OwnersDiffer ==
    ASSUME NEW c, NEW d, NEW i, NEW cs, c # d, OwnsEntry(c, i, cs), OwnsEntry(d, i, cs)
    PROVE  i[c] # i[d]
BY DEF OwnsEntry

(* A router lets its client go.                                             *)
LEMMA LetsGo ==
    ASSUME Typed, OwnIds, NEW c \in Conns, router[c] = "on",
           router' = [router EXCEPT ![c] = "done"],
           NEW m, Leaving(m), m.conn = c, AsksForItself(m, id),
           toServer' = Append(toServer, m),
           UNCHANGED <<id, arriving, clients, senders, main>>
    PROVE  OwnIds'
<1>. DEFINE l == Len(toServer) + 1
<1>1. /\ Len(toServer') = l /\ l \in Nat /\ Len(toServer) \in Nat
      /\ \A n \in 1 .. Len(toServer) : toServer'[n] = toServer[n]
      /\ toServer'[l] = m
  BY QueueAppended, QueueTyped
<1>2. \A n \in 1 .. Len(toServer') : n = l \/ n \in 1 .. Len(toServer)
  BY <1>1
<1>3. \A d \in Conns : router'[d] = IF d = c THEN "done" ELSE router[d]
  BY DEF Typed, ThreadsTyped
<1>4. NotAsked(c, toServer, main)
  BY DEF OwnIds
<1>5. \A d \in Conns : router'[d] # "done" => NotAsked(d, toServer', main)
  <2>. SUFFICES ASSUME NEW d \in Conns, router'[d] # "done"
                PROVE  NotAsked(d, toServer', main)
    OBVIOUS
  <2>1. d # c /\ NotAsked(d, toServer, main)
    BY <1>3 DEF OwnIds
  <2>. QED  BY <1>1, <1>2, <2>1 DEF NotAsked
<1>6. RequestsAreOwn(id, clients, senders, toServer', main)
  <2>. SUFFICES ASSUME NEW n \in 1 .. Len(toServer'), Leaving(toServer'[n])
                PROVE  /\ AsksForItself(toServer'[n], id)
                       /\ OwnsEntry(toServer'[n].conn, id, clients)
                       /\ OwnsSender(toServer'[n].conn, id, senders)
                       /\ \A j \in 1 .. Len(toServer') :
                            Leaving(toServer'[j]) /\ toServer'[j].conn = toServer'[n].conn
                              => j = n
                       /\ main # Idle => main.asker # toServer'[n].conn
    BY DEF RequestsAreOwn
  <2>1. CASE n = l
    <3>1. OwnsEntry(c, id, clients) /\ OwnsSender(c, id, senders)
      BY DEF OwnIds
    <3>2. \A j \in 1 .. Len(toServer') : Leaving(toServer'[j]) /\ toServer'[j].conn = c => j = l
      BY <1>1, <1>2, <1>4 DEF NotAsked
    <3>. QED  BY <1>1, <1>4, <2>1, <3>1, <3>2 DEF NotAsked
  <2>2. CASE n \in 1 .. Len(toServer)
    <3>1. /\ toServer'[n] = toServer[n]
          /\ AsksForItself(toServer[n], id)
          /\ OwnsEntry(toServer[n].conn, id, clients)
          /\ OwnsSender(toServer[n].conn, id, senders)
          /\ \A j \in 1 .. Len(toServer) :
               Leaving(toServer[j]) /\ toServer[j].conn = toServer[n].conn => j = n
          /\ main # Idle => main.asker # toServer[n].conn
      BY <1>1, <2>2 DEF OwnIds, RequestsAreOwn
    <3>2. toServer[n].conn # c
      BY <1>4, <2>2, <3>1 DEF NotAsked
    <3>3. \A j \in 1 .. Len(toServer') :
            Leaving(toServer'[j]) /\ toServer'[j].conn = toServer'[n].conn => j = n
      BY <1>1, <1>2, <3>1, <3>2
    <3>. QED  BY <3>1, <3>3
  <2>. QED  BY <1>2, <2>1, <2>2
<1>7. \A d \in Conns : router'[d] = "on" =>
         OwnsEntry(d, id, clients) /\ OwnsSender(d, id, senders)
  BY <1>3 DEF OwnIds
<1>8. arriving # NoConn => OwnsEntry(arriving, id, clients) /\ router'[arriving] = "none"
  BY <1>3 DEF OwnIds, Typed, ThreadsTyped
<1>. QED  BY <1>5, <1>6, <1>7, <1>8 DEF OwnIds

(* The main loop starts to remove a client that asked for it.               *)
LEMMA TakesRequest ==
    ASSUME Typed, OwnIds, main = Idle, toServer # <<>>, Leaving(Msg),
           toServer' = Tail(toServer), NEW announce,
           main' = [ids |-> <<id[Msg.conn]>>, half |-> FALSE, announce |-> announce,
                    asker |-> Msg.conn, next |-> "running"],
           UNCHANGED <<id, router, arriving, clients, senders>>
    PROVE  OwnIds'
<1>1. /\ Len(toServer) \in Nat /\ 1 \in 1 .. Len(toServer) /\ Msg = toServer[1]
      /\ \A n \in 1 .. Len(toServer') :
           n + 1 \in 1 .. Len(toServer) /\ toServer'[n] = toServer[n + 1]
  BY QueueTyped, QueueShrinks
<1>2. /\ AsksForItself(Msg, id) /\ OwnsEntry(Msg.conn, id, clients)
      /\ \A j \in 1 .. Len(toServer) :
           Leaving(toServer[j]) /\ toServer[j].conn = Msg.conn => j = 1
  BY <1>1 DEF OwnIds, RequestsAreOwn
<1>3. \A c \in Conns : router[c] # "done" => NotAsked(c, toServer', main')
  BY <1>1 DEF OwnIds, NotAsked
<1>4. RequestsAreOwn(id, clients, senders, toServer', main')
  <2>. SUFFICES ASSUME NEW n \in 1 .. Len(toServer'), Leaving(toServer'[n])
                PROVE  /\ AsksForItself(toServer'[n], id)
                       /\ OwnsEntry(toServer'[n].conn, id, clients)
                       /\ OwnsSender(toServer'[n].conn, id, senders)
                       /\ \A j \in 1 .. Len(toServer') :
                            Leaving(toServer'[j]) /\ toServer'[j].conn = toServer'[n].conn
                              => j = n
                       /\ main' # Idle => main'.asker # toServer'[n].conn
    BY DEF RequestsAreOwn
  <2>1. /\ n + 1 \in 1 .. Len(toServer) /\ toServer'[n] = toServer[n + 1]
        /\ AsksForItself(toServer[n + 1], id)
        /\ OwnsEntry(toServer[n + 1].conn, id, clients)
        /\ OwnsSender(toServer[n + 1].conn, id, senders)
        /\ \A j \in 1 .. Len(toServer) :
             Leaving(toServer[j]) /\ toServer[j].conn = toServer[n + 1].conn => j = n + 1
    BY <1>1 DEF OwnIds, RequestsAreOwn
  <2>2. \A j \in 1 .. Len(toServer') :
          Leaving(toServer'[j]) /\ toServer'[j].conn = toServer'[n].conn => j = n
    <3>. SUFFICES ASSUME NEW j \in 1 .. Len(toServer'), Leaving(toServer'[j]),
                         toServer'[j].conn = toServer'[n].conn
                  PROVE  j = n
      OBVIOUS
    <3>1. j + 1 \in 1 .. Len(toServer) /\ toServer'[j] = toServer[j + 1]
      BY <1>1
    <3>2. j + 1 = n + 1
      BY <2>1, <3>1
    <3>. QED  BY <3>2
  <2>3. toServer[n + 1].conn # Msg.conn
    <3>1. n + 1 # 1
      OBVIOUS
    <3>. QED  BY <1>2, <2>1, <3>1
  <2>. QED  BY <2>1, <2>2, <2>3
<1>5. RemovalIsOwn(id, clients, senders, main')
  BY <1>2 DEF RemovalIsOwn, AsksForItself
<1>. QED  BY <1>3, <1>4, <1>5 DEF OwnIds

LEMMA DropSenderOwn ==
    ASSUME Typed, OwnIds, DropSender
    PROVE  OwnIds'
<1>. DEFINE a == main.asker
<1>1. main # Idle /\ main' # Idle /\ main'.asker = a /\ main'.ids = main.ids
      /\ main'.next = main.next
  BY DEF DropSender, Idle, Typed, ServerTyped, Removals
<1>2. /\ a \in Conns /\ main.ids = <<id[a]>> /\ main.next = "running"
      /\ OwnsEntry(a, id, clients)
  BY <1>1 DEF OwnIds, RemovalIsOwn
<1>3. senders' = Drop(senders, id[a])
  BY <1>2 DEF DropSender
<1>4. ASSUME NEW c, c # a, OwnsEntry(c, id, clients), OwnsSender(c, id, senders)
      PROVE  OwnsSender(c, id, senders')
  <2>1. id[c] # id[a]
    BY <1>2, <1>4, OwnersDiffer
  <2>. QED  BY <1>3, <1>4, <2>1 DEF Drop, OwnsSender
<1>5. UNCHANGED <<id, router, arriving, clients, toServer>>
  BY DEF DropSender
<1>6. \A c \in Conns : NotAsked(c, toServer, main) => c # a /\ NotAsked(c, toServer, main')
  BY <1>1 DEF NotAsked
<1>7. \A c \in Conns : router[c] = "on" => OwnsSender(c, id, senders')
  BY <1>4, <1>6 DEF OwnIds
<1>8. RequestsAreOwn(id, clients, senders', toServer, main')
  BY <1>1, <1>4 DEF OwnIds, RequestsAreOwn
<1>9. \A k \in DOMAIN senders' : k \in DOMAIN senders /\ senders'[k] = senders[k]
  BY <1>3 DEF Drop
<1>10. RemovalIsOwn(id, clients, senders', main')
  BY <1>1, <1>2, <1>3 DEF RemovalIsOwn, Drop
<1>. QED  BY <1>5, <1>6, <1>7, <1>8, <1>9, <1>10 DEF OwnIds

LEMMA UnregisterOwn ==
    ASSUME Typed, OwnIds, Unregister
    PROVE  OwnIds'
<1>. DEFINE a == main.asker
<1>1. main # Idle
  BY DEF Unregister, Idle
<1>2. /\ a \in Conns /\ main.ids = <<id[a]>> /\ main.next = "running"
      /\ OwnsEntry(a, id, clients) /\ id[a] \notin DOMAIN senders
  BY <1>1 DEF OwnIds, RemovalIsOwn, Unregister
<1>3. clients' = Drop(clients, id[a]) /\ main' = Idle
  BY <1>2 DEF Unregister
<1>4. UNCHANGED <<id, router, arriving, senders, toServer>>
  BY DEF Unregister
<1>5. ASSUME NEW c, c # a, OwnsEntry(c, id, clients)
      PROVE  OwnsEntry(c, id, clients')
  <2>1. id[c] # id[a]
    BY <1>2, <1>5, OwnersDiffer
  <2>. QED  BY <1>3, <1>5, <2>1 DEF Drop, OwnsEntry
<1>6. \A c \in Conns : NotAsked(c, toServer, main) => c # a /\ NotAsked(c, toServer, main')
  BY <1>1, <1>3 DEF NotAsked
<1>7. \A c \in Conns : router[c] = "on" => OwnsEntry(c, id, clients')
  BY <1>5, <1>6 DEF OwnIds
<1>8. arriving # NoConn => OwnsEntry(arriving, id, clients')
  BY <1>5, <1>6 DEF OwnIds, Typed, ThreadsTyped
<1>9. \A k \in DOMAIN senders : k \in DOMAIN clients' /\ clients'[k].conn = senders[k]
  BY <1>2, <1>3 DEF OwnIds, Drop
<1>10. RequestsAreOwn(id, clients', senders, toServer, main')
  BY <1>1, <1>3, <1>5 DEF OwnIds, RequestsAreOwn
<1>. QED  BY <1>3, <1>4, <1>6, <1>7, <1>8, <1>9, <1>10 DEF OwnIds, RemovalIsOwn

LEMMA AcceptOwn ==
    ASSUME Typed, OwnIds, NEW c \in Conns, Accept(c)
    PROVE  OwnIds'
<1>. DEFINE k == FreshId(clients)
<1>1. k \in Ids /\ k \notin DOMAIN clients
  BY IdForNewClient DEF Accept
<1>2. /\ clients' = Put(clients, k, [conn |-> c, size |-> NoSize])
      /\ id' = [id EXCEPT ![c] = k] /\ arriving' = c
      /\ UNCHANGED <<router, senders, toServer, main>>
  BY DEF Accept
<1>3. id[c] = 0 /\ router[c] = "none" /\ id \in [Conns -> Ids \cup {0}]
  BY DEF Accept, Typed, IdsAreKept, ThreadsTyped
<1>4. 0 \notin DOMAIN clients
  <2>1. DOMAIN clients \subseteq Ids
    BY PartialMember DEF Typed, ServerTyped, Registers
  <2>. QED  BY <2>1 DEF Ids
<1>5. ASSUME NEW d \in Conns, OwnsEntry(d, id, clients)
      PROVE  d # c /\ id'[d] = id[d] /\ OwnsEntry(d, id', clients')
  <2>1. d # c /\ id'[d] = id[d]
    BY <1>2, <1>3, <1>4, <1>5 DEF OwnsEntry
  <2>. QED  BY <1>1, <1>2, <1>5, <2>1 DEF OwnsEntry, Put
<1>6. OwnsEntry(c, id', clients')
  BY <1>2, <1>3 DEF OwnsEntry, Put
<1>7. \A d \in Conns : router[d] = "on" =>
         OwnsEntry(d, id', clients') /\ OwnsSender(d, id', senders)
  BY <1>5 DEF OwnIds, OwnsSender
<1>8. \A j \in DOMAIN senders : j \in DOMAIN clients' /\ clients'[j].conn = senders[j]
  BY <1>1, <1>2 DEF OwnIds, Put
<1>9. RequestsAreOwn(id', clients', senders, toServer, main)
  <2>. SUFFICES ASSUME NEW n \in 1 .. Len(toServer), Leaving(toServer[n])
                PROVE  /\ AsksForItself(toServer[n], id')
                       /\ OwnsEntry(toServer[n].conn, id', clients')
                       /\ OwnsSender(toServer[n].conn, id', senders)
    BY DEF RequestsAreOwn, OwnIds
  <2>1. /\ AsksForItself(toServer[n], id)
        /\ OwnsEntry(toServer[n].conn, id, clients)
        /\ OwnsSender(toServer[n].conn, id, senders)
    BY DEF RequestsAreOwn, OwnIds
  <2>2. toServer[n].conn \in Conns
    BY <2>1 DEF AsksForItself
  <2>. QED  BY <1>5, <2>1, <2>2 DEF AsksForItself, OwnsSender
<1>10. RemovalIsOwn(id', clients', senders, main)
  BY <1>5 DEF OwnIds, RemovalIsOwn
<1>. QED  BY <1>2, <1>3, <1>6, <1>7, <1>8, <1>9, <1>10 DEF OwnIds

LEMMA WelcomeOwn ==
    ASSUME Typed, OwnIds, Welcome
    PROVE  OwnIds'
<1>. DEFINE a == arriving
<1>1. a \in Conns /\ OwnsEntry(a, id, clients) /\ router[a] = "none"
      /\ NotAsked(a, toServer, main)
  BY DEF Welcome, OwnIds, Typed, ThreadsTyped
<1>2. /\ senders' = Put(senders, id[a], a) /\ arriving' = NoConn
      /\ router' = [router EXCEPT ![a] = "on"]
      /\ UNCHANGED <<id, clients, toServer, main>>
  BY DEF Welcome
<1>3. \A c \in Conns : router'[c] = IF c = a THEN "on" ELSE router[c]
  BY <1>2 DEF Typed, ThreadsTyped
<1>4. OwnsSender(a, id, senders')
  BY <1>2 DEF OwnsSender, Put
<1>5. ASSUME NEW c, OwnsEntry(c, id, clients), OwnsSender(c, id, senders)
      PROVE  OwnsSender(c, id, senders')
  BY <1>1, <1>2, <1>5, OwnersDiffer DEF OwnsSender, Put
<1>6. \A k \in DOMAIN senders' : k \in DOMAIN clients /\ clients[k].conn = senders'[k]
  BY <1>1, <1>2 DEF OwnIds, OwnsEntry, Put
<1>7. RequestsAreOwn(id, clients, senders', toServer, main)
  BY <1>5 DEF OwnIds, RequestsAreOwn
<1>8. RemovalIsOwn(id, clients, senders', main)
  <2>. SUFFICES ASSUME main # Idle, main.half
                PROVE  id[main.asker] \notin DOMAIN senders'
    BY DEF OwnIds, RemovalIsOwn
  <2>1. main.asker # a /\ OwnsEntry(main.asker, id, clients)
        /\ id[main.asker] \notin DOMAIN senders
    BY <1>1 DEF OwnIds, RemovalIsOwn, NotAsked
  <2>2. id[main.asker] # id[a]
    BY <1>1, <2>1, OwnersDiffer
  <2>. QED  BY <1>2, <2>1, <2>2 DEF Put
<1>9. \A c \in Conns : router'[c] = "on" =>
         OwnsEntry(c, id, clients) /\ OwnsSender(c, id, senders')
  BY <1>1, <1>3, <1>4, <1>5 DEF OwnIds
<1>10. \A c \in Conns : router'[c] # "done" => NotAsked(c, toServer, main)
  BY <1>1, <1>3 DEF OwnIds
<1>. QED  BY <1>2, <1>6, <1>7, <1>8, <1>9, <1>10 DEF OwnIds

LEMMA QuietIsCalm ==
    ASSUME Typed, NoAlarm, NEW d \in {0, 1}, QuietQueue(d)
    PROVE  \A n \in 1 .. Len(toServer') : toServer'[n].kind \notin Alarms
BY DEF NoAlarm, QuietQueue, QuietKinds, Alarms

LEMMA LeavingIsCalm ==
    ASSUME Typed, NoAlarm, NEW m, Leaving(m), toServer' = Append(toServer, m)
    PROVE  \A n \in 1 .. Len(toServer') : toServer'[n].kind \notin Alarms
<1>1. /\ Len(toServer') = Len(toServer) + 1 /\ Len(toServer) \in Nat
      /\ \A n \in 1 .. Len(toServer) : toServer'[n] = toServer[n]
      /\ toServer'[Len(toServer) + 1] = m
  BY QueueAppended, QueueTyped
<1>. QED  BY <1>1 DEF NoAlarm, Leaving, Alarms

Calm == NoAlarm /\ OwnIds

(* A router passes on one message, with which its client comes or leaves.   *)
LEMMA RouteCalm ==
    ASSUME Typed, Calm, NEW c \in Conns, NEW phase, NEW ends, NEW m \in ServerMsgs(id),
           Route(c, phase, ends, <<m>>),
           \/ ~ends /\ m.kind \in QuietKinds
           \/ ends /\ Leaving(m) /\ m.conn = c /\ AsksForItself(m, id)
    PROVE  Calm'
<1>1. /\ router[c] = "on" /\ router \in [Conns -> {"none", "on", "done"}]
      /\ UNCHANGED <<id, arriving, clients, senders, main, screen, session, measured>>
      /\ toServer' = toServer \o <<m>>
      /\ router' = [router EXCEPT ![c] = IF ends THEN "done" ELSE "on"]
  BY DEF Route, Routing, serverVars, Typed, ThreadsTyped
<1>2. <<m>> \in Seq(ServerMsgs(id)) /\ \A n \in 1 .. Len(<<m>>) : <<m>>[n] = m
  OBVIOUS
<1>3. toServer' = Append(toServer, m)
  BY <1>1, QueueTyped, AppendIsConcat
<1>4. CASE ~ends /\ m.kind \in QuietKinds
  <2>1. QuietQueue(0)
    BY <1>1, <1>2, <1>4, QueueGrows
  <2>2. router' = router
    BY <1>1, <1>4
  <2>3. OwnIds'
    BY <1>1, <2>1, <2>2, QuietStep DEF Calm, EntriesKept
  <2>4. NoAlarm'
    BY <1>1, <2>1, QuietIsCalm DEF Calm, NoAlarm
  <2>. QED  BY <2>3, <2>4 DEF Calm
<1>5. CASE ends /\ Leaving(m) /\ m.conn = c /\ AsksForItself(m, id)
  <2>1. OwnIds'
    BY <1>1, <1>3, <1>5, LetsGo DEF Calm
  <2>2. NoAlarm'
    BY <1>1, <1>3, <1>5, LeavingIsCalm DEF Calm, NoAlarm
  <2>. QED  BY <2>1, <2>2 DEF Calm
<1>. QED  BY <1>4, <1>5

LEMMA RouterCalm ==
    ASSUME Orderly, Typed, Calm, NEW c \in Conns, Router(c)
    PROVE  Calm'
<1>0. /\ \A k : ~TooSlow(k)
      /\ Role[c] \notin {"init", "kill"}
  BY OrderlyMeans
<1>1. router[c] = "on" =>
        /\ \A kind \in AboutKinds : About(kind, c) \in ServerMsgs(id)
        /\ \A kind \in SizedKinds, s \in Sizes : Sized(kind, c, s) \in ServerMsgs(id)
        /\ Detaching(c, <<id[c]>>) \in ServerMsgs(id)
  <2>1. ASSUME router[c] = "on" PROVE <<id[c]>> \in Seq(Ids)
    <3>1. id[c] \in Ids
      BY <2>1, MessagesTyped
    <3>. QED  BY <3>1
  <2>. QED  BY <2>1, MessagesTyped
<1>2. /\ \A kind \in {"ClientExit", "RemoveClient", "ConnStatus"} :
           Leaving(About(kind, c)) /\ About(kind, c).conn = c /\ AsksForItself(About(kind, c), id)
      /\ Leaving(Detaching(c, <<id[c]>>)) /\ Detaching(c, <<id[c]>>).conn = c
      /\ AsksForItself(Detaching(c, <<id[c]>>), id)
  BY DEF About, Detaching, Leaving, AsksForItself
<1>3. ASSUME RouteServerMode(c) PROVE Calm'
  <2>1. Route(c, "asked", FALSE, <<About("Mode", c)>>) /\ router[c] = "on"
    BY <1>3 DEF RouteServerMode, Route, Routing
  <2>2. About("Mode", c).kind \in QuietKinds
    BY DEF About, QuietKinds
  <2>. QED  BY <1>1, <2>1, <2>2, RouteCalm DEF AboutKinds
<1>4. ASSUME RouteFirstMessage(c) PROVE Calm'
  <2>1. PICK s \in Sizes, kind \in SizedKinds :
           Route(c, "attached", FALSE, <<Sized(kind, c, s)>>) /\ router[c] = "on"
    BY <1>4 DEF RouteFirstMessage, SizedKinds, Route, Routing
  <2>2. Sized(kind, c, s).kind \in QuietKinds
    BY DEF Sized, QuietKinds, SizedKinds
  <2>. QED  BY <1>1, <2>1, <2>2, RouteCalm
<1>5. ASSUME RouteConnStatus(c) PROVE Calm'
  <2>1. Route(c, "asked", TRUE, <<About("ConnStatus", c)>>) /\ router[c] = "on"
    BY <1>5 DEF RouteConnStatus, Route, Routing
  <2>. QED  BY <1>1, <1>2, <2>1, RouteCalm DEF AboutKinds
<1>6. ASSUME RouteDetach(c) PROVE Calm'
  <2>1. Route(c, "attached", TRUE, <<Detaching(c, <<id[c]>>)>>) /\ router[c] = "on"
    BY <1>6 DEF RouteDetach, Route, Routing
  <2>. QED  BY <1>1, <1>2, <2>1, RouteCalm
<1>7. ASSUME RouteQuit(c) PROVE Calm'
  <2>1. Route(c, "attached", TRUE, <<About("ClientExit", c)>>) /\ router[c] = "on"
    BY <1>7 DEF RouteQuit, Route, Routing
  <2>. QED  BY <1>1, <1>2, <2>1, RouteCalm DEF AboutKinds
<1>8. ASSUME RouteClientExited(c) PROVE Calm'
  <2>1. Route(c, "left", TRUE, <<About("RemoveClient", c)>>) /\ router[c] = "on"
    BY <1>8 DEF RouteClientExited, Route, Routing
  <2>. QED  BY <1>1, <1>2, <2>1, RouteCalm DEF AboutKinds
<1>9. ASSUME RouteEndOfStream(c) PROVE Calm'
  <2>1. /\ router[c] = "on" /\ router' = [router EXCEPT ![c] = "done"]
        /\ toServer' = Append(toServer, About("RemoveClient", c))
        /\ UNCHANGED <<id, arriving, clients, senders, main, screen, session, measured>>
    BY <1>9 DEF RouteEndOfStream, Routing, serverVars
  <2>2. OwnIds'
    BY <1>2, <2>1, LetsGo DEF Calm
  <2>3. NoAlarm'
    BY <1>2, <2>1, LeavingIsCalm DEF Calm, NoAlarm
  <2>. QED  BY <2>2, <2>3 DEF Calm
<1>10. ASSUME NEW s \in Sizes, RouteResize(c, s) PROVE Calm'
  <2>1. /\ session /\ router[c] = "on"
        /\ clients' = SetClientSize(clients, id[c], s, c)
        /\ UNCHANGED <<id, router, arriving, senders, toServer, main, screen, session>>
    BY <1>10 DEF RouteResize, Routing, Orderly
  <2>2. EntriesKept
    BY <2>1, EntriesKeptByResize
  <2>3. QuietQueue(0)
    BY <2>1, QueueSame
  <2>4. OwnIds'
    BY <2>1, <2>2, <2>3, QuietStep DEF Calm
  <2>5. NoAlarm'
    BY <2>1, <2>3, QuietIsCalm DEF Calm, NoAlarm
  <2>. QED  BY <2>4, <2>5 DEF Calm
<1>11. ASSUME RouteResizeAnnounce(c) PROVE Calm'
  <2>1. /\ session /\ screen.up
        /\ measured' = [measured EXCEPT ![c] = NoSize]
        /\ UNCHANGED <<id, router, arriving, clients, senders, toServer, main, screen, session>>
    BY <1>11 DEF RouteResizeAnnounce, Calm, NoAlarm
  <2>2. QuietQueue(0)
    BY <2>1, QueueSame
  <2>3. OwnIds'
    BY <2>1, <2>2, QuietStep DEF Calm, EntriesKept
  <2>4. NoAlarm'
    BY <2>1, <2>2, QuietIsCalm DEF Calm, NoAlarm
  <2>. QED  BY <2>3, <2>4 DEF Calm
<1>12. ASSUME RouteSwitchToMode(c) \/ RouteCommand(c) PROVE Calm'
  <2>1. UNCHANGED <<id, router, arriving, clients, senders, toServer, main, screen, session,
                    measured>>
    BY <1>0, <1>12 DEF RouteSwitchToMode, RouteCommand, serverVars
  <2>2. QuietQueue(0)
    BY <2>1, QueueSame
  <2>3. OwnIds'
    BY <2>1, <2>2, QuietStep DEF Calm, EntriesKept
  <2>4. NoAlarm'
    BY <2>1, <2>2, QuietIsCalm DEF Calm, NoAlarm
  <2>. QED  BY <2>3, <2>4 DEF Calm
<1>13. ~RouteInit(c) /\ ~RouteKillSession(c)
  BY <1>0 DEF RouteInit, RouteKillSession
<1>. QED
  BY <1>3, <1>4, <1>5, <1>6, <1>7, <1>8, <1>9, <1>10, <1>11, <1>12, <1>13 DEF Router

LEMMA ComingAndGoingCalm ==
    ASSUME Typed, Calm, NEW c \in Conns, Accept(c) \/ Leave(c) \/ Die(c)
    PROVE  Calm'
<1>1. UNCHANGED <<toServer, main, screen, session, measured>>
  BY DEF Accept, Leave, Die, serverVars
<1>2. QuietQueue(0)
  BY <1>1, QueueSame
<1>3. NoAlarm'
  BY <1>1, <1>2, QuietIsCalm DEF Calm, NoAlarm
<1>4. CASE Accept(c)
  BY <1>3, <1>4, AcceptOwn DEF Calm
<1>5. CASE Leave(c) \/ Die(c)
  <2>1. UNCHANGED <<id, router, arriving, clients, senders, main>>
    BY <1>5 DEF Leave, Die, serverVars
  <2>2. OwnIds'
    BY <1>2, <2>1, QuietStep DEF Calm, EntriesKept
  <2>. QED  BY <1>3, <2>2 DEF Calm
<1>. QED  BY <1>4, <1>5

LEMMA WelcomeCalm ==
    ASSUME Typed, Calm, Welcome
    PROVE  Calm'
<1>1. UNCHANGED <<toServer, main, screen, session, measured>>
  BY DEF Welcome
<1>2. NoAlarm'
  BY <1>1, QueueSame, QuietIsCalm DEF Calm, NoAlarm
<1>. QED  BY <1>2, WelcomeOwn DEF Calm

(* Handlers after which the main loop is idle                               *)
LEMMA IdleCalm ==
    ASSUME Typed, Calm, toServer # <<>>, toServer' = Tail(toServer), main' = main, EntriesKept,
           UNCHANGED <<id, router, arriving, senders, measured>>,
           screen'.up, screen'.tabs # "closed", session => session'
    PROVE  Calm'
<1>1. QuietQueue(1)
  BY QueueShrinks
<1>2. OwnIds'
  BY <1>1, QuietStep DEF Calm
<1>3. NoAlarm'
  BY <1>1, QuietIsCalm DEF Calm, NoAlarm
<1>. QED  BY <1>2, <1>3 DEF Calm

(* Handlers of what a router sent with which its client leaves              *)
LEMMA RemovalCalm ==
    ASSUME Typed, Calm, toServer # <<>>, main = Idle, Leaving(Msg),
           NEW h, NEW ids, ids = <<id[Msg.conn]>>, NEW announce,
           Dispatch(h, Removal(ids, announce, "running"))
    PROVE  Calm'
<1>1. /\ toServer' = Tail(toServer)
      /\ main' = [ids |-> <<id[Msg.conn]>>, half |-> FALSE, announce |-> announce,
                  asker |-> Msg.conn, next |-> "running"]
      /\ UNCHANGED <<id, router, arriving, clients, senders, screen, session, measured>>
  BY DEF Dispatch, Removal
<1>2. OwnIds'
  BY <1>1, TakesRequest DEF Calm
<1>3. NoAlarm'
  BY <1>1, QueueShrinks, QuietIsCalm DEF Calm, NoAlarm
<1>. QED  BY <1>2, <1>3 DEF Calm

LEMMA MainLoopCalm ==
    ASSUME Orderly, Typed, Calm, MainLoop
    PROVE  Calm'
<1>0. (\A k : ~TooSlow(k)) /\ ~Foreground
  BY OrderlyMeans
<1>1. \A kind : Takes(kind) => main = Idle /\ toServer # <<>> /\ Msg.kind = kind
  BY DEF Takes, Msg
<1>2. toServer # <<>> => Msg.kind \notin Alarms
  BY QueueTyped DEF Calm, NoAlarm
<1>3. toServer # <<>> /\ Leaving(Msg) => AsksForItself(Msg, id)
  BY QueueTyped DEF Calm, OwnIds, RequestsAreOwn
<1>4. ~HandleKillSession /\ ~HandleError /\ ~HandleRenderNone /\ ~HandleSwitchSession
  BY <1>1, <1>2 DEF HandleKillSession, HandleError, HandleRenderNone, HandleSwitchSession, Alarms
<1>5. ASSUME NEW h, Dispatch(h, Idle), main = Idle, toServer # <<>>
      PROVE  Calm'
  BY <1>5, IdleCalm DEF Dispatch, EntriesKept, Calm, NoAlarm
<1>6. ASSUME NEW how, EndLoop(how), toServer # <<>>
      PROVE  Calm'
  BY <1>6, IdleCalm DEF EndLoop, EntriesKept, Calm, NoAlarm
<1>7. ASSUME toServer # <<>>, Msg.kind \in SizedKinds,
             clients' = SetClientSize(clients, Msg.id, Msg.size, Msg.conn)
      PROVE  EntriesKept
  BY <1>7, EntriesKeptByResize
<1>8. ASSUME HandleNewClient PROVE Calm'
  <2>1. /\ toServer # <<>> /\ Msg.kind \in SizedKinds
        /\ clients' = SetClientSize(clients, Msg.id, Msg.size, Msg.conn)
        /\ toServer' = Tail(toServer) /\ session' = TRUE /\ screen' = NewScreen(Msg.size)
        /\ UNCHANGED <<id, router, arriving, senders, main, measured>>
    BY <1>1, <1>8 DEF HandleNewClient, SizedKinds
  <2>2. EntriesKept
    BY <1>7, <2>1
  <2>. QED  BY <2>1, <2>2, IdleCalm DEF NewScreen
<1>9. ASSUME HandleAttachClient PROVE Calm'
  <2>1. toServer # <<>> /\ Msg.kind \in SizedKinds /\ main = Idle
    BY <1>1, <1>9 DEF HandleAttachClient, SizedKinds
  <2>2. CASE EndLoop("panicked")
    BY <1>6, <2>1, <2>2
  <2>3. CASE ~EndLoop("panicked")
    <3>1. /\ clients' = SetClientSize(clients, Msg.id, Msg.size, Msg.conn)
          /\ toServer' = Tail(toServer) /\ main' = Idle
          /\ UNCHANGED <<id, router, arriving, senders, session, screen, measured>>
      BY <1>0, <1>9, <2>3 DEF HandleAttachClient
    <3>2. EntriesKept
      BY <1>7, <2>1, <3>1
    <3>. QED  BY <2>1, <3>1, <3>2, IdleCalm DEF Calm, NoAlarm
  <2>. QED  BY <2>2, <2>3
<1>10. ASSUME HandleUnblockInputThread \/ HandleMode PROVE Calm'
  BY <1>1, <1>5, <1>6, <1>10 DEF HandleUnblockInputThread, HandleMode
<1>11. ASSUME HandleRender PROVE Calm'
  <2>0. {k \in Msg.frames : TooSlow(k)} = {}
    BY <1>0
  <2>a. PICK lost \in SUBSET {k \in Msg.frames : TooSlow(k)} :
         \E o \in Orders(lost) :
           Dispatch(Tell(heard, Msg.frames \ lost, "other"), Removal(o, FALSE, "running"))
    BY <1>11 DEF HandleRender
  <2>b. lost = {}
    BY <2>0, <2>a
  <2>1. PICK o \in Orders({}) :
           Dispatch(Tell(heard, Msg.frames \ lost, "other"), Removal(o, FALSE, "running"))
    BY <2>a, <2>b
  <2>2. o = <<>>
    <3>1. Cardinality({}) = 0
      BY FS_EmptySet
    <3>2. o \in [1 .. 0 -> {}]
      BY <3>1 DEF Orders
    <3>. QED  BY <3>2
  <2>3. Dispatch(Tell(heard, Msg.frames \ lost, "other"), Idle)
    BY <2>1, <2>2 DEF Removal
  <2>. QED  BY <1>1, <1>5, <1>11, <2>3 DEF HandleRender
<1>12. ASSUME HandleRemoveClient \/ HandleClientExit PROVE Calm'
  <2>1. /\ toServer # <<>> /\ main = Idle /\ Leaving(Msg) /\ Msg.kind # "DetachSession"
        /\ Dispatch(heard, Removal(<<Msg.id>>, TRUE, "running"))
    <3>1. /\ Takes("RemoveClient") \/ Takes("ClientExit")
          /\ Dispatch(heard, RemoveOne(Msg.id))
      BY <1>0, <1>12 DEF HandleRemoveClient, HandleClientExit
    <3>2. RemoveOne(Msg.id) = Removal(<<Msg.id>>, TRUE, "running")
      BY DEF RemoveOne
    <3>3. toServer # <<>> /\ main = Idle /\ Msg.kind \in {"RemoveClient", "ClientExit"}
      BY <1>1, <3>1
    <3>4. Dispatch(heard, Removal(<<Msg.id>>, TRUE, "running"))
      BY <3>1, <3>2, Zenon
    <3>. QED  BY <3>3, <3>4 DEF Leaving
  <2>2. <<Msg.id>> = <<id[Msg.conn]>>
    BY <1>3, <2>1 DEF AsksForItself
  <2>. QED  BY <2>1, <2>2, RemovalCalm
<1>13. ASSUME HandleConnStatus PROVE Calm'
  <2>1. PICK h : Dispatch(h, Removal(<<Msg.id>>, FALSE, "running"))
    BY <1>13 DEF HandleConnStatus
  <2>2. toServer # <<>> /\ main = Idle /\ Leaving(Msg) /\ Msg.kind # "DetachSession"
    BY <1>1, <1>13 DEF HandleConnStatus, Leaving
  <2>3. <<Msg.id>> = <<id[Msg.conn]>>
    BY <1>3, <2>2 DEF AsksForItself
  <2>. QED  BY <2>1, <2>2, <2>3, RemovalCalm
<1>14. ASSUME HandleDetachSession PROVE Calm'
  <2>1. /\ toServer # <<>> /\ main = Idle /\ Leaving(Msg) /\ Msg.kind = "DetachSession"
        /\ Dispatch(heard, Removal(Msg.ids, TRUE, "running"))
    BY <1>1, <1>14 DEF HandleDetachSession, Leaving
  <2>2. Msg.ids = <<id[Msg.conn]>>
    BY <1>3, <2>1 DEF AsksForItself
  <2>. QED  BY <2>1, <2>2, RemovalCalm
<1>15. ASSUME DropSender \/ Unregister PROVE Calm'
  <2>1. UNCHANGED <<toServer, screen, session, measured>>
    BY <1>15 DEF DropSender, Unregister
  <2>2. NoAlarm'
    BY <2>1, QueueSame, QuietIsCalm DEF Calm, NoAlarm
  <2>. QED  BY <1>15, <2>2, DropSenderOwn, UnregisterOwn DEF Calm
<1>16. ~FinishInstruction
  BY DEF FinishInstruction, Calm, OwnIds, RemovalIsOwn
<1>. QED
  BY <1>4, <1>8, <1>9, <1>10, <1>11, <1>12, <1>13, <1>14, <1>15, <1>16 DEF MainLoop

LEMMA ScreenCalm ==
    ASSUME Orderly, Typed, Calm, ScreenThread \/ ScreenClosesLastTab
    PROVE  Calm'
<1>0. ~TabsClose
  BY OrderlyMeans
<1>1. screen \in Screens /\ screen' \in Screens
  BY ScreenTyped DEF Typed, ServerTyped
<1>2. screen.up /\ screen.tabs # "closed"
  BY DEF Calm, NoAlarm
<1>3. ASSUME NEW s \in Screens, NEW msgs \in {<<>>, Frames(s), Unblocking \o Frames(s)},
             ScreenBecomes(screen', msgs), screen'.up, screen'.tabs # "closed"
      PROVE  Calm'
  <2>1. msgs \in Seq(ServerMsgs(id))
    <3>1. <<>> \in Seq(ServerMsgs(id))
      OBVIOUS
    <3>. QED  BY <1>3, <3>1, FramesTyped
  <2>2. \A n \in 1 .. Len(msgs) : msgs[n].kind \in QuietKinds
    <3>. DEFINE r == [kind |-> "Render", frames |-> DOMAIN s.clients, conn |-> NoConn]
                u == [kind |-> "UnblockInputThread", conn |-> NoConn]
    <3>1. Frames(s) \in {<<>>, <<r>>} /\ Unblocking = <<u>>
      BY DEF Frames, Unblocking
    <3>2. r.kind \in QuietKinds /\ u.kind \in QuietKinds
      BY DEF QuietKinds
    <3>. HIDE DEF r, u
    <3>3. <<>> \in Seq({u, r}) /\ <<r>> \in Seq({u, r}) /\ <<u>> \in Seq({u, r})
      OBVIOUS
    <3>4. Frames(s) \in Seq({u, r}) /\ Unblocking \in Seq({u, r})
      BY <3>1, <3>3
    <3>5. msgs \in Seq({u, r})
      <4>1. Unblocking \o Frames(s) \in Seq({u, r})
        BY <3>4, ConcatProperties
      <4>. QED  BY <1>3, <3>3, <3>4, <4>1
    <3>. QED  BY <3>2, <3>5, ElementOfSeq
  <2>3. /\ toServer' = toServer \o msgs
        /\ UNCHANGED <<id, router, arriving, clients, senders, main, session, measured>>
    BY <1>3 DEF ScreenBecomes
  <2>4. QuietQueue(0)
    BY <2>1, <2>2, <2>3, QueueGrows
  <2>5. OwnIds'
    BY <2>3, <2>4, QuietStep DEF Calm, EntriesKept
  <2>6. NoAlarm'
    BY <1>3, <2>3, <2>4, QuietIsCalm DEF Calm, NoAlarm
  <2>. QED  BY <2>5, <2>6 DEF Calm
<1>4. \A s, msgs : ScreenBecomes(s, msgs) => s = screen'
  BY DEF ScreenBecomes
<1>5. ASSUME ScreenResizes \/ ScreenCommand PROVE Calm'
  <2>1. /\ \/ ScreenBecomes(screen', Frames(screen))
           \/ ScreenBecomes(screen', Unblocking \o Frames(screen))
        /\ screen'.up = screen.up /\ screen'.tabs = screen.tabs
    BY <1>1, <1>4, <1>5 DEF ScreenResizes, ScreenCommand, Screens
  <2>. QED  BY <1>1, <1>2, <1>3, <2>1
<1>6. ASSUME ScreenNewTab PROVE Calm'
  <2>1. /\ ScreenBecomes(screen', <<>>)
        /\ screen'.up = screen.up /\ screen'.tabs = "loading"
    BY <1>1, <1>4, <1>6 DEF ScreenNewTab, Screens
  <2>. QED  BY <1>1, <1>2, <1>3, <2>1
<1>7. ASSUME ScreenApplyLayout PROVE Calm'
  <2>1. /\ ScreenBecomes(screen', Unblocking \o Frames(screen'))
        /\ screen'.up = screen.up /\ screen'.tabs = "loaded"
    BY <1>1, <1>4, <1>7 DEF ScreenApplyLayout, Screens
  <2>. QED  BY <1>1, <1>2, <1>3, <2>1
<1>8. ASSUME ScreenAddClient \/ ScreenRemoveClient PROVE Calm'
  <2>1. /\ ScreenBecomes(screen', Frames(screen'))
        /\ screen'.up = screen.up /\ screen'.tabs = screen.tabs
    BY <1>1, <1>2, <1>4, <1>8 DEF ScreenAddClient, ScreenRemoveClient, Screens
  <2>. QED  BY <1>1, <1>2, <1>3, <2>1
<1>9. ~ScreenClosesLastTab
  BY <1>0 DEF ScreenClosesLastTab
<1>. QED  BY <1>5, <1>6, <1>7, <1>8, <1>9 DEF ScreenThread

LEMMA InitCalm == Init => Calm
BY DEF Init, Calm, NoAlarm, OwnIds, NewScreen, NotAsked, RequestsAreOwn, RemovalIsOwn

LEMMA StepCalm ==
    ASSUME Orderly
    PROVE  Typed /\ Calm /\ [Next]_vars => Calm'
<1>. SUFFICES ASSUME Typed, Calm, [Next]_vars PROVE Calm'
  OBVIOUS
<1>1. ~ \E k \in 1 .. Cardinality(Conns) : PluginSwitchesSession(k)
  <2>1. setting.switches = 0
    BY OrderlyMeans
  <2>2. inputs \in Nat
    BY DEF Typed, ThreadsTyped
  <2>3. ~ (inputs < setting.switches)
    BY <2>1, <2>2
  <2>. QED  BY <2>3 DEF PluginSwitchesSession
<1>2. CASE UNCHANGED vars
  <2>1. QuietQueue(0)
    BY <1>2, QueueSame DEF vars
  <2>2. OwnIds'
    BY <1>2, <2>1, QuietStep DEF vars, Calm, EntriesKept
  <2>3. NoAlarm'
    BY <1>2 DEF vars, Calm, NoAlarm
  <2>. QED  BY <2>2, <2>3 DEF Calm
<1>. QED
  BY <1>1, <1>2, RouterCalm, ComingAndGoingCalm, WelcomeCalm, MainLoopCalm, ScreenCalm DEF Next

LEMMA CalmInvariant ==
    ASSUME Orderly
    PROVE  Spec => [](Typed /\ Calm)
<1>1. Init => Typed /\ Calm
  BY InitTyped, InitCalm
<1>2. Typed /\ Calm /\ [Next]_vars => (Typed /\ Calm)'
  BY StepTyped, StepCalm
<1>. QED  BY <1>1, <1>2, PTL DEF Spec

(* Only remove_client takes a client out of the registry, and no step gives *)
(* the id of a client to another.                                           *)
LEMMA OnlyUnregisterRemoves ==
    ASSUME Typed, [Next]_vars, ~Unregister
    PROVE  EntriesKept
<1>1. clients' = clients => EntriesKept
  BY DEF EntriesKept
<1>2. ASSUME NEW c \in Conns, Accept(c) PROVE EntriesKept
  <2>1. FreshId(clients) \notin DOMAIN clients
    BY <1>2, IdForNewClient DEF Accept
  <2>2. clients' = Put(clients, FreshId(clients), [conn |-> c, size |-> NoSize])
    BY <1>2 DEF Accept
  <2>. QED  BY <2>1, <2>2 DEF Put, EntriesKept
<1>3. ASSUME NEW c \in Conns, Router(c) PROVE EntriesKept
  <2>1. CASE \E s \in Sizes : RouteResize(c, s)
    BY <2>1, EntriesKeptByResize DEF RouteResize
  <2>2. CASE ~ \E s \in Sizes : RouteResize(c, s)
    <3>1. clients' = clients
      BY <1>3, <2>2
         DEF Router, RouteServerMode, RouteFirstMessage, RouteInit, RouteConnStatus,
             RouteKillSession, RouteDetach, RouteQuit, RouteClientExited, RouteEndOfStream,
             RouteResizeAnnounce, RouteSwitchToMode, RouteCommand, Route, serverVars
    <3>. QED  BY <1>1, <3>1
  <2>. QED  BY <2>1, <2>2
<1>4. ASSUME MainLoop PROVE EntriesKept
  <2>1. CASE HandleNewClient \/ HandleAttachClient
    BY <1>1, <2>1, EntriesKeptByResize DEF HandleNewClient, HandleAttachClient, EndLoop
  <2>2. CASE ~HandleNewClient /\ ~HandleAttachClient
    <3>1. /\ \A h, m : Dispatch(h, m) => clients' = clients
          /\ \A how : EndLoop(how) => clients' = clients
          /\ \A o : RequeueDetach(o) => clients' = clients
      BY DEF Dispatch, EndLoop, RequeueDetach
    <3>2. clients' = clients
      BY <1>4, <2>2, <3>1
         DEF MainLoop, HandleUnblockInputThread, HandleClientExit, HandleRemoveClient,
             HandleDetachSession, HandleKillSession, HandleError, HandleRender,
             HandleRenderNone, HandleConnStatus, HandleMode, HandleSwitchSession,
             DropSender, FinishInstruction
    <3>. QED  BY <1>1, <3>2
  <2>. QED  BY <2>1, <2>2
<1>5. ASSUME Welcome \/ (\E c \in Conns : Leave(c) \/ Die(c)) \/ ScreenThread
             \/ ScreenClosesLastTab \/ (\E k : PluginSwitchesSession(k)) \/ UNCHANGED vars
      PROVE  EntriesKept
  <2>1. \A s, msgs : ScreenBecomes(s, msgs) => clients' = clients
    BY DEF ScreenBecomes
  <2>2. clients' = clients
    BY <1>5, <2>1
       DEF Welcome, Leave, Die, ScreenThread, ScreenResizes, ScreenNewTab, ScreenApplyLayout,
           ScreenAddClient, ScreenRemoveClient, ScreenCommand, ScreenClosesLastTab,
           PluginSwitchesSession, serverVars, vars
  <2>. QED  BY <1>1, <2>2
<1>. QED  BY <1>2, <1>3, <1>4, <1>5 DEF Next

(* While clients leave by their own doing, a router works under an id that  *)
(* is its own client's, in SessionState and among the senders.              *)
THEOREM RoutersOwnIds ==
    ASSUME Orderly
    PROVE  Spec => []RoutersOwnTheirIds
<1>1. Calm => RoutersOwnTheirIds
  BY DEF Calm, OwnIds, RoutersOwnTheirIds, OwnsEntry, OwnsSender, Registered
<1>. QED  BY <1>1, CalmInvariant, PTL

(* ... and a client is removed only at the request of its own router.       *)
THEOREM OnlyAskersAreRemoved ==
    ASSUME Orderly
    PROVE  Spec => NoStrangerRemoved
<1>. DEFINE Removed(k) == k \notin DOMAIN clients' \/ clients'[k].conn # clients[k].conn
            Asked == \A k \in Registered : Removed(k) => main.asker = clients[k].conn
<1>1. Typed /\ Calm /\ [Next]_vars => [Asked]_vars
  <2>. SUFFICES ASSUME Typed, Calm, [Next]_vars, NEW k \in Registered, Removed(k)
                PROVE  main.asker = clients[k].conn
    OBVIOUS
  <2>1. Unregister
    BY OnlyUnregisterRemoves DEF EntriesKept, Registered
  <2>2. main # Idle
    BY <2>1 DEF Unregister, Idle
  <2>3. main.ids = <<id[main.asker]>> /\ OwnsEntry(main.asker, id, clients)
    BY <2>2 DEF Calm, OwnIds, RemovalIsOwn
  <2>4. clients' = Drop(clients, id[main.asker])
    BY <2>1, <2>3 DEF Unregister
  <2>5. k = id[main.asker]
    BY <2>4 DEF Drop, Registered
  <2>. QED  BY <2>3, <2>5 DEF OwnsEntry
<1>. QED  BY <1>1, CalmInvariant, PTL DEF Spec, NoStrangerRemoved

----------------------------------------------------------------------------
(* The server of sshd while its tabs stay: its clients keep up, and the     *)
(* session is started by init_zellij_client.                                *)

SshOrderly ==
    /\ ~Early
    /\ \A s \in Settings : s.foreground /\ ~s.tabsClose =>
         s.slow = {} /\ \A c \in Conns : s.role[c] # "new"

(* What the main loop cannot do without a session, ses for session, is      *)
(* asked for after the session.                                             *)
Needing == {"AttachClient", "ClientExit", "RemoveClient", "DetachSession"}

Prepared(q, ses) ==
    \A n \in 1 .. Len(q) :
        /\ q[n].kind \notin {"Error", "RenderNone"}
        /\ q[n].kind \in Needing => ses \/ \E j \in 1 .. n - 1 : q[j].kind = "NewClient"

SteadyParts ==
    /\ loop \in {"running", "killed"} /\ main.next # "error"
    /\ main.announce => session
    /\ screen.up /\ screen.tabs # "closed"
    /\ \A c \in Conns : measured[c] # NoSize => session
    /\ \A c \in Conns : client[c] # "away" =>
         \/ session
         \/ Role[c] = "init" /\ (router[c] # "done" => client[c] = "connected")
    /\ Prepared(toServer, session)

Steady == Foreground /\ ~TabsClose => SteadyParts

(* The main loop panics only without a session or without a screen.         *)
Panics == loop = "panicked" => ~session \/ ~screen.up

LEMMA PreparedTail ==
    ASSUME NEW S, NEW q \in Seq(S), q # <<>>, NEW ses, NEW new, Prepared(q, ses),
           ses => new, Head(q).kind = "NewClient" => new
    PROVE  Prepared(Tail(q), new)
<1>1. /\ Len(q) \in Nat /\ Len(Tail(q)) = Len(q) - 1 /\ Head(q) = q[1]
      /\ \A n \in 1 .. Len(Tail(q)) : n + 1 \in 1 .. Len(q) /\ Tail(q)[n] = q[n + 1]
  BY LenProperties, EmptySeq, HeadTailProperties
<1>. SUFFICES ASSUME NEW n \in 1 .. Len(Tail(q))
              PROVE  /\ Tail(q)[n].kind \notin {"Error", "RenderNone"}
                     /\ Tail(q)[n].kind \in Needing =>
                          new \/ \E j \in 1 .. n - 1 : Tail(q)[j].kind = "NewClient"
  BY DEF Prepared
<1>2. Tail(q)[n] = q[n + 1] /\ n + 1 \in 1 .. Len(q)
  BY <1>1
<1>3. ASSUME ~new, q[n + 1].kind \in Needing
      PROVE  \E j \in 1 .. n - 1 : Tail(q)[j].kind = "NewClient"
  <2>1. PICK i \in 1 .. (n + 1) - 1 : q[i].kind = "NewClient"
    BY <1>2, <1>3 DEF Prepared
  <2>2. i # 1
    BY <1>1, <1>3, <2>1
  <2>3. i - 1 \in 1 .. n - 1 /\ i - 1 \in 1 .. Len(Tail(q)) /\ (i - 1) + 1 = i
    BY <1>1, <2>1, <2>2
  <2>4. Tail(q)[i - 1] = q[i]
    BY <1>1, <2>3
  <2>. QED  BY <2>1, <2>3, <2>4
<1>. QED  BY <1>2, <1>3 DEF Prepared

LEMMA PreparedConcat ==
    ASSUME NEW S, NEW q \in Seq(S), NEW r \in Seq(S), NEW ses,
           Prepared(q, ses), Prepared(r, ses)
    PROVE  Prepared(q \o r, ses)
<1>1. /\ Len(q) \in Nat /\ Len(r) \in Nat /\ Len(q \o r) = Len(q) + Len(r)
      /\ \A n \in 1 .. Len(q) + Len(r) :
           (q \o r)[n] = IF n <= Len(q) THEN q[n] ELSE r[n - Len(q)]
  BY LenProperties, ConcatProperties
<1>. SUFFICES ASSUME NEW n \in 1 .. Len(q) + Len(r)
              PROVE  /\ (q \o r)[n].kind \notin {"Error", "RenderNone"}
                     /\ (q \o r)[n].kind \in Needing =>
                          ses \/ \E j \in 1 .. n - 1 : (q \o r)[j].kind = "NewClient"
  BY <1>1 DEF Prepared
<1>2. CASE n <= Len(q)
  <2>1. n \in 1 .. Len(q) /\ (q \o r)[n] = q[n]
    BY <1>1, <1>2
  <2>2. \A j \in 1 .. n - 1 : (q \o r)[j] = q[j]
    BY <1>1, <1>2
  <2>. QED  BY <2>1, <2>2 DEF Prepared
<1>3. CASE n > Len(q)
  <2>. DEFINE i == n - Len(q)
  <2>1. i \in 1 .. Len(r) /\ (q \o r)[n] = r[i]
    BY <1>1, <1>3
  <2>2. \A j \in 1 .. i - 1 : j + Len(q) \in 1 .. n - 1 /\ (q \o r)[j + Len(q)] = r[j]
    BY <1>1, <1>3
  <2>. HIDE DEF i
  <2>3. r[i].kind \notin {"Error", "RenderNone"}
    BY <2>1 DEF Prepared
  <2>4. ASSUME r[i].kind \in Needing, ~ses
        PROVE  \E j \in 1 .. n - 1 : (q \o r)[j].kind = "NewClient"
    <3>1. PICK j \in 1 .. i - 1 : r[j].kind = "NewClient"
      BY <2>1, <2>4 DEF Prepared
    <3>2. j + Len(q) \in 1 .. n - 1 /\ (q \o r)[j + Len(q)].kind = "NewClient"
      BY <2>2, <3>1
    <3>. QED  BY <3>2
  <2>. QED  BY <2>1, <2>3, <2>4
<1>4. n \in Nat /\ Len(q) \in Nat
  BY <1>1
<1>. QED  BY <1>2, <1>3, <1>4

LEMMA PreparedAppend ==
    ASSUME NEW S, NEW q \in Seq(S), NEW m \in S, NEW ses, Prepared(q, ses),
           m.kind \notin {"Error", "RenderNone"}, m.kind \in Needing => ses
    PROVE  Prepared(Append(q, m), ses)
<1>1. <<m>> \in Seq(S) /\ Append(q, m) = q \o <<m>>
  BY AppendIsConcat
<1>2. Prepared(<<m>>, ses)
  BY DEF Prepared
<1>. QED  BY <1>1, <1>2, PreparedConcat

LEMMA SettingKept == [Next]_vars => setting' = setting
<1>. SUFFICES ASSUME [Next]_vars PROVE setting' = setting
  OBVIOUS
<1>1. ASSUME NEW c \in Conns, Router(c) \/ Accept(c) \/ Leave(c) \/ Die(c)
      PROVE  setting' = setting
  BY <1>1
     DEF Router, RouteServerMode, RouteFirstMessage, RouteInit, RouteConnStatus,
         RouteKillSession, RouteDetach, RouteQuit, RouteClientExited, RouteEndOfStream,
         RouteResize, RouteResizeAnnounce, RouteSwitchToMode, RouteCommand, Route, serverVars,
         Accept, Leave, Die
<1>2. ASSUME MainLoop PROVE setting' = setting
  <2>1. /\ \A h, m : Dispatch(h, m) => setting' = setting
        /\ \A how : EndLoop(how) => setting' = setting
        /\ \A o : RequeueDetach(o) => setting' = setting
    BY DEF Dispatch, EndLoop, RequeueDetach
  <2>. QED
    BY <1>2, <2>1
       DEF MainLoop, HandleNewClient, HandleAttachClient, HandleUnblockInputThread,
           HandleClientExit, HandleRemoveClient, HandleDetachSession, HandleKillSession,
           HandleError, HandleRender, HandleRenderNone, HandleConnStatus, HandleMode,
           HandleSwitchSession, DropSender, Unregister, FinishInstruction
<1>3. ASSUME Welcome \/ ScreenThread \/ ScreenClosesLastTab
             \/ (\E k : PluginSwitchesSession(k)) \/ UNCHANGED vars
      PROVE  setting' = setting
  <2>1. \A s, msgs : ScreenBecomes(s, msgs) => setting' = setting
    BY DEF ScreenBecomes
  <2>. QED
    BY <1>3, <2>1
       DEF Welcome, ScreenThread, ScreenResizes, ScreenNewTab, ScreenApplyLayout,
           ScreenAddClient, ScreenRemoveClient, ScreenCommand, ScreenClosesLastTab,
           PluginSwitchesSession, vars
<1>. QED  BY <1>1, <1>2, <1>3 DEF Next

(* The step of a router or of a client                                      *)
LEMMA ClientsSteady ==
    ASSUME Typed, SteadyParts, NEW c \in Conns,
           /\ client' \in [Conns -> Phases] /\ router' \in [Conns -> {"none", "on", "done"}]
           /\ \A d \in Conns \ {c} : client'[d] = client[d] /\ router'[d] = router[d]
           /\ UNCHANGED <<setting, session, screen, main, loop>>,
           \A d \in Conns : measured'[d] # NoSize => session,
           session \/ (Role[c] = "init" /\ (router'[c] # "done" => client'[c] = "connected")),
           Prepared(toServer', session)
    PROVE  SteadyParts'
BY DEF SteadyParts, Role

LEMMA RouterSteady ==
    ASSUME SshOrderly, Foreground, ~TabsClose, Typed, SteadyParts, NEW c \in Conns, Router(c)
    PROVE  SteadyParts'
<1>. DEFINE Q == ServerMsgs(id)
<1>1. /\ client \in [Conns -> Phases] /\ router \in [Conns -> {"none", "on", "done"}]
      /\ toServer \in Seq(Q) /\ Prepared(toServer, session)
      /\ \A d \in Conns : measured[d] # NoSize => session
  BY DEF Typed, ThreadsTyped, ServerTyped, SteadyParts
<1>2. router[c] = "on"
  BY DEF Router, RouteServerMode, RouteFirstMessage, RouteInit, RouteConnStatus,
         RouteKillSession, RouteDetach, RouteQuit, RouteClientExited, RouteEndOfStream,
         RouteResize, RouteResizeAnnounce, RouteSwitchToMode, RouteCommand, Route, Routing,
         Typed, IdsAreKept
<1>3. session \/ (Role[c] = "init" /\ client[c] = "connected")
  BY <1>2 DEF Typed, IdsAreKept, SteadyParts
<1>4. /\ \A kind \in AboutKinds : About(kind, c) \in Q
      /\ \A kind \in SizedKinds, s \in Sizes : Sized(kind, c, s) \in Q
      /\ \A ids \in Seq(Ids) : Detaching(c, ids) \in Q
      /\ [kind |-> "KillSession", conn |-> c] \in Q
      /\ id[c] \in Ids
  BY <1>2, MessagesTyped
<1>5. ASSUME NEW phase \in Phases, NEW ends, NEW msgs \in Seq(Q), Route(c, phase, ends, msgs),
             Prepared(msgs, session), session \/ (ends /\ Role[c] = "init")
      PROVE  SteadyParts'
  <2>1. /\ client' = [client EXCEPT ![c] = phase]
        /\ router' = [router EXCEPT ![c] = IF ends THEN "done" ELSE "on"]
        /\ toServer' = toServer \o msgs
        /\ UNCHANGED <<setting, session, screen, main, loop, measured>>
    BY <1>5 DEF Route, serverVars
  <2>2. Prepared(toServer', session)
    BY <1>1, <1>5, <2>1, PreparedConcat
  <2>3. /\ client' \in [Conns -> Phases] /\ router' \in [Conns -> {"none", "on", "done"}]
        /\ \A d \in Conns \ {c} : client'[d] = client[d] /\ router'[d] = router[d]
        /\ ends => router'[c] = "done"
    BY <1>1, <2>1
  <2>. QED  BY <1>1, <1>5, <2>1, <2>2, <2>3, ClientsSteady
<1>6. ASSUME session, NEW phase \in Phases, NEW ends, NEW m \in Q, Route(c, phase, ends, <<m>>),
             m.kind \notin {"Error", "RenderNone"}
      PROVE  SteadyParts'
  <2>1. Prepared(<<m>>, session)
    BY <1>6 DEF Prepared
  <2>2. <<m>> \in Seq(Q)
    OBVIOUS
  <2>. QED  BY <1>5, <1>6, <2>1, <2>2
<1>7. ASSUME RouteInit(c) PROVE SteadyParts'
  <2>1. PICK s \in Sizes :
           Route(c, "attached", TRUE, <<Sized("NewClient", c, s), Detaching(c, <<1>>)>>)
    BY <1>7 DEF RouteInit
  <2>. DEFINE msgs == <<Sized("NewClient", c, s), Detaching(c, <<1>>)>>
  <2>2. msgs \in Seq(Q)
    <3>1. 1 \in Ids
      BY OneIsAnId
    <3>2. <<1>> \in Seq(Ids)
      BY <3>1
    <3>3. Sized("NewClient", c, s) \in Q /\ Detaching(c, <<1>>) \in Q
      BY <1>4, <3>2 DEF SizedKinds
    <3>. QED  BY <3>3
  <2>3. Prepared(msgs, session)
    <3>1. Len(msgs) = 2 /\ msgs[1].kind = "NewClient" /\ msgs[2].kind = "DetachSession"
      BY DEF Sized, Detaching
    <3>2. \A n \in 1 .. 2 : n = 1 \/ (n = 2 /\ 1 \in 1 .. n - 1)
      OBVIOUS
    <3>. HIDE DEF msgs
    <3>. QED  BY <3>1, <3>2 DEF Prepared, Needing
  <2>4. Role[c] = "init"
    BY <1>7 DEF RouteInit
  <2>. QED  BY <1>5, <2>1, <2>2, <2>3, <2>4 DEF Phases
<1>8. ASSUME ~RouteInit(c) PROVE session
  <2>1. CASE Role[c] = "init" /\ client[c] = "connected"
    BY <1>2, <1>8, <2>1
       DEF Router, RouteServerMode, RouteFirstMessage, RouteConnStatus,
         RouteKillSession, RouteDetach, RouteQuit, RouteClientExited, RouteEndOfStream,
         RouteResize, RouteResizeAnnounce, RouteSwitchToMode, RouteCommand, Terminal,
         SteadyParts
  <2>. QED  BY <1>3, <2>1
<1>9. ASSUME RouteServerMode(c) \/ RouteFirstMessage(c) \/ RouteConnStatus(c)
             \/ RouteKillSession(c) \/ RouteDetach(c) \/ RouteQuit(c) \/ RouteClientExited(c)
      PROVE  SteadyParts'
  <2>1. session
    BY <1>8, <1>9 DEF RouteInit, RouteServerMode, RouteFirstMessage, RouteConnStatus,
         RouteKillSession, RouteDetach, RouteQuit, RouteClientExited, Terminal
  <2>2. \A kind : About(kind, c).kind = kind /\ \A s : Sized(kind, c, s).kind = kind
    BY DEF About, Sized
  <2>3. <<id[c]>> \in Seq(Ids) /\ Detaching(c, <<id[c]>>).kind = "DetachSession"
    BY <1>4 DEF Detaching
  <2>4. PICK phase \in Phases, ends \in BOOLEAN, m \in Q :
           Route(c, phase, ends, <<m>>) /\ m.kind \notin {"Error", "RenderNone"}
    <3>1. CASE RouteServerMode(c) \/ RouteConnStatus(c) \/ RouteQuit(c) \/ RouteClientExited(c)
      <4>1. PICK phase \in Phases, ends \in BOOLEAN, kind \in AboutKinds :
                Route(c, phase, ends, <<About(kind, c)>>)
        BY <3>1 DEF RouteServerMode, RouteConnStatus, RouteQuit, RouteClientExited, Phases,
                    AboutKinds
      <4>. QED  BY <1>4, <2>2, <4>1 DEF AboutKinds
    <3>2. CASE RouteFirstMessage(c)
      <4>1. PICK s \in Sizes, kind \in SizedKinds :
                Route(c, "attached", FALSE, <<Sized(kind, c, s)>>)
        BY <3>2 DEF RouteFirstMessage, SizedKinds
      <4>. QED  BY <1>4, <2>2, <4>1 DEF SizedKinds, Phases
    <3>3. CASE RouteKillSession(c)
      BY <1>4, <3>3 DEF RouteKillSession, Phases
    <3>4. CASE RouteDetach(c)
      BY <1>4, <2>3, <3>4 DEF RouteDetach, Phases
    <3>. QED  BY <1>9, <3>1, <3>2, <3>3, <3>4
  <2>. QED  BY <1>6, <2>1, <2>4
<1>10. ASSUME RouteEndOfStream(c) \/ (\E s \in Sizes : RouteResize(c, s))
              \/ RouteResizeAnnounce(c) \/ RouteSwitchToMode(c) \/ RouteCommand(c)
       PROVE  SteadyParts'
  <2>1. session
    BY <1>8, <1>10 DEF RouteInit, RouteEndOfStream, RouteResize, RouteResizeAnnounce,
         RouteSwitchToMode, RouteCommand, Terminal, SteadyParts
  <2>2. screen.up
    BY DEF SteadyParts
  <2>3. Prepared(Append(toServer, About("RemoveClient", c)), session)
    <3>1. About("RemoveClient", c) \in Q /\ About("RemoveClient", c).kind = "RemoveClient"
      BY <1>4 DEF About, AboutKinds
    <3>. QED  BY <1>1, <2>1, <3>1, PreparedAppend
  <2>4. toServer' = toServer \/ toServer' = Append(toServer, About("RemoveClient", c))
    BY <1>10, <2>1, <2>2 DEF RouteEndOfStream, RouteResize, RouteResizeAnnounce,
         RouteSwitchToMode, RouteCommand
  <2>5. Prepared(toServer', session)
    BY <1>1, <2>3, <2>4
  <2>6. /\ client' = client
        /\ router' = router \/ router' = [router EXCEPT ![c] = "done"]
        /\ UNCHANGED <<setting, session, screen, main, loop>>
    BY <1>10 DEF RouteEndOfStream, RouteResize, RouteResizeAnnounce,
         RouteSwitchToMode, RouteCommand, serverVars
  <2>. QED  BY <1>1, <2>1, <2>5, <2>6, ClientsSteady
<1>. QED  BY <1>7, <1>9, <1>10 DEF Router

(* The step of the main loop or the screen: routers and clients stay.       *)
LEMMA ServerSteady ==
    ASSUME SteadyParts,
           UNCHANGED <<setting, client, router, measured>>,
           loop' \in {"running", "killed"}, main'.next # "error", main'.announce => session',
           screen'.up, screen'.tabs # "closed", session => session',
           Prepared(toServer', session')
    PROVE  SteadyParts'
BY DEF SteadyParts, Role

LEMMA RemovalFields ==
    ASSUME NEW ids, NEW announce \in BOOLEAN, NEW next
    PROVE  /\ Removal(ids, announce, next).next = next
           /\ Removal(ids, announce, next).announce => announce
<1>1. CASE ids = <<>> /\ next = "running"
  BY <1>1 DEF Removal, Idle
<1>2. CASE ~(ids = <<>> /\ next = "running")
  BY <1>2 DEF Removal
<1>. QED  BY <1>1, <1>2

LEMMA MainLoopSteady ==
    ASSUME SshOrderly, Foreground, ~TabsClose, Typed, SteadyParts, MainLoop
    PROVE  SteadyParts'
<1>0. \A k : ~TooSlow(k)
  <2>1. setting \in Settings
    BY DEF Typed, ThreadsTyped
  <2>. QED  BY <2>1 DEF SshOrderly, Foreground, TabsClose, TooSlow, Slow
<1>1. \A kind : Takes(kind) => toServer # <<>> /\ Msg.kind = kind /\ loop = "running"
  BY DEF Takes, Msg
<1>2. /\ screen.up /\ screen.tabs # "closed" /\ main.next # "error"
      /\ main.announce => session
      /\ loop \in {"running", "killed"} /\ Prepared(toServer, session)
      /\ toServer \in Seq(ServerMsgs(id))
  BY DEF SteadyParts, Typed, ServerTyped
<1>3. ASSUME toServer # <<>>
      PROVE  /\ Msg.kind \notin {"Error", "RenderNone"}
             /\ Msg.kind \in Needing => session
  <2>1. 1 \in 1 .. Len(toServer) /\ Msg = toServer[1]
    BY <1>3, QueueTyped
  <2>. QED  BY <1>2, <2>1 DEF Prepared
<1>4. ASSUME toServer # <<>>, NEW new, session => new, Msg.kind = "NewClient" => new
      PROVE  Prepared(Tail(toServer), new)
  BY <1>2, <1>4, PreparedTail DEF Msg
<1>5. ASSUME toServer # <<>>, Msg.kind # "NewClient",
             NEW h, NEW m, m.next # "error", m.announce => session, Dispatch(h, m)
      PROVE  SteadyParts'
  <2>1. /\ toServer' = Tail(toServer) /\ main' = m
        /\ UNCHANGED <<setting, client, router, measured, loop, screen, session>>
    BY <1>5 DEF Dispatch
  <2>2. Prepared(toServer', session)
    BY <1>4, <1>5, <2>1
  <2>. QED  BY <1>2, <1>5, <2>1, <2>2, ServerSteady
<1>6. /\ \A ids : \A announce \in BOOLEAN :
           /\ Removal(ids, announce, "running").next = "running"
           /\ Removal(ids, announce, "running").announce => announce
           /\ Removal(ids, announce, "killed").next = "killed"
           /\ Removal(ids, announce, "killed").announce => announce
      /\ Idle.next # "error" /\ ~Idle.announce
  BY RemovalFields DEF Idle
<1>7. ASSUME HandleNewClient PROVE SteadyParts'
  <2>1. /\ toServer # <<>> /\ toServer' = Tail(toServer) /\ session' = TRUE
        /\ screen' = NewScreen(Msg.size)
        /\ UNCHANGED <<setting, client, router, measured, loop, main>>
    BY <1>1, <1>7 DEF HandleNewClient
  <2>2. Prepared(toServer', session')
    BY <1>4, <2>1
  <2>. QED  BY <1>2, <2>1, <2>2, ServerSteady DEF NewScreen
<1>8. ASSUME HandleAttachClient PROVE SteadyParts'
  <2>1. toServer # <<>> /\ Msg.kind = "AttachClient"
    BY <1>1, <1>8 DEF HandleAttachClient
  <2>2. session
    BY <1>3, <2>1 DEF Needing
  <2>3. /\ toServer' = Tail(toServer) /\ main' = Idle
        /\ UNCHANGED <<setting, client, router, measured, loop, screen, session>>
    BY <1>0, <1>2, <1>8, <2>2 DEF HandleAttachClient
  <2>4. Prepared(toServer', session)
    BY <1>4, <2>1, <2>2, <2>3
  <2>. QED  BY <1>2, <1>6, <2>3, <2>4, ServerSteady
<1>9. ASSUME HandleUnblockInputThread \/ HandleMode \/ HandleConnStatus \/ HandleKillSession
      PROVE  SteadyParts'
  <2>1. toServer # <<>> /\ Msg.kind # "NewClient"
    <3>1. \/ Takes("UnblockInputThread") \/ Takes("Mode") \/ Takes("ConnStatus")
          \/ Takes("KillSession")
      BY <1>9 DEF HandleUnblockInputThread, HandleMode, HandleConnStatus, HandleKillSession
    <3>. QED  BY <1>1, <3>1
  <2>2. PICK h, m : Dispatch(h, m) /\ m.next # "error" /\ ~m.announce
    <3>1. CASE HandleUnblockInputThread
      BY <1>0, <1>6, <3>1 DEF HandleUnblockInputThread
    <3>2. CASE HandleMode
      BY <1>6, <3>2 DEF HandleMode
    <3>3. CASE HandleConnStatus
      <4>1. PICK h : Dispatch(h, Removal(<<Msg.id>>, FALSE, "running"))
        BY <3>3 DEF HandleConnStatus
      <4>. QED  BY <1>6, <4>1
    <3>4. CASE HandleKillSession
      BY <1>6, <3>4 DEF HandleKillSession
    <3>. QED  BY <1>9, <3>1, <3>2, <3>3, <3>4
  <2>. QED  BY <1>5, <2>1, <2>2
<1>10. ASSUME HandleRemoveClient \/ HandleDetachSession PROVE SteadyParts'
  <2>1. /\ toServer # <<>> /\ Msg.kind # "NewClient" /\ Msg.kind \in Needing
    <3>1. Takes("RemoveClient") \/ Takes("DetachSession")
      BY <1>10 DEF HandleRemoveClient, HandleDetachSession
    <3>. QED  BY <1>1, <3>1 DEF Needing
  <2>2. PICK ids : Dispatch(heard, Removal(ids, TRUE, "running"))
    BY <1>10 DEF HandleRemoveClient, HandleDetachSession, RemoveOne
  <2>. QED  BY <1>3, <1>5, <1>6, <2>1, <2>2
<1>11. ASSUME HandleClientExit PROVE SteadyParts'
  <2>1. /\ toServer # <<>> /\ Msg.kind = "ClientExit" /\ session
    BY <1>1, <1>3, <1>11 DEF HandleClientExit, Needing
  <2>2. CASE Dispatch(heard, RemoveOne(Msg.id))
    <3>1. Dispatch(heard, Removal(<<Msg.id>>, TRUE, "running"))
      BY <2>2 DEF RemoveOne
    <3>. QED  BY <1>5, <1>6, <2>1, <3>1
  <2>3. CASE \E o \in Orders(Registered) : RequeueDetach(o)
    <3>1. PICK o \in Orders(Registered) : RequeueDetach(o)
      BY <2>3
    <3>. DEFINE m == Detaching(NoConn, o)
    <3>2. /\ toServer' = Append(Tail(toServer), m)
          /\ UNCHANGED <<setting, client, router, measured, loop, screen, session, main>>
      BY <3>1 DEF RequeueDetach
    <3>3. Tail(toServer) \in Seq(ServerMsgs(id)) /\ Prepared(Tail(toServer), session)
      BY <1>4, <2>1, HeadTyped
    <3>4. m \in ServerMsgs(id)
      <4>1. o \in Seq(Ids)
        <5>1. Registered \subseteq Ids
          BY PartialMember DEF Typed, ServerTyped, Registers, Registered
        <5>. QED  BY <5>1, OrdersAreSequences
      <4>. QED  BY <4>1 DEF Detaching, ServerMsgs, DetachMsgs
    <3>5. m.kind = "DetachSession"
      BY DEF Detaching
    <3>6. Prepared(toServer', session)
      BY <2>1, <3>2, <3>3, <3>4, <3>5, PreparedAppend
    <3>. QED  BY <1>2, <3>2, <3>6, ServerSteady
  <2>. QED  BY <1>11, <2>2, <2>3 DEF HandleClientExit
<1>12. ASSUME HandleRender PROVE SteadyParts'
  <2>1. toServer # <<>> /\ Msg.kind # "NewClient"
    BY <1>1, <1>12 DEF HandleRender
  <2>2. PICK h, o : Dispatch(h, Removal(o, FALSE, "running"))
    BY <1>12 DEF HandleRender
  <2>. QED  BY <1>5, <1>6, <2>1, <2>2
<1>13. ~HandleError /\ ~HandleRenderNone
  BY <1>1, <1>3 DEF HandleError, HandleRenderNone
<1>14. ASSUME HandleSwitchSession PROVE SteadyParts'
  <2>1. toServer # <<>> /\ Msg.kind # "NewClient"
    BY <1>1, <1>14 DEF HandleSwitchSession
  <2>2. /\ toServer' = Tail(toServer)
        /\ \E ids : main' = Removal(ids, FALSE, "running")
        /\ UNCHANGED <<setting, client, router, measured, loop, screen, session>>
    BY <1>2, <1>14 DEF HandleSwitchSession
  <2>3. Prepared(toServer', session)
    BY <1>4, <2>1, <2>2
  <2>4. main'.next # "error" /\ (main'.announce => session)
    BY <1>6, <2>2
  <2>. QED  BY <1>2, <2>2, <2>3, <2>4, ServerSteady
<1>15. ASSUME DropSender \/ Unregister PROVE SteadyParts'
  <2>1. /\ main' = Idle \/ (main'.next = main.next /\ main'.announce = main.announce)
        /\ loop' = loop
        /\ UNCHANGED <<setting, client, router, measured, toServer, screen, session>>
    BY <1>2, <1>15 DEF DropSender, Unregister, Typed, ServerTyped, Removals
  <2>. QED  BY <1>2, <1>6, <2>1, ServerSteady
<1>16. ASSUME FinishInstruction PROVE SteadyParts'
  <2>1. /\ main' = Idle /\ loop' = main.next
        /\ UNCHANGED <<setting, client, router, measured, toServer, screen, session>>
    BY <1>16 DEF FinishInstruction
  <2>2. main.next \in {"running", "killed"}
    BY <1>2 DEF Typed, ServerTyped, Removals
  <2>. QED  BY <1>2, <1>6, <2>1, <2>2, ServerSteady
<1>. QED
  BY <1>7, <1>8, <1>9, <1>10, <1>11, <1>12, <1>13, <1>14, <1>15, <1>16 DEF MainLoop

LEMMA ScreenSteady ==
    ASSUME ~TabsClose, Typed, SteadyParts,
           \/ ScreenThread \/ ScreenClosesLastTab
           \/ \E k : PluginSwitchesSession(k)
    PROVE  SteadyParts'
<1>. DEFINE Q == ServerMsgs(id)
<1>1. /\ screen \in Screens /\ toServer \in Seq(Q) /\ Prepared(toServer, session)
      /\ screen.up /\ screen.tabs # "closed"
      /\ loop \in {"running", "killed"} /\ main.next # "error"
      /\ main.announce => session
  BY DEF SteadyParts, Typed, ServerTyped
<1>2. screen' \in Screens
  BY ScreenTyped, PluginSwitchesTyped DEF Typed, ServerTyped
<1>3. ASSUME NEW s \in Screens, NEW msgs \in {<<>>, Frames(s), Unblocking \o Frames(s)},
             ScreenBecomes(screen', msgs), screen'.up, screen'.tabs # "closed"
      PROVE  SteadyParts'
  <2>. DEFINE r == [kind |-> "Render", frames |-> DOMAIN s.clients, conn |-> NoConn]
              u == [kind |-> "UnblockInputThread", conn |-> NoConn]
  <2>1. <<>> \in Seq(Q) /\ Frames(s) \in Seq(Q) /\ Unblocking \in Seq(Q)
    BY FramesTyped, BareTyped DEF Unblocking, BareKinds
  <2>2. /\ Prepared(<<>>, session) /\ Prepared(<<r>>, session) /\ Prepared(<<u>>, session)
    BY DEF Prepared, Needing
  <2>3. Prepared(Frames(s), session) /\ Prepared(Unblocking, session)
    BY <2>2 DEF Frames, Unblocking
  <2>4. msgs \in Seq(Q) /\ Prepared(msgs, session)
    <3>1. Unblocking \o Frames(s) \in Seq(Q)
      BY <2>1, ConcatProperties
    <3>2. Prepared(Unblocking \o Frames(s), session)
      BY <2>1, <2>3, PreparedConcat
    <3>. QED  BY <1>3, <2>1, <2>2, <2>3, <3>1, <3>2
  <2>5. /\ toServer' = toServer \o msgs
        /\ UNCHANGED <<setting, client, router, measured, loop, main, session>>
    BY <1>3 DEF ScreenBecomes
  <2>6. Prepared(toServer', session)
    BY <1>1, <2>4, <2>5, PreparedConcat
  <2>7. /\ loop' \in {"running", "killed"} /\ main'.next # "error"
        /\ main'.announce => session'
        /\ screen'.up /\ screen'.tabs # "closed"
        /\ session => session'
        /\ UNCHANGED <<setting, client, router, measured>> /\ session' = session
    <3>1. /\ loop' = loop /\ main' = main /\ session' = session
          /\ UNCHANGED <<setting, client, router, measured>>
      BY <2>5
    <3>2. screen'.up /\ screen'.tabs # "closed"
      BY <1>1, <1>3, <2>5
    <3>. QED  BY <1>1, <3>1, <3>2
  <2>8. Prepared(toServer', session')
    BY <2>6, <2>7
  <2>. QED  BY <2>7, <2>8, ServerSteady
<1>4. \A s, msgs : ScreenBecomes(s, msgs) => s = screen'
  BY DEF ScreenBecomes
<1>5. ASSUME ScreenResizes \/ ScreenCommand PROVE SteadyParts'
  <2>1. /\ \/ ScreenBecomes(screen', Frames(screen))
           \/ ScreenBecomes(screen', Unblocking \o Frames(screen))
        /\ screen'.up = screen.up /\ screen'.tabs = screen.tabs
    BY <1>1, <1>4, <1>5 DEF ScreenResizes, ScreenCommand, Screens
  <2>. QED  BY <1>1, <1>3, <2>1
<1>6. ASSUME ScreenNewTab PROVE SteadyParts'
  <2>1. /\ ScreenBecomes(screen', <<>>)
        /\ screen'.up = screen.up /\ screen'.tabs = "loading"
    BY <1>1, <1>4, <1>6 DEF ScreenNewTab, Screens
  <2>. QED  BY <1>1, <1>3, <2>1
<1>7. ASSUME ScreenApplyLayout PROVE SteadyParts'
  <2>1. /\ ScreenBecomes(screen', Unblocking \o Frames(screen'))
        /\ screen'.up = screen.up /\ screen'.tabs = "loaded"
    BY <1>1, <1>4, <1>7 DEF ScreenApplyLayout, Screens
  <2>. QED  BY <1>1, <1>2, <1>3, <2>1
<1>8. ASSUME ScreenAddClient \/ ScreenRemoveClient PROVE SteadyParts'
  <2>1. /\ ScreenBecomes(screen', Frames(screen'))
        /\ screen'.up = screen.up /\ screen'.tabs = screen.tabs
    BY <1>1, <1>4, <1>8 DEF ScreenAddClient, ScreenRemoveClient, Screens
  <2>. QED  BY <1>1, <1>2, <1>3, <2>1
<1>9. ~ScreenClosesLastTab
  BY DEF ScreenClosesLastTab
<1>10. ASSUME NEW k, PluginSwitchesSession(k) PROVE SteadyParts'
  <2>. DEFINE m == [kind |-> "SwitchSession", id |-> k, conn |-> screen.clients[k]]
  <2>1. /\ toServer' = Append(toServer, m)
        /\ UNCHANGED <<setting, client, router, measured, loop, screen, session, main>>
    BY <1>10 DEF PluginSwitchesSession
  <2>2. m \in Q
    <3>1. screen.clients \in Partial(Ids, Conns) /\ k \in DOMAIN screen.clients
      BY <1>1, <1>10 DEF Screens, PluginSwitchesSession
    <3>2. k \in Ids /\ screen.clients[k] \in Conns
      BY <3>1, PartialMember
    <3>. QED  BY <3>2 DEF ServerMsgs, AboutMsgs, AboutKinds
  <2>3. m.kind = "SwitchSession"
    OBVIOUS
  <2>. HIDE DEF m
  <2>4. Prepared(toServer', session)
    BY <1>1, <2>1, <2>2, <2>3, PreparedAppend DEF Needing
  <2>5. /\ loop' \in {"running", "killed"} /\ main'.next # "error"
        /\ main'.announce => session'
        /\ screen'.up /\ screen'.tabs # "closed"
        /\ session => session'
        /\ UNCHANGED <<setting, client, router, measured>> /\ session' = session
    <3>1. /\ loop' = loop /\ main' = main /\ session' = session
          /\ UNCHANGED <<setting, client, router, measured>>
      BY <2>1
    <3>2. screen'.up /\ screen'.tabs # "closed"
      BY <1>1, <2>1
    <3>. QED  BY <1>1, <3>1, <3>2
  <2>6. Prepared(toServer', session')
    BY <2>4, <2>5
  <2>. QED  BY <2>5, <2>6, ServerSteady
<1>. QED  BY <1>5, <1>6, <1>7, <1>8, <1>9, <1>10 DEF ScreenThread

LEMMA ComingAndGoingSteady ==
    ASSUME SshOrderly, Foreground, ~TabsClose, Typed, SteadyParts, NEW c \in Conns,
           Accept(c) \/ Leave(c) \/ Die(c)
    PROVE  SteadyParts'
<1>1. /\ UNCHANGED <<setting, session, screen, main, loop, router, measured, toServer>>
      /\ client' = [client EXCEPT ![c] = IF Accept(c) THEN "connected" ELSE "left"]
  BY DEF Accept, Leave, Die, serverVars
<1>2. /\ client' \in [Conns -> Phases] /\ router \in [Conns -> {"none", "on", "done"}]
      /\ \A d \in Conns \ {c} : client'[d] = client[d]
      /\ client'[c] = IF Accept(c) THEN "connected" ELSE "left"
  BY <1>1 DEF Typed, ThreadsTyped, Phases
<1>3. session \/ (Role[c] = "init" /\ (router[c] # "done" => client'[c] = "connected"))
  <2>1. ASSUME Accept(c), ~session PROVE Role[c] = "init"
    <3>1. Role[c] # "new" /\ ~Early
      BY DEF SshOrderly, Typed, ThreadsTyped, Foreground, TabsClose, Role
    <3>. QED  BY <2>1, <3>1 DEF Accept
  <2>2. ASSUME Leave(c), ~session PROVE Role[c] = "init" /\ router[c] = "done"
    BY <2>2 DEF Leave, SteadyParts, Typed, IdsAreKept
  <2>3. ASSUME Die(c) PROVE session
    BY <2>3 DEF Die, SteadyParts
  <2>. QED  BY <1>2, <2>1, <2>2, <2>3
<1>. QED  BY <1>1, <1>2, <1>3, ClientsSteady DEF SteadyParts

LEMMA WelcomeSteady ==
    ASSUME Typed, SteadyParts, Welcome
    PROVE  SteadyParts'
<1>. DEFINE a == arriving
<1>1. /\ a \in Conns /\ router' = [router EXCEPT ![a] = "on"]
      /\ UNCHANGED <<setting, client, session, screen, main, loop, measured, toServer>>
  BY DEF Welcome, Typed, ThreadsTyped
<1>2. /\ client \in [Conns -> Phases] /\ router' \in [Conns -> {"none", "on", "done"}]
      /\ \A d \in Conns \ {a} : router'[d] = router[d]
  BY <1>1 DEF Typed, ThreadsTyped
<1>3. session \/ (Role[a] = "init" /\ client[a] = "connected")
  <2>1. id[a] # 0 /\ router[a] = "none"
    BY DEF Welcome, Typed, IdsAreKept
  <2>. QED  BY <1>1, <2>1 DEF SteadyParts, Typed, IdsAreKept
<1>. QED  BY <1>1, <1>2, <1>3, ClientsSteady DEF SteadyParts

LEMMA InitSteady == Init => Steady
<1>. SUFFICES ASSUME Init PROVE SteadyParts
  BY DEF Steady
<1>1. Prepared(toServer, session)
  BY DEF Prepared, Init
<1>. QED  BY <1>1 DEF Init, SteadyParts, Idle, NewScreen

LEMMA StepSteady == SshOrderly /\ Typed /\ Steady /\ [Next]_vars => Steady'
<1>. SUFFICES ASSUME SshOrderly, Typed, Steady, [Next]_vars, Foreground', ~TabsClose'
              PROVE  SteadyParts'
  BY DEF Steady
<1>1. Foreground /\ ~TabsClose
  BY SettingKept DEF Foreground, TabsClose
<1>2. SteadyParts
  BY <1>1 DEF Steady
<1>3. ASSUME NEW c \in Conns, Router(c) PROVE SteadyParts'
  BY <1>1, <1>2, <1>3, RouterSteady
<1>4. ASSUME NEW c \in Conns, Accept(c) \/ Leave(c) \/ Die(c) PROVE SteadyParts'
  BY <1>1, <1>2, <1>4, ComingAndGoingSteady
<1>5. CASE Welcome
  BY <1>2, <1>5, WelcomeSteady
<1>6. CASE MainLoop
  BY <1>1, <1>2, <1>6, MainLoopSteady
<1>7. CASE ScreenThread \/ ScreenClosesLastTab \/ \E k : PluginSwitchesSession(k)
  BY <1>1, <1>2, <1>7, ScreenSteady
<1>8. CASE UNCHANGED vars
  <2>1. UNCHANGED <<setting, client, router, measured, toServer, loop, screen, session, main>>
    BY <1>8 DEF vars
  <2>. QED  BY <1>2, <2>1, ServerSteady DEF SteadyParts
<1>. QED  BY <1>3, <1>4, <1>5, <1>6, <1>7, <1>8 DEF Next

LEMMA StepPanics == Typed /\ Panics /\ [Next]_vars => Panics'
<1>. SUFFICES ASSUME Typed, Panics, [Next]_vars, loop' = "panicked"
              PROVE  ~session' \/ ~screen'.up
  BY DEF Panics
<1>1. CASE loop' = loop
  <2>1. loop # "running"
    BY <1>1
  <2>2. UNCHANGED vars
    <3>1. \A c \in Conns : ~Router(c) /\ ~Accept(c) /\ ~Leave(c) /\ ~Die(c)
      <4>. TAKE c \in Conns
      <4>1. ~Routing(c) /\ \A phase, ends, msgs : ~Route(c, phase, ends, msgs)
        BY <2>1 DEF Routing, Route
      <4>2. ~RouteServerMode(c) /\ ~RouteFirstMessage(c) /\ ~RouteInit(c)
        BY <4>1 DEF RouteServerMode, RouteFirstMessage, RouteInit
      <4>3. ~RouteConnStatus(c) /\ ~RouteKillSession(c) /\ ~RouteDetach(c) /\ ~RouteQuit(c)
        BY <4>1 DEF RouteConnStatus, RouteKillSession, RouteDetach, RouteQuit
      <4>4. ~RouteClientExited(c) /\ ~RouteEndOfStream(c)
        BY <4>1 DEF RouteClientExited, RouteEndOfStream
      <4>5. /\ \A size \in Sizes : ~RouteResize(c, size)
            /\ ~RouteResizeAnnounce(c) /\ ~RouteSwitchToMode(c)
        BY <2>1, <4>1 DEF RouteResize, RouteResizeAnnounce, RouteSwitchToMode
      <4>6. ~RouteCommand(c)
        BY <4>1 DEF RouteCommand
      <4>7. ~Accept(c) /\ ~Leave(c) /\ ~Die(c)
        BY <2>1 DEF Accept, Leave, Die
      <4>. QED  BY <4>2, <4>3, <4>4, <4>5, <4>6, <4>7 DEF Router
    <3>2. ~MainLoop
      BY <2>1
         DEF MainLoop, Takes, HandleNewClient, HandleAttachClient, HandleUnblockInputThread,
             HandleClientExit, HandleRemoveClient, HandleDetachSession, HandleKillSession,
             HandleError, HandleRender, HandleRenderNone, HandleConnStatus, HandleMode,
             HandleSwitchSession, DropSender, Unregister, FinishInstruction
    <3>3. ~ScreenThread /\ ~ScreenClosesLastTab /\ ~Welcome /\ \A k : ~PluginSwitchesSession(k)
      BY <2>1
         DEF ScreenThread, ScreenTakes, ScreenResizes, ScreenNewTab, ScreenApplyLayout,
             ScreenAddClient, ScreenRemoveClient, ScreenCommand, ScreenClosesLastTab, Welcome,
             PluginSwitchesSession
    <3>. QED  BY <3>1, <3>2, <3>3 DEF Next
  <2>. QED  BY <1>1, <2>2 DEF vars, Panics
<1>2. CASE loop' # loop
  <2>1. MainLoop
    <3>1. \A c \in Conns : Router(c) \/ Accept(c) \/ Leave(c) \/ Die(c) => loop' = loop
      <4>. TAKE c \in Conns
      <4>1. \A phase, ends, msgs : ~Route(c, phase, ends, msgs)
        BY <1>2 DEF Route, serverVars
      <4>2. ~RouteServerMode(c) /\ ~RouteFirstMessage(c) /\ ~RouteInit(c)
        BY <1>2, <4>1 DEF RouteServerMode, RouteFirstMessage, RouteInit, serverVars
      <4>3. ~RouteConnStatus(c) /\ ~RouteKillSession(c) /\ ~RouteDetach(c) /\ ~RouteQuit(c)
        BY <4>1 DEF RouteConnStatus, RouteKillSession, RouteDetach, RouteQuit
      <4>4. ~RouteClientExited(c) /\ ~RouteEndOfStream(c)
        BY <1>2, <4>1 DEF RouteClientExited, RouteEndOfStream, serverVars
      <4>5. /\ \A size \in Sizes : ~RouteResize(c, size)
            /\ ~RouteResizeAnnounce(c) /\ ~RouteSwitchToMode(c)
        BY <1>2, <4>1
           DEF RouteResize, RouteResizeAnnounce, RouteSwitchToMode, serverVars
      <4>6. ~RouteCommand(c)
        BY <1>2, <4>1 DEF RouteCommand, serverVars
      <4>7. ~Accept(c) /\ ~Leave(c) /\ ~Die(c)
        BY <1>2 DEF Accept, Leave, Die, serverVars
      <4>. QED  BY <4>2, <4>3, <4>4, <4>5, <4>6, <4>7 DEF Router
    <3>2. \A s, msgs : ScreenBecomes(s, msgs) => loop' = loop
      BY DEF ScreenBecomes
    <3>3. \/ ScreenThread \/ ScreenClosesLastTab \/ Welcome
          \/ (\E k : PluginSwitchesSession(k)) \/ UNCHANGED vars
          => loop' = loop
      BY <3>2
         DEF ScreenThread, ScreenResizes, ScreenNewTab, ScreenApplyLayout,
             ScreenAddClient, ScreenRemoveClient, ScreenCommand, ScreenClosesLastTab, Welcome,
             PluginSwitchesSession, vars
    <3>. QED  BY <1>2, <3>1, <3>3 DEF Next
  <2>2. \A h, m : ~Dispatch(h, m)
    BY <1>2 DEF Dispatch
  <2>3. \A o : ~RequeueDetach(o)
    BY <1>2 DEF RequeueDetach
  <2>4. CASE \E how : EndLoop(how)
    <3>1. ~EndLoop("hung") /\ UNCHANGED <<session, screen>>
      BY <2>4 DEF EndLoop
    <3>2. HandleAttachClient \/ HandleSwitchSession
      <4>1. ~HandleNewClient /\ ~DropSender
        BY <1>2 DEF HandleNewClient, DropSender
      <4>2. ~Unregister /\ ~FinishInstruction
        <5>1. ASSUME Unregister PROVE UNCHANGED main
          BY <2>4 DEF EndLoop
        <5>2. ~Unregister
          <6>1. ASSUME Unregister PROVE main.half /\ ~main'.half
            BY <6>1, IdleTyped DEF Unregister, Typed, ServerTyped, Removals
          <6>. QED  BY <5>1, <6>1
        <5>3. ~FinishInstruction
          BY <2>4 DEF EndLoop, FinishInstruction
        <5>. QED  BY <5>2, <5>3
      <4>. QED
        BY <2>1, <2>2, <2>3, <3>1, <4>1, <4>2
           DEF MainLoop, HandleUnblockInputThread, HandleClientExit,
               HandleRemoveClient, HandleDetachSession, HandleKillSession, HandleError,
               HandleRender, HandleRenderNone, HandleConnStatus, HandleMode
    <3>3. ~session \/ ~screen.up
      BY <1>2, <3>2 DEF HandleAttachClient, HandleSwitchSession
    <3>. QED  BY <3>1, <3>3
  <2>5. CASE ~\E how : EndLoop(how)
    <3>1. Unregister \/ FinishInstruction
      BY <1>2, <2>1, <2>2, <2>3, <2>5
         DEF MainLoop, HandleNewClient, HandleAttachClient, HandleUnblockInputThread,
             HandleClientExit, HandleRemoveClient, HandleDetachSession, HandleKillSession,
             HandleError, HandleRender, HandleRenderNone, HandleConnStatus, HandleMode,
             HandleSwitchSession, DropSender
    <3>2. ~FinishInstruction
      BY DEF FinishInstruction, Typed, ServerTyped, Removals
    <3>3. UNCHANGED <<session, screen>> /\ (~session \/ ~screen.up)
      BY <1>2, <3>1, <3>2 DEF Unregister
    <3>. QED  BY <3>3
  <2>. QED  BY <2>4, <2>5
<1>. QED  BY <1>1, <1>2

(* The main loop panics only without a session or a screen, whatever the    *)
(* clients do, and slow or fast, early or late.                             *)
THEOREM PanicsAreExcused == Spec => []Panics
<1>1. Init => Panics
  BY DEF Init, Panics
<1>. QED  BY <1>1, StepPanics, TypedInvariant, PTL DEF Spec

(* LoopSurvives: the main loop panics only without a session or a screen,   *)
(* and the loop of sshd's server outlives every client, as long as its      *)
(* tabs stay.                                                               *)
THEOREM LoopSurvival ==
    ASSUME SshOrderly
    PROVE  Spec => []LoopSurvives
<1>1. Init => Steady
  BY InitSteady
<1>2. Typed /\ Steady /\ [Next]_vars => Steady'
  BY StepSteady
<1>3. Panics /\ Steady => LoopSurvives
  BY DEF Panics, Steady, SteadyParts, LoopSurvives
<1>. QED  BY <1>1, <1>2, <1>3, TypedInvariant, PanicsAreExcused, PTL DEF Spec

----------------------------------------------------------------------------
(* What the screen has been told of the clients, when one client starts the *)
(* session: the screen's clients once it has handled its queue.             *)

(* Induction up to n, over a set *)
LEMMA UpTo ==
    ASSUME NEW n \in Nat, NEW good, 0 \in good,
           \A k \in 1 .. n : k - 1 \in good => k \in good
    PROVE  \A k \in 0 .. n : k \in good
<1>. DEFINE bad == {k \in 0 .. n : k \notin good}
<1>1. SUFFICES ASSUME bad # {} PROVE FALSE
  OBVIOUS
<1>2. bad \in SUBSET Nat
  OBVIOUS
<1>3. PICK k \in bad : \A j \in bad : k <= j
  BY <1>1, <1>2, LeastExists
<1>4. k \in 1 .. n /\ k - 1 \in 0 .. n /\ ~ (k <= k - 1)
  BY <1>3
<1>5. k - 1 \in good
  BY <1>3, <1>4
<1>. QED  BY <1>3, <1>4, <1>5

(* f[k] is what the clients cs become by the first k messages of q.         *)
ToldOf(cs, q, n, f) == f = [k \in 0 .. n |-> IF k = 0 THEN cs ELSE Told(f[k - 1], q[k])]

LEMMA ToldExists ==
    ASSUME NEW cs, NEW q, NEW n \in Nat
    PROVE  \E f : ToldOf(cs, q, n, f)
<1>. DEFINE good == {m \in 0 .. n : \E f : ToldOf(cs, q, m, f)}
<1>1. 0 \in good
  <2>1. ToldOf(cs, q, 0, [k \in 0 .. 0 |-> cs])
    BY DEF ToldOf
  <2>. QED  BY <2>1
<1>2. ASSUME NEW m \in 1 .. n, m - 1 \in good PROVE m \in good
  <2>1. PICK f : ToldOf(cs, q, m - 1, f)
    BY <1>2
  <2>. DEFINE last == Told(f[m - 1], q[m])
              g == [k \in 0 .. m |-> IF k = m THEN last ELSE f[k]]
  <2>2. \A k \in 0 .. m - 1 : f[k] = IF k = 0 THEN cs ELSE Told(f[k - 1], q[k])
    BY <2>1 DEF ToldOf
  <2>3. \A k \in 0 .. m : g[k] = IF k = 0 THEN cs ELSE Told(g[k - 1], q[k])
    BY <2>2
  <2>4. ToldOf(cs, q, m, g)
    BY <2>3 DEF ToldOf
  <2>. QED  BY <2>4
<1>. HIDE DEF good
<1>3. \A k \in 0 .. n : k \in good
  BY <1>1, <1>2, UpTo
<1>. QED  BY <1>3 DEF good

(* The clients cs once the messages q are handled                           *)
ToldUpTo(cs, q) == CHOOSE f : ToldOf(cs, q, Len(q), f)
After(cs, q)    == ToldUpTo(cs, q)[Len(q)]

(* The function of Expected, message by message                             *)
LEMMA AfterSteps ==
    ASSUME NEW cs, NEW q, Len(q) \in Nat
    PROVE  /\ ToldUpTo(cs, q)[0] = cs
           /\ \A k \in 1 .. Len(q) : ToldUpTo(cs, q)[k] = Told(ToldUpTo(cs, q)[k - 1], q[k])
<1>1. ToldOf(cs, q, Len(q), ToldUpTo(cs, q))
  BY ToldExists DEF ToldUpTo
<1>2. \A k \in 0 .. Len(q) :
        ToldUpTo(cs, q)[k] = IF k = 0 THEN cs ELSE Told(ToldUpTo(cs, q)[k - 1], q[k])
  BY <1>1 DEF ToldOf
<1>. QED  BY <1>2

LEMMA ExpectedIs ==
    /\ Expected = After(screen.clients, toScreen)
    /\ Expected' = After(screen'.clients, toScreen')
<1>1. Expected = After(screen.clients, toScreen)
  BY Zenon DEF Expected, After, ToldUpTo, ToldOf
<1>2. Expected' = After(screen'.clients, toScreen')
  BY Zenon DEF Expected, After, ToldUpTo, ToldOf
<1>. QED  BY <1>1, <1>2

(* What every message keeps the screen in                                   *)
LEMMA AfterStays ==
    ASSUME NEW F, NEW cs \in F, NEW q, Len(q) \in Nat,
           \A f \in F, n \in 1 .. Len(q) : Told(f, q[n]) \in F
    PROVE  After(cs, q) \in F
<1>. DEFINE good == {k \in 0 .. Len(q) : ToldUpTo(cs, q)[k] \in F}
<1>1. 0 \in good
  BY AfterSteps
<1>2. ASSUME NEW k \in 1 .. Len(q), k - 1 \in good PROVE k \in good
  BY <1>2, AfterSteps
<1>. HIDE DEF good
<1>3. \A k \in 0 .. Len(q) : k \in good
  BY <1>1, <1>2, UpTo
<1>. QED  BY <1>3 DEF good, After

LEMMA AfterNothing == \A cs : After(cs, <<>>) = cs
<1>1. Len(<<>>) = 0
  OBVIOUS
<1>. QED  BY <1>1, AfterSteps DEF After

(* One message more, and one message handled                                *)
LEMMA AfterOneMore ==
    ASSUME NEW S, NEW q \in Seq(S), NEW m, NEW cs
    PROVE  After(cs, Append(q, m)) = Told(After(cs, q), m)
<1>. DEFINE r == Append(q, m)
            good == {k \in 0 .. Len(q) : ToldUpTo(cs, r)[k] = ToldUpTo(cs, q)[k]}
<1>1. /\ Len(q) \in Nat /\ Len(r) = Len(q) + 1
      /\ \A k \in 1 .. Len(q) : r[k] = q[k]
      /\ r[Len(q) + 1] = m
  OBVIOUS
<1>. HIDE DEF r
<1>2. 0 \in good
  BY <1>1, AfterSteps
<1>3. ASSUME NEW k \in 1 .. Len(q), k - 1 \in good PROVE k \in good
  <2>1. ToldUpTo(cs, r)[k] = Told(ToldUpTo(cs, r)[k - 1], r[k])
    BY <1>1, AfterSteps
  <2>2. ToldUpTo(cs, q)[k] = Told(ToldUpTo(cs, q)[k - 1], q[k])
    BY <1>1, AfterSteps
  <2>. QED  BY <1>1, <1>3, <2>1, <2>2
<1>. HIDE DEF good
<1>4. \A k \in 0 .. Len(q) : k \in good
  BY <1>1, <1>2, <1>3, UpTo
<1>5. ToldUpTo(cs, r)[Len(q)] = ToldUpTo(cs, q)[Len(q)]
  BY <1>1, <1>4 DEF good
<1>6. ToldUpTo(cs, r)[Len(q) + 1] = Told(ToldUpTo(cs, r)[Len(q)], m)
  BY <1>1, AfterSteps
<1>. QED  BY <1>1, <1>5, <1>6 DEF After, r

LEMMA AfterTheFirst ==
    ASSUME NEW S, NEW q \in Seq(S), q # <<>>, NEW cs
    PROVE  After(cs, q) = After(Told(cs, Head(q)), Tail(q))
<1>. DEFINE r == Tail(q)
            ds == Told(cs, Head(q))
            good == {k \in 0 .. Len(r) : ToldUpTo(cs, q)[k + 1] = ToldUpTo(ds, r)[k]}
<1>1. /\ Len(q) \in Nat /\ Len(q) > 0 /\ Len(r) = Len(q) - 1 /\ Len(r) \in Nat
      /\ Head(q) = q[1]
      /\ \A k \in 1 .. Len(r) : r[k] = q[k + 1]
  BY EmptySeq, HeadTailProperties
<1>. HIDE DEF r
<1>2. 0 \in good
  <2>1. ToldUpTo(cs, q)[1] = Told(ToldUpTo(cs, q)[1 - 1], q[1]) /\ ToldUpTo(cs, q)[0] = cs
    BY <1>1, AfterSteps
  <2>2. ToldUpTo(ds, r)[0] = ds
    BY <1>1, AfterSteps
  <2>. QED  BY <1>1, <2>1, <2>2
<1>3. ASSUME NEW k \in 1 .. Len(r), k - 1 \in good PROVE k \in good
  <2>1. ToldUpTo(ds, r)[k] = Told(ToldUpTo(ds, r)[k - 1], r[k])
    BY <1>1, AfterSteps
  <2>2. k + 1 \in 1 .. Len(q) /\ (k + 1) - 1 = (k - 1) + 1
    BY <1>1
  <2>3. ToldUpTo(cs, q)[k + 1] = Told(ToldUpTo(cs, q)[(k - 1) + 1], q[k + 1])
    BY <1>1, <2>2, AfterSteps
  <2>. QED  BY <1>1, <1>3, <2>1, <2>3
<1>. HIDE DEF good, ds
<1>4. \A k \in 0 .. Len(r) : k \in good
  BY <1>1, <1>2, <1>3, UpTo
<1>5. ToldUpTo(cs, q)[Len(r) + 1] = ToldUpTo(ds, r)[Len(r)]
  BY <1>1, <1>4 DEF good
<1>. QED  BY <1>1, <1>5 DEF After, r, ds

(* One client starts the session.                                           *)
OneCreator ==
    \A s \in Settings, c, d \in Conns : s.role[c] = "new" /\ s.role[d] = "new" => c = d

(* The instructions with which a client comes                               *)
Coming(m) == m.kind \in SizedKinds

(* The phases of a client that has come                                     *)
Come == {"attached", "left"}

(* A client that the screen is not told to forget has never come.           *)
OnlyProbes(m) == m # Idle /\ ~m.announce => Role[m.asker] = "probe"

(* A client comes once, before it leaves, and keeps its id at least until   *)
(* it has come.                                                             *)
ComesOnce ==
    /\ OnlyProbes(main)
    /\ \A n \in 1 .. Len(toServer) :
         toServer[n].kind = "ConnStatus" => Role[toServer[n].conn] = "probe"
    /\ \A c \in Conns : client[c] = "attached" => router[c] # "none"
    /\ \A n \in 1 .. Len(toServer) : Coming(toServer[n]) =>
         LET c == toServer[n].conn IN
         /\ client[c] \in Come
         /\ toServer[n].kind = "NewClient" => Role[c] = "new"
         /\ toServer[n].kind = "AttachClient" => Role[c] \in {"attach", "ssh"}
         /\ OwnsEntry(c, id, clients)
         /\ main # Idle => main.asker # c
         /\ \A j \in 1 .. Len(toServer) : toServer[j].conn = c =>
              /\ Coming(toServer[j]) => j = n
              /\ Leaving(toServer[j]) => n < j

(* The creator of the tab: the client that starts the session               *)
ByCreator(m) == Role[m.conn] = "new" /\ m.id = id[m.conn]

(* Without a session the screen has nothing to do; with one, whoever starts *)
(* it has come.                                                             *)
SessionStarts ==
    /\ ~session => toScreen = <<>> /\ screen.tabs = "none" /\ screen.loading = <<>>
    /\ session =>
         /\ \A n \in 1 .. Len(toServer) : toServer[n].kind # "NewClient"
         /\ \A c \in Conns : Role[c] = "new" => client[c] \in Come

(* Until its tab is loaded nobody but the creator is there, and the screen  *)
(* is told to forget it only when it has left.                              *)
TabStarts ==
    /\ \A n \in 1 .. Len(toScreen) :
         /\ toScreen[n].kind = "NewTab" =>
              n = 1 /\ screen.tabs = "none" /\ ByCreator(toScreen[n])
         /\ toScreen[n].kind = "AddClient" =>
              screen.tabs = "loaded" /\ Role[toScreen[n].conn] \in {"attach", "ssh"}
    /\ screen.loading # <<>> =>
         screen.tabs = "loading" /\ ByCreator(Head(screen.loading))
    /\ screen.tabs # "loaded" =>
         /\ screen.clients = <<>>
         /\ \A c \in Conns : client[c] # "away" =>
              /\ Role[c] = "new"
              /\ router[c] # "done" =>
                   \A n \in 1 .. Len(toScreen) : toScreen[n].kind # "RemoveClient"

(* Whom the screen will have is registered, or started the session.         *)
ForgetsLeavers ==
    \A k \in DOMAIN Expected :
        /\ Role[Expected[k]] \in {"new", "attach", "ssh"}
        /\ \/ k \in DOMAIN clients /\ clients[k].conn = Expected[k]
           \/ Role[Expected[k]] = "new"

(* Once the first tab is loaded the screen will have whoever has attached.  *)
KnowsComers ==
    loop = "running" /\ screen.tabs = "loaded" =>
        \A c \in Conns : Attached(c) => id[c] \in DOMAIN Expected /\ Expected[id[c]] = c

Known == ComesOnce /\ SessionStarts /\ TabStarts /\ ForgetsLeavers /\ KnowsComers

(* The queue of the loop loses its first d messages and grows by messages   *)
(* of K.                                                                    *)
Passed(d, K) ==
    /\ d <= Len(toServer)
    /\ Len(toServer) - d <= Len(toServer')
    /\ \A n \in 1 .. Len(toServer') :
         IF n + d <= Len(toServer) THEN toServer'[n] = toServer[n + d] ELSE toServer'[n] \in K

LEMMA PassedSame ==
    ASSUME Typed, toServer' = toServer
    PROVE  Passed(0, {})
BY QueueTyped DEF Passed

LEMMA PassedTail ==
    ASSUME Typed, toServer # <<>>, toServer' = Tail(toServer)
    PROVE  Passed(1, {})
BY QueueTyped, QueueShrinks DEF Passed

LEMMA PassedOne ==
    ASSUME Typed, NEW m, toServer' = Append(toServer, m)
    PROVE  Passed(0, {m}) /\ Len(toServer') = Len(toServer) + 1
BY QueueTyped, QueueAppended DEF Passed

LEMMA PassedMore ==
    ASSUME Typed, NEW S, NEW msgs \in Seq(S), toServer' = toServer \o msgs
    PROVE  Passed(0, S)
<1>1. /\ Len(toServer) \in Nat /\ Len(msgs) \in Nat
      /\ Len(toServer') = Len(toServer) + Len(msgs)
      /\ \A n \in 1 .. Len(toServer) + Len(msgs) :
           toServer'[n] = IF n <= Len(toServer) THEN toServer[n] ELSE msgs[n - Len(toServer)]
  BY QueueTyped, ConcatProperties, LenProperties, SeqMonotonic
<1>2. ASSUME NEW n \in 1 .. Len(toServer'), ~ (n + 0 <= Len(toServer))
      PROVE  toServer'[n] \in S
  <2>1. n - Len(toServer) \in 1 .. Len(msgs)
    BY <1>1, <1>2
  <2>. QED  BY <1>1, <1>2, <2>1, ElementOfSeq
<1>. QED  BY <1>1, <1>2 DEF Passed

(* Nobody comes or leaves with the messages K, and the loop takes none with *)
(* which a client comes.                                                    *)
Silent(K) == \A m \in K : ~Coming(m) /\ ~Leaving(m)

LEMMA ComesOnceKept ==
    ASSUME Typed, ComesOnce, NEW d \in {0, 1}, NEW K, Passed(d, K), Silent(K),
           setting' = setting, OnlyProbes(main'),
           \A c \in Conns : /\ client[c] \in Come => client'[c] \in Come
                            /\ client'[c] = "attached" => router'[c] # "none",
           \A n \in 1 .. Len(toServer) : n > d /\ Coming(toServer[n]) =>
               /\ OwnsEntry(toServer[n].conn, id', clients')
               /\ main' # Idle => main'.asker # toServer[n].conn
    PROVE  ComesOnce'
<1>0. \A n \in 1 .. Len(toServer) : Coming(toServer[n]) => toServer[n].conn \in Conns
  BY QueueTyped, ElementOfSeq
     DEF Coming, SizedKinds, ServerMsgs, SizedMsgs, AboutMsgs, DetachMsgs, KillMsgs, RenderMsgs,
         BareMsgs, AboutKinds, BareKinds
<1>1. Len(toServer) \in Nat
  BY QueueTyped
<1>2. ASSUME NEW n \in 1 .. Len(toServer'), Coming(toServer'[n]) \/ Leaving(toServer'[n])
      PROVE  n + d \in 1 .. Len(toServer) /\ toServer'[n] = toServer[n + d] /\ n + d > d
  BY <1>1, <1>2 DEF Passed, Silent
<1>3. Role' = Role
  BY DEF Role
<1>a. OnlyProbes(main)'
  BY <1>3 DEF OnlyProbes, Idle
<1>b. \A n \in 1 .. Len(toServer') :
        toServer'[n].kind = "ConnStatus" => Role'[toServer'[n].conn] = "probe"
  BY <1>2, <1>3 DEF ComesOnce, Leaving
<1>. SUFFICES ASSUME NEW n \in 1 .. Len(toServer'), Coming(toServer'[n])
              PROVE  LET c == toServer'[n].conn IN
                     /\ client'[c] \in Come
                     /\ toServer'[n].kind = "NewClient" => Role'[c] = "new"
                     /\ toServer'[n].kind = "AttachClient" => Role'[c] \in {"attach", "ssh"}
                     /\ OwnsEntry(c, id', clients')
                     /\ main' # Idle => main'.asker # c
                     /\ \A j \in 1 .. Len(toServer') : toServer'[j].conn = c =>
                          /\ Coming(toServer'[j]) => j = n
                          /\ Leaving(toServer'[j]) => n < j
  BY <1>a, <1>b DEF ComesOnce, Coming, Leaving, OwnsEntry, Idle
<1>4. n + d \in 1 .. Len(toServer) /\ toServer'[n] = toServer[n + d] /\ n + d > d
  BY <1>2
<1>5. LET c == toServer[n + d].conn IN
      /\ c \in Conns /\ client[c] \in Come
      /\ toServer[n + d].kind = "NewClient" => Role[c] = "new"
      /\ toServer[n + d].kind = "AttachClient" => Role[c] \in {"attach", "ssh"}
      /\ \A j \in 1 .. Len(toServer) : toServer[j].conn = c =>
           /\ Coming(toServer[j]) => j = n + d
           /\ Leaving(toServer[j]) => n + d < j
  BY <1>0, <1>4 DEF ComesOnce
<1>6. ASSUME NEW j \in 1 .. Len(toServer'), toServer'[j].conn = toServer'[n].conn
      PROVE  /\ Coming(toServer'[j]) => j = n
             /\ Leaving(toServer'[j]) => n < j
  <2>1. Coming(toServer'[j]) => j + d = n + d
    BY <1>2, <1>4, <1>5, <1>6
  <2>2. Leaving(toServer'[j]) => n + d < j + d
    BY <1>2, <1>4, <1>5, <1>6
  <2>. QED  BY <2>1, <2>2
<1>. QED  BY <1>3, <1>4, <1>5, <1>6

(* With the last message, m, a client comes or leaves.                      *)
LEMMA ComesOnceWith ==
    ASSUME Typed, Calm, ComesOnce, NEW c \in Conns, router[c] = "on",
           NEW m, m.conn = c, toServer' = Append(toServer, m),
           UNCHANGED <<setting, id, clients, main>>,
           \A e \in Conns : /\ client[e] \in Come => client'[e] \in Come
                            /\ client'[e] = "attached" => router'[e] # "none",
           m.kind = "ConnStatus" => Role[c] = "probe",
           \/ ~Coming(m)
           \/ /\ Coming(m) /\ ~Leaving(m) /\ client[c] \notin Come /\ client'[c] = "attached"
              /\ m.kind = "NewClient" => Role[c] = "new"
              /\ m.kind = "AttachClient" => Role[c] \in {"attach", "ssh"}
    PROVE  ComesOnce'
<1>0. \A n \in 1 .. Len(toServer) : Coming(toServer[n]) => toServer[n].conn \in Conns
  BY QueueTyped, ElementOfSeq
     DEF Coming, SizedKinds, ServerMsgs, SizedMsgs, AboutMsgs, DetachMsgs, KillMsgs, RenderMsgs,
         BareMsgs, AboutKinds, BareKinds
<1>. DEFINE l == Len(toServer) + 1
<1>1. /\ Len(toServer') = l /\ Len(toServer) \in Nat /\ toServer'[l] = m
      /\ \A n \in 1 .. Len(toServer) : toServer'[n] = toServer[n]
      /\ \A n \in 1 .. Len(toServer') : n = l \/ (n \in 1 .. Len(toServer) /\ n < l)
  BY QueueAppended, QueueTyped
<1>. HIDE DEF l
<1>2. Role' = Role
  BY DEF Role
<1>3. NotAsked(c, toServer, main) /\ OwnsEntry(c, id, clients)
  BY DEF Calm, OwnIds
<1>a. OnlyProbes(main)'
  BY <1>2 DEF OnlyProbes, Idle, ComesOnce
<1>b. \A n \in 1 .. Len(toServer') :
        toServer'[n].kind = "ConnStatus" => Role'[toServer'[n].conn] = "probe"
  BY <1>1, <1>2 DEF ComesOnce
<1>4. SUFFICES ASSUME NEW n \in 1 .. Len(toServer'), Coming(toServer'[n])
              PROVE  LET e == toServer'[n].conn IN
                     /\ client'[e] \in Come
                     /\ toServer'[n].kind = "NewClient" => Role'[e] = "new"
                     /\ toServer'[n].kind = "AttachClient" => Role'[e] \in {"attach", "ssh"}
                     /\ OwnsEntry(e, id', clients')
                     /\ main' # Idle => main'.asker # e
                     /\ \A j \in 1 .. Len(toServer') : toServer'[j].conn = e =>
                          /\ Coming(toServer'[j]) => j = n
                          /\ Leaving(toServer'[j]) => n < j
  BY <1>a, <1>b DEF ComesOnce, Coming, Leaving, OwnsEntry, Idle
<1>5. CASE n = l
  <2>1. Coming(m) /\ ~Leaving(m) /\ client[c] \notin Come /\ client'[c] = "attached"
    BY <1>1, <1>4, <1>5
  <2>2. \A j \in 1 .. Len(toServer) :
          /\ Coming(toServer[j]) => toServer[j].conn # c
          /\ Leaving(toServer[j]) => toServer[j].conn # c
    BY <1>3, <2>1 DEF ComesOnce, NotAsked
  <2>3. main # Idle => main.asker # c
    BY <1>3 DEF NotAsked
  <2>. QED  BY <1>1, <1>2, <1>3, <1>5, <2>1, <2>2, <2>3 DEF Come
<1>6. CASE n \in 1 .. Len(toServer) /\ n < l
  <2>. DEFINE e == toServer[n].conn
  <2>1. /\ e \in Conns /\ client[e] \in Come
        /\ toServer[n].kind = "NewClient" => Role[e] = "new"
        /\ toServer[n].kind = "AttachClient" => Role[e] \in {"attach", "ssh"}
        /\ OwnsEntry(e, id, clients)
        /\ main # Idle => main.asker # e
        /\ \A j \in 1 .. Len(toServer) : toServer[j].conn = e =>
             /\ Coming(toServer[j]) => j = n
             /\ Leaving(toServer[j]) => n < j
    BY <1>0, <1>1, <1>4, <1>6 DEF ComesOnce
  <2>2. Coming(m) => e # c
    BY <2>1
  <2>. QED  BY <1>1, <1>2, <1>6, <2>1, <2>2
<1>. QED  BY <1>1, <1>5, <1>6

LEMMA ScreenQueue ==
    ASSUME Typed
    PROVE  /\ toScreen \in Seq(ScreenMsgs) /\ Len(toScreen) \in Nat
           /\ \A n \in 1 .. Len(toScreen) : toScreen[n] \in ScreenMsgs
           /\ \A n \in 1 .. Len(toScreen) :
                toScreen[n].kind \in {"NewTab", "AddClient"} =>
                  toScreen[n].id \in Ids /\ toScreen[n].conn \in Conns
<1>1. toScreen \in Seq(ScreenMsgs)
  BY DEF Typed, ServerTyped
<1>2. \A n \in 1 .. Len(toScreen) : toScreen[n] \in ScreenMsgs
  BY <1>1, ElementOfSeq
<1>. QED  BY <1>1, <1>2, LenProperties DEF ScreenMsgs

LEMMA LoadingTyped ==
    ASSUME Typed, screen.loading # <<>>
    PROVE  /\ Head(screen.loading) \in [id : Ids, conn : Conns]
           /\ Head(screen.loading).id \in Ids /\ Head(screen.loading).conn \in Conns
<1>1. screen.loading \in Seq([id : Ids, conn : Conns])
  BY DEF Typed, ServerTyped, Screens
<1>2. Head(screen.loading) \in [id : Ids, conn : Conns]
  BY <1>1, HeadTailProperties
<1>. QED  BY <1>2

(* Who waits to attach still does.                                          *)
LEMMA AttachedKept ==
    ASSUME Typed, Typed', NEW d \in {0, 1}, NEW K, Passed(d, K), NEW c \in Conns,
           d = 1 => ~Coming(toServer[1]) \/ toServer[1].conn # c,
           client'[c] = "attached" => client[c] = "attached",
           router'[c] = "on" => router[c] = "on"
    PROVE  Attached(c)' => Attached(c)
<1>. SUFFICES ASSUME Attached(c)', NEW n \in DOMAIN toServer,
                     toServer[n].kind \in {"NewClient", "AttachClient"}, toServer[n].conn = c
              PROVE  FALSE
  BY DEF Attached
<1>1. Len(toServer) \in Nat /\ DOMAIN toServer = 1 .. Len(toServer)
  BY QueueTyped
<1>2. DOMAIN toServer' = 1 .. Len(toServer')
  BY DEF Typed, ServerTyped
<1>3. n - d \in 1 .. Len(toServer) - d
  BY <1>1 DEF Coming, SizedKinds
<1>4. n - d \in 1 .. Len(toServer') /\ (n - d) + d = n
  BY <1>1, <1>3 DEF Passed
<1>5. toServer'[n - d] = toServer[n]
  BY <1>1, <1>3, <1>4 DEF Passed
<1>6. n - d \notin DOMAIN toServer'
  BY <1>5 DEF Attached
<1>. QED  BY <1>2, <1>4, <1>6

(* Steps that leave the screen as it is                                     *)
LEMMA ElsewhereKnown ==
    ASSUME Typed, Typed', Calm, Known, EntriesKept, ComesOnce',
           UNCHANGED <<setting, session, screen>>,
           \/ toScreen' = toScreen
           \/ /\ session
              /\ \E m : /\ toScreen' = Append(toScreen, m)
                       /\ m.kind \in {"TerminalResize", "Command"},
           loop' = "running" => loop = "running",
           \A c \in Conns :
             /\ client[c] # "away" => id'[c] = id[c]
             /\ client[c] \in Come => client'[c] \in Come
             /\ client'[c] # "away" =>
                  \/ client[c] # "away" /\ (router'[c] # "done" => router[c] # "done")
                  \/ screen.tabs = "loaded"
                  \/ Role[c] = "new" /\ ~session
             /\ Attached(c)' => Attached(c),
           session => \A n \in 1 .. Len(toServer') : toServer'[n].kind # "NewClient"
    PROVE  Known'
<1>1. Role' = Role
  BY DEF Role
<1>2. /\ Len(toScreen) \in Nat /\ Len(toScreen') \in Nat
      /\ \A n \in 1 .. Len(toScreen') :
           \/ n \in 1 .. Len(toScreen) /\ toScreen'[n] = toScreen[n]
           \/ session /\ toScreen'[n].kind \in {"TerminalResize", "Command"}
  <2>1. CASE toScreen' = toScreen
    BY <2>1, ScreenQueue
  <2>2. CASE \E m : /\ toScreen' = Append(toScreen, m)
                    /\ m.kind \in {"TerminalResize", "Command"}
    <3>1. PICK m : toScreen' = Append(toScreen, m) /\ m.kind \in {"TerminalResize", "Command"}
      BY <2>2
    <3>2. /\ Len(toScreen') = Len(toScreen) + 1 /\ Len(toScreen) \in Nat
          /\ \A n \in 1 .. Len(toScreen) : toScreen'[n] = toScreen[n]
          /\ toScreen'[Len(toScreen) + 1] = m
      BY <3>1, ScreenQueue
    <3>3. toScreen' = toScreen \/ session
      OBVIOUS
    <3>. QED  BY <3>1, <3>2, <3>3
  <2>. QED  BY <2>1, <2>2
<1>3. Expected' = Expected
  <2>1. CASE toScreen' = toScreen
    BY <2>1, ExpectedIs
  <2>2. CASE \E m : /\ toScreen' = Append(toScreen, m)
                    /\ m.kind \in {"TerminalResize", "Command"}
    <3>1. PICK m : toScreen' = Append(toScreen, m) /\ m.kind \in {"TerminalResize", "Command"}
      BY <2>2
    <3>2. After(screen.clients, toScreen') = Told(After(screen.clients, toScreen), m)
      BY <3>1, AfterOneMore, ScreenQueue
    <3>3. \A cs : Told(cs, m) = cs
      BY <3>1 DEF Told
    <3>. QED  BY <3>2, <3>3, ExpectedIs
  <2>. QED  BY <2>1, <2>2
<1>4. ASSUME NEW m, m.conn \in Conns, session, ByCreator(m)
      PROVE  ByCreator(m)'
  BY <1>1, <1>4 DEF ByCreator, Known, SessionStarts, Come
<1>5. SessionStarts'
  <2>1. ~session => toScreen' = <<>> /\ screen'.tabs = "none" /\ screen'.loading = <<>>
    BY DEF Known, SessionStarts
  <2>2. session => \A c \in Conns : Role[c] = "new" => client'[c] \in Come
    BY DEF Known, SessionStarts
  <2>. QED  BY <1>1, <2>1, <2>2 DEF SessionStarts
<1>6. TabStarts'
  <2>1. ASSUME NEW n \in 1 .. Len(toScreen')
        PROVE  /\ toScreen'[n].kind = "NewTab" =>
                    n = 1 /\ screen'.tabs = "none" /\ ByCreator(toScreen[n])'
               /\ toScreen'[n].kind = "AddClient" =>
                    screen'.tabs = "loaded" /\ Role[toScreen'[n].conn] \in {"attach", "ssh"}
    <3>1. SUFFICES ASSUME n \in 1 .. Len(toScreen), toScreen'[n] = toScreen[n],
                          toScreen[n].kind \in {"NewTab", "AddClient"}
                   PROVE  /\ toScreen[n].kind = "NewTab" =>
                               n = 1 /\ screen.tabs = "none" /\ ByCreator(toScreen[n])'
                          /\ toScreen[n].kind = "AddClient" =>
                               /\ screen.tabs = "loaded"
                               /\ Role[toScreen[n].conn] \in {"attach", "ssh"}
      BY <1>2
    <3>2. toScreen[n].conn \in Conns /\ toScreen # <<>>
      BY <3>1, ScreenQueue
    <3>3. session
      BY <3>2 DEF Known, SessionStarts
    <3>. QED  BY <1>4, <3>1, <3>2, <3>3 DEF Known, TabStarts
  <2>2. screen.loading # <<>> =>
          screen.tabs = "loading" /\ ByCreator(Head(screen.loading))'
    <3>1. SUFFICES ASSUME screen.loading # <<>>
                   PROVE  screen.tabs = "loading" /\ ByCreator(Head(screen.loading))'
      OBVIOUS
    <3>2. session
      BY <3>1 DEF Known, SessionStarts
    <3>. QED  BY <1>4, <3>1, <3>2, LoadingTyped DEF Known, TabStarts
  <2>3. ASSUME screen.tabs # "loaded", NEW c \in Conns, client'[c] # "away"
        PROVE  /\ Role[c] = "new"
               /\ router'[c] # "done" =>
                    \A n \in 1 .. Len(toScreen') : toScreen'[n].kind # "RemoveClient"
    <3>1. CASE client[c] # "away" /\ (router'[c] # "done" => router[c] # "done")
      BY <1>2, <2>3, <3>1 DEF Known, TabStarts
    <3>2. CASE Role[c] = "new" /\ ~session
      <4>1. toScreen' = <<>> /\ Len(<<>>) = 0
        BY <3>2, <1>5 DEF SessionStarts
      <4>. QED  BY <3>2, <4>1
    <3>. QED  BY <2>3, <3>1, <3>2
  <2>. QED  BY <1>1, <2>1, <2>2, <2>3 DEF TabStarts, ByCreator, Known
<1>7. ForgetsLeavers'
  BY <1>1, <1>3 DEF Known, ForgetsLeavers, EntriesKept
<1>8. KnowsComers'
  <2>1. \A c \in Conns : Attached(c) => id'[c] = id[c]
    BY DEF Attached
  <2>. QED  BY <1>3, <2>1 DEF Known, KnowsComers
<1>. QED  BY <1>5, <1>6, <1>7, <1>8 DEF Known

(* Clients leave by their own doing, and one of them started the session.   *)
Started == Orderly /\ OneCreator

LEMMA NoNewClient ==
    ASSUME Typed, Known, session, NEW d \in {0, 1}, NEW K, Passed(d, K),
           \A m \in K : m.kind # "NewClient"
    PROVE  \A n \in 1 .. Len(toServer') : toServer'[n].kind # "NewClient"
<1>1. \A n \in 1 .. Len(toServer) : toServer[n].kind # "NewClient"
  BY DEF Known, SessionStarts
<1>2. Len(toServer) \in Nat
  BY QueueTyped
<1>. QED  BY <1>1, <1>2 DEF Passed

(* A router passes on one message.                                          *)
LEMMA RouteKnown ==
    ASSUME Typed, Typed', Calm, Known, NEW c \in Conns, NEW phase \in Phases \ {"away"},
           NEW ends \in BOOLEAN, NEW m, m.conn = c, Route(c, phase, ends, <<m>>),
           m.kind = "ConnStatus" => Role[c] = "probe",
           \/ /\ ~Coming(m)
              /\ client[c] \in Come => phase \in Come
              /\ phase = "attached" => client[c] = "attached"
           \/ /\ Coming(m) /\ phase = "attached" /\ client[c] \notin Come
              /\ m.kind = "NewClient" => Role[c] = "new"
              /\ m.kind = "AttachClient" => Role[c] \in {"attach", "ssh"}
    PROVE  Known'
<1>1. /\ router[c] = "on" /\ client[c] # "away" /\ loop' = loop
      /\ client \in [Conns -> Phases] /\ router \in [Conns -> {"none", "on", "done"}]
      /\ UNCHANGED <<id, setting, clients, session, screen, toScreen, main>>
      /\ toServer' = toServer \o <<m>>
      /\ client' = [client EXCEPT ![c] = phase]
      /\ router' = [router EXCEPT ![c] = IF ends THEN "done" ELSE "on"]
  BY DEF Route, Routing, serverVars, Typed, ThreadsTyped, IdsAreKept
<1>2. toServer' = Append(toServer, m)
  BY <1>1, QueueTyped, AppendIsConcat
<1>3. \A e \in Conns :
        /\ e # c => client'[e] = client[e] /\ router'[e] = router[e]
        /\ e = c => client'[e] = phase /\ router'[e] \in {"on", "done"}
  BY <1>1
<1>4. Passed(0, {m}) /\ Len(toServer') = Len(toServer) + 1 /\ Len(toServer) \in Nat
  BY <1>2, PassedOne, QueueTyped
<1>5. \A e \in Conns : /\ client[e] \in Come => client'[e] \in Come
                       /\ client'[e] = "attached" => router'[e] # "none"
  <2>1. client[c] \in Come => phase \in Come
    BY DEF Come
  <2>. QED  BY <1>3, <2>1 DEF Known, ComesOnce
<1>6. ComesOnce'
  BY <1>1, <1>2, <1>5, <1>3, ComesOnceWith DEF Known, Coming, Leaving, SizedKinds
<1>7. ASSUME session
      PROVE  \A n \in 1 .. Len(toServer') : toServer'[n].kind # "NewClient"
  <2>1. m.kind # "NewClient"
    BY <1>7 DEF Known, SessionStarts, Coming, SizedKinds
  <2>. QED  BY <1>4, <1>7, <2>1, NoNewClient
<1>8. ASSUME NEW e \in Conns PROVE Attached(e)' => Attached(e)
  <2>1. CASE ~Coming(m) \/ e # c
    <3>1. client'[e] = "attached" => client[e] = "attached"
      BY <1>3, <2>1
    <3>2. router'[e] = "on" => router[e] = "on"
      BY <1>1, <1>3
    <3>. QED  BY <1>4, <3>1, <3>2, AttachedKept
  <2>2. CASE Coming(m) /\ e = c
    <3>1. DOMAIN toServer' = 1 .. Len(toServer')
      BY DEF Typed, ServerTyped
    <3>2. Len(toServer) + 1 \in 1 .. Len(toServer') /\ toServer'[Len(toServer) + 1] = m
      BY <1>2, <1>4, QueueAppended
    <3>. QED  BY <2>2, <3>1, <3>2 DEF Attached, Coming, SizedKinds
  <2>. QED  BY <2>1, <2>2
<1>9. \A e \in Conns :
             /\ client[e] # "away" => id'[e] = id[e]
             /\ client[e] \in Come => client'[e] \in Come
             /\ client'[e] # "away" =>
                  client[e] # "away" /\ (router'[e] # "done" => router[e] # "done")
             /\ Attached(e)' => Attached(e)
  BY <1>1, <1>3, <1>5, <1>8
<1>10. EntriesKept
  BY <1>1 DEF EntriesKept
<1>. QED  BY <1>1, <1>6, <1>7, <1>9, <1>10, ElsewhereKnown

(* Steps of a router which leave its client as it is, and say nothing to    *)
(* the loop                                                                 *)
LEMMA QuietRouterKnown ==
    ASSUME Typed, Typed', Calm, Known, EntriesKept, NEW d \in {0, 1}, NEW K, Passed(d, K),
           Silent(K), d = 1 => ~Coming(toServer[1]),
           UNCHANGED <<setting, session, screen, id, client, router, main>>,
           \/ toScreen' = toScreen
           \/ /\ session
              /\ \E m : /\ toScreen' = Append(toScreen, m)
                        /\ m.kind \in {"TerminalResize", "Command"},
           loop' = "running" => loop = "running"
    PROVE  Known'
<1>1. \A c : OwnsEntry(c, id, clients) => OwnsEntry(c, id', clients')
  BY DEF OwnsEntry, EntriesKept
<1>2. ComesOnce'
  BY <1>1, ComesOnceKept DEF Known, ComesOnce, OnlyProbes
<1>3. session => \A n \in 1 .. Len(toServer') : toServer'[n].kind # "NewClient"
  BY NoNewClient DEF Silent, Coming, SizedKinds
<1>4. \A c \in Conns : Attached(c)' => Attached(c)
  BY AttachedKept
<1>. QED  BY <1>2, <1>3, <1>4, ElsewhereKnown

(* The steps of the threads, one by one                                     *)
LEMMA RouterKnown ==
    ASSUME Started, Typed, Typed', Calm, Known, NEW c \in Conns, Router(c)
    PROVE  Known'
<1>0. /\ \A k : ~TooSlow(k)
      /\ Role[c] \notin {"init", "kill"}
  BY OrderlyMeans DEF Started
<1>1. ~RouteInit(c) /\ ~RouteKillSession(c)
  BY <1>0 DEF RouteInit, RouteKillSession
<1>2. ASSUME RouteServerMode(c) PROVE Known'
  <2>1. /\ ~Coming(About("Mode", c)) /\ About("Mode", c).conn = c
        /\ About("Mode", c).kind # "ConnStatus"
    BY DEF About, Coming, SizedKinds
  <2>. QED  BY <1>2, <2>1, RouteKnown DEF RouteServerMode, Phases, Come
<1>3. ASSUME RouteFirstMessage(c) PROVE Known'
  <2>1. PICK s \in Sizes :
           Route(c, "attached", FALSE,
                 <<Sized(IF Role[c] = "new" THEN "NewClient" ELSE "AttachClient", c, s)>>)
    BY <1>3 DEF RouteFirstMessage
  <2>. DEFINE m == Sized(IF Role[c] = "new" THEN "NewClient" ELSE "AttachClient", c, s)
  <2>2. /\ client[c] \notin Come
        /\ Role[c] \in {"new", "attach", "ssh"}
    BY <1>3 DEF RouteFirstMessage, Come
  <2>3. /\ m.conn = c /\ Coming(m) /\ m.kind # "ConnStatus"
        /\ m.kind = "NewClient" => Role[c] = "new"
        /\ m.kind = "AttachClient" => Role[c] \in {"attach", "ssh"}
    BY <2>2 DEF Sized, Coming, SizedKinds
  <2>. HIDE DEF m
  <2>. QED  BY <2>1, <2>2, <2>3, RouteKnown DEF Phases, m
<1>4. ASSUME RouteConnStatus(c) PROVE Known'
  <2>1. ~Coming(About("ConnStatus", c)) /\ About("ConnStatus", c).conn = c
    BY DEF About, Coming, SizedKinds
  <2>2. Role[c] = "probe"
    BY <1>4 DEF RouteConnStatus
  <2>. QED  BY <1>4, <2>1, <2>2, RouteKnown DEF RouteConnStatus, Phases, Come
<1>5. ASSUME RouteDetach(c) PROVE Known'
  <2>1. /\ ~Coming(Detaching(c, <<id[c]>>)) /\ Detaching(c, <<id[c]>>).conn = c
        /\ Detaching(c, <<id[c]>>).kind # "ConnStatus"
    BY DEF Detaching, Coming, SizedKinds
  <2>. QED  BY <1>5, <2>1, RouteKnown DEF RouteDetach, Phases, Come
<1>6. ASSUME RouteQuit(c) PROVE Known'
  <2>1. /\ ~Coming(About("ClientExit", c)) /\ About("ClientExit", c).conn = c
        /\ About("ClientExit", c).kind # "ConnStatus"
    BY DEF About, Coming, SizedKinds
  <2>. QED  BY <1>6, <2>1, RouteKnown DEF RouteQuit, Phases, Come
<1>7. ASSUME RouteClientExited(c) PROVE Known'
  <2>1. /\ ~Coming(About("RemoveClient", c)) /\ About("RemoveClient", c).conn = c
        /\ About("RemoveClient", c).kind # "ConnStatus"
    BY DEF About, Coming, SizedKinds
  <2>. QED  BY <1>7, <2>1, RouteKnown DEF RouteClientExited, Phases, Come
<1>8. ASSUME RouteEndOfStream(c) PROVE Known'
  <2>. DEFINE m == About("RemoveClient", c)
  <2>1. m.conn = c /\ ~Coming(m) /\ m.kind # "ConnStatus"
    BY DEF About, Coming, SizedKinds
  <2>2. /\ router[c] = "on" /\ router \in [Conns -> {"none", "on", "done"}]
        /\ router' = [router EXCEPT ![c] = "done"] /\ toServer' = Append(toServer, m)
        /\ UNCHANGED <<setting, session, screen, id, clients, client, main, toScreen, loop>>
    BY <1>8 DEF RouteEndOfStream, Routing, serverVars, Typed, ThreadsTyped
  <2>. HIDE DEF m
  <2>3. \A e \in Conns : /\ router'[e] # "done" => router[e] # "done"
                         /\ router'[e] = "on" => router[e] = "on"
                         /\ router[e] # "none" => router'[e] # "none"
    BY <2>2
  <2>4. ComesOnce'
    BY <2>1, <2>2, <2>3, ComesOnceWith DEF Known, ComesOnce
  <2>5. Passed(0, {m})
    BY <2>2, PassedOne
  <2>6. session => \A n \in 1 .. Len(toServer') : toServer'[n].kind # "NewClient"
    BY <2>1, <2>5, NoNewClient DEF Coming, SizedKinds
  <2>7. \A e \in Conns : Attached(e)' => Attached(e)
    BY <2>2, <2>3, <2>5, AttachedKept
  <2>8. EntriesKept
    BY <2>2 DEF EntriesKept
  <2>. QED  BY <2>2, <2>3, <2>4, <2>6, <2>7, <2>8, ElsewhereKnown
<1>9. ASSUME NEW s \in Sizes, RouteResize(c, s) PROVE Known'
  <2>1. EntriesKept
    BY <1>9, EntriesKeptByResize DEF RouteResize
  <2>2. /\ toServer' = toServer /\ toScreen' = toScreen
        /\ UNCHANGED <<setting, session, screen, id, client, router, main, loop>>
    BY <1>9 DEF RouteResize
  <2>. QED  BY <2>1, <2>2, PassedSame, QuietRouterKnown DEF Silent
<1>10. ASSUME RouteResizeAnnounce(c) PROVE Known'
  <2>1. session /\ screen.up
    BY <1>10 DEF RouteResizeAnnounce, Calm, NoAlarm
  <2>2. /\ toServer' = toServer
        /\ toScreen' = Append(toScreen, [kind |-> "TerminalResize", size |-> measured[c]])
        /\ UNCHANGED <<setting, session, screen, id, client, router, main, loop, clients>>
    BY <1>10, <2>1 DEF RouteResizeAnnounce
  <2>3. EntriesKept
    BY <2>2 DEF EntriesKept
  <2>. QED  BY <2>1, <2>2, <2>3, PassedSame, QuietRouterKnown DEF Silent
<1>11. ASSUME RouteSwitchToMode(c) PROVE Known'
  <2>1. UNCHANGED <<toServer, toScreen, setting, session, screen, id, client, router, main,
                    loop, clients>>
    BY <1>0, <1>11 DEF RouteSwitchToMode, serverVars
  <2>2. EntriesKept
    BY <2>1 DEF EntriesKept
  <2>. QED  BY <2>1, <2>2, PassedSame, QuietRouterKnown DEF Silent
<1>12. ASSUME RouteCommand(c) PROVE Known'
  <2>1. /\ session
        /\ toScreen' = Append(toScreen, [kind |-> "Command"])
        /\ UNCHANGED <<toServer, setting, session, screen, id, client, router, main, loop,
                       clients>>
    BY <1>12 DEF RouteCommand
  <2>2. EntriesKept
    BY <2>1 DEF EntriesKept
  <2>. QED  BY <2>1, <2>2, PassedSame, QuietRouterKnown DEF Silent
<1>. QED
  BY <1>1, <1>2, <1>3, <1>4, <1>5, <1>6, <1>7, <1>8, <1>9, <1>10, <1>11, <1>12 DEF Router

LEMMA AcceptKnown ==
    ASSUME Started, Typed, Typed', Calm, Known, NEW c \in Conns, Accept(c)
    PROVE  Known'
<1>1. /\ UNCHANGED <<setting, session, screen, router, main, loop, toServer, toScreen>>
      /\ client \in [Conns -> Phases] /\ id \in [Conns -> Ids \cup {0}]
      /\ client[c] = "away" /\ client' = [client EXCEPT ![c] = "connected"]
      /\ clients' = Put(clients, FreshId(clients), [conn |-> c, size |-> NoSize])
      /\ id' = [id EXCEPT ![c] = FreshId(clients)]
      /\ Role[c] = "new" \/ screen.tabs \in {"loaded", "closed"}
  BY OrderlyMeans DEF Accept, Started, Orderly, Typed, ThreadsTyped
<1>2. EntriesKept
  BY <1>1, IdForNewClient DEF Put, EntriesKept
<1>3. \A e \in Conns :
        /\ e # c => client'[e] = client[e] /\ id'[e] = id[e]
        /\ e = c => client'[e] = "connected"
  BY <1>1
<1>4. Passed(0, {})
  BY <1>1, PassedSame
<1>5. ASSUME NEW n \in 1 .. Len(toServer), Coming(toServer[n])
      PROVE  /\ OwnsEntry(toServer[n].conn, id', clients')
             /\ main' # Idle => main'.asker # toServer[n].conn
  <2>1. /\ client[toServer[n].conn] \in Come
        /\ OwnsEntry(toServer[n].conn, id, clients)
        /\ main # Idle => main.asker # toServer[n].conn
    BY <1>5 DEF Known, ComesOnce
  <2>2. toServer[n].conn # c
    BY <1>1, <2>1 DEF Come
  <2>3. id'[toServer[n].conn] = id[toServer[n].conn]
    BY <1>1, <2>2
  <2>. QED  BY <1>1, <1>2, <2>1, <2>3 DEF OwnsEntry, EntriesKept
<1>6. ComesOnce'
  <2>1. \A e \in Conns : /\ client[e] \in Come => client'[e] \in Come
                         /\ client'[e] = "attached" => router'[e] # "none"
    BY <1>1, <1>3 DEF Known, ComesOnce, Come
  <2>2. \A n \in 1 .. Len(toServer) : Coming(toServer[n]) =>
          /\ OwnsEntry(toServer[n].conn, id', clients')
          /\ main' # Idle => main'.asker # toServer[n].conn
    BY <1>5
  <2>3. setting' = setting /\ ComesOnce /\ OnlyProbes(main')
    BY <1>1 DEF Known, ComesOnce
  <2>. QED  BY <1>4, <2>1, <2>2, <2>3, ComesOnceKept DEF Silent
<1>7. \A e \in Conns : Attached(e)' => Attached(e)
  BY <1>1, <1>3, <1>4, AttachedKept
<1>8. client'[c] # "away" => screen.tabs = "loaded" \/ (Role[c] = "new" /\ ~session)
  BY <1>1 DEF Known, SessionStarts, Come, Calm, NoAlarm
<1>9. session => \A n \in 1 .. Len(toServer') : toServer'[n].kind # "NewClient"
  BY <1>4, NoNewClient
<1>10. \A e \in Conns :
             /\ client[e] # "away" => id'[e] = id[e]
             /\ client[e] \in Come => client'[e] \in Come
             /\ client'[e] # "away" =>
                  \/ client[e] # "away" /\ (router'[e] # "done" => router[e] # "done")
                  \/ screen.tabs = "loaded"
                  \/ Role[e] = "new" /\ ~session
             /\ Attached(e)' => Attached(e)
  BY <1>1, <1>3, <1>7, <1>8 DEF Come
<1>. QED  BY <1>1, <1>2, <1>6, <1>9, <1>10, ElsewhereKnown

LEMMA GoingKnown ==
    ASSUME Typed, Typed', Calm, Known, NEW c \in Conns, Leave(c) \/ Die(c)
    PROVE  Known'
<1>1. /\ UNCHANGED <<setting, session, screen, router, main, loop, toServer, toScreen, id,
                      clients>>
      /\ client \in [Conns -> Phases] /\ client' = [client EXCEPT ![c] = "left"]
      /\ client[c] # "away"
  BY DEF Leave, Die, serverVars, Typed, ThreadsTyped, IdsAreKept
<1>2. \A e \in Conns : client'[e] = IF e = c THEN "left" ELSE client[e]
  BY <1>1
<1>3. EntriesKept
  BY <1>1 DEF EntriesKept
<1>4. Passed(0, {})
  BY <1>1, PassedSame
<1>5. ComesOnce'
  <2>1. \A e \in Conns : /\ client[e] \in Come => client'[e] \in Come
                         /\ client'[e] = "attached" => router'[e] # "none"
    BY <1>1, <1>2 DEF Known, ComesOnce, Come
  <2>2. \A n \in 1 .. Len(toServer) : Coming(toServer[n]) =>
          /\ OwnsEntry(toServer[n].conn, id', clients')
          /\ main' # Idle => main'.asker # toServer[n].conn
    BY <1>1 DEF Known, ComesOnce
  <2>3. setting' = setting /\ ComesOnce /\ OnlyProbes(main')
    BY <1>1 DEF Known, ComesOnce
  <2>. QED  BY <1>4, <2>1, <2>2, <2>3, ComesOnceKept DEF Silent
<1>6. \A e \in Conns : Attached(e)' => Attached(e)
  BY <1>1, <1>2, <1>4, AttachedKept
<1>7. session => \A n \in 1 .. Len(toServer') : toServer'[n].kind # "NewClient"
  BY <1>4, NoNewClient
<1>8. \A e \in Conns :
             /\ client[e] # "away" => id'[e] = id[e]
             /\ client[e] \in Come => client'[e] \in Come
             /\ client'[e] # "away" =>
                  client[e] # "away" /\ (router'[e] # "done" => router[e] # "done")
             /\ Attached(e)' => Attached(e)
  BY <1>1, <1>2, <1>6 DEF Come
<1>. QED  BY <1>1, <1>3, <1>5, <1>7, <1>8, ElsewhereKnown

LEMMA WelcomeKnown ==
    ASSUME Typed, Typed', Calm, Known, Welcome
    PROVE  Known'
<1>1. /\ UNCHANGED <<setting, session, screen, main, loop, toServer, toScreen, id, clients,
                      client>>
      /\ router \in [Conns -> {"none", "on", "done"}]
      /\ arriving \in Conns /\ router' = [router EXCEPT ![arriving] = "on"]
      /\ router[arriving] = "none"
  BY DEF Welcome, Typed, ThreadsTyped, IdsAreKept
<1>2. \A e \in Conns : router'[e] = IF e = arriving THEN "on" ELSE router[e]
  BY <1>1
<1>3. EntriesKept
  BY <1>1 DEF EntriesKept
<1>4. Passed(0, {})
  BY <1>1, PassedSame
<1>5. ComesOnce'
  <2>1. \A e \in Conns : /\ client[e] \in Come => client'[e] \in Come
                         /\ client'[e] = "attached" => router'[e] # "none"
    BY <1>1, <1>2 DEF Known, ComesOnce
  <2>2. \A n \in 1 .. Len(toServer) : Coming(toServer[n]) =>
          /\ OwnsEntry(toServer[n].conn, id', clients')
          /\ main' # Idle => main'.asker # toServer[n].conn
    BY <1>1 DEF Known, ComesOnce
  <2>3. setting' = setting /\ ComesOnce /\ OnlyProbes(main')
    BY <1>1 DEF Known, ComesOnce
  <2>. QED  BY <1>4, <2>1, <2>2, <2>3, ComesOnceKept DEF Silent
<1>6. ASSUME NEW e \in Conns PROVE Attached(e)' => Attached(e)
  <2>1. CASE e = arriving
    <3>1. client[e] # "attached"
      BY <1>1, <2>1 DEF Known, ComesOnce
    <3>. QED  BY <1>1, <3>1 DEF Attached
  <2>2. CASE e # arriving
    BY <1>1, <1>2, <1>4, <2>2, AttachedKept
  <2>. QED  BY <2>1, <2>2
<1>7. session => \A n \in 1 .. Len(toServer') : toServer'[n].kind # "NewClient"
  BY <1>4, NoNewClient
<1>8. \A e \in Conns :
             /\ client[e] # "away" => id'[e] = id[e]
             /\ client[e] \in Come => client'[e] \in Come
             /\ client'[e] # "away" =>
                  client[e] # "away" /\ (router'[e] # "done" => router[e] # "done")
             /\ Attached(e)' => Attached(e)
  BY <1>1, <1>2, <1>6
<1>. QED  BY <1>1, <1>3, <1>5, <1>7, <1>8, ElsewhereKnown

(* Handlers that only send and remove                                       *)
LEMMA DispatchKnown ==
    ASSUME Typed, Typed', Calm, Known, toServer # <<>>, ~Coming(toServer[1]),
           toServer' = Tail(toServer),
           UNCHANGED <<setting, session, screen, toScreen, id, client, clients, router>>,
           loop' = "running" => loop = "running",
           main' # Idle =>
             \/ main' = main
             \/ /\ Leaving(toServer[1]) /\ main'.asker = toServer[1].conn
                /\ ~main'.announce => toServer[1].kind = "ConnStatus"
    PROVE  Known'
<1>1. Passed(1, {})
  BY PassedTail
<1>2. ASSUME NEW n \in 1 .. Len(toServer), n > 1, Coming(toServer[n]), main' # Idle
      PROVE  main'.asker # toServer[n].conn
  <2>1. /\ main # Idle => main.asker # toServer[n].conn
        /\ Leaving(toServer[1]) /\ toServer[1].conn = toServer[n].conn => n < 1
    BY <1>2, QueueTyped DEF Known, ComesOnce
  <2>. QED  BY <1>2, <2>1
<1>3. \A n \in 1 .. Len(toServer) : n > 1 /\ Coming(toServer[n]) =>
        /\ OwnsEntry(toServer[n].conn, id', clients')
        /\ main' # Idle => main'.asker # toServer[n].conn
  BY <1>2 DEF Known, ComesOnce
<1>4. ComesOnce'
  <2>0. OnlyProbes(main')
    BY QueueTyped DEF Known, ComesOnce, OnlyProbes
  <2>1. \A e \in Conns : /\ client[e] \in Come => client'[e] \in Come
                         /\ client'[e] = "attached" => router'[e] # "none"
    BY DEF Known, ComesOnce
  <2>. QED  BY <1>1, <1>3, <2>0, <2>1, ComesOnceKept DEF Known, Silent
<1>5. EntriesKept
  BY DEF EntriesKept
<1>6. \A e \in Conns : Attached(e)' => Attached(e)
  BY <1>1, AttachedKept
<1>7. session => \A n \in 1 .. Len(toServer') : toServer'[n].kind # "NewClient"
  BY <1>1, NoNewClient
<1>. QED  BY <1>4, <1>5, <1>6, <1>7, ElsewhereKnown

(* The first client starts the session.                                     *)
LEMMA NewClientKnown ==
    ASSUME Started, Typed, Typed', Calm, Known, HandleNewClient
    PROVE  Known'
<1>1. /\ toServer # <<>> /\ Msg = toServer[1] /\ Msg.kind = "NewClient"
      /\ toServer' = Tail(toServer) /\ session' = TRUE /\ screen' = NewScreen(Msg.size)
      /\ toScreen' = <<[kind |-> "NewTab", id |-> Msg.id, conn |-> Msg.conn]>>
      /\ clients' = SetClientSize(clients, Msg.id, Msg.size, Msg.conn)
      /\ UNCHANGED <<client, id, router, setting, main, loop>>
  BY QueueTyped DEF HandleNewClient, Takes, Msg
<1>2. /\ Len(toServer) \in Nat /\ 1 \in 1 .. Len(toServer)
      /\ Msg \in ServerMsgs(id)
  BY <1>1, QueueTyped, ElementOfSeq
<1>3. Msg.conn \in Conns /\ Msg.id = id[Msg.conn]
  BY <1>1, <1>2
     DEF ServerMsgs, SizedMsgs, AboutMsgs, DetachMsgs, KillMsgs, RenderMsgs, BareMsgs,
         AboutKinds, BareKinds
<1>4. /\ client[Msg.conn] \in Come /\ Role[Msg.conn] = "new"
      /\ \A j \in 1 .. Len(toServer) :
           toServer[j].conn = Msg.conn /\ Coming(toServer[j]) => j = 1
  BY <1>1, <1>2 DEF Known, ComesOnce, Coming, SizedKinds
<1>5. \A c \in Conns : Role[c] = "new" => c = Msg.conn
  BY <1>3, <1>4 DEF Started, OneCreator, Typed, ThreadsTyped, Role
<1>6. ~session
  BY <1>1, <1>2 DEF Known, SessionStarts
<1>7. EntriesKept
  BY <1>1, EntriesKeptByResize
<1>8. Passed(1, {})
  BY <1>1, PassedTail
<1>9. ComesOnce'
  <2>1. \A e \in Conns : /\ client[e] \in Come => client'[e] \in Come
                         /\ client'[e] = "attached" => router'[e] # "none"
    BY <1>1 DEF Known, ComesOnce
  <2>2. \A n \in 1 .. Len(toServer) : n > 1 /\ Coming(toServer[n]) =>
          /\ OwnsEntry(toServer[n].conn, id', clients')
          /\ main' # Idle => main'.asker # toServer[n].conn
    BY <1>1, <1>7 DEF Known, ComesOnce, OwnsEntry, EntriesKept
  <2>3. setting' = setting /\ ComesOnce /\ OnlyProbes(main')
    BY <1>1 DEF Known, ComesOnce
  <2>. QED  BY <1>8, <2>1, <2>2, <2>3, ComesOnceKept DEF Silent
<1>10. Role' = Role
  BY <1>1 DEF Role
<1>11. SessionStarts'
  <2>1. ASSUME NEW n \in 1 .. Len(toServer') PROVE toServer'[n].kind # "NewClient"
    <3>1. /\ n + 1 \in 1 .. Len(toServer) /\ n + 1 # 1 /\ toServer'[n] = toServer[n + 1]
      BY <1>1, QueueShrinks, <1>2
    <3>2. toServer[n + 1].kind = "NewClient" => toServer[n + 1].conn = Msg.conn
      <4>1. toServer[n + 1].kind = "NewClient" => /\ Role[toServer[n + 1].conn] = "new"
                                                /\ toServer[n + 1].conn \in Conns
        <5>1. toServer[n + 1] \in ServerMsgs(id)
          BY <3>1, QueueTyped, ElementOfSeq
        <5>2. toServer[n + 1].kind = "NewClient" => toServer[n + 1].conn \in Conns
          BY <5>1
             DEF ServerMsgs, SizedMsgs, AboutMsgs, DetachMsgs, KillMsgs, RenderMsgs, BareMsgs,
                 AboutKinds, BareKinds
        <5>. QED  BY <3>1, <5>2 DEF Known, ComesOnce, Coming, SizedKinds
      <4>. QED  BY <4>1, <1>5
    <3>. QED  BY <1>4, <3>1, <3>2 DEF Coming, SizedKinds
  <2>2. \A c \in Conns : Role[c] = "new" => client[c] \in Come
    BY <1>4, <1>5
  <2>. QED  BY <1>1, <1>10, <2>1, <2>2 DEF SessionStarts
<1>12. TabStarts'
  <2>1. Len(toScreen') = 1 /\ toScreen'[1].kind = "NewTab"
        /\ toScreen'[1].id = Msg.id /\ toScreen'[1].conn = Msg.conn
    BY <1>1
  <2>2. screen'.tabs = "none" /\ screen'.loading = <<>> /\ screen'.clients = <<>>
    BY <1>1 DEF NewScreen
  <2>3. \A c \in Conns : client[c] # "away" => Role[c] = "new"
    BY <1>6 DEF Known, SessionStarts, TabStarts
  <2>4. ByCreator(toScreen[1])'
    BY <1>1, <1>3, <1>4, <1>10, <2>1 DEF ByCreator
  <2>. QED  BY <1>1, <1>10, <2>1, <2>2, <2>3, <2>4 DEF TabStarts
<1>13. Expected' = <<>>
  <2>. DEFINE m == [kind |-> "NewTab", id |-> Msg.id, conn |-> Msg.conn]
  <2>1. screen'.clients = <<>>
    BY <1>1 DEF NewScreen
  <2>2. Len(toScreen') = 1 /\ toScreen'[1] = m
    BY <1>1
  <2>3. Told(<<>>, m) = <<>>
    BY DEF Told
  <2>. HIDE DEF m
  <2>4. \A f \in {<<>>}, n \in 1 .. Len(toScreen') : Told(f, toScreen'[n]) \in {<<>>}
    BY <2>2, <2>3
  <2>. DEFINE F == {<<>>}
              q == toScreen'
  <2>5. <<>> \in F /\ Len(q) \in Nat /\ \A f \in F, n \in 1 .. Len(q) : Told(f, q[n]) \in F
    BY <2>2, <2>4
  <2>. HIDE DEF F, q
  <2>6. After(<<>>, q) \in F
    BY <2>5, AfterStays
  <2>. QED  BY <2>1, <2>6, ExpectedIs DEF F, q
<1>14. ForgetsLeavers'
  BY <1>13 DEF ForgetsLeavers
<1>15. KnowsComers'
  BY <1>1 DEF KnowsComers, NewScreen
<1>. QED  BY <1>9, <1>11, <1>12, <1>14, <1>15 DEF Known

(* The screen is told two things more, the first of them its size.          *)
LEMMA AfterTwoMore ==
    ASSUME Typed, NEW m, m.kind = "TerminalResize", NEW a, NEW cs,
           toScreen' = toScreen \o <<m, a>>
    PROVE  /\ Len(toScreen') = Len(toScreen) + 2
           /\ \A n \in 1 .. Len(toScreen) : toScreen'[n] = toScreen[n]
           /\ toScreen'[Len(toScreen) + 1] = m /\ toScreen'[Len(toScreen) + 2] = a
           /\ After(cs, toScreen') = Told(After(cs, toScreen), a)
<1>. DEFINE q == Append(toScreen, m)
            T == ScreenMsgs \cup {m, a}
<1>1. toScreen \in Seq(ScreenMsgs) /\ ScreenMsgs \subseteq T /\ m \in T /\ a \in T
  BY ScreenQueue
<1>2. toScreen \in Seq(T)
  BY <1>1, SeqMonotonic
<1>. HIDE DEF T
<1>3. q \in Seq(T) /\ toScreen' = Append(q, a)
  BY <1>1, <1>2
<1>4. After(cs, q) = Told(After(cs, toScreen), m)
  BY <1>2, AfterOneMore
<1>5. Told(After(cs, toScreen), m) = After(cs, toScreen)
  BY DEF Told
<1>. HIDE DEF q
<1>6. After(cs, Append(q, a)) = Told(After(cs, q), a)
  BY <1>3, AfterOneMore
<1>7. /\ Len(toScreen') = Len(toScreen) + 2
      /\ \A n \in 1 .. Len(toScreen) : toScreen'[n] = toScreen[n]
      /\ toScreen'[Len(toScreen) + 1] = m /\ toScreen'[Len(toScreen) + 2] = a
  BY <1>1, <1>2
<1>. QED  BY <1>3, <1>4, <1>5, <1>6, <1>7

(* The loop tells the screen of a client that attaches.                     *)
LEMMA AttachClientKnown ==
    ASSUME Started, Typed, Typed', Calm, Known, HandleAttachClient
    PROVE  Known'
<1>1. /\ toServer # <<>> /\ Msg = toServer[1] /\ Msg.kind = "AttachClient" /\ main = Idle
      /\ Len(toServer) \in Nat /\ 1 \in 1 .. Len(toServer)
      /\ Msg \in ServerMsgs(id)
  BY QueueTyped, ElementOfSeq DEF HandleAttachClient, Takes, Msg
<1>2. Msg.conn \in Conns /\ Msg.id = id[Msg.conn]
  BY <1>1
     DEF ServerMsgs, SizedMsgs, AboutMsgs, DetachMsgs, KillMsgs, RenderMsgs, BareMsgs,
         AboutKinds, BareKinds
<1>3. /\ client[Msg.conn] \in Come /\ Role[Msg.conn] \in {"attach", "ssh"}
      /\ OwnsEntry(Msg.conn, id, clients)
  BY <1>1 DEF Known, ComesOnce, Coming, SizedKinds
<1>4. screen.tabs = "loaded" /\ session
  BY <1>2, <1>3 DEF Known, TabStarts, SessionStarts, Come
<1>. DEFINE r == [kind |-> "TerminalResize", size |-> MinSize(clients')]
            a == [kind |-> "AddClient", id |-> Msg.id, conn |-> Msg.conn]
<1>5. /\ toServer' = Tail(toServer)
      /\ clients' = SetClientSize(clients, Msg.id, Msg.size, Msg.conn)
      /\ toScreen' = toScreen \o <<r, a>>
      /\ main' = Idle
      /\ UNCHANGED <<client, id, router, setting, session, screen, loop>>
  <2>1. screen.up /\ ~TooSlow(Msg.id)
    BY OrderlyMeans DEF Started, Calm, NoAlarm
  <2>. QED  BY <1>4, <2>1 DEF HandleAttachClient
<1>6. r.kind = "TerminalResize" /\ a.kind = "AddClient" /\ a.id = Msg.id /\ a.conn = Msg.conn
  OBVIOUS
<1>. HIDE DEF r, a
<1>7. /\ Len(toScreen') = Len(toScreen) + 2 /\ Len(toScreen) \in Nat
      /\ \A n \in 1 .. Len(toScreen) : toScreen'[n] = toScreen[n]
      /\ toScreen'[Len(toScreen) + 1] = r /\ toScreen'[Len(toScreen) + 2] = a
      /\ After(screen.clients, toScreen') = Told(After(screen.clients, toScreen), a)
  BY <1>5, <1>6, AfterTwoMore, ScreenQueue
<1>8. Expected' = Put(Expected, Msg.id, Msg.conn)
  BY <1>5, <1>6, <1>7, ExpectedIs DEF Told
<1>9. Role' = Role
  BY <1>5 DEF Role
<1>10. EntriesKept
  BY <1>5, EntriesKeptByResize
<1>11. Passed(1, {})
  BY <1>1, <1>5, PassedTail
<1>12. ComesOnce'
  <2>1. \A e \in Conns : /\ client[e] \in Come => client'[e] \in Come
                         /\ client'[e] = "attached" => router'[e] # "none"
    BY <1>5 DEF Known, ComesOnce
  <2>2. \A n \in 1 .. Len(toServer) : n > 1 /\ Coming(toServer[n]) =>
          /\ OwnsEntry(toServer[n].conn, id', clients')
          /\ main' # Idle => main'.asker # toServer[n].conn
    <3>1. \A n \in 1 .. Len(toServer) :
            Coming(toServer[n]) => OwnsEntry(toServer[n].conn, id, clients)
      BY DEF Known, ComesOnce
    <3>2. \A e : OwnsEntry(e, id, clients) => OwnsEntry(e, id', clients')
      BY <1>5, <1>10 DEF OwnsEntry, EntriesKept
    <3>. QED  BY <1>5, <3>1, <3>2
  <2>3. setting' = setting /\ ComesOnce /\ OnlyProbes(main')
    BY <1>5 DEF Known, OnlyProbes
  <2>. QED  BY <1>11, <2>1, <2>2, <2>3, ComesOnceKept DEF Silent
<1>13. SessionStarts'
  <2>1. \A n \in 1 .. Len(toServer') : toServer'[n].kind # "NewClient"
    BY <1>4, <1>11, NoNewClient
  <2>. QED  BY <1>4, <1>5, <1>9, <2>1 DEF Known, SessionStarts
<1>14. TabStarts'
  <2>1. ASSUME NEW n \in 1 .. Len(toScreen')
        PROVE  /\ toScreen'[n].kind # "NewTab"
               /\ toScreen'[n].kind = "AddClient" =>
                    Role[toScreen'[n].conn] \in {"attach", "ssh"}
    <3>1. CASE n \in 1 .. Len(toScreen)
      BY <1>4, <1>7, <3>1 DEF Known, TabStarts
    <3>2. CASE n = Len(toScreen) + 1
      BY <1>6, <1>7, <3>2
    <3>3. CASE n = Len(toScreen) + 2
      BY <1>3, <1>6, <1>7, <3>3
    <3>. QED  BY <1>7, <3>1, <3>2, <3>3
  <2>2. screen'.tabs = "loaded" /\ screen'.loading = <<>>
    BY <1>4, <1>5 DEF Known, TabStarts
  <2>. QED  BY <1>9, <2>1, <2>2 DEF TabStarts
<1>15. ForgetsLeavers'
  <2>1. ASSUME NEW k \in DOMAIN Expected'
        PROVE  /\ Role[Expected'[k]] \in {"new", "attach", "ssh"}
               /\ \/ k \in DOMAIN clients' /\ clients'[k].conn = Expected'[k]
                  \/ Role[Expected'[k]] = "new"
    <3>1. CASE k = Msg.id
      <4>1. Expected'[k] = Msg.conn
        BY <1>8, <3>1 DEF Put
      <4>2. k \in DOMAIN clients /\ clients[k].conn = Msg.conn
        BY <1>2, <1>3, <3>1 DEF OwnsEntry
      <4>. QED  BY <1>3, <1>10, <4>1, <4>2 DEF EntriesKept
    <3>2. CASE k # Msg.id
      <4>1. k \in DOMAIN Expected /\ Expected'[k] = Expected[k]
        BY <1>8, <2>1, <3>2 DEF Put
      <4>. QED  BY <1>10, <4>1 DEF Known, ForgetsLeavers, EntriesKept
    <3>. QED  BY <3>1, <3>2
  <2>. QED  BY <1>9, <2>1 DEF ForgetsLeavers
<1>16. KnowsComers'
  <2>1. ASSUME loop = "running", NEW c \in Conns, Attached(c)'
        PROVE  id[c] \in DOMAIN Expected' /\ Expected'[id[c]] = c
    <3>1. CASE c = Msg.conn
      BY <1>2, <1>8, <3>1 DEF Put
    <3>2. CASE c # Msg.conn
      <4>1. Attached(c)
        BY <1>1, <1>5, <1>11, <2>1, <3>2, AttachedKept
      <4>2. id[c] \in DOMAIN Expected /\ Expected[id[c]] = c
        BY <1>4, <2>1, <4>1 DEF Known, KnowsComers
      <4>3. router[c] = "on"
        BY <4>1 DEF Attached
      <4>4. id[c] # Msg.id
        BY <1>2, <1>3, <3>2, <4>3, OwnersDiffer DEF Calm, OwnIds
      <4>. QED  BY <1>8, <4>2, <4>4 DEF Put
    <3>. QED  BY <3>1, <3>2
  <2>. QED  BY <1>5, <2>1 DEF KnowsComers
<1>. QED  BY <1>12, <1>13, <1>14, <1>15, <1>16 DEF Known

(* What the screen is told when a client is removed                         *)
LEMMA Announced ==
    ASSUME Typed, NEW cs, NEW k, NEW ds, toScreen' = toScreen \o Announcement(ds, k)
    PROVE  /\ \A n \in 1 .. Len(toScreen') :
                \/ n \in 1 .. Len(toScreen) /\ toScreen'[n] = toScreen[n]
                \/ toScreen'[n].kind \in {"TerminalResize", "RemoveClient"}
           /\ After(cs, toScreen') = Drop(After(cs, toScreen), k)
<1>. DEFINE a == [kind |-> "RemoveClient", id |-> k]
            r == [kind |-> "TerminalResize", size |-> MinSize(ds)]
<1>1. Announcement(ds, k) = <<a>> \/ Announcement(ds, k) = <<r, a>>
  <2>1. ASSUME NEW x, NEW y PROVE <<>> \o <<x>> = <<x>> /\ <<y>> \o <<x>> = <<y, x>>
    <3>. DEFINE T == {x, y}
    <3>1. <<>> \in Seq(T) /\ <<y>> \in Seq(T) /\ x \in T
      OBVIOUS
    <3>. HIDE DEF T
    <3>2. <<>> \o <<x>> = Append(<<>>, x)
      BY <3>1, AppendIsConcat
    <3>3. <<y>> \o <<x>> = Append(<<y>>, x)
      BY <3>1, AppendIsConcat
    <3>4. Append(<<>>, x) = <<x>>
      OBVIOUS
    <3>5. Append(<<y>>, x) = <<y, x>>
      <4>1. /\ Append(<<y>>, x) \in Seq(T) /\ Len(Append(<<y>>, x)) = 2
            /\ Append(<<y>>, x)[1] = y /\ Append(<<y>>, x)[2] = x
        BY <3>1
      <4>2. /\ <<y, x>> \in Seq(T) /\ Len(<<y, x>>) = 2
            /\ <<y, x>>[1] = y /\ <<y, x>>[2] = x
        BY DEF T
      <4>3. \A n \in 1 .. Len(Append(<<y>>, x)) : n = 1 \/ n = 2
        BY <4>1
      <4>4. \A n \in 1 .. Len(Append(<<y>>, x)) : Append(<<y>>, x)[n] = <<y, x>>[n]
        BY <4>1, <4>2, <4>3
      <4>. QED  BY <4>1, <4>2, <4>4, SeqEqual
    <3>. QED  BY <3>2, <3>3, <3>4, <3>5
  <2>2. Announcement(ds, k) = (IF MinSize(ds) = NoSize THEN <<>> ELSE <<r>>) \o <<a>>
    BY Zenon DEF Announcement
  <2>. HIDE DEF a, r
  <2>. QED  BY <2>1, <2>2
<1>2. a.kind = "RemoveClient" /\ a.id = k /\ r.kind = "TerminalResize"
  OBVIOUS
<1>. HIDE DEF a, r
<1>3. \A c : Told(c, a) = Drop(c, k)
  BY <1>2 DEF Told
<1>4. CASE toScreen' = toScreen \o <<a>>
  <2>. DEFINE T == ScreenMsgs \cup {a}
  <2>1. toScreen \in Seq(ScreenMsgs) /\ ScreenMsgs \subseteq T /\ a \in T
    BY ScreenQueue
  <2>2. toScreen \in Seq(T)
    BY <2>1, SeqMonotonic
  <2>. HIDE DEF T
  <2>3. toScreen' = Append(toScreen, a)
    BY <1>4, <2>1, <2>2, AppendIsConcat
  <2>4. After(cs, toScreen') = Drop(After(cs, toScreen), k)
    BY <1>3, <2>2, <2>3, AfterOneMore
  <2>5. /\ Len(toScreen') = Len(toScreen) + 1 /\ Len(toScreen) \in Nat
        /\ \A n \in 1 .. Len(toScreen) : toScreen'[n] = toScreen[n]
        /\ toScreen'[Len(toScreen) + 1] = a
    BY <2>2, <2>3
  <2>. QED  BY <1>2, <2>4, <2>5
<1>5. CASE toScreen' = toScreen \o <<r, a>>
  <2>1. /\ Len(toScreen') = Len(toScreen) + 2 /\ Len(toScreen) \in Nat
        /\ \A n \in 1 .. Len(toScreen) : toScreen'[n] = toScreen[n]
        /\ toScreen'[Len(toScreen) + 1] = r /\ toScreen'[Len(toScreen) + 2] = a
        /\ After(cs, toScreen') = Told(After(cs, toScreen), a)
    BY <1>2, <1>5, AfterTwoMore, ScreenQueue
  <2>2. \A n \in 1 .. Len(toScreen') :
          n \in 1 .. Len(toScreen) \/ n = Len(toScreen) + 1 \/ n = Len(toScreen) + 2
    BY <2>1
  <2>. QED  BY <1>2, <1>3, <2>1, <2>2
<1>. QED  BY <1>1, <1>4, <1>5

(* The loop forgets a client, and tells the screen.                         *)
LEMMA UnregisterKnown ==
    ASSUME Started, Typed, Typed', Calm, Known, Unregister
    PROVE  Known'
<1>. DEFINE a == main.asker
            k == id[main.asker]
<1>1. /\ main # Idle /\ main.half /\ a \in Conns /\ main.ids = <<k>> /\ main.next = "running"
      /\ OwnsEntry(a, id, clients)
  BY DEF Unregister, Idle, Calm, OwnIds, RemovalIsOwn
<1>2. /\ clients' = Drop(clients, k) /\ main' = Idle
      /\ UNCHANGED <<client, id, router, setting, session, toServer, screen>>
      /\ \/ main.announce /\ ~session /\ toScreen' = toScreen /\ loop' = "panicked"
         \/ main.announce /\ session /\ toScreen' = toScreen \o Announcement(clients', k)
            /\ loop' = loop
         \/ ~main.announce /\ toScreen' = toScreen /\ loop' = loop
  <2>1. Head(main.ids) = k /\ Len(main.ids) = 1
    BY <1>1
  <2>. QED  BY <1>1, <2>1 DEF Unregister, Calm, NoAlarm
<1>3. client[a] # "away" /\ router[a] = "done" /\ k \in Ids
  <2>1. k \in Ids
    BY <1>1, PartialMember DEF OwnsEntry, Typed, ServerTyped, Registers
  <2>2. k # 0
    BY <2>1 DEF Ids
  <2>3. router[a] \in {"none", "on", "done"}
    BY <1>1 DEF Typed, ThreadsTyped
  <2>. QED  BY <1>1, <2>1, <2>2, <2>3 DEF Typed, IdsAreKept, Calm, OwnIds, NotAsked
<1>. HIDE DEF a, k
<1>4. \A c : c # a /\ OwnsEntry(c, id, clients) => id[c] # k /\ OwnsEntry(c, id, clients')
  BY <1>1, <1>2 DEF OwnsEntry, Drop, a, k
<1>5. \A j : /\ j \in DOMAIN clients' <=> j \in DOMAIN clients /\ j # k
             /\ j \in DOMAIN clients' => clients'[j] = clients[j]
  BY <1>2 DEF Drop
<1>6. Role' = Role
  BY <1>2 DEF Role
<1>7. Passed(0, {})
  BY <1>2, PassedSame
<1>8. ComesOnce'
  <2>1. \A e \in Conns : /\ client[e] \in Come => client'[e] \in Come
                         /\ client'[e] = "attached" => router'[e] # "none"
    BY <1>2 DEF Known, ComesOnce
  <2>2. \A n \in 1 .. Len(toServer) : Coming(toServer[n]) =>
          /\ OwnsEntry(toServer[n].conn, id', clients')
          /\ main' # Idle => main'.asker # toServer[n].conn
    <3>1. \A n \in 1 .. Len(toServer) : Coming(toServer[n]) =>
            toServer[n].conn # a /\ OwnsEntry(toServer[n].conn, id, clients)
      BY <1>1 DEF Known, ComesOnce, a
    <3>. QED  BY <1>2, <1>4, <3>1
  <2>3. setting' = setting /\ ComesOnce /\ OnlyProbes(main')
    BY <1>2 DEF Known, OnlyProbes
  <2>. QED  BY <1>7, <2>1, <2>2, <2>3, ComesOnceKept DEF Silent
<1>9. \/ toScreen' = toScreen /\ Expected' = Expected
      \/ session /\ Expected' = Drop(Expected, k)
  <2>1. CASE toScreen' = toScreen
    BY <1>2, <2>1, ExpectedIs
  <2>2. CASE session /\ toScreen' = toScreen \o Announcement(clients', k)
    BY <1>2, <2>2, Announced, ExpectedIs
  <2>. QED  BY <1>2, <2>1, <2>2
<1>10. SessionStarts'
  <2>1. ~session => toScreen' = toScreen
    BY <1>2
  <2>. QED  BY <1>2, <1>6, <2>1 DEF Known, SessionStarts
<1>11. TabStarts'
  <2>1. \A n \in 1 .. Len(toScreen') :
          \/ n \in 1 .. Len(toScreen) /\ toScreen'[n] = toScreen[n]
          \/ toScreen' # toScreen /\ toScreen'[n].kind \in {"TerminalResize", "RemoveClient"}
    BY <1>2, Announced
  <2>2. ASSUME screen.tabs # "loaded", NEW c \in Conns, client[c] # "away",
               router[c] # "done"
        PROVE  toScreen' = toScreen
    <3>1. Role[c] = "new" /\ Role[a] = "new"
      BY <1>1, <1>3, <2>2 DEF Known, TabStarts, a
    <3>2. c = a
      BY <1>1, <3>1 DEF Started, OneCreator, Typed, ThreadsTyped, Role, a
    <3>. QED  BY <1>3, <2>2, <3>2
  <2>3. ASSUME screen.tabs # "loaded", NEW c \in Conns, client[c] # "away"
        PROVE  /\ Role[c] = "new"
               /\ router[c] # "done" =>
                    \A n \in 1 .. Len(toScreen') : toScreen'[n].kind # "RemoveClient"
    BY <2>2, <2>3 DEF Known, TabStarts
  <2>4. \A n \in 1 .. Len(toScreen') :
         /\ toScreen'[n].kind = "NewTab" =>
              n = 1 /\ screen.tabs = "none" /\ ByCreator(toScreen[n])
              /\ toScreen'[n] = toScreen[n]
         /\ toScreen'[n].kind = "AddClient" =>
              screen.tabs = "loaded" /\ Role[toScreen'[n].conn] \in {"attach", "ssh"}
    BY <2>1 DEF Known, TabStarts
  <2>. QED  BY <1>2, <1>6, <2>3, <2>4 DEF Known, TabStarts, ByCreator
<1>12. ForgetsLeavers'
  <2>. SUFFICES ASSUME NEW j \in DOMAIN Expected'
                PROVE  /\ Role[Expected'[j]] \in {"new", "attach", "ssh"}
                       /\ \/ j \in DOMAIN clients' /\ clients'[j].conn = Expected'[j]
                          \/ Role[Expected'[j]] = "new"
    BY <1>6 DEF ForgetsLeavers
  <2>1. CASE session /\ Expected' = Drop(Expected, k)
    <3>1. j \in DOMAIN Expected /\ j # k /\ Expected'[j] = Expected[j]
      BY <2>1 DEF Drop
    <3>. QED  BY <1>5, <3>1 DEF Known, ForgetsLeavers
  <2>2. CASE toScreen' = toScreen /\ Expected' = Expected
    <3>1. CASE ~session
      <4>1. toScreen = <<>> /\ screen.clients = <<>>
        BY <3>1 DEF Known, SessionStarts, TabStarts
      <4>2. Expected = <<>>
        BY <4>1, AfterNothing, ExpectedIs
      <4>. QED  BY <2>2, <4>2
    <3>2. CASE session
      <4>1. ~main.announce
        <5>1. SUFFICES ASSUME main.announce PROVE FALSE
          OBVIOUS
        <5>2. toScreen' = toScreen \o Announcement(clients', k)
          BY <1>2, <3>2, <5>1
        <5>3. Announcement(clients', k) # <<>>
          BY DEF Announcement
        <5>4. toScreen \o Announcement(clients', k) # toScreen
          <6>1. Announcement(clients', k) \in Seq(ScreenMsgs)
            <7>1. clients' \in Registers
              BY DEF Typed, ServerTyped
            <7>. QED  BY <1>3, <7>1, AnnouncementTyped
          <6>. QED  BY <5>3, <6>1, ScreenQueue, ConcatProperties, EmptySeq, LenProperties
        <5>. QED  BY <2>2, <5>2, <5>4
      <4>2. Role[a] = "probe"
        BY <1>1, <4>1 DEF Known, ComesOnce, OnlyProbes, a
      <4>3. clients[k].conn = a
        BY <1>1 DEF OwnsEntry, a, k
      <4>. QED  BY <1>5, <2>2, <4>2, <4>3 DEF Known, ForgetsLeavers
    <3>. QED  BY <3>1, <3>2
  <2>. QED  BY <1>9, <2>1, <2>2
<1>13. KnowsComers'
  <2>1. ASSUME loop' = "running", screen.tabs = "loaded", NEW c \in Conns, Attached(c)'
        PROVE  id[c] \in DOMAIN Expected' /\ Expected'[id[c]] = c
    <3>1. Attached(c) /\ loop = "running"
      BY <1>2, <1>7, <2>1, AttachedKept
    <3>2. id[c] \in DOMAIN Expected /\ Expected[id[c]] = c
      BY <2>1, <3>1 DEF Known, KnowsComers
    <3>3. router[c] = "on" /\ c # a
      BY <1>3, <3>1 DEF Attached
    <3>4. id[c] # k
      BY <1>4, <3>3 DEF Calm, OwnIds
    <3>. QED  BY <1>9, <3>2, <3>4 DEF Drop
  <2>. QED  BY <1>2, <2>1 DEF KnowsComers
<1>. QED  BY <1>8, <1>10, <1>11, <1>12, <1>13 DEF Known

LEMMA MainLoopKnown ==
    ASSUME Started, Typed, Typed', Calm, Known, MainLoop
    PROVE  Known'
<1>0. (\A k : ~TooSlow(k)) /\ ~Foreground
  BY OrderlyMeans DEF Started
<1>1. \A kind : Takes(kind) =>
        /\ main = Idle /\ toServer # <<>> /\ Msg.kind = kind /\ Msg = toServer[1]
        /\ kind \notin SizedKinds => ~Coming(toServer[1])
  BY QueueTyped DEF Takes, Msg, Coming
<1>2. toServer # <<>> => Msg.kind \notin Alarms
  BY QueueTyped DEF Calm, NoAlarm
<1>3. ~HandleKillSession /\ ~HandleError /\ ~HandleRenderNone /\ ~HandleSwitchSession
  BY <1>1, <1>2
     DEF HandleKillSession, HandleError, HandleRenderNone, HandleSwitchSession, Alarms
<1>4. ASSUME NEW h, Dispatch(h, Idle), toServer # <<>>, ~Coming(toServer[1])
      PROVE  Known'
  BY <1>4, DispatchKnown DEF Dispatch
<1>5. ASSUME NEW h, NEW ids, ids # <<>>, NEW announce, Dispatch(h, Removal(ids, announce, "running")),
             toServer # <<>>, ~Coming(toServer[1]), Leaving(toServer[1]),
             ~announce => toServer[1].kind = "ConnStatus"
      PROVE  Known'
  <2>1. main' = [ids |-> ids, half |-> FALSE, announce |-> announce, asker |-> Msg.conn,
                 next |-> "running"]
    BY <1>5 DEF Dispatch, Removal
  <2>2. main'.asker = toServer[1].conn /\ main'.announce = announce
    BY <1>5, <2>1, QueueTyped
  <2>. QED  BY <1>5, <2>2, DispatchKnown DEF Dispatch
<1>6. ASSUME HandleUnblockInputThread \/ HandleMode PROVE Known'
  <2>1. PICK h : Dispatch(h, Idle)
    BY <1>0, <1>6 DEF HandleUnblockInputThread, HandleMode
  <2>. QED  BY <1>1, <1>4, <1>6, <2>1 DEF HandleUnblockInputThread, HandleMode, SizedKinds
<1>7. ASSUME HandleRender PROVE Known'
  <2>0. {k \in Msg.frames : TooSlow(k)} = {}
    BY <1>0
  <2>a. PICK lost \in SUBSET {k \in Msg.frames : TooSlow(k)} :
         \E o \in Orders(lost) :
           Dispatch(Tell(heard, Msg.frames \ lost, "other"), Removal(o, FALSE, "running"))
    BY <1>7 DEF HandleRender
  <2>b. lost = {}
    BY <2>0, <2>a
  <2>1. PICK o \in Orders({}) :
           Dispatch(Tell(heard, Msg.frames \ lost, "other"), Removal(o, FALSE, "running"))
    BY <2>a, <2>b
  <2>2. o = <<>>
    <3>1. Cardinality({}) = 0
      BY FS_EmptySet
    <3>2. o \in [1 .. 0 -> {}]
      BY <3>1 DEF Orders
    <3>. QED  BY <3>2
  <2>3. Dispatch(Tell(heard, Msg.frames \ lost, "other"), Idle)
    BY <2>1, <2>2 DEF Removal
  <2>. QED  BY <1>1, <1>4, <1>7, <2>3 DEF HandleRender, SizedKinds
<1>8. ASSUME HandleRemoveClient \/ HandleClientExit PROVE Known'
  <2>1. /\ Takes("RemoveClient") \/ Takes("ClientExit")
        /\ Dispatch(heard, RemoveOne(Msg.id))
    BY <1>0, <1>8 DEF HandleRemoveClient, HandleClientExit
  <2>2. RemoveOne(Msg.id) = Removal(<<Msg.id>>, TRUE, "running")
    BY DEF RemoveOne
  <2>3. Dispatch(heard, Removal(<<Msg.id>>, TRUE, "running"))
    BY <2>1, <2>2, Zenon
  <2>4. /\ toServer # <<>> /\ ~Coming(toServer[1]) /\ Leaving(toServer[1])
        /\ <<Msg.id>> # <<>>
    BY <1>1, <2>1 DEF SizedKinds, Leaving
  <2>. QED  BY <1>5, <2>3, <2>4
<1>9. ASSUME HandleConnStatus PROVE Known'
  <2>1. PICK h : Dispatch(h, Removal(<<Msg.id>>, FALSE, "running"))
    BY <1>9 DEF HandleConnStatus
  <2>2. /\ toServer # <<>> /\ ~Coming(toServer[1]) /\ Leaving(toServer[1])
        /\ <<Msg.id>> # <<>> /\ toServer[1].kind = "ConnStatus"
    BY <1>1, <1>9 DEF HandleConnStatus, SizedKinds, Leaving
  <2>. QED  BY <1>5, <2>1, <2>2
<1>10. ASSUME HandleDetachSession PROVE Known'
  <2>1. Takes("DetachSession") /\ Dispatch(heard, Removal(Msg.ids, TRUE, "running"))
    BY <1>10 DEF HandleDetachSession
  <2>2. /\ toServer # <<>> /\ ~Coming(toServer[1]) /\ Leaving(toServer[1])
        /\ Msg = toServer[1] /\ Msg.kind = "DetachSession"
    BY <1>1, <2>1 DEF SizedKinds, Leaving
  <2>3. 1 \in 1 .. Len(toServer)
    BY <2>2, QueueTyped
  <2>4. AsksForItself(Msg, id)
    BY <2>2, <2>3 DEF Calm, OwnIds, RequestsAreOwn
  <2>5. Msg.ids = <<id[Msg.conn]>>
    BY <2>2, <2>4 DEF AsksForItself
  <2>6. Msg.ids # <<>>
    BY <2>5
  <2>. QED  BY <1>5, <2>1, <2>2, <2>6
<1>11. ASSUME DropSender PROVE Known'
  <2>1. /\ UNCHANGED <<toServer, setting, session, screen, toScreen, id, client, clients,
                       router, loop>>
        /\ main # Idle /\ main \in Removals /\ main' = [main EXCEPT !.half = TRUE]
    BY <1>11 DEF DropSender, Idle, Typed, ServerTyped
  <2>2. main'.asker = main.asker /\ main'.announce = main.announce
    BY <2>1 DEF Removals
  <2>3. ComesOnce'
    <3>1. \A e \in Conns : /\ client[e] \in Come => client'[e] \in Come
                           /\ client'[e] = "attached" => router'[e] # "none"
      BY <2>1 DEF Known, ComesOnce
    <3>2. \A n \in 1 .. Len(toServer) : Coming(toServer[n]) =>
            /\ OwnsEntry(toServer[n].conn, id', clients')
            /\ main' # Idle => main'.asker # toServer[n].conn
      BY <2>1, <2>2 DEF Known, ComesOnce
    <3>3. setting' = setting /\ ComesOnce /\ OnlyProbes(main') /\ Passed(0, {})
      BY <2>1, <2>2, PassedSame DEF Known, ComesOnce, OnlyProbes
    <3>. QED  BY <3>1, <3>2, <3>3, ComesOnceKept DEF Silent
  <2>4. EntriesKept
    BY <2>1 DEF EntriesKept
  <2>5. \A e \in Conns : Attached(e)' => Attached(e)
    BY <2>1, PassedSame, AttachedKept
  <2>6. session => \A n \in 1 .. Len(toServer') : toServer'[n].kind # "NewClient"
    BY <2>1, PassedSame, NoNewClient
  <2>. QED  BY <2>1, <2>3, <2>4, <2>5, <2>6, ElsewhereKnown
<1>12. ~FinishInstruction
  BY DEF FinishInstruction, Calm, OwnIds, RemovalIsOwn
<1>. QED
  BY <1>3, <1>6, <1>7, <1>8, <1>9, <1>10, <1>11, <1>12, NewClientKnown, AttachClientKnown,
     UnregisterKnown DEF MainLoop

LEMMA ScreenTells ==
    ASSUME NEW s, NEW msgs \in {<<>>, Frames(s), Unblocking \o Frames(s)}
    PROVE  \E K : msgs \in Seq(K) /\ Silent(K)
<1>. DEFINE r == [kind |-> "Render", frames |-> DOMAIN s.clients, conn |-> NoConn]
            u == [kind |-> "UnblockInputThread", conn |-> NoConn]
            K == {u, r}
<1>1. Frames(s) \in {<<>>, <<r>>} /\ Unblocking = <<u>>
  BY DEF Frames, Unblocking
<1>2. Silent(K)
  BY DEF Silent, Coming, Leaving, SizedKinds
<1>3. u \in K /\ r \in K
  OBVIOUS
<1>. HIDE DEF u, r, K
<1>4. <<>> \in Seq(K) /\ <<r>> \in Seq(K) /\ <<u>> \in Seq(K)
  BY <1>3
<1>5. Unblocking \o Frames(s) \in Seq(K)
  BY <1>1, <1>4, ConcatProperties
<1>. QED  BY <1>1, <1>2, <1>4, <1>5

(* The screen handles something.                                            *)
LEMMA HandledKnown ==
    ASSUME Typed, Typed', Calm, Known, session, NEW s, screen' = s,
           NEW t, NEW msgs \in {<<>>, Frames(t), Unblocking \o Frames(t)},
           toServer' = toServer \o msgs,
           UNCHANGED <<client, id, router, clients, setting, session, main, loop>>,
           TabStarts', ForgetsLeavers',
           \A c \in Conns :
             Attached(c) /\ loop = "running" /\ screen'.tabs = "loaded" =>
               id[c] \in DOMAIN Expected' /\ Expected'[id[c]] = c
    PROVE  Known'
<1>1. PICK K : msgs \in Seq(K) /\ Silent(K)
  BY ScreenTells
<1>2. Passed(0, K)
  BY <1>1, PassedMore
<1>3. ComesOnce'
  <2>1. \A e \in Conns : /\ client[e] \in Come => client'[e] \in Come
                         /\ client'[e] = "attached" => router'[e] # "none"
    BY DEF Known, ComesOnce
  <2>2. \A n \in 1 .. Len(toServer) : Coming(toServer[n]) =>
          /\ OwnsEntry(toServer[n].conn, id', clients')
          /\ main' # Idle => main'.asker # toServer[n].conn
    BY DEF Known, ComesOnce
  <2>3. setting' = setting /\ ComesOnce /\ OnlyProbes(main')
    BY DEF Known, ComesOnce
  <2>. QED  BY <1>1, <1>2, <2>1, <2>2, <2>3, ComesOnceKept
<1>4. SessionStarts'
  <2>1. \A n \in 1 .. Len(toServer') : toServer'[n].kind # "NewClient"
    BY <1>1, <1>2, NoNewClient DEF Silent, Coming, SizedKinds
  <2>. QED  BY <2>1 DEF Known, SessionStarts, Role
<1>5. \A c \in Conns : Attached(c)' => Attached(c)
  BY <1>2, AttachedKept
<1>6. KnowsComers'
  BY <1>5 DEF KnowsComers
<1>. QED  BY <1>3, <1>4, <1>6 DEF Known

(* It takes a message and becomes s.                                        *)
LEMMA TakenKnown ==
    ASSUME Typed, Typed', Calm, Known, toScreen # <<>>, toScreen' = Tail(toScreen),
           NEW s \in Screens, screen' = s,
           s.clients = Told(screen.clients, Head(toScreen)),
           NEW t, NEW msgs \in {<<>>, Frames(t), Unblocking \o Frames(t)},
           toServer' = toServer \o msgs,
           UNCHANGED <<client, id, router, clients, setting, session, main, loop>>,
           \/ s.tabs = screen.tabs /\ s.loading = screen.loading
              /\ Head(toScreen).kind # "NewTab"
           \/ /\ s.tabs = "loading" /\ Head(toScreen).kind = "NewTab"
              /\ s.loading = <<[id |-> Head(toScreen).id, conn |-> Head(toScreen).conn]>>
    PROVE  Known'
<1>1. session
  BY DEF Known, SessionStarts
<1>2. /\ Len(toScreen) \in Nat /\ Len(toScreen) > 0 /\ Len(toScreen') = Len(toScreen) - 1
      /\ Head(toScreen) = toScreen[1]
      /\ \A n \in 1 .. Len(toScreen') :
           n + 1 \in 1 .. Len(toScreen) /\ n + 1 # 1 /\ toScreen'[n] = toScreen[n + 1]
  BY ScreenQueue, EmptySeq, LenProperties, HeadTailProperties
<1>3. Expected' = Expected
  BY AfterTheFirst, ExpectedIs, ScreenQueue
<1>4. Role' = Role
  BY DEF Role
<1>5. TabStarts'
  <2>1. ASSUME NEW n \in 1 .. Len(toScreen')
        PROVE  /\ toScreen'[n].kind # "NewTab"
               /\ toScreen'[n].kind = "AddClient" =>
                    screen.tabs = "loaded" /\ Role[toScreen'[n].conn] \in {"attach", "ssh"}
    BY <1>2 DEF Known, TabStarts
  <2>2. Head(toScreen).kind = "NewTab" => screen.tabs = "none" /\ ByCreator(Head(toScreen))
    BY <1>2 DEF Known, TabStarts
  <2>3. screen.tabs = "loaded" => s.tabs = "loaded"
    BY <2>2
  <2>4. s.tabs = "loaded" => screen.tabs = "loaded"
    OBVIOUS
  <2>5. s.loading # <<>> => s.tabs = "loading" /\ ByCreator(Head(s.loading))'
    <3>1. CASE s.tabs = screen.tabs /\ s.loading = screen.loading
      BY <1>4, <3>1 DEF Known, TabStarts, ByCreator
    <3>2. CASE /\ s.tabs = "loading" /\ Head(toScreen).kind = "NewTab"
               /\ s.loading = <<[id |-> Head(toScreen).id, conn |-> Head(toScreen).conn]>>
      <4>1. Head(s.loading) = [id |-> Head(toScreen).id, conn |-> Head(toScreen).conn]
        BY <3>2
      <4>. QED  BY <1>4, <2>2, <3>2, <4>1 DEF ByCreator
    <3>. QED  BY <3>1, <3>2
  <2>6. ASSUME s.tabs # "loaded"
        PROVE  /\ s.clients = <<>>
               /\ \A c \in Conns : client[c] # "away" =>
                    /\ Role[c] = "new"
                    /\ router[c] # "done" =>
                         \A n \in 1 .. Len(toScreen') : toScreen'[n].kind # "RemoveClient"
    <3>1. screen.tabs # "loaded" /\ screen.clients = <<>>
      BY <2>3, <2>6 DEF Known, TabStarts
    <3>2. Head(toScreen).kind # "AddClient"
      BY <1>2, <3>1 DEF Known, TabStarts
    <3>3. Told(<<>>, Head(toScreen)) = <<>>
      <4>1. \A k : Drop(<<>>, k) = <<>>
        BY DEF Drop
      <4>. QED  BY <3>2, <4>1 DEF Told
    <3>. QED  BY <1>2, <3>1, <3>3 DEF Known, TabStarts
  <2>. QED  BY <1>4, <2>1, <2>3, <2>5, <2>6 DEF TabStarts, ByCreator
<1>6. ForgetsLeavers'
  BY <1>3, <1>4 DEF Known, ForgetsLeavers
<1>7. \A c \in Conns :
        Attached(c) /\ loop = "running" /\ screen'.tabs = "loaded" =>
          id[c] \in DOMAIN Expected' /\ Expected'[id[c]] = c
  BY <1>3 DEF Known, KnowsComers
<1>. QED  BY <1>1, <1>5, <1>6, <1>7, HandledKnown

(* The layout of the first tab is there: its creator is at the tab, unless  *)
(* the screen will be told to forget it.                                    *)
LEMMA ApplyLayoutKnown ==
    ASSUME Started, Typed, Typed', Calm, Known, ScreenApplyLayout
    PROVE  Known'
<1>. DEFINE new == Head(screen.loading)
            one == Put(<<>>, new.id, new.conn)
            s   == [screen EXCEPT !.tabs = "loaded", !.loading = <<>>,
                      !.clients = IF @ = <<>> THEN Put(@, new.id, new.conn) ELSE @]
<1>1. /\ screen.loading # <<>> /\ screen' = s /\ toScreen' = toScreen
      /\ toServer' = toServer \o (Unblocking \o Frames(s))
      /\ UNCHANGED <<client, id, router, clients, setting, session, main, loop>>
  BY DEF ScreenApplyLayout, ScreenBecomes
<1>2. session /\ screen.tabs = "loading" /\ screen.clients = <<>>
      /\ ByCreator(new) /\ new.conn \in Conns /\ new.id \in Ids
  BY <1>1, LoadingTyped DEF Known, SessionStarts, TabStarts
<1>3. screen'.tabs = "loaded" /\ screen'.loading = <<>> /\ screen'.clients = one
  BY <1>1, <1>2 DEF Typed, ServerTyped, Screens
<1>4. Role' = Role
  BY <1>1 DEF Role
<1>5. \A n \in 1 .. Len(toScreen) : toScreen[n].kind \notin {"NewTab", "AddClient"}
  BY <1>2 DEF Known, TabStarts
<1>. HIDE DEF new, s
<1>6. TabStarts'
  BY <1>1, <1>3, <1>4, <1>5 DEF TabStarts
<1>7. Expected' \in {one, <<>>}
  <2>. DEFINE F == {one, <<>>}
  <2>1. \A k : Drop(one, k) \in F /\ Drop(<<>>, k) \in F
    BY DEF Drop, Put
  <2>2. one \in F
    OBVIOUS
  <2>. HIDE DEF one, F
  <2>3. \A f \in F : \A k : Drop(f, k) \in F
    BY <2>1 DEF F
  <2>4. \A f \in F, n \in 1 .. Len(toScreen) : Told(f, toScreen[n]) \in F
    BY <1>5, <2>3 DEF Told
  <2>5. After(one, toScreen) \in F
    BY <2>2, <2>4, AfterStays, ScreenQueue
  <2>. QED  BY <1>1, <1>3, <2>5, ExpectedIs DEF F
<1>8. \A k \in DOMAIN Expected' : k = new.id /\ Expected'[k] = new.conn
  BY <1>7 DEF Put
<1>9. ForgetsLeavers'
  BY <1>2, <1>4, <1>8 DEF ForgetsLeavers, ByCreator
<1>10. ASSUME NEW c \in Conns, Attached(c)
       PROVE  id[c] \in DOMAIN Expected' /\ Expected'[id[c]] = c
  <2>1. client[c] # "away" /\ router[c] # "done"
    BY <1>10 DEF Attached
  <2>2. /\ Role[c] = "new"
        /\ \A n \in 1 .. Len(toScreen) : toScreen[n].kind # "RemoveClient"
    BY <1>2, <2>1 DEF Known, TabStarts
  <2>3. c = new.conn /\ id[c] = new.id
    BY <1>2, <2>2 DEF Started, OneCreator, Typed, ThreadsTyped, Role, ByCreator
  <2>4. Expected' = one
    <3>. DEFINE F == {one}
    <3>1. one \in F /\ \A f \in F, n \in 1 .. Len(toScreen) : Told(f, toScreen[n]) \in F
      BY <1>5, <2>2 DEF Told
    <3>. HIDE DEF one, F
    <3>2. After(one, toScreen) \in F
      BY <3>1, AfterStays, ScreenQueue
    <3>. QED  BY <1>1, <1>3, <3>2, ExpectedIs DEF F
  <2>. QED  BY <2>3, <2>4 DEF Put
<1>. QED  BY <1>1, <1>2, <1>6, <1>9, <1>10, HandledKnown

LEMMA ScreenKnown ==
    ASSUME Started, Typed, Typed', Calm, Known, ScreenThread \/ ScreenClosesLastTab
    PROVE  Known'
<1>1. ~ScreenClosesLastTab
  BY OrderlyMeans DEF Started, ScreenClosesLastTab
<1>2. screen \in Screens /\ screen' \in Screens
  BY ScreenTyped DEF Typed, ServerTyped
<1>3. screen.tabs # "closed"
  BY DEF Calm, NoAlarm
<1>4. ASSUME NEW kind, ScreenTakes(kind), NEW t,
             NEW msgs \in {<<>>, Frames(t), Unblocking \o Frames(t)},
             ScreenBecomes(screen', msgs),
             screen'.clients = Told(screen.clients, Head(toScreen)),
             \/ screen'.tabs = screen.tabs /\ screen'.loading = screen.loading
                /\ Head(toScreen).kind # "NewTab"
             \/ /\ screen'.tabs = "loading" /\ Head(toScreen).kind = "NewTab"
                /\ screen'.loading =
                     <<[id |-> Head(toScreen).id, conn |-> Head(toScreen).conn]>>
      PROVE  Known'
  <2>1. /\ toScreen # <<>> /\ toScreen' = Tail(toScreen)
        /\ toServer' = toServer \o msgs
        /\ UNCHANGED <<client, id, router, clients, setting, session, main, loop>>
    BY <1>4 DEF ScreenTakes, ScreenBecomes
  <2>. QED  BY <1>2, <1>4, <2>1, TakenKnown
<1>5. \A s, msgs : ScreenBecomes(s, msgs) => s = screen'
  BY DEF ScreenBecomes
<1>6. ASSUME ScreenResizes \/ ScreenCommand PROVE Known'
  <2>1. /\ \/ ScreenBecomes(screen', Frames(screen))
           \/ ScreenBecomes(screen', Unblocking \o Frames(screen))
        /\ screen'.clients = screen.clients
        /\ screen'.tabs = screen.tabs /\ screen'.loading = screen.loading
    BY <1>2, <1>5, <1>6 DEF ScreenResizes, ScreenCommand, Screens
  <2>2. \E kind \in {"TerminalResize", "Command"} : ScreenTakes(kind)
    BY <1>6 DEF ScreenResizes, ScreenCommand
  <2>3. /\ Head(toScreen).kind \in {"TerminalResize", "Command"}
        /\ Told(screen.clients, Head(toScreen)) = screen.clients
    BY <2>2 DEF ScreenTakes, Told
  <2>. QED  BY <1>4, <2>1, <2>2, <2>3
<1>7. ASSUME ScreenNewTab PROVE Known'
  <2>1. /\ ScreenTakes("NewTab") /\ Head(toScreen).kind = "NewTab"
        /\ ScreenBecomes(screen', <<>>)
        /\ screen'.clients = screen.clients /\ screen'.tabs = "loading"
        /\ screen'.loading = <<[id |-> Head(toScreen).id, conn |-> Head(toScreen).conn]>>
    BY <1>2, <1>5, <1>7 DEF ScreenNewTab, ScreenTakes, Screens
  <2>2. Told(screen.clients, Head(toScreen)) = screen.clients
    BY <2>1 DEF Told
  <2>. QED  BY <1>4, <2>1, <2>2
<1>8. ASSUME ScreenAddClient \/ ScreenRemoveClient PROVE Known'
  <2>1. \E kind \in {"AddClient", "RemoveClient"} :
          /\ ScreenTakes(kind) /\ Head(toScreen).kind = kind
          /\ ScreenBecomes(screen', Frames(screen'))
          /\ screen'.clients = IF kind = "AddClient"
                               THEN Put(screen.clients, Head(toScreen).id, Head(toScreen).conn)
                               ELSE Drop(screen.clients, Head(toScreen).id)
          /\ screen'.tabs = screen.tabs /\ screen'.loading = screen.loading
    BY <1>2, <1>3, <1>5, <1>8 DEF ScreenAddClient, ScreenRemoveClient, ScreenTakes, Screens
  <2>2. screen'.clients = Told(screen.clients, Head(toScreen))
    BY <2>1 DEF Told
  <2>. QED  BY <1>4, <2>1, <2>2
<1>. QED  BY <1>1, <1>6, <1>7, <1>8, ApplyLayoutKnown DEF ScreenThread

LEMMA InitKnown == Init => Known
<1>. SUFFICES ASSUME Init PROVE Known
  OBVIOUS
<1>1. /\ toServer = <<>> /\ toScreen = <<>> /\ Len(<<>>) = 0 /\ main = Idle
      /\ session = FALSE /\ screen = NewScreen(NoSize)
      /\ \A c \in Conns : client[c] = "away"
  BY DEF Init
<1>2. Expected = <<>>
  <2>1. screen.clients = <<>>
    BY <1>1 DEF NewScreen
  <2>. QED  BY <1>1, <2>1, ExpectedIs, AfterNothing
<1>3. DOMAIN Expected = {}
  BY <1>2
<1>. QED
  BY <1>1, <1>3
     DEF Known, ComesOnce, OnlyProbes, SessionStarts, TabStarts, ForgetsLeavers, KnowsComers,
         NewScreen, Attached

LEMMA StepKnown ==
    ASSUME Started
    PROVE  Typed /\ Calm /\ Known /\ [Next]_vars => Known'
<1>. SUFFICES ASSUME Typed, Calm, Known, [Next]_vars PROVE Known'
  OBVIOUS
<1>0. Typed'
  BY StepTyped
<1>1. ~ \E k \in 1 .. Cardinality(Conns) : PluginSwitchesSession(k)
  <2>1. setting.switches = 0
    BY OrderlyMeans DEF Started
  <2>2. inputs \in Nat
    BY DEF Typed, ThreadsTyped
  <2>3. ~ (inputs < setting.switches)
    BY <2>1, <2>2
  <2>. QED  BY <2>3 DEF PluginSwitchesSession
<1>2. CASE UNCHANGED vars
  <2>1. Passed(0, {}) /\ Silent({})
    BY <1>2, PassedSame DEF vars, Silent
  <2>2. EntriesKept
    BY <1>2 DEF vars, EntriesKept
  <2>. QED  BY <1>0, <1>2, <2>1, <2>2, QuietRouterKnown DEF vars
<1>. QED
  BY <1>0, <1>1, <1>2, AcceptKnown, WelcomeKnown, RouterKnown, GoingKnown, MainLoopKnown,
     ScreenKnown DEF Next

(* The inductive invariant of ScreenKnowsClients                            *)
LEMMA KnownInvariant ==
    ASSUME Started
    PROVE  Spec => [](Typed /\ Calm /\ Known)
<1>1. Init => Typed /\ Calm /\ Known
  BY InitTyped, InitCalm, InitKnown
<1>2. Typed /\ Calm /\ Known /\ [Next]_vars => (Typed /\ Calm /\ Known)'
  BY StepTyped, StepCalm, StepKnown DEF Started
<1>. QED  BY <1>1, <1>2, PTL DEF Spec

(* While one client starts the session and clients leave by their own       *)
(* doing, the screen knows, or will know once it has handled what it has    *)
(* been sent, the clients that have attached and stay, and forgets those    *)
(* that have left.                                                          *)
THEOREM ScreenKnowsItsClients ==
    ASSUME Orderly, OneCreator
    PROVE  Spec => []ScreenKnowsClients
<1>1. Known => ScreenKnowsClients
  <2>1. Known => ScreenForgets
    BY DEF Known, ForgetsLeavers, ScreenForgets, Registered
  <2>. QED  BY <2>1 DEF Known, KnowsComers, ScreenKnowsClients
<1>2. Spec => [](Typed /\ Calm /\ Known)
  BY KnownInvariant DEF Started
<1>. QED  BY <1>1, <1>2, PTL

=============================================================================

--------------------------- MODULE ServerLocksProofs ---------------------------
(***************************************************************************)
(* The two locks, for any number of clients and any capacity of the        *)
(* channel: the guards that a thread holds are those that its remaining    *)
(* steps give back, and the main loop can be stuck in the known ways only. *)
(*                                                                         *)
(* A handler is a path: before each step the thread holds certain guards,  *)
(* and a step that takes or gives back a lock leads from one holding to    *)
(* the next (Goes).  A path that is left ends with nothing held.  Steps    *)
(* that turn into others (Expansion) turn into paths between the same      *)
(* holdings.  What may wait for what can then be read off the holdings:    *)
(* only the main loop ever holds session_state, and it takes session_data  *)
(* under it; routers hold session_data only, and take session_state or     *)
(* send under it.                                                          *)
(***************************************************************************)
EXTENDS ServerLocks, TLAPS, FiniteSetTheorems, WellFoundedInduction, SequenceTheorems

----------------------------------------------------------------------------
(* Paths *)

(* What a thread holds: no guard, session_state read-locked, session_data   *)
(* read-locked, or session_data write-locked                                *)
Holdings == {"none", "state", "data", "excl"}

Steps ==
    [do : {"read", "write", "free", "glance", "touch"}, on : Locks]
      \cup [do : {"send"}, on : Instruction]
      \cup [do : {"tell", "size", "drop", "exit", "enter", "leave"}, on : Clients]
      \cup [do : {"tell all", "announce", "evict", "last tab", "join", "return"},
            on : Threads]

(* The clients are told, and removed when that fails, under session_data    *)
(* (an attach) or under session_state (UnblockInputThread) or under none.   *)
TellsUnder(d) == {"none", "data"} \cup (IF d = "unblock" THEN {"state"} ELSE {})

(* In the handler d of the main loop, step s leads from holding h to k.     *)
MainGoes(d, s, h, k) ==
    \/ s.do = "read" /\ h = "none" /\ k = s.on
    \/ s.do = "write" /\ s.on = "data" /\ h = "none" /\ k = "excl"
    \/ s.do = "free" /\ k = "none" /\ (h = s.on \/ (h = "excl" /\ s.on = "data"))
    \/ s.do = "glance" /\ s.on = "state" /\ h \in {"none", "data"} /\ k = h
    \/ s.do = "touch" /\ s.on = "data" /\ h \in {"none", "state"} /\ k = h
    \/ s.do \in {"send", "return"} /\ h = "none" /\ k = h
    \/ s.do \in {"tell", "drop"} /\ h \in TellsUnder(d) /\ k = h
    \/ s.do = "size" /\ h = "data" /\ k = h
    \/ s.do = "tell all" /\ d = "unblock" /\ h = "state" /\ k = h
    \/ s.do = "announce" /\ h = "state" /\ k = h
    \/ s.do \in {"exit", "evict", "last tab"} /\ h = "state" /\ k = "none"
    \/ s.do = "join" /\ h = "excl" /\ k = h

RouterGoes(d, s, h, k) ==
    \/ s.do = "read" /\ s.on = "data" /\ h = "none" /\ k = "data"
    \/ s.do = "free" /\ s.on = "data" /\ h = "data" /\ k = "none"
    \/ s.do = "send" /\ h \in {"none", "data"} /\ k = h
    \/ s.do = "size" /\ d = "resize" /\ h = "data" /\ k = h
    \/ s.do = "glance" /\ s.on = "state" /\ d = "resize" /\ h = "data" /\ k = h
    \/ s.do = "leave" /\ h = "none" /\ k = h

Goes(t, d, s, h, k) ==
    \/ t = Main /\ MainGoes(d, s, h, k)
    \/ t \in Clients /\ RouterGoes(d, s, h, k)
    \/ t = Screen /\ s.do = "send" /\ h = "none" /\ k = h
    \/ t = Listener /\ s.do = "enter" /\ h = "none" /\ k = h

PathBy(f, t, d, q, h, k) ==
    /\ f \in [1 .. Len(q) + 1 -> Holdings]
    /\ f[1] = h /\ f[Len(q) + 1] = k
    /\ \A i \in 1 .. Len(q) : Goes(t, d, q[i], f[i], f[i + 1])

Path(t, d, q, h, k) == q \in Seq(Steps) /\ \E f : PathBy(f, t, d, q, h, k)

----------------------------------------------------------------------------
(* The invariant *)

Holds(t, h) ==
    /\ t \in readers["state"] <=> h = "state"
    /\ t \in readers["data"] <=> h = "data"
    /\ writer["data"] = t <=> h = "excl"

(* What t holds is given back on the way that is left to it.                *)
Works(t) == \E h \in Holdings : Holds(t, h) /\ Path(t, doing[t], todo[t], h, "none")

Writing == {"write", "touch"} \cup Changing

(* Who waits for a lock is about to write it.                               *)
WaitersWrite ==
    \A l \in Locks : \A t \in waiting[l] :
      todo[t] # <<>> /\ Now(t).do \in Writing /\ Wanted(t) = l

LocksTyped ==
    /\ readers \in [Locks -> SUBSET Threads]
    /\ writer \in [Locks -> Threads \cup {NoThread}]
    /\ waiting \in [Locks -> SUBSET Threads]
    /\ writer["state"] = NoThread
    /\ writer["data"] # NoThread => readers["data"] = {}
    /\ WaitersWrite

Doings == {"idle", "away", "connected", "attach", "resize",
           "action", "leave", "left", "accept", "exit", "remove",
           "detach", "switch", "unblock", "render", "close", "kill", "gone"}

ThreadsWork ==
    /\ doing \in [Threads -> Doings]
    /\ DOMAIN todo = Threads
    /\ \A t \in Threads : Works(t)
    /\ \A t \in Threads :
         doing[t] \in {"idle", "away", "connected", "left", "gone"} => todo[t] = <<>>
    /\ todo[Listener] # <<>> => doing[Now(Listener).on] = "away"

RegistryTyped ==
    /\ queue \in Seq(Instruction) /\ Len(queue) <= QueueSize
    /\ sized \subseteq clients /\ clients \subseteq Clients /\ senders \subseteq Clients

Inv == LocksTyped /\ ThreadsWork /\ RegistryTyped

----------------------------------------------------------------------------
(* How paths are taken apart and put together *)

LEMMA PathNil ==
    ASSUME NEW t, NEW d, NEW h \in Holdings
    PROVE  Path(t, d, <<>>, h, h)
<1>1. PathBy([i \in 1 .. 1 |-> h], t, d, <<>>, h, h)
  BY DEF PathBy
<1>. QED  BY <1>1 DEF Path

LEMMA NilEnds ==
    ASSUME NEW t, NEW d, NEW h, NEW k, Path(t, d, <<>>, h, k)
    PROVE  h = k
BY DEF Path, PathBy

LEMMA PathOne ==
    ASSUME NEW t, NEW d, NEW s \in Steps, NEW h \in Holdings, NEW k \in Holdings,
           Goes(t, d, s, h, k)
    PROVE  Path(t, d, <<s>>, h, k)
<1>. DEFINE f == [i \in 1 .. 2 |-> IF i = 1 THEN h ELSE k]
<1>1. <<s>> \in Seq(Steps) /\ Len(<<s>>) = 1 /\ <<s>>[1] = s
  OBVIOUS
<1>2. f \in [1 .. 2 -> Holdings] /\ f[1] = h /\ f[2] = k
  OBVIOUS
<1>. HIDE DEF f
<1>3. PathBy(f, t, d, <<s>>, h, k)
  <2>1. ASSUME NEW i \in 1 .. 1
        PROVE  Goes(t, d, <<s>>[i], f[i], f[i + 1])
    <3>1. i = 1 /\ i + 1 = 2
      OBVIOUS
    <3>. QED  BY <3>1, <1>1, <1>2
  <2>. QED  BY <1>1, <1>2, <2>1 DEF PathBy
<1>. QED  BY <1>1, <1>3 DEF Path

(* The first step of what is left, and what is left after it                *)
LEMMA PathSteps ==
    ASSUME NEW t, NEW d, NEW q, NEW h, NEW k, Path(t, d, q, h, k), q # <<>>
    PROVE  /\ q[1] \in Steps
           /\ \E g \in Holdings : Goes(t, d, q[1], h, g) /\ Path(t, d, Tail(q), g, k)
<1>1. q \in Seq(Steps)
  BY DEF Path
<1>2. PICK f : PathBy(f, t, d, q, h, k)
  BY DEF Path
<1>3. /\ Len(q) \in Nat \ {0} /\ Tail(q) \in Seq(Steps) /\ Len(Tail(q)) = Len(q) - 1
      /\ \A i \in 1 .. Len(q) - 1 : Tail(q)[i] = q[i + 1]
  BY <1>1
<1>. DEFINE f2 == [i \in 1 .. Len(q) |-> f[i + 1]]
<1>4. \A i \in 1 .. Len(q) + 1 : f[i] \in Holdings
  BY <1>2 DEF PathBy
<1>5. f2 \in [1 .. Len(Tail(q)) + 1 -> Holdings]
  BY <1>3, <1>4
<1>6. f2[1] = f[2] /\ f2[Len(Tail(q)) + 1] = k
  BY <1>2, <1>3 DEF PathBy
<1>7. ASSUME NEW i \in 1 .. Len(Tail(q))
      PROVE  Goes(t, d, Tail(q)[i], f2[i], f2[i + 1])
  <2>1. i + 1 \in 1 .. Len(q) /\ Tail(q)[i] = q[i + 1]
        /\ f2[i] = f[i + 1] /\ f2[i + 1] = f[i + 1 + 1]
    BY <1>3
  <2>. QED  BY <2>1, <1>2 DEF PathBy
<1>. HIDE DEF f2
<1>8. PathBy(f2, t, d, Tail(q), f[2], k)
  BY <1>5, <1>6, <1>7 DEF PathBy
<1>9. Goes(t, d, q[1], h, f[2]) /\ f[2] \in Holdings
  <2>1. 1 \in 1 .. Len(q) /\ 1 + 1 = 2 /\ 2 \in 1 .. Len(q) + 1
    BY <1>3
  <2>2. Goes(t, d, q[1], f[1], f[1 + 1]) /\ f[1] = h
    BY <2>1, <1>2 DEF PathBy
  <2>. QED  BY <2>1, <2>2, <1>4
<1>10. Path(t, d, Tail(q), f[2], k)
  BY <1>3, <1>8 DEF Path
<1>11. q[1] \in Steps
  BY <1>1, <1>3
<1>. QED  BY <1>9, <1>10, <1>11

LEMMA PathConcat ==
    ASSUME NEW t, NEW d, NEW p, NEW q, NEW h, NEW g, NEW k,
           Path(t, d, p, h, g), Path(t, d, q, g, k)
    PROVE  Path(t, d, p \o q, h, k)
<1>1. p \in Seq(Steps) /\ q \in Seq(Steps) /\ Len(p) \in Nat /\ Len(q) \in Nat
  BY DEF Path
<1>2. PICK f1 : PathBy(f1, t, d, p, h, g)
  BY DEF Path
<1>3. PICK f2 : PathBy(f2, t, d, q, g, k)
  BY DEF Path
<1>4. /\ p \o q \in Seq(Steps) /\ Len(p \o q) = Len(p) + Len(q)
      /\ \A i \in 1 .. Len(p) : (p \o q)[i] = p[i]
      /\ \A i \in 1 .. Len(p) + Len(q) : i > Len(p) => (p \o q)[i] = q[i - Len(p)]
  BY <1>1
<1>. DEFINE m == Len(p)
            n == Len(q)
            r == p \o q
            f == [i \in 1 .. m + n + 1 |-> IF i <= m THEN f1[i] ELSE f2[i - m]]
<1>5. /\ \A i \in 1 .. m + 1 : f1[i] \in Holdings
      /\ f1[1] = h /\ f1[m + 1] = g
      /\ \A i \in 1 .. m : Goes(t, d, p[i], f1[i], f1[i + 1])
  BY <1>2 DEF PathBy
<1>6. /\ \A i \in 1 .. n + 1 : f2[i] \in Holdings
      /\ f2[1] = g /\ f2[n + 1] = k
      /\ \A i \in 1 .. n : Goes(t, d, q[i], f2[i], f2[i + 1])
  BY <1>3 DEF PathBy
<1>7. /\ m \in Nat /\ n \in Nat /\ r \in Seq(Steps) /\ Len(r) = m + n
      /\ \A i \in 1 .. m : r[i] = p[i]
      /\ \A i \in 1 .. m + n : i > m => r[i] = q[i - m]
  BY <1>1, <1>4
<1>. HIDE DEF m, n, r
<1>8. f \in [1 .. Len(r) + 1 -> Holdings]
  <2>1. ASSUME NEW i \in 1 .. m + n + 1
        PROVE  (IF i <= m THEN f1[i] ELSE f2[i - m]) \in Holdings
    <3>1. CASE i <= m
      <4>1. i \in 1 .. m + 1
        BY <1>7, <3>1
      <4>. QED  BY <4>1, <3>1, <1>5
    <3>2. CASE ~ (i <= m)
      <4>1. i - m \in 1 .. n + 1
        BY <1>7, <3>2
      <4>. QED  BY <4>1, <3>2, <1>6
    <3>. QED  BY <3>1, <3>2
  <2>. QED  BY <2>1, <1>7
<1>9. f[1] = h
  <2>1. CASE m = 0
    <3>1. f[1] = f2[1] /\ f1[1] = f1[m + 1]
      BY <1>7, <2>1
    <3>. QED  BY <3>1, <1>5, <1>6
  <2>2. CASE m # 0
    <3>1. f[1] = f1[1]
      BY <1>7, <2>2
    <3>. QED  BY <3>1, <1>5
  <2>. QED  BY <2>1, <2>2
<1>10. f[Len(r) + 1] = k
  <2>1. f[m + n + 1] = f2[m + n + 1 - m] /\ m + n + 1 - m = n + 1
    BY <1>7
  <2>. QED  BY <2>1, <1>6, <1>7
<1>11. ASSUME NEW i \in 1 .. Len(r)
       PROVE  Goes(t, d, r[i], f[i], f[i + 1])
  <2>1. CASE i < m
    <3>1. f[i] = f1[i] /\ f[i + 1] = f1[i + 1] /\ i \in 1 .. m
      BY <1>7, <2>1
    <3>. QED  BY <3>1, <1>5, <1>7
  <2>2. CASE i = m
    <3>1. f[i] = f1[i] /\ i \in 1 .. m
      BY <1>7, <2>2
    <3>2. f[i + 1] = f2[i + 1 - m] /\ i + 1 - m = 1
      BY <1>7, <2>2
    <3>. QED  BY <3>1, <3>2, <2>2, <1>5, <1>6, <1>7
  <2>3. CASE i > m
    <3>1. f[i] = f2[i - m] /\ f[i + 1] = f2[i + 1 - m] /\ i + 1 - m = (i - m) + 1
      BY <1>7, <2>3
    <3>2. i - m \in 1 .. n /\ r[i] = q[i - m]
      BY <1>7, <2>3
    <3>. QED  BY <3>1, <3>2, <1>6
  <2>. QED  BY <1>7, <2>1, <2>2, <2>3
<1>. HIDE DEF f
<1>12. PathBy(f, t, d, r, h, k)
  BY <1>8, <1>9, <1>10, <1>11 DEF PathBy
<1>13. Path(t, d, r, h, k)
  BY <1>7, <1>12 DEF Path
<1>. QED  BY <1>13 DEF r

LEMMA LeastExists ==
    ASSUME NEW S \in SUBSET Nat, S # {}
    PROVE  \E m \in S : \A n \in S : m <= n
<1>1. PICK m \in S : \A n \in S : ~ (<<n, m>> \in OpToRel(<, Nat))
  BY WFMin, NatLessThanWellFounded, Zenon
<1>2. \A n \in S : ~ (n < m)
  BY <1>1, Zenon DEF OpToRel
<1>. QED  BY <1>2

(* FlattenSeq is a function defined by recursion on the length: such a      *)
(* function exists, because otherwise there would be a shortest prefix for  *)
(* which it does not.                                                       *)
FlatOf(qs, f, n) ==
    f = [i \in 1 .. n |-> IF i = 1 THEN qs[i] ELSE f[i - 1] \o qs[i]]

LEMMA FlatExists ==
    ASSUME NEW qs
    PROVE  \A n \in Nat : \E f : FlatOf(qs, f, n)
<1>. DEFINE bad == {n \in Nat : ~ \E f : FlatOf(qs, f, n)}
<1>1. SUFFICES ASSUME bad # {}
               PROVE  FALSE
  OBVIOUS
<1>2. PICK n \in bad : \A m \in bad : n <= m
  BY <1>1, LeastExists
<1>3. n \in Nat /\ ~ \E f : FlatOf(qs, f, n)
  BY <1>2
<1>4. CASE n = 0
  <2>1. FlatOf(qs, [i \in 1 .. 0 |-> <<>>], 0)
    BY DEF FlatOf
  <2>. QED  BY <1>3, <1>4, <2>1
<1>5. CASE n # 0
  <2>1. n - 1 \in Nat /\ ~ (n <= n - 1)
    BY <1>3, <1>5
  <2>2. n - 1 \notin bad
    BY <1>2, <2>1
  <2>3. PICK f : FlatOf(qs, f, n - 1)
    BY <2>1, <2>2
  <2>. DEFINE last == IF n = 1 THEN qs[n] ELSE f[n - 1] \o qs[n]
              g == [i \in 1 .. n |-> IF i = n THEN last ELSE f[i]]
  <2>4. \A i \in 1 .. n - 1 : f[i] = IF i = 1 THEN qs[i] ELSE f[i - 1] \o qs[i]
    BY <2>3 DEF FlatOf
  <2>5. \A i \in 1 .. n : g[i] = IF i = 1 THEN qs[i] ELSE g[i - 1] \o qs[i]
    BY <1>3, <1>5, <2>4
  <2>6. FlatOf(qs, g, n)
    BY <2>5 DEF FlatOf
  <2>. QED  BY <1>3, <2>6
<1>. QED  BY <1>4, <1>5

LEMMA PathFlatten ==
    ASSUME NEW t, NEW d, NEW h \in Holdings, NEW qs, NEW n \in Nat,
           DOMAIN qs = 1 .. n, Len(qs) = n, n = 0 => qs = <<>>,
           \A i \in 1 .. n : Path(t, d, qs[i], h, h)
    PROVE  Path(t, d, FlattenSeq(qs), h, h)
<1>1. CASE n = 0
  <2>1. FlattenSeq(qs) = qs
    BY <1>1 DEF FlattenSeq
  <2>. QED  BY <1>1, <2>1, PathNil
<1>2. CASE n # 0
  <2>. DEFINE f == CHOOSE f : FlatOf(qs, f, Len(qs))
  <2>1. FlatOf(qs, f, Len(qs))
    BY FlatExists
  <2>2. FlattenSeq(qs) = f[Len(qs)]
    BY <1>2, Zenon DEF FlattenSeq, FlatOf
  <2>. HIDE DEF f
  <2>. DEFINE bad == {i \in 1 .. n : ~ Path(t, d, f[i], h, h)}
  <2>3. bad = {}
    <3>1. SUFFICES ASSUME bad # {}
                   PROVE  FALSE
      OBVIOUS
    <3>2. PICK i \in bad : \A j \in bad : i <= j
      <4>1. bad \in SUBSET Nat
        OBVIOUS
      <4>. QED  BY <3>1, <4>1, LeastExists
    <3>3. i \in 1 .. n /\ ~ Path(t, d, f[i], h, h)
      BY <3>2
    <3>4. f[i] = IF i = 1 THEN qs[i] ELSE f[i - 1] \o qs[i]
      BY <2>1, <3>3 DEF FlatOf
    <3>5. i # 1
      BY <3>3, <3>4
    <3>6. i - 1 \in 1 .. n /\ ~ (i <= i - 1)
      BY <3>3, <3>5
    <3>7. Path(t, d, f[i - 1], h, h)
      BY <3>2, <3>6
    <3>8. Path(t, d, qs[i], h, h)
      BY <3>3
    <3>9. Path(t, d, f[i - 1] \o qs[i], h, h)
      BY <3>7, <3>8, PathConcat
    <3>. QED  BY <3>3, <3>4, <3>5, <3>9
  <2>4. Path(t, d, f[n], h, h)
    BY <1>2, <2>3
  <2>. QED  BY <2>2, <2>4
<1>. QED  BY <1>1, <1>2

----------------------------------------------------------------------------
(* The handlers are paths *)

LEMMA OrderIsPath ==
    ASSUME NEW S \in SUBSET Clients, NEW order \in SetToSeqs(S)
    PROVE  \E n \in Nat : order \in [1 .. n -> Clients]
<1>1. IsFiniteSet(S)
  BY ClientsAssumption, FS_Subset
<1>2. Cardinality(S) \in Nat
  BY <1>1, FS_CardinalityType
<1>3. order \in [1 .. Cardinality(S) -> S]
  BY Zenon DEF SetToSeqs
<1>4. order \in [1 .. Cardinality(S) -> Clients]
  BY <1>3
<1>. QED  BY <1>2, <1>4

LEMMA MainMoves ==
    ASSUME NEW d
    PROVE  /\ \A l \in Locks : /\ Path(Main, d, Read(l), "none", l)
                               /\ Path(Main, d, Free(l), l, "none")
           /\ Path(Main, d, Write("data"), "none", "excl")
           /\ Path(Main, d, Free("data"), "excl", "none")
           /\ \A h \in {"none", "data"} : Path(Main, d, Glance("state"), h, h)
           /\ \A h \in {"none", "state"} : Path(Main, d, Touch("data"), h, h)
           /\ \A m \in Instruction : Path(Main, d, Send(m), "none", "none")
           /\ \A c \in Clients, h \in TellsUnder(d) :
                /\ Path(Main, d, Tell(c), h, h)
                /\ Path(Main, d, RemoveClient(c), h, h)
           /\ \A c \in Clients : Path(Main, d, SetSize(c), "data", "data")
<1>1. ASSUME NEW l \in Locks
      PROVE  /\ Path(Main, d, Read(l), "none", l)
             /\ Path(Main, d, Free(l), l, "none")
  <2>1. /\ [do |-> "read", on |-> l] \in Steps /\ [do |-> "free", on |-> l] \in Steps
        /\ "none" \in Holdings /\ l \in Holdings
    BY DEF Steps, Locks, Holdings
  <2>2. /\ Goes(Main, d, [do |-> "read", on |-> l], "none", l)
        /\ Goes(Main, d, [do |-> "free", on |-> l], l, "none")
    BY DEF Goes, MainGoes
  <2>. QED  BY <2>1, <2>2, PathOne DEF Read, Free, Step
<1>2. /\ Path(Main, d, Write("data"), "none", "excl")
      /\ Path(Main, d, Free("data"), "excl", "none")
  <2>1. /\ [do |-> "write", on |-> "data"] \in Steps /\ [do |-> "free", on |-> "data"] \in Steps
        /\ "none" \in Holdings /\ "excl" \in Holdings
    BY DEF Steps, Locks, Holdings
  <2>2. /\ Goes(Main, d, [do |-> "write", on |-> "data"], "none", "excl")
        /\ Goes(Main, d, [do |-> "free", on |-> "data"], "excl", "none")
    BY DEF Goes, MainGoes
  <2>. QED  BY <2>1, <2>2, PathOne DEF Write, Free, Step
<1>3. ASSUME NEW h \in {"none", "data"}
      PROVE  Path(Main, d, Glance("state"), h, h)
  <2>1. [do |-> "glance", on |-> "state"] \in Steps /\ h \in Holdings
    BY DEF Steps, Locks, Holdings
  <2>2. Goes(Main, d, [do |-> "glance", on |-> "state"], h, h)
    BY DEF Goes, MainGoes
  <2>. QED  BY <2>1, <2>2, PathOne DEF Glance, Step
<1>4. ASSUME NEW h \in {"none", "state"}
      PROVE  Path(Main, d, Touch("data"), h, h)
  <2>1. [do |-> "touch", on |-> "data"] \in Steps /\ h \in Holdings
    BY DEF Steps, Locks, Holdings
  <2>2. Goes(Main, d, [do |-> "touch", on |-> "data"], h, h)
    BY DEF Goes, MainGoes
  <2>. QED  BY <2>1, <2>2, PathOne DEF Touch, Step
<1>5. ASSUME NEW m \in Instruction
      PROVE  Path(Main, d, Send(m), "none", "none")
  <2>1. [do |-> "send", on |-> m] \in Steps /\ "none" \in Holdings
    BY DEF Steps, Holdings
  <2>2. Goes(Main, d, [do |-> "send", on |-> m], "none", "none")
    BY DEF Goes, MainGoes
  <2>. QED  BY <2>1, <2>2, PathOne DEF Send, Step
<1>6. ASSUME NEW c \in Clients, NEW h \in TellsUnder(d)
      PROVE  /\ Path(Main, d, Tell(c), h, h)
             /\ Path(Main, d, RemoveClient(c), h, h)
  <2>1. [do |-> "tell", on |-> c] \in Steps /\ [do |-> "drop", on |-> c] \in Steps
    BY DEF Steps
  <2>2. h \in Holdings
    BY DEF Holdings, TellsUnder
  <2>3. /\ Goes(Main, d, [do |-> "tell", on |-> c], h, h)
        /\ Goes(Main, d, [do |-> "drop", on |-> c], h, h)
    BY DEF Goes, MainGoes
  <2>. QED  BY <2>1, <2>2, <2>3, PathOne DEF Tell, RemoveClient, Step
<1>7. ASSUME NEW c \in Clients
      PROVE  Path(Main, d, SetSize(c), "data", "data")
  <2>1. [do |-> "size", on |-> c] \in Steps /\ "data" \in Holdings
    BY DEF Steps, Holdings
  <2>2. Goes(Main, d, [do |-> "size", on |-> c], "data", "data")
    BY DEF Goes, MainGoes
  <2>. QED  BY <2>1, <2>2, PathOne DEF SetSize, Step
<1>. QED  BY <1>1, <1>2, <1>3, <1>4, <1>5, <1>6, <1>7

(* The steps that turn into others, and the last two of a shutdown          *)
LEMMA MainTurns ==
    ASSUME NEW d
    PROVE  /\ Path(Main, d, Step("announce", Main), "state", "state")
           /\ d = "unblock" => Path(Main, d, Step("tell all", Main), "state", "state")
           /\ \A c \in Clients : Path(Main, d, Step("exit", c), "state", "none")
           /\ Path(Main, d, Step("evict", Main), "state", "none")
           /\ Path(Main, d, Step("last tab", Main), "state", "none")
           /\ Path(Main, d, Step("join", Screen), "excl", "excl")
           /\ Path(Main, d, Step("return", Main), "none", "none")
<1>1. "none" \in Holdings /\ "state" \in Holdings /\ "excl" \in Holdings
  BY DEF Holdings
<1>2. /\ [do |-> "announce", on |-> Main] \in Steps
      /\ [do |-> "tell all", on |-> Main] \in Steps
      /\ [do |-> "evict", on |-> Main] \in Steps
      /\ [do |-> "last tab", on |-> Main] \in Steps
      /\ [do |-> "join", on |-> Screen] \in Steps
      /\ [do |-> "return", on |-> Main] \in Steps
  <2>1. Main \in Threads /\ Screen \in Threads
    BY DEF Threads
  <2>. QED  BY <2>1 DEF Steps
<1>3. \A c \in Clients : [do |-> "exit", on |-> c] \in Steps
  BY DEF Steps
<1>4. /\ Goes(Main, d, [do |-> "announce", on |-> Main], "state", "state")
      /\ d = "unblock" => Goes(Main, d, [do |-> "tell all", on |-> Main], "state", "state")
      /\ \A c \in Clients : Goes(Main, d, [do |-> "exit", on |-> c], "state", "none")
      /\ Goes(Main, d, [do |-> "evict", on |-> Main], "state", "none")
      /\ Goes(Main, d, [do |-> "last tab", on |-> Main], "state", "none")
      /\ Goes(Main, d, [do |-> "join", on |-> Screen], "excl", "excl")
      /\ Goes(Main, d, [do |-> "return", on |-> Main], "none", "none")
  BY DEF Goes, MainGoes
<1>. QED  BY <1>1, <1>2, <1>3, <1>4, PathOne DEF Step

LEMMA AnnouncePath ==
    ASSUME NEW d
    PROVE  /\ Path(Main, d, AnnounceSize, "none", "none")
           /\ Path(Main, d, Announce, "none", "none")
<1>1. "state" \in Locks
  BY DEF Locks
<1>2. Path(Main, d, Read("state") \o Step("announce", Main), "none", "state")
  BY <1>1, MainMoves, MainTurns, PathConcat
<1>3. Path(Main, d, AnnounceSize, "none", "none")
  BY <1>1, <1>2, MainMoves, PathConcat DEF AnnounceSize
<1>4. Path(Main, d, Touch("data"), "none", "none")
  BY MainMoves
<1>5. Path(Main, d, AnnounceSize \o Touch("data"), "none", "none")
  BY <1>3, <1>4, PathConcat
<1>6. Path(Main, d, Announce, "none", "none")
  BY <1>4, <1>5, PathConcat DEF Announce
<1>. QED  BY <1>3, <1>6

LEMMA DepartPath ==
    ASSUME NEW d, NEW c \in Clients
    PROVE  Path(Main, d, Depart(c), "none", "none")
<1>1. Path(Main, d, RemoveClient(c), "none", "none")
  BY MainMoves DEF TellsUnder
<1>. QED  BY <1>1, AnnouncePath, PathConcat DEF Depart

LEMMA EachPath ==
    ASSUME NEW d, NEW S \in SUBSET Clients, NEW order \in SetToSeqs(S)
    PROVE  /\ Path(Main, d, Each(Depart, order), "none", "none")
           /\ Path(Main, d, Each(RemoveClient, order), "none", "none")
           /\ \A h \in TellsUnder(d) : Path(Main, d, Each(Tell, order), h, h)
<1>1. PICK n \in Nat : order \in [1 .. n -> Clients]
  BY OrderIsPath
<1>. DEFINE departs == [i \in DOMAIN order |-> Depart(order[i])]
            drops == [i \in DOMAIN order |-> RemoveClient(order[i])]
            tells == [i \in DOMAIN order |-> Tell(order[i])]
<1>2. /\ DOMAIN departs = 1 .. n /\ DOMAIN drops = 1 .. n /\ DOMAIN tells = 1 .. n
      /\ \A i \in 1 .. n : /\ departs[i] = Depart(order[i])
                           /\ drops[i] = RemoveClient(order[i])
                           /\ tells[i] = Tell(order[i])
                           /\ order[i] \in Clients
  BY <1>1
<1>3. /\ Each(Depart, order) = FlattenSeq(departs)
      /\ Each(RemoveClient, order) = FlattenSeq(drops)
      /\ Each(Tell, order) = FlattenSeq(tells)
  BY DEF Each
<1>4. /\ departs = [i \in 1 .. n |-> departs[i]]
      /\ drops = [i \in 1 .. n |-> drops[i]]
      /\ tells = [i \in 1 .. n |-> tells[i]]
  BY <1>2
<1>5. ASSUME NEW q, q = [i \in 1 .. n |-> q[i]]
      PROVE  DOMAIN q = 1 .. n /\ Len(q) = n /\ (n = 0 => q = <<>>)
  BY <1>1, <1>5
<1>. HIDE DEF departs, drops, tells
<1>6. "none" \in Holdings /\ "none" \in TellsUnder(d) /\ TellsUnder(d) \subseteq Holdings
  BY DEF Holdings, TellsUnder
<1>7. Path(Main, d, FlattenSeq(departs), "none", "none")
  <2>1. \A i \in 1 .. n : Path(Main, d, departs[i], "none", "none")
    BY <1>2, DepartPath
  <2>2. DOMAIN departs = 1 .. n /\ Len(departs) = n /\ (n = 0 => departs = <<>>)
    BY <1>4, <1>5
  <2>. QED  BY <1>6, <2>1, <2>2, PathFlatten
<1>8. Path(Main, d, FlattenSeq(drops), "none", "none")
  <2>1. \A i \in 1 .. n : Path(Main, d, drops[i], "none", "none")
    BY <1>2, <1>6, MainMoves
  <2>2. DOMAIN drops = 1 .. n /\ Len(drops) = n /\ (n = 0 => drops = <<>>)
    BY <1>4, <1>5
  <2>. QED  BY <1>6, <2>1, <2>2, PathFlatten
<1>9. ASSUME NEW h \in TellsUnder(d)
      PROVE  Path(Main, d, FlattenSeq(tells), h, h)
  <2>1. \A i \in 1 .. n : Path(Main, d, tells[i], h, h)
    BY <1>2, MainMoves
  <2>2. DOMAIN tells = 1 .. n /\ Len(tells) = n /\ (n = 0 => tells = <<>>)
    BY <1>4, <1>5
  <2>3. h \in Holdings
    BY <1>6
  <2>. QED  BY <2>1, <2>2, <2>3, PathFlatten
<1>. QED  BY <1>3, <1>7, <1>8, <1>9

LEMMA ShutdownPath ==
    ASSUME NEW d
    PROVE  Path(Main, d, Shutdown, "none", "none")
<1>1. Path(Main, d, Write("data") \o Step("join", Screen), "none", "excl")
  BY MainMoves, MainTurns, PathConcat
<1>2. Path(Main, d, Write("data") \o Step("join", Screen) \o Free("data"), "none", "none")
  BY <1>1, MainMoves, PathConcat
<1>. QED  BY <1>2, MainTurns, PathConcat DEF Shutdown

(* What the main loop does with an instruction gives back what it takes.    *)
LEMMA HandlerPath ==
    ASSUME NEW m \in Instruction, NEW q \in Handler(m)
    PROVE  Path(Main, m.kind, q, "none", "none")
<1>. DEFINE d == m.kind
<1>0. /\ m.who \in SUBSET Clients
      /\ m.kind \in {"attach", "exit", "remove", "detach", "switch", "unblock",
                     "render", "close", "kill"}
  BY DEF Instruction
<1>1. CASE m.kind = "attach"
  <2>1. PICK c \in Clients : q = HandleAttach(c)
    BY <1>0, <1>1 DEF Handler
  <2>2. "data" \in Locks /\ "data" \in TellsUnder(d)
    BY DEF Locks, TellsUnder
  <2>3. Path(Main, d, Read("data") \o SetSize(c), "none", "data")
    BY <2>2, MainMoves, PathConcat
  <2>4. Path(Main, d, Read("data") \o SetSize(c) \o Glance("state"), "none", "data")
    BY <2>3, MainMoves, PathConcat
  <2>5. Path(Main, d, Read("data") \o SetSize(c) \o Glance("state") \o Tell(c),
             "none", "data")
    BY <2>2, <2>4, MainMoves, PathConcat
  <2>. QED  BY <2>1, <2>2, <2>5, MainMoves, PathConcat DEF HandleAttach
<1>2. CASE m.kind = "exit"
  <2>1. PICK c \in Clients : q = HandleExit(c)
    BY <1>0, <1>2 DEF Handler
  <2>2. CASE Foreground
    <3>1. "state" \in Locks
      BY DEF Locks
    <3>2. Path(Main, d, Read("state") \o Step("exit", c), "none", "none")
      BY <3>1, MainMoves, MainTurns, PathConcat
    <3>. QED  BY <2>1, <2>2, <3>2 DEF HandleExit
  <2>3. CASE ~ Foreground
    BY <2>1, <2>3, DepartPath DEF HandleExit
  <2>. QED  BY <2>2, <2>3
<1>3. CASE m.kind = "remove"
  <2>1. PICK c \in Clients : q = HandleRemove(c)
    BY <1>0, <1>3 DEF Handler
  <2>2. Path(Main, d, Glance("state"), "none", "none")
    BY MainMoves
  <2>. QED  BY <2>1, <2>2, DepartPath, PathConcat DEF HandleRemove
<1>4. CASE m.kind = "detach"
  <2>1. PICK order \in SetToSeqs(m.who) : q = HandleDetach(order)
    BY <1>4 DEF Handler
  <2>. QED  BY <1>0, <2>1, EachPath DEF HandleDetach
<1>5. CASE m.kind = "switch"
  <2>1. PICK c \in Clients : q = HandleSwitch(c)
    BY <1>0, <1>5 DEF Handler
  <2>2. "none" \in TellsUnder(d)
    BY DEF TellsUnder
  <2>3. Path(Main, d, Announce \o Tell(c), "none", "none")
    BY <2>2, AnnouncePath, MainMoves, PathConcat
  <2>. QED  BY <2>1, <2>2, <2>3, MainMoves, PathConcat DEF HandleSwitch
<1>6. CASE m.kind = "unblock"
  <2>1. "state" \in Locks
    BY DEF Locks
  <2>2. Path(Main, d, Read("state") \o Step("tell all", Main), "none", "state")
    BY <1>6, <2>1, MainMoves, MainTurns, PathConcat
  <2>3. q = HandleUnblock
    BY <1>6 DEF Handler
  <2>. QED  BY <2>1, <2>2, <2>3, MainMoves, PathConcat DEF HandleUnblock
<1>7. CASE m.kind = "render"
  <2>1. PICK order \in SetToSeqs(m.who) : q = HandleRender(order)
    BY <1>7 DEF Handler
  <2>2. Path(Main, d, Glance("state"), "none", "none")
    BY MainMoves
  <2>3. Path(Main, d, Each(Tell, order), "none", "none")
    BY <1>0, <2>1, EachPath DEF TellsUnder
  <2>. QED  BY <2>1, <2>2, <2>3, PathConcat DEF HandleRender
<1>8. CASE m.kind = "close"
  <2>1. "state" \in Locks
    BY DEF Locks
  <2>2. q = HandleRenderNone
    BY <1>8 DEF Handler
  <2>. QED  BY <2>1, <2>2, MainMoves, MainTurns, PathConcat DEF HandleRenderNone
<1>9. CASE m.kind = "kill"
  <2>1. "state" \in Locks
    BY DEF Locks
  <2>2. q = HandleKill
    BY <1>9 DEF Handler
  <2>3. Path(Main, d, Read("state") \o Step("evict", Main), "none", "none")
    BY <2>1, MainMoves, MainTurns, PathConcat
  <2>. QED  BY <2>2, <2>3, ShutdownPath, PathConcat DEF HandleKill
<1>. QED  BY <1>0, <1>1, <1>2, <1>3, <1>4, <1>5, <1>6, <1>7, <1>8, <1>9

(* A step that looks at the registry turns into steps between the same      *)
(* holdings.                                                                *)
LEMMA ExpansionPath ==
    ASSUME NEW d, NEW s \in Steps, NEW h \in Holdings, NEW k \in Holdings,
           RegistryTyped, s.do \in Expanding, MainGoes(d, s, h, k), NEW q \in Expansion(s)
    PROVE  Path(Main, d, q, h, k)
<1>0. /\ clients \in SUBSET Clients /\ senders \in SUBSET Clients /\ "state" \in Locks
      /\ Msg("detach", clients) \in Instruction
      /\ "none" \in TellsUnder(d)
  BY DEF RegistryTyped, Locks, Msg, Instruction, TellsUnder
<1>1. CASE s.do = "tell"
  <2>1. s.on \in Clients /\ h \in TellsUnder(d) /\ k = h
    BY <1>1 DEF Steps, MainGoes
  <2>2. q = <<>> \/ \E c \in Clients : q = RemoveClient(c)
    BY <1>0, <1>1 DEF Expansion, SendToClient
  <2>. QED  BY <2>1, <2>2, PathNil, MainMoves
<1>2. CASE s.do = "tell all"
  <2>1. h \in TellsUnder(d) /\ k = h
    BY <1>2 DEF MainGoes, TellsUnder
  <2>2. PICK order \in SetToSeqs(clients) : q = Each(Tell, order)
    BY <1>2 DEF Expansion
  <2>. QED  BY <1>0, <2>1, <2>2, EachPath
<1>3. CASE s.do = "announce"
  <2>1. h = "state" /\ k = h
    BY <1>3 DEF MainGoes
  <2>2. q = <<>> \/ q = Touch("data")
    BY <1>3 DEF Expansion
  <2>. QED  BY <2>1, <2>2, PathNil, MainMoves
<1>4. Path(Main, d, Free("state"), "state", "none")
  BY <1>0, MainMoves
<1>5. Path(Main, d, DetachAll, "state", "none")
  <2>1. Path(Main, d, Send(Msg("detach", clients)), "none", "none")
    BY <1>0, MainMoves
  <2>. QED  BY <1>4, <2>1, PathConcat DEF DetachAll
<1>6. ASSUME NEW p \in EvictAll
      PROVE  Path(Main, d, p, "state", "none")
  <2>1. PICK order \in SetToSeqs(clients) : p = Free("state") \o Each(RemoveClient, order)
    BY DEF EvictAll
  <2>2. Path(Main, d, Each(RemoveClient, order), "none", "none")
    BY <1>0, EachPath
  <2>. QED  BY <1>4, <2>1, <2>2, PathConcat
<1>7. CASE s.do = "exit"
  <2>1. s.on \in Clients /\ h = "state" /\ k = "none"
    BY <1>7 DEF Steps, MainGoes
  <2>2. q = Exit(s.on)
    BY <1>7 DEF Expansion
  <2>3. Path(Main, d, Free("state") \o Depart(s.on), "state", "none")
    BY <1>4, <2>1, DepartPath, PathConcat
  <2>. QED  BY <1>5, <2>1, <2>2, <2>3 DEF Exit
<1>8. CASE s.do = "evict"
  <2>1. h = "state" /\ k = "none" /\ q \in EvictAll
    BY <1>8 DEF MainGoes, Expansion
  <2>. QED  BY <1>6, <2>1
<1>9. CASE s.do = "last tab"
  <2>1. h = "state" /\ k = "none" /\ q \in CloseLastTab
    BY <1>9 DEF MainGoes, Expansion
  <2>. QED  BY <1>5, <1>6, <2>1 DEF CloseLastTab
<1>. QED  BY <1>1, <1>2, <1>3, <1>7, <1>8, <1>9 DEF Expanding

----------------------------------------------------------------------------
(* Threads at work *)

LEMMA ThreadsDiffer ==
    /\ {Main, Listener, Screen} \subseteq Threads /\ Clients \subseteq Threads
    /\ Main \notin Clients /\ Listener \notin Clients /\ Screen \notin Clients
    /\ Main # Listener /\ Main # Screen /\ Listener # Screen
    /\ NoThread \notin Threads
BY ThreadsAssumption DEF Threads, Main, Listener, Screen

(* What a thread with steps left holds now and after the next of them       *)
LEMMA NowGoes ==
    ASSUME ThreadsWork, NEW t \in Threads, todo[t] # <<>>
    PROVE  /\ Now(t) \in Steps
           /\ \E h, g \in Holdings :
                /\ Holds(t, h) /\ Goes(t, doing[t], Now(t), h, g)
                /\ Path(t, doing[t], Tail(todo[t]), g, "none")
<1>1. PICK h \in Holdings : Holds(t, h) /\ Path(t, doing[t], todo[t], h, "none")
  BY DEF ThreadsWork, Works
<1>. QED  BY <1>1, PathSteps DEF Now

(* A thread without steps holds nothing.                                    *)
LEMMA DoneHoldsNothing ==
    ASSUME ThreadsWork, NEW t \in Threads, todo[t] = <<>>
    PROVE  Holds(t, "none")
<1>1. PICK h \in Holdings : Holds(t, h) /\ Path(t, doing[t], todo[t], h, "none")
  BY DEF ThreadsWork, Works
<1>. QED  BY <1>1, NilEnds

HoldsSame(u) ==
    /\ u \in readers'["state"] <=> u \in readers["state"]
    /\ u \in readers'["data"] <=> u \in readers["data"]
    /\ writer'["data"] = u <=> writer["data"] = u

LEMMA HeldBefore ==
    ASSUME NEW u, HoldsSame(u), NEW h, Holds(u, h)
    PROVE  Holds(u, h)'
BY DEF HoldsSame, Holds

LEMMA SameWorks ==
    ASSUME NEW u, Works(u), HoldsSame(u), todo'[u] = todo[u], doing'[u] = doing[u]
    PROVE  Works(u)'
<1>1. PICK h \in Holdings : Holds(u, h) /\ Path(u, doing[u], todo[u], h, "none")
  BY DEF Works
<1>2. Holds(u, h)'
  BY <1>1, HeldBefore
<1>3. Path(u, doing'[u], todo'[u], h, "none")
  BY <1>1
<1>. QED  BY <1>2, <1>3 DEF Works

(* t goes on and holds what it needs to; the others hold what they held.    *)
LEMMA Continues ==
    ASSUME ThreadsWork, NEW t \in Threads \ {Listener}, todo[t] # <<>>,
           NEW steps, NEW h \in Holdings, Continue(t, steps),
           Path(t, doing[t], steps, h, "none"), Holds(t, h)',
           \A u \in Threads \ {t} : HoldsSame(u)
    PROVE  ThreadsWork'
<1>1. /\ doing \in [Threads -> Doings] /\ DOMAIN todo = Threads
      /\ \A u \in Threads : Works(u)
      /\ doing[t] \notin {"idle", "away", "connected", "left", "gone"}
  BY DEF ThreadsWork
<1>2. /\ doing' \in [Threads -> Doings] /\ DOMAIN todo' = Threads
      /\ todo'[t] = steps
      /\ doing'[t] = IF steps = <<>> THEN "idle" ELSE doing[t]
      /\ \A u \in Threads \ {t} : todo'[u] = todo[u] /\ doing'[u] = doing[u]
  BY <1>1 DEF Continue, Doings
<1>3. Works(t)'
  <2>1. CASE steps = <<>>
    <3>1. h = "none"
      BY <2>1, NilEnds
    <3>2. Path(t, doing'[t], todo'[t], h, "none")
      BY <1>2, <2>1, <3>1, PathNil
    <3>. QED  BY <3>2 DEF Works
  <2>2. CASE steps # <<>>
    <3>1. Path(t, doing'[t], todo'[t], h, "none")
      BY <1>2, <2>2
    <3>. QED  BY <3>1 DEF Works
  <2>. QED  BY <2>1, <2>2
<1>4. \A u \in Threads \ {t} : Works(u)'
  BY <1>1, <1>2, SameWorks
<1>5. \A u \in Threads : Works(u)'
  BY <1>3, <1>4
<1>6. ASSUME NEW u \in Threads,
             doing'[u] \in {"idle", "away", "connected", "left", "gone"}
      PROVE  todo'[u] = <<>>
  <2>1. CASE u = t
    BY <1>1, <1>2, <1>6, <2>1
  <2>2. CASE u # t
    BY <1>2, <1>6, <2>2 DEF ThreadsWork
  <2>. QED  BY <2>1, <2>2
<1>7. ASSUME todo'[Listener] # <<>>
      PROVE  doing'[todo'[Listener][1].on] = "away"
  <2>1. todo'[Listener] = todo[Listener]
    BY <1>2, ThreadsDiffer
  <2>2. doing[todo[Listener][1].on] = "away"
    BY <1>7, <2>1 DEF ThreadsWork, Now
  <2>3. todo[Listener][1].on # t
    BY <1>1, <2>2
  <2>4. todo[Listener][1].on \in Threads
    <3>1. todo[Listener] # <<>>
      BY <1>7, <2>1
    <3>2. /\ Now(Listener) \in Steps
          /\ \E g, k \in Holdings : Goes(Listener, doing[Listener], Now(Listener), g, k)
      BY <3>1, NowGoes, ThreadsDiffer
    <3>3. Now(Listener).do = "enter"
      BY <3>2, ThreadsDiffer DEF Goes
    <3>4. Now(Listener).on \in Clients
      BY <3>2, <3>3 DEF Steps
    <3>. QED  BY <3>4, ThreadsDiffer DEF Now
  <2>. QED  BY <1>2, <2>1, <2>2, <2>3, <2>4
<1>. QED  BY <1>2, <1>5, <1>6, <1>7 DEF ThreadsWork, Now

(* Where each step leads                                                    *)
LEMMA StepLeads ==
    ASSUME NEW t \in Threads, NEW d, NEW s \in Steps, NEW h, NEW k, Goes(t, d, s, h, k)
    PROVE  /\ s.do \in {"glance", "touch", "send", "size", "drop"} => k = h
           /\ s.do = "read" => h = "none" /\ k = s.on /\ s.on \in Locks
           /\ s.do = "write" => h = "none" /\ k = "excl" /\ s.on = "data"
           /\ s.do = "glance" => s.on = "state"
           /\ s.do = "touch" => s.on = "data"
           /\ s.do = "free" => /\ k = "none" /\ s.on \in Locks
                               /\ (h = s.on \/ (h = "excl" /\ s.on = "data"))
           /\ s.do \in Expanding => t = Main /\ MainGoes(d, s, h, k)
           /\ s.do = "send" => s.on \in Instruction
           /\ s.do \in {"size", "drop", "enter"} => s.on \in Clients
           /\ s.do = "join" => t = Main /\ h = "excl" /\ k = h
           /\ s.do = "return" => t = Main /\ h = "none" /\ k = h
           /\ s.do = "leave" => t \in Clients /\ h = "none" /\ k = h
           /\ s.do = "enter" <=> t = Listener
           /\ s.do = "enter" => h = "none"
<1>1. /\ s.do \in {"read", "free"} => s.on \in Locks
      /\ s.do = "send" => s.on \in Instruction
      /\ s.do \in {"size", "drop", "enter"} => s.on \in Clients
  BY DEF Steps
<1>2. CASE t = Main /\ MainGoes(d, s, h, k)
  BY <1>1, <1>2, ThreadsDiffer DEF MainGoes
<1>3. CASE t \in Clients /\ RouterGoes(d, s, h, k)
  BY <1>1, <1>3, ThreadsDiffer DEF RouterGoes, Expanding
<1>4. CASE t = Screen /\ s.do = "send" /\ h = "none" /\ k = h
  BY <1>1, <1>4, ThreadsDiffer DEF Expanding
<1>5. CASE t = Listener /\ s.do = "enter" /\ h = "none" /\ k = h
  BY <1>1, <1>5, ThreadsDiffer DEF Expanding
<1>. QED  BY <1>2, <1>3, <1>4, <1>5 DEF Goes

(* The waiters stay as they are while one thread goes on.                   *)
LEMMA WaitersStay ==
    ASSUME WaitersWrite, NEW t,
           \A u \in Threads \ {t} : todo'[u] = todo[u],
           \A l \in Locks : waiting'[l] \subseteq (waiting[l] \cap Threads) \ {t}
    PROVE  WaitersWrite'
<1>1. SUFFICES ASSUME NEW l \in Locks, NEW u \in waiting'[l]
               PROVE  /\ todo'[u] # <<>> /\ todo'[u][1].do \in Writing
                      /\ (IF todo'[u][1].do \in Changing THEN "state"
                          ELSE todo'[u][1].on) = l
  BY DEF WaitersWrite, Now, Wanted
<1>2. u \in waiting[l] /\ u \in Threads \ {t}
  BY <1>1
<1>3. todo'[u] = todo[u]
  BY <1>2
<1>. QED  BY <1>2, <1>3 DEF WaitersWrite, Now, Wanted

LEMMA DoesNotWait ==
    ASSUME LocksTyped, NEW t, todo[t] # <<>> => Now(t).do \notin Writing
    PROVE  \A l \in Locks : waiting[l] \subseteq (waiting[l] \cap Threads) \ {t}
BY DEF LocksTyped, WaitersWrite

LEMMA WaitsForOne ==
    ASSUME LocksTyped, NEW t, waiting' = [waiting EXCEPT ![Wanted(t)] = @ \ {t}]
    PROVE  /\ waiting' \in [Locks -> SUBSET Threads]
           /\ \A l \in Locks : waiting'[l] \subseteq (waiting[l] \cap Threads) \ {t}
BY DEF LocksTyped, WaitersWrite

(* The step of a thread that is at work                                     *)
LEMMA AtWork ==
    ASSUME Inv, NEW t \in Threads, NEW what, Does(t, what)
    PROVE  /\ todo[t] # <<>> /\ Now(t).do = what /\ Now(t) \in Steps
           /\ DOMAIN todo = Threads
           /\ \E h, g \in Holdings :
                /\ Holds(t, h) /\ Goes(t, doing[t], Now(t), h, g)
                /\ Path(t, doing[t], Tail(todo[t]), g, "none")
BY NowGoes DEF Inv, ThreadsWork, Does

LEMMA OnlyOneProceeds ==
    ASSUME NEW t, NEW steps, DOMAIN todo = Threads, Continue(t, steps)
    PROVE  \A u \in Threads \ {t} : todo'[u] = todo[u]
BY DEF Continue

----------------------------------------------------------------------------
(* Every step keeps the invariant *)

LEMMA LocksAre == Locks = {"data", "state"} /\ "data" # "state"
BY DEF Locks

LEMMA TakeReadInv == ASSUME Inv, NEW t \in Threads, TakeRead(t) PROVE Inv'
<1>1. PICK what \in {"read", "glance"} : Does(t, what)
  BY DEF TakeRead, Reads
<1>2. /\ todo[t] # <<>> /\ Now(t).do = what /\ Now(t) \in Steps /\ DOMAIN todo = Threads
  BY <1>1, AtWork
<1>3. PICK h, g \in Holdings :
        /\ Holds(t, h) /\ Goes(t, doing[t], Now(t), h, g)
        /\ Path(t, doing[t], Tail(todo[t]), g, "none")
  BY <1>1, AtWork
<1>4. /\ t # Listener
      /\ what = "read" => h = "none" /\ g = Now(t).on /\ Now(t).on \in Locks
      /\ what = "glance" => g = h /\ Now(t).on = "state"
  BY <1>2, <1>3, StepLeads
<1>5. /\ Wanted(t) = Now(t).on /\ writer[Now(t).on] = NoThread
      /\ Now(t).on \in Locks
  BY <1>2, <1>4, LocksAre DEF TakeRead, MayRead, Wanted, Changing
<1>6. /\ Continue(t, Tail(todo[t]))
      /\ UNCHANGED <<writer, waiting, queue, clients, sized, senders>>
  BY DEF TakeRead, Proceed, registry
<1>7. /\ readers' \in [Locks -> SUBSET Threads]
      /\ \A u \in Threads \ {t} : HoldsSame(u)
      /\ Holds(t, g)'
      /\ writer["data"] # NoThread => readers'["data"] = {}
  <2>0. readers \in [Locks -> SUBSET Threads] /\ (writer["data"] # NoThread => readers["data"] = {})
    BY DEF Inv, LocksTyped
  <2>1. CASE what = "glance"
    <3>1. readers' = readers
      BY <1>2, <2>1 DEF TakeRead
    <3>2. \A u \in Threads : HoldsSame(u)
      BY <1>6, <3>1 DEF HoldsSame
    <3>. QED  BY <1>3, <1>4, <2>0, <2>1, <3>1, <3>2, HeldBefore
  <2>2. CASE what = "read"
    <3>1. readers' = [readers EXCEPT ![Now(t).on] = @ \cup {t}]
      BY <1>2, <2>2 DEF TakeRead
    <3>2. readers' \in [Locks -> SUBSET Threads]
      BY <2>0, <3>1
    <3>3. \A l \in Locks : readers'[l] = IF l = Now(t).on THEN readers[l] \cup {t} ELSE readers[l]
      BY <2>0, <3>1
    <3>4. \A u \in Threads \ {t} : HoldsSame(u)
      BY <1>6, <3>3, LocksAre DEF HoldsSame
    <3>5. Holds(t, g)'
      <4>1. /\ t \notin readers["state"] /\ t \notin readers["data"] /\ writer'["data"] # t
        BY <1>3, <1>4, <1>6, <2>2 DEF Holds
      <4>2. CASE Now(t).on = "data"
        BY <4>1, <4>2, <1>4, <2>2, <3>3, LocksAre DEF Holds
      <4>3. CASE Now(t).on = "state"
        BY <4>1, <4>3, <1>4, <2>2, <3>3, LocksAre DEF Holds
      <4>. QED  BY <1>5, <4>2, <4>3, LocksAre
    <3>6. writer["data"] # NoThread => readers'["data"] = {}
      BY <1>5, <2>0, <3>3, LocksAre
    <3>. QED  BY <3>2, <3>4, <3>5, <3>6
  <2>. QED  BY <2>1, <2>2
<1>8. ThreadsWork'
  BY <1>2, <1>3, <1>4, <1>6, <1>7, Continues DEF Inv
<1>9. WaitersWrite'
  <2>1. \A l \in Locks : waiting[l] \subseteq (waiting[l] \cap Threads) \ {t}
    BY <1>1, <1>2, DoesNotWait DEF Inv, Writing, Changing
  <2>2. \A u \in Threads \ {t} : todo'[u] = todo[u]
    BY <1>2, <1>6, OnlyOneProceeds
  <2>3. \A l \in Locks : waiting'[l] \subseteq (waiting[l] \cap Threads) \ {t}
    BY <1>6, <2>1
  <2>. QED  BY <2>2, <2>3, WaitersStay DEF Inv, LocksTyped
<1>10. LocksTyped'
  BY <1>6, <1>7, <1>9 DEF Inv, LocksTyped
<1>11. RegistryTyped'
  BY <1>6 DEF Inv, RegistryTyped
<1>. QED  BY <1>8, <1>10, <1>11 DEF Inv

LEMMA TakeWriteInv == ASSUME Inv, NEW t \in Threads, TakeWrite(t) PROVE Inv'
<1>1. PICK what \in {"write", "touch"} : Does(t, what)
  BY DEF TakeWrite
<1>2. /\ todo[t] # <<>> /\ Now(t).do = what /\ Now(t) \in Steps /\ DOMAIN todo = Threads
  BY <1>1, AtWork
<1>3. PICK h, g \in Holdings :
        /\ Holds(t, h) /\ Goes(t, doing[t], Now(t), h, g)
        /\ Path(t, doing[t], Tail(todo[t]), g, "none")
  BY <1>1, AtWork
<1>4. /\ t # Listener
      /\ what = "write" => h = "none" /\ g = "excl"
      /\ what = "touch" => g = h
      /\ Now(t).on = "data"
  BY <1>2, <1>3, StepLeads
<1>5. Wanted(t) = "data" /\ writer["data"] = NoThread /\ readers["data"] = {}
  BY <1>2, <1>4 DEF TakeWrite, MayWrite, Wanted, Changing
<1>6. /\ Continue(t, Tail(todo[t]))
      /\ waiting' = [waiting EXCEPT ![Wanted(t)] = @ \ {t}]
      /\ UNCHANGED <<readers, queue, clients, sized, senders>>
  BY <1>4, <1>5 DEF TakeWrite, Proceed, registry
<1>7. /\ writer' \in [Locks -> Threads \cup {NoThread}] /\ writer'["state"] = NoThread
      /\ \A u \in Threads \ {t} : HoldsSame(u)
      /\ Holds(t, g)'
  <2>0. writer \in [Locks -> Threads \cup {NoThread}] /\ writer["state"] = NoThread
    BY DEF Inv, LocksTyped
  <2>1. CASE what = "touch"
    <3>1. writer' = writer
      BY <1>2, <2>1 DEF TakeWrite
    <3>2. \A u \in Threads : HoldsSame(u)
      BY <1>6, <3>1 DEF HoldsSame
    <3>. QED  BY <1>3, <1>4, <2>0, <2>1, <3>1, <3>2, HeldBefore
  <2>2. CASE what = "write"
    <3>1. writer' = [writer EXCEPT !["data"] = t]
      BY <1>2, <1>4, <2>2 DEF TakeWrite
    <3>2. /\ writer' \in [Locks -> Threads \cup {NoThread}]
          /\ writer'["data"] = t /\ writer'["state"] = NoThread
      BY <2>0, <3>1, LocksAre
    <3>3. \A u \in Threads \ {t} : HoldsSame(u)
      BY <1>5, <1>6, <3>2, ThreadsDiffer DEF HoldsSame
    <3>4. Holds(t, g)'
      BY <1>3, <1>4, <1>6, <2>2, <3>2 DEF Holds
    <3>. QED  BY <3>2, <3>3, <3>4
  <2>. QED  BY <2>1, <2>2
<1>8. ThreadsWork'
  BY <1>2, <1>3, <1>4, <1>6, <1>7, Continues DEF Inv
<1>9. /\ waiting' \in [Locks -> SUBSET Threads]
      /\ \A l \in Locks : waiting'[l] \subseteq (waiting[l] \cap Threads) \ {t}
  BY <1>6, WaitsForOne DEF Inv
<1>10. WaitersWrite'
  <2>1. \A u \in Threads \ {t} : todo'[u] = todo[u]
    BY <1>2, <1>6, OnlyOneProceeds
  <2>. QED  BY <1>9, <2>1, WaitersStay DEF Inv, LocksTyped
<1>11. LocksTyped'
  BY <1>5, <1>6, <1>7, <1>9, <1>10 DEF Inv, LocksTyped
<1>12. RegistryTyped'
  BY <1>6 DEF Inv, RegistryTyped
<1>. QED  BY <1>8, <1>11, <1>12 DEF Inv

LEMMA WaitToWriteInv == ASSUME Inv, NEW t \in Threads, WaitToWrite(t) PROVE Inv'
<1>1. PICK what \in Writing : Does(t, what)
  BY DEF WaitToWrite, Writes, Writing
<1>2. /\ todo[t] # <<>> /\ Now(t).do = what /\ Now(t) \in Steps
      /\ \E h, g \in Holdings : Goes(t, doing[t], Now(t), h, g)
  BY <1>1, AtWork
<1>3. Wanted(t) \in Locks
  BY <1>2, StepLeads, LocksAre DEF Wanted, Changing, Writing
<1>4. /\ waiting' = [waiting EXCEPT ![Wanted(t)] = @ \cup {t}]
      /\ UNCHANGED <<readers, writer, queue, doing, todo, clients, sized, senders>>
  BY DEF WaitToWrite, registry
<1>5. /\ waiting' \in [Locks -> SUBSET Threads]
      /\ \A l \in Locks : \A u \in waiting'[l] : u \in waiting[l] \/ (u = t /\ l = Wanted(t))
  BY <1>3, <1>4 DEF Inv, LocksTyped
<1>6. WaitersWrite'
  <2>1. SUFFICES ASSUME NEW l \in Locks, NEW u \in waiting'[l]
                 PROVE  todo[u] # <<>> /\ Now(u).do \in Writing /\ Wanted(u) = l
    BY <1>4 DEF WaitersWrite, Now, Wanted
  <2>2. CASE u \in waiting[l]
    BY <2>2 DEF Inv, LocksTyped, WaitersWrite
  <2>3. CASE u = t /\ l = Wanted(t)
    BY <1>2, <2>3
  <2>. QED  BY <1>5, <2>2, <2>3
<1>7. LocksTyped'
  BY <1>4, <1>5, <1>6 DEF Inv, LocksTyped
<1>8. \A u \in Threads : Works(u)'
  BY <1>4, SameWorks DEF Inv, ThreadsWork, HoldsSame
<1>9. ThreadsWork'
  BY <1>4, <1>8 DEF Inv, ThreadsWork, Now
<1>10. RegistryTyped'
  BY <1>4 DEF Inv, RegistryTyped
<1>. QED  BY <1>7, <1>9, <1>10 DEF Inv

LEMMA UnlockInv == ASSUME Inv, NEW t \in Threads, Unlock(t) PROVE Inv'
<1>1. Does(t, "free")
  BY DEF Unlock
<1>2. /\ todo[t] # <<>> /\ Now(t).do = "free" /\ Now(t) \in Steps /\ DOMAIN todo = Threads
  BY <1>1, AtWork
<1>3. PICK h, g \in Holdings :
        /\ Holds(t, h) /\ Goes(t, doing[t], Now(t), h, g)
        /\ Path(t, doing[t], Tail(todo[t]), g, "none")
  BY <1>1, AtWork
<1>4. /\ t # Listener /\ g = "none" /\ Now(t).on \in Locks
      /\ (h = Now(t).on \/ (h = "excl" /\ Now(t).on = "data"))
  BY <1>2, <1>3, StepLeads
<1>5. Continue(t, Tail(todo[t])) /\ UNCHANGED <<waiting, queue, clients, sized, senders>>
  BY DEF Unlock, Proceed, registry
<1>6. /\ readers' \in [Locks -> SUBSET Threads]
      /\ writer' \in [Locks -> Threads \cup {NoThread}] /\ writer'["state"] = NoThread
      /\ writer'["data"] # NoThread => readers'["data"] = {}
      /\ \A u \in Threads \ {t} : HoldsSame(u)
      /\ Holds(t, "none")'
  <2>0. /\ readers \in [Locks -> SUBSET Threads]
        /\ writer \in [Locks -> Threads \cup {NoThread}] /\ writer["state"] = NoThread
        /\ writer["data"] # NoThread => readers["data"] = {}
    BY DEF Inv, LocksTyped
  <2>1. CASE writer[Now(t).on] = t
    <3>1. writer' = [writer EXCEPT ![Now(t).on] = NoThread] /\ readers' = readers
      BY <2>1 DEF Unlock
    <3>2. Now(t).on = "data"
      BY <1>4, <2>0, <2>1, LocksAre, ThreadsDiffer
    <3>3. writer'["data"] = NoThread /\ writer'["state"] = NoThread
          /\ writer' \in [Locks -> Threads \cup {NoThread}]
      BY <2>0, <3>1, <3>2, LocksAre
    <3>4. h = "excl"
      BY <1>3, <2>1, <3>2 DEF Holds
    <3>5. \A u \in Threads \ {t} : HoldsSame(u)
      BY <2>1, <3>1, <3>2, <3>3, ThreadsDiffer DEF HoldsSame
    <3>6. Holds(t, "none")'
      BY <1>3, <3>1, <3>3, <3>4, ThreadsDiffer DEF Holds
    <3>. QED  BY <2>0, <3>1, <3>3, <3>5, <3>6
  <2>2. CASE writer[Now(t).on] # t
    <3>1. readers' = [readers EXCEPT ![Now(t).on] = @ \ {t}] /\ writer' = writer
      BY <2>2 DEF Unlock
    <3>2. /\ readers' \in [Locks -> SUBSET Threads]
          /\ \A l \in Locks : readers'[l] = IF l = Now(t).on THEN readers[l] \ {t} ELSE readers[l]
      BY <2>0, <3>1
    <3>3. h = Now(t).on /\ writer["data"] # t
      <4>1. h = Now(t).on
        BY <1>3, <1>4, <2>2 DEF Holds
      <4>2. writer["data"] # t
        BY <1>3, <1>4, <4>1, LocksAre DEF Holds
      <4>. QED  BY <4>1, <4>2
    <3>4. \A u \in Threads \ {t} : HoldsSame(u)
      BY <3>1, <3>2, LocksAre DEF HoldsSame
    <3>5. t \notin readers'["data"] /\ t \notin readers'["state"]
      <4>1. CASE Now(t).on = "data"
        BY <1>3, <3>2, <3>3, <4>1, LocksAre DEF Holds
      <4>2. CASE Now(t).on = "state"
        BY <1>3, <3>2, <3>3, <4>2, LocksAre DEF Holds
      <4>. QED  BY <1>4, <4>1, <4>2, LocksAre
    <3>6. Holds(t, "none")'
      BY <3>1, <3>3, <3>5 DEF Holds
    <3>7. writer'["data"] # NoThread => readers'["data"] = {}
      BY <2>0, <3>1, <3>2, LocksAre
    <3>. QED  BY <2>0, <3>1, <3>2, <3>4, <3>6, <3>7
  <2>. QED  BY <2>1, <2>2
<1>7. ThreadsWork'
  BY <1>2, <1>3, <1>4, <1>5, <1>6, Continues DEF Inv
<1>8. WaitersWrite'
  <2>1. \A l \in Locks : waiting[l] \subseteq (waiting[l] \cap Threads) \ {t}
    BY <1>2, DoesNotWait DEF Inv, Writing, Changing
  <2>2. \A u \in Threads \ {t} : todo'[u] = todo[u]
    BY <1>2, <1>5, OnlyOneProceeds
  <2>3. \A l \in Locks : waiting'[l] \subseteq (waiting[l] \cap Threads) \ {t}
    BY <1>5, <2>1
  <2>. QED  BY <2>2, <2>3, WaitersStay DEF Inv, LocksTyped
<1>9. LocksTyped'
  BY <1>5, <1>6, <1>8 DEF Inv, LocksTyped
<1>10. RegistryTyped'
  BY <1>5 DEF Inv, RegistryTyped
<1>. QED  BY <1>7, <1>9, <1>10 DEF Inv

(* A step of t that leaves the guards alone                                 *)
LEMMA GuardsKept ==
    ASSUME Inv, NEW t \in Threads \ {Listener}, todo[t] # <<>>, NEW h \in Holdings,
           Holds(t, h), NEW steps, Path(t, doing[t], steps, h, "none"),
           Continue(t, steps), UNCHANGED <<readers, writer>>,
           waiting' \in [Locks -> SUBSET Threads],
           \A l \in Locks : waiting'[l] \subseteq (waiting[l] \cap Threads) \ {t}
    PROVE  LocksTyped' /\ ThreadsWork'
<1>1. \A u \in Threads : HoldsSame(u)
  BY DEF HoldsSame
<1>2. Holds(t, h)'
  BY <1>1, HeldBefore
<1>3. ThreadsWork'
  BY <1>1, <1>2, Continues DEF Inv
<1>4. \A u \in Threads \ {t} : todo'[u] = todo[u]
  BY OnlyOneProceeds DEF Inv, ThreadsWork
<1>5. WaitersWrite'
  BY <1>4, WaitersStay DEF Inv, LocksTyped
<1>. QED  BY <1>3, <1>5 DEF Inv, LocksTyped

LEMMA SendToServerInv == ASSUME Inv, NEW t \in Threads, SendToServer(t) PROVE Inv'
<1>1. Does(t, "send")
  BY DEF SendToServer
<1>2. /\ todo[t] # <<>> /\ Now(t).do = "send" /\ Now(t) \in Steps
  BY <1>1, AtWork
<1>3. PICK h, g \in Holdings :
        /\ Holds(t, h) /\ Goes(t, doing[t], Now(t), h, g)
        /\ Path(t, doing[t], Tail(todo[t]), g, "none")
  BY <1>1, AtWork
<1>4. t # Listener /\ g = h /\ Now(t).on \in Instruction
  BY <1>2, <1>3, StepLeads
<1>5. Continue(t, Tail(todo[t])) /\ UNCHANGED <<readers, writer, waiting, clients, sized, senders>>
  BY DEF SendToServer, Proceed, registry, locks
<1>6. waiting' \in [Locks -> SUBSET Threads]
  BY <1>5 DEF Inv, LocksTyped
<1>7. \A l \in Locks : waiting'[l] \subseteq (waiting[l] \cap Threads) \ {t}
  BY <1>2, <1>5, DoesNotWait DEF Inv, Writing, Changing
<1>8. LocksTyped' /\ ThreadsWork'
  BY <1>2, <1>3, <1>4, <1>5, <1>6, <1>7, GuardsKept
<1>9. queue' \in Seq(Instruction) /\ Len(queue') <= QueueSize
  <2>1. queue \in Seq(Instruction) /\ Len(queue) < QueueSize /\ QueueSize \in Nat
    BY QueueAssumption DEF Inv, RegistryTyped, SendToServer
  <2>2. queue' = Append(queue, Now(t).on)
    BY DEF SendToServer
  <2>. QED  BY <1>4, <2>1, <2>2
<1>10. RegistryTyped'
  BY <1>5, <1>9 DEF Inv, RegistryTyped
<1>. QED  BY <1>8, <1>10 DEF Inv

LEMMA UpdateInv ==
    ASSUME Inv, NEW t \in Threads, NEW what \in {"size", "drop"}, Update(t, what), Proceed(t)
    PROVE  LocksTyped' /\ ThreadsWork' /\ Now(t).on \in Clients
<1>1. Does(t, what)
  BY DEF Update
<1>2. /\ todo[t] # <<>> /\ Now(t).do = what /\ Now(t) \in Steps
  BY <1>1, AtWork
<1>3. PICK h, g \in Holdings :
        /\ Holds(t, h) /\ Goes(t, doing[t], Now(t), h, g)
        /\ Path(t, doing[t], Tail(todo[t]), g, "none")
  BY <1>1, AtWork
<1>4. t # Listener /\ g = h /\ Now(t).on \in Clients
  BY <1>2, <1>3, StepLeads
<1>5. Continue(t, Tail(todo[t])) /\ UNCHANGED <<readers, writer>>
  BY DEF Update, Proceed
<1>6. waiting' = [waiting EXCEPT ![Wanted(t)] = @ \ {t}]
  BY <1>2 DEF Update, Wanted, Changing
<1>7. /\ waiting' \in [Locks -> SUBSET Threads]
      /\ \A l \in Locks : waiting'[l] \subseteq (waiting[l] \cap Threads) \ {t}
  BY <1>6, WaitsForOne DEF Inv
<1>8. LocksTyped' /\ ThreadsWork'
  BY <1>2, <1>3, <1>4, <1>5, <1>7, GuardsKept
<1>. QED  BY <1>4, <1>8

LEMMA SetClientSizeInv == ASSUME Inv, NEW t \in Threads, SetClientSize(t) PROVE Inv'
<1>1. LocksTyped' /\ ThreadsWork' /\ Now(t).on \in Clients
  BY UpdateInv DEF SetClientSize
<1>2. RegistryTyped'
  BY <1>1 DEF Inv, RegistryTyped, SetClientSize, Update
<1>. QED  BY <1>1, <1>2 DEF Inv

LEMMA DropClientInv == ASSUME Inv, NEW t \in Threads, DropClient(t) PROVE Inv'
<1>1. LocksTyped' /\ ThreadsWork'
  BY UpdateInv DEF DropClient
<1>2. RegistryTyped'
  BY DEF Inv, RegistryTyped, DropClient, Update
<1>. QED  BY <1>1, <1>2 DEF Inv

LEMMA ExpandInv == ASSUME Inv, NEW t \in Threads, Expand(t) PROVE Inv'
<1>1. PICK what \in Expanding : Does(t, what)
  BY DEF Expand
<1>2. /\ todo[t] # <<>> /\ Now(t).do = what /\ Now(t) \in Steps
  BY <1>1, AtWork
<1>3. PICK h, g \in Holdings :
        /\ Holds(t, h) /\ Goes(t, doing[t], Now(t), h, g)
        /\ Path(t, doing[t], Tail(todo[t]), g, "none")
  BY <1>1, AtWork
<1>4. t = Main /\ t # Listener /\ MainGoes(doing[t], Now(t), h, g)
  BY <1>2, <1>3, StepLeads, ThreadsDiffer
<1>5. PICK steps \in Expansion(Now(t)) : Continue(t, steps \o Tail(todo[t]))
  BY DEF Expand
<1>6. UNCHANGED <<readers, writer, waiting, queue, clients, sized, senders>>
  BY DEF Expand, locks, registry
<1>7. Path(t, doing[t], steps \o Tail(todo[t]), h, "none")
  <2>1. Path(Main, doing[t], steps, h, g)
    BY <1>2, <1>4, ExpansionPath DEF Inv
  <2>. QED  BY <1>3, <1>4, <2>1, PathConcat
<1>8. waiting' \in [Locks -> SUBSET Threads]
  BY <1>6 DEF Inv, LocksTyped
<1>9. \A l \in Locks : waiting'[l] \subseteq (waiting[l] \cap Threads) \ {t}
  BY <1>2, <1>6, DoesNotWait DEF Inv, Writing, Changing, Expanding
<1>10. LocksTyped' /\ ThreadsWork'
  <2>1. t \in Threads \ {Listener}
    BY <1>4
  <2>2. UNCHANGED <<readers, writer>>
    BY <1>6
  <2>. QED  BY <1>2, <1>3, <1>5, <1>7, <1>8, <1>9, <2>1, <2>2, GuardsKept
<1>11. RegistryTyped'
  BY <1>6 DEF Inv, RegistryTyped
<1>. QED  BY <1>10, <1>11 DEF Inv

Resting == {"idle", "away", "connected", "left", "gone"}

LEMMA RestingIsDone ==
    ASSUME Inv, NEW t \in Threads, doing[t] \in Resting
    PROVE  todo[t] = <<>> /\ Holds(t, "none")
BY DoneHoldsNothing DEF Inv, ThreadsWork, Resting

LEMMA ListenerEnters ==
    ASSUME Inv, todo[Listener] # <<>>
    PROVE  /\ Now(Listener).do = "enter" /\ Now(Listener).on \in Clients
           /\ doing[Now(Listener).on] = "away"
<1>1. Now(Listener) \in Steps
      /\ \E h, g \in Holdings : Goes(Listener, doing[Listener], Now(Listener), h, g)
  BY NowGoes, ThreadsDiffer DEF Inv
<1>2. Now(Listener).do = "enter" /\ Now(Listener).on \in Clients
  BY <1>1, StepLeads, ThreadsDiffer
<1>. QED  BY <1>2 DEF Inv, ThreadsWork

(* t turns to something else.                                               *)
LEMMA TurnsTo ==
    ASSUME Inv, NEW t \in Threads, NEW what \in Doings, NEW steps, NEW h \in Holdings,
           todo' = [todo EXCEPT ![t] = steps], doing' = [doing EXCEPT ![t] = what],
           Holds(t, h), Path(t, what, steps, h, "none"),
           what \in Resting => steps = <<>>,
           doing[t] # "away",
           todo[t] # <<>> => Now(t).do \notin Writing,
           (t = Listener /\ steps # <<>>) =>
              steps[1].on \in Clients /\ doing[steps[1].on] = "away",
           UNCHANGED locks
    PROVE  LocksTyped' /\ ThreadsWork'
<1>0. UNCHANGED <<readers, writer, waiting>>
  BY DEF locks
<1>1. /\ doing \in [Threads -> Doings] /\ DOMAIN todo = Threads
      /\ \A u \in Threads : Works(u)
  BY DEF Inv, ThreadsWork
<1>2. /\ doing' \in [Threads -> Doings] /\ DOMAIN todo' = Threads
      /\ todo'[t] = steps /\ doing'[t] = what
      /\ \A u \in Threads \ {t} : todo'[u] = todo[u] /\ doing'[u] = doing[u]
  BY <1>1
<1>3. \A u \in Threads : HoldsSame(u)
  BY <1>0 DEF HoldsSame
<1>4. Works(t)'
  <2>1. Holds(t, h)'
    BY <1>3, HeldBefore
  <2>2. Path(t, doing'[t], todo'[t], h, "none")
    BY <1>2
  <2>. QED  BY <2>1, <2>2 DEF Works
<1>5. \A u \in Threads \ {t} : Works(u)'
  BY <1>1, <1>2, <1>3, SameWorks
<1>6. \A u \in Threads : Works(u)'
  BY <1>4, <1>5
<1>7. ASSUME NEW u \in Threads, doing'[u] \in Resting
      PROVE  todo'[u] = <<>>
  <2>1. CASE u = t
    BY <1>2, <1>7, <2>1
  <2>2. CASE u # t
    BY <1>2, <1>7, <2>2, RestingIsDone
  <2>. QED  BY <2>1, <2>2
<1>8. ASSUME todo'[Listener] # <<>>
      PROVE  doing'[todo'[Listener][1].on] = "away"
  <2>1. CASE t = Listener
    BY <1>2, <1>8, <2>1, ThreadsDiffer
  <2>2. CASE t # Listener
    <3>1. todo'[Listener] = todo[Listener]
      BY <1>2, <2>2, ThreadsDiffer
    <3>2. Now(Listener).on \in Clients /\ doing[Now(Listener).on] = "away"
      BY <1>8, <3>1, ListenerEnters
    <3>3. doing'[Now(Listener).on] = "away"
      BY <1>2, <3>2, ThreadsDiffer
    <3>. QED  BY <3>1, <3>3 DEF Now
  <2>. QED  BY <2>1, <2>2
<1>9. ThreadsWork'
  BY <1>2, <1>6, <1>7, <1>8 DEF ThreadsWork, Now, Resting
<1>10. WaitersWrite'
  <2>1. \A l \in Locks : waiting'[l] \subseteq (waiting[l] \cap Threads) \ {t}
    BY <1>0, DoesNotWait DEF Inv
  <2>. QED  BY <1>2, <2>1, WaitersStay DEF Inv, LocksTyped
<1>11. LocksTyped'
  BY <1>0, <1>10 DEF Inv, LocksTyped
<1>. QED  BY <1>9, <1>11

LEMMA BeginInv ==
    ASSUME Inv, NEW t \in Threads, NEW what \in Doings \ Resting, NEW steps,
           Begin(t, what, steps), Path(t, what, steps, "none", "none"),
           (t = Listener /\ steps # <<>>) =>
              steps[1].on \in Clients /\ doing[steps[1].on] = "away",
           UNCHANGED locks
    PROVE  LocksTyped' /\ ThreadsWork'
<1>1. doing[t] = "idle" /\ todo[t] = <<>> /\ Holds(t, "none")
  BY RestingIsDone DEF Begin, Idle, Resting
<1>2. todo' = [todo EXCEPT ![t] = steps]
  BY DEF Begin
<1>3. "none" \in Holdings
  BY DEF Holdings
<1>4. CASE steps = <<>>
  <2>1. doing' = [doing EXCEPT ![t] = "idle"]
    BY <1>1, <1>4 DEF Begin
  <2>2. Path(t, "idle", steps, "none", "none") /\ "idle" \in Doings
    BY <1>3, <1>4, PathNil DEF Doings
  <2>. QED  BY <1>1, <1>2, <1>3, <1>4, <2>1, <2>2, TurnsTo
<1>5. CASE steps # <<>>
  <2>1. doing' = [doing EXCEPT ![t] = what]
    BY <1>5 DEF Begin
  <2>. QED  BY <1>1, <1>2, <1>3, <2>1, TurnsTo
<1>. QED  BY <1>4, <1>5

LEMMA ReceiveInv == ASSUME Inv, Receive PROVE Inv'
<1>1. queue \in Seq(Instruction) /\ queue # <<>> /\ Len(queue) <= QueueSize /\ QueueSize \in Nat
  BY QueueAssumption DEF Inv, RegistryTyped, Receive
<1>2. Head(queue) \in Instruction
  BY <1>1
<1>3. PICK steps \in Handler(Head(queue)) : Begin(Main, Head(queue).kind, steps)
  BY DEF Receive
<1>4. Path(Main, Head(queue).kind, steps, "none", "none")
  BY <1>2, HandlerPath
<1>5. Head(queue).kind \in Doings \ Resting
  BY <1>2 DEF Instruction, Doings, Resting
<1>6. UNCHANGED locks /\ UNCHANGED <<clients, sized, senders>> /\ queue' = Tail(queue)
  BY DEF Receive, registry
<1>7. LocksTyped' /\ ThreadsWork'
  BY <1>3, <1>4, <1>5, <1>6, BeginInv, ThreadsDiffer
<1>8. queue' \in Seq(Instruction) /\ Len(queue') <= QueueSize
  BY <1>1, <1>6
<1>9. RegistryTyped'
  BY <1>6, <1>8 DEF Inv, RegistryTyped
<1>. QED  BY <1>7, <1>9 DEF Inv

LEMMA ReturnInv == ASSUME Inv, Return PROVE Inv'
<1>1. Does(Main, "return") /\ Main \in Threads
  BY ThreadsDiffer DEF Return
<1>2. /\ todo[Main] # <<>> /\ Now(Main).do = "return" /\ Now(Main) \in Steps
  BY <1>1, AtWork
<1>3. PICK h, g \in Holdings : Holds(Main, h) /\ Goes(Main, doing[Main], Now(Main), h, g)
  BY <1>1, AtWork
<1>4. h = "none"
  BY <1>1, <1>2, <1>3, StepLeads
<1>5. Path(Main, "gone", <<>>, "none", "none") /\ "gone" \in Doings /\ "none" \in Holdings
  BY PathNil DEF Doings, Holdings
<1>6. doing[Main] # "away"
  BY <1>1, <1>2, RestingIsDone DEF Resting
<1>7. UNCHANGED locks /\ UNCHANGED <<queue, clients, sized, senders>>
      /\ todo' = [todo EXCEPT ![Main] = <<>>] /\ doing' = [doing EXCEPT ![Main] = "gone"]
  BY DEF Return, registry
<1>8. LocksTyped' /\ ThreadsWork'
  <2>1. Now(Main).do \notin Writing
    BY <1>2 DEF Writing, Changing
  <2>. QED  BY <1>1, <1>3, <1>4, <1>5, <1>6, <1>7, <2>1, TurnsTo, ThreadsDiffer
<1>9. RegistryTyped'
  BY <1>7 DEF Inv, RegistryTyped
<1>. QED  BY <1>8, <1>9 DEF Inv

LEMMA JoinInv == ASSUME Inv, Join PROVE Inv'
<1>1. Does(Main, "join") /\ Main \in Threads /\ Screen \in Threads /\ Main # Screen
  BY ThreadsDiffer DEF Join
<1>2. /\ todo[Main] # <<>> /\ Now(Main).do = "join" /\ Now(Main) \in Steps
      /\ DOMAIN todo = Threads
  BY <1>1, AtWork
<1>3. PICK h, g \in Holdings :
        /\ Holds(Main, h) /\ Goes(Main, doing[Main], Now(Main), h, g)
        /\ Path(Main, doing[Main], Tail(todo[Main]), g, "none")
  BY <1>1, AtWork
<1>4. g = h
  BY <1>1, <1>2, <1>3, StepLeads
<1>5. UNCHANGED <<readers, writer, waiting, queue, clients, sized, senders>>
  BY DEF Join, locks, registry
<1>6. doing \in [Threads -> Doings] /\ \A u \in Threads : Works(u)
  BY DEF Inv, ThreadsWork
<1>7. /\ doing' \in [Threads -> Doings] /\ DOMAIN todo' = Threads
      /\ todo'[Main] = Tail(todo[Main]) /\ doing'[Main] = doing[Main]
      /\ \A u \in Threads \ {Main} : todo'[u] = todo[u]
      /\ doing'[Screen] = "gone"
      /\ \A u \in Threads \ {Screen} : doing'[u] = doing[u]
  BY <1>1, <1>2, <1>6 DEF Join, Doings
<1>8. todo[Screen] = <<>> /\ Holds(Screen, "none")
  BY <1>1, RestingIsDone DEF Join, Idle, Resting
<1>9. \A u \in Threads : HoldsSame(u)
  BY <1>5 DEF HoldsSame
<1>10. Works(Main)'
  <2>1. Holds(Main, h)'
    BY <1>1, <1>3, <1>9, HeldBefore
  <2>2. Path(Main, doing'[Main], todo'[Main], h, "none")
    BY <1>3, <1>4, <1>7
  <2>. QED  BY <2>1, <2>2 DEF Works
<1>11. Works(Screen)'
  <2>1. Holds(Screen, "none")' /\ "none" \in Holdings
    BY <1>1, <1>8, <1>9, HeldBefore DEF Holdings
  <2>2. Path(Screen, doing'[Screen], todo'[Screen], "none", "none")
    BY <1>1, <1>7, <1>8, <2>1, PathNil
  <2>. QED  BY <2>1, <2>2 DEF Works
<1>12. \A u \in Threads \ {Main, Screen} : Works(u)'
  BY <1>6, <1>7, <1>9, SameWorks
<1>13. \A u \in Threads : Works(u)'
  BY <1>10, <1>11, <1>12
<1>14. ASSUME NEW u \in Threads, doing'[u] \in Resting
       PROVE  todo'[u] = <<>>
  <2>1. CASE u = Screen
    BY <1>1, <1>7, <1>8, <2>1
  <2>2. CASE u # Screen
    <3>1. doing[u] \in Resting
      BY <1>7, <1>14, <2>2
    <3>2. todo[u] = <<>>
      BY <3>1, RestingIsDone
    <3>. QED  BY <1>2, <1>7, <3>2
  <2>. QED  BY <2>1, <2>2
<1>15. ASSUME todo'[Listener] # <<>>
       PROVE  doing'[todo'[Listener][1].on] = "away"
  <2>1. todo'[Listener] = todo[Listener]
    BY <1>7, ThreadsDiffer
  <2>2. Now(Listener).on \in Clients /\ doing[Now(Listener).on] = "away"
    BY <1>15, <2>1, ListenerEnters
  <2>3. doing'[Now(Listener).on] = "away"
    BY <1>7, <2>2, ThreadsDiffer
  <2>. QED  BY <2>1, <2>3 DEF Now
<1>16. ThreadsWork'
  BY <1>7, <1>13, <1>14, <1>15 DEF ThreadsWork, Now, Resting
<1>17. WaitersWrite'
  <2>1. \A l \in Locks : waiting[l] \subseteq (waiting[l] \cap Threads) \ {Main}
    BY <1>2, DoesNotWait DEF Inv, Writing, Changing
  <2>. QED  BY <1>5, <1>7, <2>1, WaitersStay DEF Inv, LocksTyped
<1>18. LocksTyped'
  BY <1>5, <1>17 DEF Inv, LocksTyped
<1>19. RegistryTyped'
  BY <1>5 DEF Inv, RegistryTyped
<1>. QED  BY <1>16, <1>18, <1>19 DEF Inv

LEMMA AcceptInv == ASSUME Inv, NEW c \in Clients, Accept(c) PROVE Inv'
<1>. DEFINE steps == Step("enter", c)
<1>1. /\ doing[c] = "away" /\ Begin(Listener, "accept", steps) /\ UNCHANGED locks
      /\ UNCHANGED <<queue, clients, sized, senders>>
  BY DEF Accept, registry
<1>2. steps[1].on = c
  BY DEF Step
<1>3. Path(Listener, "accept", steps, "none", "none")
  <2>1. [do |-> "enter", on |-> c] \in Steps /\ "none" \in Holdings
    BY DEF Steps, Holdings
  <2>2. Goes(Listener, "accept", [do |-> "enter", on |-> c], "none", "none")
    BY DEF Goes
  <2>. QED  BY <2>1, <2>2, PathOne DEF Step
<1>4. "accept" \in Doings \ Resting
  BY DEF Doings, Resting
<1>. HIDE DEF steps
<1>5. LocksTyped' /\ ThreadsWork'
  BY <1>1, <1>2, <1>3, <1>4, BeginInv, ThreadsDiffer
<1>6. RegistryTyped'
  BY <1>1 DEF Inv, RegistryTyped
<1>. QED  BY <1>5, <1>6 DEF Inv

LEMMA EnterClientInv == ASSUME Inv, NEW c \in Clients, EnterClient(c) PROVE Inv'
<1>1. Does(Listener, "enter") /\ Listener \in Threads /\ c \in Threads /\ c # Listener
  BY ThreadsDiffer DEF EnterClient, Update
<1>2. /\ todo[Listener] # <<>> /\ Now(Listener).do = "enter" /\ Now(Listener) \in Steps
      /\ DOMAIN todo = Threads
  BY <1>1, AtWork
<1>3. PICK h, g \in Holdings : Holds(Listener, h) /\ Goes(Listener, doing[Listener], Now(Listener), h, g)
  BY <1>1, AtWork
<1>4. h = "none" /\ "none" \in Holdings
  BY <1>1, <1>2, <1>3, StepLeads DEF Holdings
<1>5. /\ UNCHANGED <<readers, writer, queue, sized>>
      /\ clients' = clients \cup {c} /\ senders' = senders \cup {c}
      /\ waiting' = [waiting EXCEPT !["state"] = @ \ {Listener}]
      /\ todo' = [todo EXCEPT ![Listener] = <<>>]
      /\ doing' = [doing EXCEPT ![Listener] = "idle", ![c] = "connected"]
  BY DEF EnterClient, Update
<1>6. doing \in [Threads -> Doings] /\ \A u \in Threads : Works(u)
  BY DEF Inv, ThreadsWork
<1>7. /\ doing' \in [Threads -> Doings] /\ DOMAIN todo' = Threads
      /\ todo'[Listener] = <<>> /\ doing'[Listener] = "idle"
      /\ \A u \in Threads \ {Listener} : todo'[u] = todo[u]
      /\ doing'[c] = "connected"
      /\ \A u \in Threads \ {Listener, c} : doing'[u] = doing[u]
  BY <1>1, <1>2, <1>5, <1>6 DEF Doings
<1>8. todo[c] = <<>> /\ Holds(c, "none")
  <2>1. doing[c] = "away"
    BY <1>2, ListenerEnters DEF EnterClient
  <2>. QED  BY <1>1, <2>1, RestingIsDone DEF Resting
<1>9. \A u \in Threads : HoldsSame(u)
  BY <1>5 DEF HoldsSame
<1>10. Works(Listener)'
  <2>1. Holds(Listener, "none")'
    BY <1>1, <1>3, <1>4, <1>9, HeldBefore
  <2>2. Path(Listener, doing'[Listener], todo'[Listener], "none", "none")
    BY <1>4, <1>7, PathNil
  <2>. QED  BY <1>4, <2>1, <2>2 DEF Works
<1>11. Works(c)'
  <2>1. Holds(c, "none")'
    BY <1>1, <1>8, <1>9, HeldBefore
  <2>2. Path(c, doing'[c], todo'[c], "none", "none")
    BY <1>1, <1>4, <1>7, <1>8, PathNil
  <2>. QED  BY <1>4, <2>1, <2>2 DEF Works
<1>12. \A u \in Threads \ {Listener, c} : Works(u)'
  BY <1>6, <1>7, <1>9, SameWorks
<1>13. \A u \in Threads : Works(u)'
  BY <1>10, <1>11, <1>12
<1>14. ASSUME NEW u \in Threads, doing'[u] \in Resting
       PROVE  todo'[u] = <<>>
  <2>1. CASE u \in {Listener, c}
    BY <1>1, <1>7, <1>8, <2>1
  <2>2. CASE u \notin {Listener, c}
    <3>1. todo[u] = <<>>
      BY <1>7, <1>14, <2>2, RestingIsDone
    <3>. QED  BY <1>7, <2>2, <3>1
  <2>. QED  BY <2>1, <2>2
<1>15. ThreadsWork'
  BY <1>7, <1>13, <1>14 DEF ThreadsWork, Resting
<1>16. Wanted(Listener) = "state"
  BY <1>2 DEF Wanted, Changing
<1>17. /\ waiting' \in [Locks -> SUBSET Threads]
       /\ \A l \in Locks : waiting'[l] \subseteq (waiting[l] \cap Threads) \ {Listener}
  BY <1>5, <1>16, WaitsForOne DEF Inv
<1>18. WaitersWrite'
  BY <1>7, <1>17, WaitersStay DEF Inv, LocksTyped
<1>19. LocksTyped'
  BY <1>5, <1>17, <1>18 DEF Inv, LocksTyped
<1>20. RegistryTyped'
  BY <1>5 DEF Inv, RegistryTyped
<1>. QED  BY <1>15, <1>19, <1>20 DEF Inv

LEMMA RouterMoves ==
    ASSUME NEW c \in Clients, NEW d
    PROVE  /\ Path(c, d, Read("data"), "none", "data")
           /\ Path(c, d, Free("data"), "data", "none")
           /\ \A kind \in {"attach", "kill", "remove", "exit", "detach"} :
                \A h \in {"none", "data"} : Path(c, d, Report(kind, c), h, h)
           /\ Path(c, d, Step("leave", c), "none", "none")
           /\ d = "resize" => /\ Path(c, d, SetSize(c), "data", "data")
                              /\ Path(c, d, Glance("state"), "data", "data")
<1>1. "none" \in Holdings /\ "data" \in Holdings
  BY DEF Holdings
<1>2. /\ [do |-> "read", on |-> "data"] \in Steps /\ [do |-> "free", on |-> "data"] \in Steps
      /\ [do |-> "leave", on |-> c] \in Steps /\ [do |-> "size", on |-> c] \in Steps
      /\ [do |-> "glance", on |-> "state"] \in Steps
  BY DEF Steps, Locks
<1>3. /\ Goes(c, d, [do |-> "read", on |-> "data"], "none", "data")
      /\ Goes(c, d, [do |-> "free", on |-> "data"], "data", "none")
      /\ Goes(c, d, [do |-> "leave", on |-> c], "none", "none")
      /\ d = "resize" => Goes(c, d, [do |-> "size", on |-> c], "data", "data")
      /\ d = "resize" => Goes(c, d, [do |-> "glance", on |-> "state"], "data", "data")
  BY DEF Goes, RouterGoes
<1>4. /\ Path(c, d, Read("data"), "none", "data")
      /\ Path(c, d, Free("data"), "data", "none")
      /\ Path(c, d, Step("leave", c), "none", "none")
      /\ d = "resize" => /\ Path(c, d, SetSize(c), "data", "data")
                         /\ Path(c, d, Glance("state"), "data", "data")
  BY <1>1, <1>2, <1>3, PathOne DEF Read, Free, Step, SetSize, Glance
<1>5. ASSUME NEW kind \in {"attach", "kill", "remove", "exit", "detach"},
             NEW h \in {"none", "data"}
      PROVE  Path(c, d, Report(kind, c), h, h)
  <2>1. Msg(kind, {c}) \in Instruction
    BY DEF Msg, Instruction
  <2>2. [do |-> "send", on |-> Msg(kind, {c})] \in Steps /\ h \in Holdings
    BY <1>1, <2>1 DEF Steps
  <2>3. Goes(c, d, [do |-> "send", on |-> Msg(kind, {c})], h, h)
    BY DEF Goes, RouterGoes
  <2>. QED  BY <2>2, <2>3, PathOne DEF Report, Send, Step
<1>. QED  BY <1>4, <1>5

LEMMA UnderSessionPath ==
    ASSUME NEW c \in Clients, NEW d, NEW q, Path(c, d, q, "data", "data")
    PROVE  Path(c, d, UnderSession(q), "none", "none")
<1>1. Path(c, d, Read("data") \o q, "none", "data")
  BY RouterMoves, PathConcat
<1>. QED  BY <1>1, RouterMoves, PathConcat DEF UnderSession

LEMMA RouteFirstMessageInv == ASSUME Inv, NEW c \in Clients, RouteFirstMessage(c) PROVE Inv'
<1>1. /\ doing[c] = "connected" /\ todo[c] = <<>> /\ Holds(c, "none") /\ c \in Threads
      /\ "none" \in Holdings
  BY RestingIsDone, ThreadsDiffer DEF RouteFirstMessage, Resting, Holdings
<1>2. UNCHANGED locks /\ UNCHANGED <<queue, clients, sized, senders>>
  BY DEF RouteFirstMessage, registry
<1>3. c # Listener
  BY ThreadsDiffer
<1>4. LocksTyped' /\ ThreadsWork'
  <2>1. CASE /\ doing' = [doing EXCEPT ![c] = "attach"]
             /\ todo' = [todo EXCEPT ![c] = AttachMessage(c)]
    <3>1. Path(c, "attach", AttachMessage(c), "none", "none")
      BY RouterMoves, UnderSessionPath DEF AttachMessage
    <3>2. "attach" \in Doings /\ "attach" \notin Resting
      BY DEF Doings, Resting
    <3>. QED  BY <1>1, <1>2, <1>3, <2>1, <3>1, <3>2, TurnsTo
  <2>2. CASE /\ doing' = [doing EXCEPT ![c] = "leave"]
             /\ todo' = [todo EXCEPT ![c] = UnderSession(Report("kill", c))
                                            \o Report("remove", c) \o Step("leave", c)]
    <3>. DEFINE q == UnderSession(Report("kill", c)) \o Report("remove", c) \o Step("leave", c)
    <3>1. Path(c, "leave", UnderSession(Report("kill", c)), "none", "none")
      BY RouterMoves, UnderSessionPath
    <3>2. Path(c, "leave", UnderSession(Report("kill", c)) \o Report("remove", c),
               "none", "none")
      BY <3>1, RouterMoves, PathConcat
    <3>3. Path(c, "leave", q, "none", "none")
      BY <3>2, RouterMoves, PathConcat
    <3>4. "leave" \in Doings /\ "leave" \notin Resting
      BY DEF Doings, Resting
    <3>. HIDE DEF q
    <3>5. todo' = [todo EXCEPT ![c] = q]
      BY <2>2 DEF q
    <3>. QED  BY <1>1, <1>2, <1>3, <2>2, <3>3, <3>4, <3>5, TurnsTo
  <2>. QED  BY <2>1, <2>2 DEF RouteFirstMessage
<1>5. RegistryTyped'
  BY <1>2 DEF Inv, RegistryTyped
<1>. QED  BY <1>4, <1>5 DEF Inv

(* A router begins to handle a message.                                     *)
LEMMA RouterBegins ==
    ASSUME Inv, NEW c \in Clients, NEW what \in {"resize", "action", "leave"}, NEW steps,
           Begin(c, what, steps), Path(c, what, steps, "none", "none"),
           UNCHANGED <<locks, queue, registry>>
    PROVE  Inv'
<1>1. what \in Doings \ Resting /\ c \in Threads /\ c # Listener
  BY ThreadsDiffer DEF Doings, Resting
<1>2. UNCHANGED locks /\ UNCHANGED <<queue, clients, sized, senders>>
  BY DEF registry
<1>3. LocksTyped' /\ ThreadsWork'
  BY <1>1, <1>2, BeginInv
<1>4. RegistryTyped'
  BY <1>2 DEF Inv, RegistryTyped
<1>. QED  BY <1>3, <1>4 DEF Inv

LEMMA RouteInv ==
    ASSUME Inv, NEW c \in Clients,
           \/ RouteResize(c) \/ RouteAction(c) \/ RouteLast(c) \/ RouteEndOfStream(c)
    PROVE  Inv'
<1>1. CASE RouteResize(c)
  <2>1. Path(c, "resize", SetSize(c) \o Glance("state"), "data", "data")
    BY RouterMoves, PathConcat
  <2>2. Path(c, "resize", UnderSession(SetSize(c) \o Glance("state")), "none", "none")
    BY <2>1, UnderSessionPath
  <2>. QED  BY <1>1, <2>2, RouterBegins DEF RouteResize
<1>2. CASE RouteAction(c)
  <2>1. Path(c, "action", <<>>, "data", "data")
    BY PathNil DEF Holdings
  <2>2. Path(c, "action", UnderSession(<<>>), "none", "none")
    BY <2>1, UnderSessionPath
  <2>. QED  BY <1>2, <2>2, RouterBegins DEF RouteAction
<1>3. CASE RouteLast(c)
  <2>1. PICK kind \in {"remove", "exit", "detach"} : Begin(c, "leave", LastMessage(kind, c))
    BY <1>3 DEF RouteLast
  <2>2. Path(c, "leave", UnderSession(Report(kind, c)), "none", "none")
    BY RouterMoves, UnderSessionPath
  <2>3. Path(c, "leave", LastMessage(kind, c), "none", "none")
    BY <2>2, RouterMoves, PathConcat DEF LastMessage
  <2>. QED  BY <1>3, <2>1, <2>3, RouterBegins DEF RouteLast
<1>4. CASE RouteEndOfStream(c)
  <2>1. Path(c, "leave", Report("remove", c), "none", "none")
    BY RouterMoves
  <2>2. Path(c, "leave", Report("remove", c) \o Step("leave", c), "none", "none")
    BY <2>1, RouterMoves, PathConcat
  <2>. QED  BY <1>4, <2>2, RouterBegins DEF RouteEndOfStream
<1>. QED  BY <1>1, <1>2, <1>3, <1>4

LEMMA LeaveInv == ASSUME Inv, NEW c \in Clients, Leave(c) PROVE Inv'
<1>1. Does(c, "leave") /\ c \in Threads /\ c # Listener
  BY ThreadsDiffer DEF Leave
<1>2. /\ todo[c] # <<>> /\ Now(c).do = "leave" /\ Now(c) \in Steps
  BY <1>1, AtWork
<1>3. PICK h, g \in Holdings : Holds(c, h) /\ Goes(c, doing[c], Now(c), h, g)
  BY <1>1, AtWork
<1>4. h = "none"
  BY <1>1, <1>2, <1>3, StepLeads
<1>5. Path(c, "left", <<>>, "none", "none") /\ "left" \in Doings /\ "none" \in Holdings
  BY PathNil DEF Doings, Holdings
<1>6. doing[c] # "away"
  BY <1>1, <1>2, RestingIsDone DEF Resting
<1>7. UNCHANGED locks /\ UNCHANGED <<queue, clients, sized, senders>>
      /\ todo' = [todo EXCEPT ![c] = <<>>] /\ doing' = [doing EXCEPT ![c] = "left"]
  BY DEF Leave, registry
<1>8. LocksTyped' /\ ThreadsWork'
  <2>1. Now(c).do \notin Writing
    BY <1>2 DEF Writing, Changing
  <2>. QED  BY <1>1, <1>3, <1>4, <1>5, <1>6, <1>7, <2>1, TurnsTo
<1>9. RegistryTyped'
  BY <1>7 DEF Inv, RegistryTyped
<1>. QED  BY <1>8, <1>9 DEF Inv

LEMMA ScreenSendsInv == ASSUME Inv, ScreenSends PROVE Inv'
<1>1. PICK m \in {Msg("render", sized), Msg("unblock", {}), Msg("close", {})}
                 \cup {Msg("switch", {c}) : c \in sized} :
        m.kind \in Requests /\ Begin(Screen, m.kind, Send(m))
  BY DEF ScreenSends
<1>2. m \in Instruction /\ m.kind \in {"render", "unblock", "close", "switch"}
  BY DEF Inv, RegistryTyped, Msg, Instruction
<1>3. m.kind \in Doings \ Resting
  BY <1>2 DEF Doings, Resting
<1>4. Path(Screen, m.kind, Send(m), "none", "none")
  <2>1. [do |-> "send", on |-> m] \in Steps /\ "none" \in Holdings
    BY <1>2 DEF Steps, Holdings
  <2>2. Goes(Screen, m.kind, [do |-> "send", on |-> m], "none", "none")
    BY DEF Goes
  <2>. QED  BY <2>1, <2>2, PathOne DEF Send, Step
<1>5. UNCHANGED locks /\ UNCHANGED <<queue, clients, sized, senders>>
  BY DEF ScreenSends, registry
<1>6. LocksTyped' /\ ThreadsWork'
  BY <1>1, <1>3, <1>4, <1>5, BeginInv, ThreadsDiffer
<1>7. RegistryTyped'
  BY <1>5 DEF Inv, RegistryTyped
<1>. QED  BY <1>6, <1>7 DEF Inv

LEMMA InitInv == Init => Inv
<1>. SUFFICES ASSUME Init
              PROVE  Inv
  OBVIOUS
<1>1. LocksTyped
  BY LocksAre DEF Init, LocksTyped, WaitersWrite
<1>2. \A t \in Threads : todo[t] = <<>> /\ Holds(t, "none")
  BY LocksAre, ThreadsDiffer DEF Init, Holds
<1>3. \A t \in Threads : Works(t)
  <2>1. "none" \in Holdings
    BY DEF Holdings
  <2>. QED  BY <1>2, <2>1, PathNil DEF Works
<1>4. doing \in [Threads -> Doings]
  BY DEF Init, Doings
<1>5. ThreadsWork
  BY <1>2, <1>3, <1>4, ThreadsDiffer DEF ThreadsWork, Init
<1>6. RegistryTyped
  BY ClientsAssumption, QueueAssumption DEF RegistryTyped, Init
<1>. QED  BY <1>1, <1>5, <1>6 DEF Inv

LEMMA StepInv == Inv /\ [Next]_vars => Inv'
<1>. SUFFICES ASSUME Inv, [Next]_vars
              PROVE  Inv'
  OBVIOUS
<1>1. ASSUME NEW t \in Threads, Run(t)
      PROVE  Inv'
  BY <1>1, TakeReadInv, TakeWriteInv, WaitToWriteInv, UnlockInv, SendToServerInv,
     SetClientSizeInv, DropClientInv, ExpandInv DEF Run
<1>2. CASE Receive \/ Join \/ Return \/ ScreenSends
  BY <1>2, ReceiveInv, JoinInv, ReturnInv, ScreenSendsInv
<1>3. ASSUME NEW c \in Clients,
             \/ Accept(c) \/ EnterClient(c) \/ RouteFirstMessage(c)
             \/ RouteResize(c) \/ RouteAction(c) \/ RouteLast(c) \/ RouteEndOfStream(c)
             \/ Leave(c)
      PROVE  Inv'
  BY <1>3, AcceptInv, EnterClientInv, RouteFirstMessageInv, RouteInv, LeaveInv
<1>4. CASE UNCHANGED vars
  <2>1. UNCHANGED <<readers, writer, waiting, queue, doing, todo, clients, sized, senders>>
    BY <1>4 DEF vars, locks, registry
  <2>2. \A u \in Threads : Works(u)'
    BY <2>1, SameWorks DEF Inv, ThreadsWork, HoldsSame
  <2>3. ThreadsWork'
    BY <2>1, <2>2 DEF Inv, ThreadsWork, Now
  <2>4. LocksTyped'
    BY <2>1 DEF Inv, LocksTyped, WaitersWrite, Now, Wanted
  <2>5. RegistryTyped'
    BY <2>1 DEF Inv, RegistryTyped
  <2>. QED  BY <2>3, <2>4, <2>5 DEF Inv
<1>. QED  BY <1>1, <1>2, <1>3, <1>4 DEF Next

(* The guards that a thread holds are those that its remaining steps give   *)
(* back, in every reachable state.                                          *)
LEMMA LocksInvariant == Spec => []Inv
<1>1. Init => Inv
  BY InitInv
<1>2. Inv /\ [Next]_vars => Inv'
  BY StepInv
<1>. QED  BY <1>1, <1>2, PTL DEF Spec

----------------------------------------------------------------------------
(* A lock has one writer or readers, and only threads inside a handler hold *)
(* one or wait for one: no early return of a handler or of a route loop     *)
(* leaves a guard behind, for any clients and any capacity of the channel.  *)
THEOREM TypeCorrect == Spec => []TypeOK
<1>1. ASSUME Inv
      PROVE  TypeOK
  <2>1. ASSUME NEW l \in Locks
        PROVE  /\ writer[l] # NoThread => readers[l] = {}
               /\ \A t \in readers[l] \cup waiting[l] \cup ({writer[l]} \ {NoThread}) :
                    todo[t] # <<>>
    <3>0. /\ readers[l] \subseteq Threads /\ waiting[l] \subseteq Threads
          /\ writer[l] \in Threads \cup {NoThread}
          /\ writer["state"] = NoThread
          /\ writer["data"] # NoThread => readers["data"] = {}
      BY <1>1 DEF Inv, LocksTyped
    <3>1. writer[l] # NoThread => readers[l] = {}
      BY <3>0, LocksAre
    <3>2. ASSUME NEW t \in waiting[l]
          PROVE  todo[t] # <<>>
      BY <1>1 DEF Inv, LocksTyped, WaitersWrite
    <3>3. ASSUME NEW t \in Threads, t \in readers[l] \/ writer[l] = t
          PROVE  todo[t] # <<>>
      <4>1. ~ Holds(t, "none")
        BY <3>0, <3>3, LocksAre, ThreadsDiffer DEF Holds
      <4>. QED  BY <1>1, <4>1, DoneHoldsNothing DEF Inv
    <3>. QED  BY <3>0, <3>1, <3>2, <3>3
  <2>. QED  BY <1>1, <2>1 DEF TypeOK, Inv, ThreadsWork, RegistryTyped, Doings
<1>. QED  BY <1>1, LocksInvariant, PTL

----------------------------------------------------------------------------
(* Who can stop the main loop *)

(* A guard is held on the way to a step that the thread can take under it.  *)
LEMMA HoldersGo ==
    ASSUME Inv, NEW t \in Threads, ~ Holds(t, "none")
    PROVE  /\ todo[t] # <<>> /\ Now(t) \in Steps
           /\ \E h, g \in Holdings : Holds(t, h) /\ Goes(t, doing[t], Now(t), h, g)
<1>1. todo[t] # <<>>
  BY DoneHoldsNothing DEF Inv
<1>. QED  BY <1>1, NowGoes DEF Inv

(* session_state is held by the main loop only, session_data is written by  *)
(* the main loop only, and a router that reads it is about to give it back, *)
(* to send, or to take session_state for a TerminalResize.                  *)
LEMMA HoldersKnown ==
    ASSUME Inv
    PROVE  /\ readers["state"] \subseteq {Main}
           /\ writer["data"] \in {Main, NoThread} /\ writer["state"] = NoThread
           /\ \A t \in readers["data"] \ {Main} :
                /\ t \in Clients /\ todo[t] # <<>>
                /\ \/ Now(t).do \in {"free", "send"}
                   \/ Now(t).do \in {"size", "glance"} /\ doing[t] = "resize"
<1>0. /\ readers["state"] \subseteq Threads /\ readers["data"] \subseteq Threads
      /\ writer["data"] \in Threads \cup {NoThread} /\ writer["state"] = NoThread
  BY LocksAre DEF Inv, LocksTyped
<1>1. ASSUME NEW t \in Threads, t # Main, NEW h \in Holdings, NEW g \in Holdings,
             Holds(t, h), Goes(t, doing[t], Now(t), h, g)
      PROVE  /\ h \in {"none", "data"}
             /\ h = "data" => /\ t \in Clients
                              /\ \/ Now(t).do \in {"read", "free", "send"}
                                 \/ Now(t).do \in {"size", "glance"} /\ doing[t] = "resize"
                              /\ Now(t).do # "read"
  BY <1>1, ThreadsDiffer DEF Goes, RouterGoes
<1>2. ASSUME NEW t \in readers["state"]
      PROVE  t = Main
  <2>1. SUFFICES ASSUME t # Main
                 PROVE  FALSE
    OBVIOUS
  <2>2. t \in Threads /\ ~ Holds(t, "none")
    BY <1>0, <1>2 DEF Holds
  <2>3. PICK h, g \in Holdings : Holds(t, h) /\ Goes(t, doing[t], Now(t), h, g)
    BY <2>2, HoldersGo
  <2>4. h = "state"
    BY <1>2, <2>3 DEF Holds
  <2>. QED  BY <1>1, <2>1, <2>2, <2>3, <2>4
<1>3. ASSUME writer["data"] # NoThread
      PROVE  writer["data"] = Main
  <2>. DEFINE t == writer["data"]
  <2>1. SUFFICES ASSUME t # Main
                 PROVE  FALSE
    OBVIOUS
  <2>2. t \in Threads /\ ~ Holds(t, "none")
    BY <1>0, <1>3 DEF Holds
  <2>3. PICK h, g \in Holdings : Holds(t, h) /\ Goes(t, doing[t], Now(t), h, g)
    BY <2>2, HoldersGo
  <2>4. h = "excl"
    BY <2>3 DEF Holds
  <2>. QED  BY <1>1, <2>1, <2>2, <2>3, <2>4
<1>4. ASSUME NEW t \in readers["data"] \ {Main}
      PROVE  /\ t \in Clients /\ todo[t] # <<>>
             /\ \/ Now(t).do \in {"free", "send"}
                \/ Now(t).do \in {"size", "glance"} /\ doing[t] = "resize"
  <2>1. t \in Threads /\ t # Main /\ ~ Holds(t, "none")
    BY <1>0, <1>4 DEF Holds
  <2>2. todo[t] # <<>> /\ \E h, g \in Holdings : Holds(t, h) /\ Goes(t, doing[t], Now(t), h, g)
    BY <2>1, HoldersGo
  <2>3. PICK h, g \in Holdings : Holds(t, h) /\ Goes(t, doing[t], Now(t), h, g)
    BY <2>2
  <2>4. h = "data"
    BY <1>4, <2>3 DEF Holds
  <2>. QED  BY <1>1, <2>1, <2>2, <2>3, <2>4
<1>. QED  BY <1>0, <1>2, <1>3, <1>4

(* Only the main loop writes session_data.                                  *)
LEMMA MainWritesData ==
    ASSUME Inv, NEW t \in waiting["data"]
    PROVE  t = Main /\ todo[t] # <<>> /\ Now(t).do \in {"write", "touch"}
<1>1. /\ t \in Threads /\ todo[t] # <<>> /\ Now(t).do \in Writing /\ Wanted(t) = "data"
  BY LocksAre DEF Inv, LocksTyped, WaitersWrite
<1>2. Now(t).do \in {"write", "touch"}
  BY <1>1, LocksAre DEF Writing, Wanted
<1>3. PICK h, g \in Holdings : Goes(t, doing[t], Now(t), h, g)
  BY <1>1, NowGoes DEF Inv
<1>4. t = Main
  BY <1>2, <1>3 DEF Goes, RouterGoes
<1>. QED  BY <1>1, <1>2, <1>4

(* The two locks are taken one under the other by the main loop alone       *)
(* (lib.rs:439-487, 513, 547, 588, 681), except for the router of a         *)
(* TerminalResize (route.rs), which writes and reads session_state while it *)
(* reads session_data; no other thread ever holds session_state over a step *)
(* or writes session_data.                                                  *)
OnlyMainNests ==
    /\ readers["state"] \subseteq {Main} /\ writer["state"] = NoThread
    /\ writer["data"] \in {Main, NoThread}
    /\ \A t \in readers["data"] \ {Main} :
         Now(t).do \in {"size", "glance"} => doing[t] = "resize"

THEOREM MainAloneNests == Spec => []OnlyMainNests
<1>1. Inv => OnlyMainNests
  <2>1. ASSUME Inv, NEW t \in readers["data"] \ {Main}, Now(t).do \in {"size", "glance"}
        PROVE  doing[t] = "resize"
    <3>1. \/ Now(t).do \in {"free", "send"}
          \/ Now(t).do \in {"size", "glance"} /\ doing[t] = "resize"
      BY <2>1, HoldersKnown
    <3>. QED  BY <2>1, <3>1
  <2>. QED  BY <2>1, HoldersKnown DEF OnlyMainNests
<1>. QED  BY <1>1, LocksInvariant, PTL

(* A thread whose next step is none of these waits for nobody.              *)
LEMMA WaitsForNobody ==
    ASSUME NEW t,
           ~ (Reads(t) /\ ~ MayRead(Wanted(t))), ~ (Writes(t) /\ ~ MayWrite(Wanted(t))),
           ~ (Does(t, "send") /\ Len(queue) = QueueSize),
           ~ (Does(t, "join") /\ ~ Idle(Screen))
    PROVE  WaitsFor(t) = {}
BY DEF WaitsFor

LEMMA WaitsForWriters ==
    ASSUME NEW t, todo[t] # <<>>, Reads(t), ~ Writes(t), ~ MayRead(Wanted(t)),
           ~ Does(t, "send"), ~ Does(t, "join")
    PROVE  WaitsFor(t) = waiting[Wanted(t)] \cup ({writer[Wanted(t)]} \ {NoThread})
BY DEF WaitsFor

LEMMA WaitsForReaders ==
    ASSUME NEW t, todo[t] # <<>>, ~ Reads(t), Writes(t), ~ MayWrite(Wanted(t)),
           ~ Does(t, "send"), ~ Does(t, "join")
    PROVE  WaitsFor(t) = readers[Wanted(t)] \cup ({writer[Wanted(t)]} \ {NoThread})
BY DEF WaitsFor

(* The main loop is not stuck where it wants to read: nobody else writes    *)
(* session_data, and who waits to write session_state finds no reader.      *)
LEMMA ReadingIsNotStuck ==
    ASSUME Inv, LoopStuck, Reads(Main)
    PROVE  FALSE
<1>1. PICK S \in SUBSET Threads : Main \in S /\ \A t \in S : WaitsFor(t) \cap S # {}
  BY DEF LoopStuck
<1>2. PICK what \in {"read", "glance"} : Does(Main, what)
  BY DEF Reads
<1>3. todo[Main] # <<>> /\ Now(Main).do = what /\ Now(Main) \in Steps /\ ~ Gone
  BY <1>2, AtWork, ThreadsDiffer DEF Does
<1>4. PICK h, g \in Holdings : Holds(Main, h) /\ Goes(Main, doing[Main], Now(Main), h, g)
  BY <1>2, AtWork, ThreadsDiffer
<1>5. /\ Now(Main).on \in Locks /\ h # Now(Main).on /\ h # "excl" /\ h # "state"
      /\ what = "glance" => Now(Main).on = "state"
      /\ what = "read" => h = "none"
  <2>1. MainGoes(doing[Main], Now(Main), h, g)
    BY <1>4, ThreadsDiffer DEF Goes
  <2>. QED  BY <1>3, <1>4, <2>1, StepLeads, ThreadsDiffer, LocksAre DEF MainGoes
<1>6. Wanted(Main) = Now(Main).on
  BY <1>3 DEF Wanted, Changing
<1>7. /\ readers["state"] = {} /\ writer["data"] = NoThread /\ writer["state"] = NoThread
  BY <1>4, <1>5, HoldersKnown DEF Holds
<1>8. ~ Writes(Main) /\ ~ Does(Main, "send") /\ ~ Does(Main, "join")
  BY <1>3 DEF Writes, Does, Changing
<1>9. ~ MayRead(Wanted(Main))
  <2>1. SUFFICES ASSUME MayRead(Wanted(Main))
                 PROVE  WaitsFor(Main) = {}
    BY <1>1
  <2>. QED  BY <1>8, <2>1, WaitsForNobody
<1>10. WaitsFor(Main) = waiting[Wanted(Main)]
  <2>1. WaitsFor(Main) = waiting[Wanted(Main)] \cup ({writer[Wanted(Main)]} \ {NoThread})
    BY <1>2, <1>3, <1>8, <1>9, WaitsForWriters DEF Reads
  <2>2. writer[Wanted(Main)] = NoThread
    BY <1>5, <1>6, <1>7, LocksAre
  <2>. QED  BY <2>1, <2>2
<1>11. PICK u \in S : u \in waiting[Wanted(Main)]
  BY <1>1, <1>10
<1>12. Wanted(Main) = "state"
  <2>1. SUFFICES ASSUME Wanted(Main) = "data"
                 PROVE  FALSE
    BY <1>5, <1>6, LocksAre
  <2>. QED  BY <1>3, <1>11, <2>1, MainWritesData
<1>13. /\ todo[u] # <<>> /\ Now(u).do \in Writing /\ Wanted(u) = "state"
  BY <1>11, <1>12, LocksAre DEF Inv, LocksTyped, WaitersWrite
<1>14. MayWrite(Wanted(u))
  BY <1>7, <1>13 DEF MayWrite
<1>15. ~ Reads(u) /\ ~ Does(u, "send") /\ ~ Does(u, "join")
  BY <1>13 DEF Reads, Does, Writing, Changing
<1>16. WaitsFor(u) = {}
  BY <1>14, <1>15, WaitsForNobody
<1>. QED  BY <1>1, <1>16

LEMMA WritingDataIsKnown ==
    ASSUME Inv, LoopStuck, Writes(Main), Wanted(Main) = "data"
    PROVE  \/ \E c \in readers["data"] : doing[c] = "resize"
           \/ Len(queue) = QueueSize /\ \E c \in readers["data"] : Does(c, "send")
<1>1. PICK S \in SUBSET Threads : Main \in S /\ \A t \in S : WaitsFor(t) \cap S # {}
  BY DEF LoopStuck
<1>2. PICK what \in Writing : Does(Main, what)
  BY DEF Writes, Writing
<1>3. todo[Main] # <<>> /\ Now(Main).do = what /\ Now(Main) \in Steps /\ ~ Gone
  BY <1>2, AtWork, ThreadsDiffer DEF Does
<1>4. PICK h, g \in Holdings : Holds(Main, h) /\ Goes(Main, doing[Main], Now(Main), h, g)
  BY <1>2, AtWork, ThreadsDiffer
<1>5. what \in {"write", "touch"}
  BY <1>3, LocksAre DEF Writing, Wanted
<1>6. h \in {"none", "state"}
  <2>1. MainGoes(doing[Main], Now(Main), h, g)
    BY <1>4, ThreadsDiffer DEF Goes
  <2>. QED  BY <1>3, <1>5, <2>1 DEF MainGoes
<1>7. Main \notin readers["data"] /\ writer["data"] = NoThread
  BY <1>4, <1>6, HoldersKnown DEF Holds
<1>8. ~ Reads(Main) /\ ~ Does(Main, "send") /\ ~ Does(Main, "join")
  BY <1>3, <1>5 DEF Reads, Does
<1>9. ~ MayWrite(Wanted(Main))
  <2>1. SUFFICES ASSUME MayWrite(Wanted(Main))
                 PROVE  WaitsFor(Main) = {}
    BY <1>1
  <2>. QED  BY <1>8, <2>1, WaitsForNobody
<1>10. WaitsFor(Main) = readers["data"]
  <2>1. WaitsFor(Main) = readers[Wanted(Main)] \cup ({writer[Wanted(Main)]} \ {NoThread})
    BY <1>3, <1>8, <1>9, WaitsForReaders
  <2>. QED  BY <1>7, <2>1
<1>11. PICK u \in S : u \in readers["data"]
  BY <1>1, <1>10
<1>12. /\ u \in Clients /\ todo[u] # <<>>
       /\ \/ Now(u).do \in {"free", "send"}
          \/ Now(u).do \in {"size", "glance"} /\ doing[u] = "resize"
  BY <1>7, <1>11, HoldersKnown
<1>13. CASE Now(u).do \in {"free", "send"}
  <2>1. ~ Reads(u) /\ ~ Writes(u) /\ ~ Does(u, "join")
    BY <1>13 DEF Reads, Writes, Does, Changing
  <2>2. Does(u, "send") /\ Len(queue) = QueueSize
    <3>1. SUFFICES ASSUME ~ (Does(u, "send") /\ Len(queue) = QueueSize)
                   PROVE  WaitsFor(u) = {}
      BY <1>1
    <3>. QED  BY <2>1, <3>1, WaitsForNobody
  <2>. QED  BY <1>11, <2>2
<1>14. CASE doing[u] = "resize"
  BY <1>11, <1>14
<1>. QED  BY <1>12, <1>13, <1>14

LEMMA WritingStateIsKnown ==
    ASSUME Inv, LoopStuck, Writes(Main), Wanted(Main) = "state"
    PROVE  doing[Main] = "unblock" /\ Main \in readers["state"]
<1>2. PICK what \in Writing : Does(Main, what)
  BY DEF Writes, Writing
<1>3. todo[Main] # <<>> /\ Now(Main).do = what /\ Now(Main) \in Steps /\ ~ Gone
  BY <1>2, AtWork, ThreadsDiffer DEF Does
<1>4. PICK h, g \in Holdings : Holds(Main, h) /\ Goes(Main, doing[Main], Now(Main), h, g)
  BY <1>2, AtWork, ThreadsDiffer
<1>5. what \in {"size", "drop"} /\ (what = "size" => h = "data")
      /\ (what = "drop" => h \in TellsUnder(doing[Main]))
  <2>1. MainGoes(doing[Main], Now(Main), h, g)
    BY <1>4, ThreadsDiffer DEF Goes
  <2>. QED  BY <1>3, <2>1, LocksAre DEF MainGoes, Writing, Changing, Wanted
<1>6. ~ Reads(Main) /\ ~ Does(Main, "send") /\ ~ Does(Main, "join")
  BY <1>3, <1>5 DEF Reads, Does
<1>7. ~ MayWrite("state")
  <2>1. SUFFICES ASSUME MayWrite(Wanted(Main))
                 PROVE  WaitsFor(Main) = {}
    BY DEF LoopStuck
  <2>. QED  BY <1>6, <2>1, WaitsForNobody
<1>8. Main \in readers["state"]
  BY <1>7, HoldersKnown DEF MayWrite
<1>9. h = "state"
  BY <1>4, <1>8 DEF Holds
<1>10. doing[Main] = "unblock"
  BY <1>5, <1>9 DEF TellsUnder
<1>. QED  BY <1>8, <1>10

LEMMA JoiningIsKnown ==
    ASSUME Inv, LoopStuck, Does(Main, "join")
    PROVE  Len(queue) = QueueSize
<1>1. PICK S \in SUBSET Threads : Main \in S /\ \A t \in S : WaitsFor(t) \cap S # {}
  BY DEF LoopStuck
<1>2. Now(Main).do = "join" /\ todo[Main] # <<>>
  BY DEF Does
<1>3. ~ Reads(Main) /\ ~ Writes(Main) /\ ~ Does(Main, "send")
  BY <1>2 DEF Reads, Writes, Does, Changing
<1>4. ~ Idle(Screen)
  <2>1. SUFFICES ASSUME Idle(Screen)
                 PROVE  WaitsFor(Main) = {}
    BY <1>1
  <2>. QED  BY <1>3, <2>1, WaitsForNobody
<1>5. WaitsFor(Main) = {Screen}
  BY <1>2, <1>3, <1>4 DEF WaitsFor
<1>6. Screen \in S /\ WaitsFor(Screen) # {}
  BY <1>1, <1>5
<1>7. todo[Screen] # <<>>
  <2>1. SUFFICES ASSUME todo[Screen] = <<>>
                 PROVE  WaitsFor(Screen) = {}
    BY <1>6
  <2>2. /\ ~ Reads(Screen) /\ ~ Writes(Screen) /\ ~ Does(Screen, "send")
        /\ ~ Does(Screen, "join")
    BY <2>1 DEF Reads, Writes, Does
  <2>. QED  BY <2>2, WaitsForNobody
<1>8. PICK h, g \in Holdings : Goes(Screen, doing[Screen], Now(Screen), h, g)
  BY <1>7, NowGoes, ThreadsDiffer DEF Inv
<1>9. Now(Screen).do = "send"
  BY <1>8, ThreadsDiffer DEF Goes
<1>10. ~ Reads(Screen) /\ ~ Writes(Screen) /\ ~ Does(Screen, "join")
  BY <1>9 DEF Reads, Writes, Does, Changing
<1>. QED  BY <1>6, <1>10, WaitsForNobody

(* What can stop the main loop for good is one of the three known ways,     *)
(* whatever the number of clients and the capacity of the channel: a router *)
(* in a TerminalResize under the lock that a resize announcement wants, a   *)
(* full channel, or a failed send of UnblockInputThread.                    *)
THEOREM DeadlocksAreKnown == Spec => []OnlyKnownDeadlocks
<1>1. ASSUME Inv
      PROVE  OnlyKnownDeadlocks
  <2>1. SUFFICES ASSUME LoopStuck
                 PROVE  \/ \E c \in readers["data"] : doing[c] = "resize"
                        \/ /\ Len(queue) = QueueSize
                           /\ \/ Does(Main, "send")
                              \/ Does(Main, "join")
                              \/ \E c \in readers["data"] : Does(c, "send")
                        \/ doing[Main] = "unblock" /\ Main \in readers["state"]
    BY DEF OnlyKnownDeadlocks
  <2>2. ~ Reads(Main)
    BY <1>1, <2>1, ReadingIsNotStuck
  <2>3. CASE Writes(Main)
    <3>1. Wanted(Main) \in Locks
      <4>1. PICK what \in Writing : Does(Main, what)
        BY <2>3 DEF Writes, Writing
      <4>2. Now(Main).do = what /\ Now(Main) \in Steps
        BY <1>1, <4>1, AtWork, ThreadsDiffer
      <4>. QED  BY <4>2, LocksAre DEF Wanted, Writing, Changing, Steps
    <3>2. CASE Wanted(Main) = "data"
      BY <1>1, <2>1, <2>3, <3>2, WritingDataIsKnown
    <3>3. CASE Wanted(Main) = "state"
      BY <1>1, <2>1, <2>3, <3>3, WritingStateIsKnown
    <3>. QED  BY <3>1, <3>2, <3>3, LocksAre
  <2>4. CASE ~ Writes(Main)
    <3>1. \/ Does(Main, "send") /\ Len(queue) = QueueSize
          \/ Does(Main, "join") /\ ~ Idle(Screen)
      <4>1. WaitsFor(Main) # {}
        BY <2>1 DEF LoopStuck
      <4>. QED  BY <2>2, <2>4, <4>1, WaitsForNobody
    <3>2. CASE Does(Main, "join")
      BY <1>1, <2>1, <3>2, JoiningIsKnown
    <3>. QED  BY <3>1, <3>2
  <2>. QED  BY <2>3, <2>4
<1>. QED  BY <1>1, LocksInvariant, PTL

=============================================================================

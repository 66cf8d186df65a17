------------------------- MODULE PluginsOrderProofs -------------------------
(***************************************************************************)
(* Plugins up to the first failure, without the disorder that harms the     *)
(* loading itself: a plugin or a client fails only because the file does    *)
(* not compile or a module is taken at the moment, and once nothing is      *)
(* under way each client has an instance of each plugin; for any number of  *)
(* clients and plugins.                                                    *)
(*                                                                         *)
(* A plugin of a client is made when it is in the map, or when a task will  *)
(* put it there.  Either the first one of a plugin is still to be cloned,   *)
(* or it is made for all who are listed or about to be.  A task finds what  *)
(* it needs: it runs, or the task makes it before.                         *)
(*                                                                         *)
(* Then Plugins where only those two happen: what runs is current once     *)
(* nothing is under way.  News and sizes are kept for a plugin just as long *)
(* as it is being loaded; of what its tasks will still tell an instance the *)
(* last is what there is to know, of its resizes the one with the largest   *)
(* number is the size of the pane; and what runs an older file is about to  *)
(* be made anew.                                                           *)
(***************************************************************************)
EXTENDS PluginsProofs

----------------------------------------------------------------------------
(* The invariant *)

Made == InstancesIn(running)
IdsOf(P) == {k[1] : k \in P}

PutsOf(T) == {k \in Ids \X Clients :
                 \E s \in T : s.do = "put" /\ s.id = k[1] /\ s.client = k[2]}
ClonesOf(T) == {id \in Ids : \E s \in T : s.do = "clone" /\ s.id = id}
PushesOf(T) == {c \in Clients : \E s \in T : s.do = "push" /\ s.client = c}
StepsOf(w) == ToSet(tasks[w].steps)

Has     == Made \cup {k \in Ids \X Clients : \E w \in Workers : k \in PutsOf(StepsOf(w))}
Cloning == {id \in Ids : \E w \in Workers : id \in ClonesOf(StepsOf(w))}
Listed  == Connected \cup PushesOf(StepsOf(Main))

(* What a step needs of what is made by then                               *)
Needs(s, P, C) ==
    /\ s.do = "copy" => \E c \in Clients : <<s.id, c>> \in P
    /\ s.do = "clone" => <<s.id, s.client>> \in P
    /\ s.do \in {"again", "memory"} => \A c \in C : <<s.id, c>> \in P
Before(q, i) == PutsOf({q[j] : j \in 1 .. i - 1})
Fine(q, P, C) == \A i \in 1 .. Len(q) : Needs(q[i], P \cup Before(q, i), C)
Ends(q) == \A i \in 1 .. Len(q) - 1 : q[i].do \notin {"done", "push"}

AllFine ==
    \A w \in Workers : Fine(tasks[w].steps, Made, Connected) /\ Ends(tasks[w].steps)

(* The compiled module is never lost.                                      *)
NoModule == cache = None /\ \A w \in Workers : tasks[w].module = None
ModuleStays ==
    NoModule => Made = {} /\ \A w \in Workers : Busy(w) => Current(w).do \in {"load", "push"}

(* A task works for plugins that are being loaded, and a reload alone.     *)
Tidy(w) ==
    /\ w \in tasks[w].ids /\ tasks[w].ids \subseteq screen.given
    /\ \A s \in StepsOf(w) : s.id \in tasks[w].ids \cup {None}
    /\ tasks[w].for = "start" =>
          /\ tasks[w].ids = {w}
          /\ \A s \in StepsOf(w) : s.do \notin {"again", "memory"}
          /\ w \in IdsOf(Made) \cup ClonesOf(StepsOf(w))
    /\ w \in bridge.loading
    /\ tasks[w].for # "start" => toPlugins = <<>> /\ \A v \in Workers \ {w} : ~Busy(v)
AllTidy == \A w \in Ids : Busy(w) => Tidy(w)

Apart ==
    /\ \A v, w \in Ids : Busy(v) /\ Busy(w) /\ v # w => tasks[v].ids \cap tasks[w].ids = {}
    /\ \A w \in Ids, k \in 1 .. Len(toPlugins) :
          Busy(w) => toPlugins[k] \cap tasks[w].ids = {}
    /\ \A j, k \in 1 .. Len(toPlugins) : j # k => toPlugins[j] \cap toPlugins[k] = {}
    /\ \A k \in 1 .. Len(toPlugins) :
          toPlugins[k] \cap bridge.loading # {} /\ toPlugins[k] \subseteq screen.given
    /\ bridge.loading \subseteq screen.given

(* The first client is there for whom a plugin is reloaded.                *)
SomeoneIsThere == Reloading \/ bridge.pending => bridge.connected # <<>>

AllHave  == \A id \in IdsOf(Has) : id \in Cloning \/ \A c \in Listed : <<id, c>> \in Has
OpenHave == screen.open \subseteq screen.given /\ screen.open = IdsOf(Has)

OrderInv ==
    /\ TypeInv
    /\ AllFine /\ ModuleStays /\ AllTidy /\ Apart /\ SomeoneIsThere
    /\ AllHave /\ OpenHave /\ NothingFails

(* What may come in disorder all the same.  Of this, modules that are taken *)
(* and files that do not compile are the mishaps that make a task fail.     *)
InTurn == Disorder \subseteq {"module taken", "broken build"}
Calm == Disorder \subseteq {"module taken", "broken build", "late resize", "reordered", "edited"}

(* Something has failed, but whoever failed has not come to an end.         *)
GivenUp == ~NothingFails /\ \E w \in Workers : Busy(w)

----------------------------------------------------------------------------
(* Sets of steps *)

LEMMA SamePairs ==
    ASSUME NEW P \in SUBSET (Ids \X Clients), NEW Q \in SUBSET (Ids \X Clients),
           \A id \in Ids, c \in Clients : <<id, c>> \in P <=> <<id, c>> \in Q
    PROVE  P = Q
<1>1. \A k \in Ids \X Clients : k \in P <=> k \in Q
  OBVIOUS
<1>. QED  BY <1>1

LEMMA SetOfSeq ==
    ASSUME NEW S, NEW p \in Seq(S), NEW q \in Seq(S)
    PROVE  /\ ToSet(p \o q) = ToSet(p) \cup ToSet(q)
           /\ q # <<>> => ToSet(q) = {q[1]} \cup ToSet(Tail(q))
           /\ ToSet(q) \subseteq S
<1>1. /\ Len(p) \in Nat /\ Len(q) \in Nat /\ p \o q \in Seq(S) /\ Len(p \o q) = Len(p) + Len(q)
      /\ \A i \in 1 .. Len(p) : (p \o q)[i] = p[i]
      /\ \A i \in 1 .. Len(q) : (p \o q)[Len(p) + i] = q[i]
      /\ \A i \in 1 .. Len(p) + Len(q) :
            i > Len(p) => (p \o q)[i] = q[i - Len(p)] /\ i - Len(p) \in 1 .. Len(q)
  BY ConcatFacts
<1>2. /\ DOMAIN p = 1 .. Len(p) /\ DOMAIN q = 1 .. Len(q)
      /\ DOMAIN (p \o q) = 1 .. Len(p) + Len(q)
  BY <1>1
<1>3. ASSUME NEW x \in ToSet(p \o q)
      PROVE  x \in ToSet(p) \cup ToSet(q)
  <2>1. PICK i \in 1 .. Len(p) + Len(q) : x = (p \o q)[i]
    BY <1>2 DEF ToSet
  <2>2. CASE i \in 1 .. Len(p)
    BY <2>1, <2>2, <1>1, <1>2 DEF ToSet
  <2>3. CASE i \notin 1 .. Len(p)
    <3>1. x = q[i - Len(p)] /\ i - Len(p) \in 1 .. Len(q)
      BY <2>1, <2>3, <1>1
    <3>. QED  BY <3>1, <1>2 DEF ToSet
  <2>. QED  BY <2>2, <2>3
<1>4. ASSUME NEW x \in ToSet(p) \cup ToSet(q)
      PROVE  x \in ToSet(p \o q)
  <2>1. CASE x \in ToSet(p)
    <3>1. PICK i \in 1 .. Len(p) : x = p[i]
      BY <2>1, <1>2 DEF ToSet
    <3>2. i \in 1 .. Len(p) + Len(q) /\ x = (p \o q)[i]
      BY <3>1, <1>1
    <3>. QED  BY <3>2, <1>2 DEF ToSet
  <2>2. CASE x \in ToSet(q)
    <3>1. PICK i \in 1 .. Len(q) : x = q[i]
      BY <2>2, <1>2 DEF ToSet
    <3>2. Len(p) + i \in 1 .. Len(p) + Len(q) /\ x = (p \o q)[Len(p) + i]
      BY <3>1, <1>1
    <3>. QED  BY <3>2, <1>2 DEF ToSet
  <2>. QED  BY <2>1, <2>2
<1>5. ASSUME q # <<>>
      PROVE  ToSet(q) = {q[1]} \cup ToSet(Tail(q))
  <2>1. /\ Tail(q) \in Seq(S) /\ Len(Tail(q)) = Len(q) - 1 /\ Len(q) \in Nat \ {0}
        /\ \A i \in 1 .. Len(q) - 1 : Tail(q)[i] = q[i + 1]
        /\ \A i \in 2 .. Len(q) : Tail(q)[i - 1] = q[i] /\ i - 1 \in 1 .. Len(q) - 1
    BY <1>5, TailFacts
  <2>2. DOMAIN Tail(q) = 1 .. Len(q) - 1
    BY <2>1
  <2>3. ASSUME NEW x \in ToSet(q), x # q[1]
        PROVE  x \in ToSet(Tail(q))
    <3>1. PICK i \in 1 .. Len(q) : x = q[i]
      BY <1>2 DEF ToSet
    <3>2. i \in 2 .. Len(q)
      BY <3>1, <2>3, <2>1
    <3>3. x = Tail(q)[i - 1] /\ i - 1 \in 1 .. Len(q) - 1
      BY <3>1, <3>2, <2>1
    <3>. QED  BY <3>3, <2>2 DEF ToSet
  <2>4. ASSUME NEW x \in ToSet(Tail(q))
        PROVE  x \in ToSet(q)
    <3>1. PICK i \in 1 .. Len(q) - 1 : x = Tail(q)[i]
      BY <2>2 DEF ToSet
    <3>2. i + 1 \in 1 .. Len(q) /\ x = q[i + 1]
      BY <3>1, <2>1
    <3>. QED  BY <3>2, <1>2 DEF ToSet
  <2>5. q[1] \in ToSet(q)
    BY <1>2, <2>1 DEF ToSet
  <2>. QED  BY <2>3, <2>4, <2>5
<1>6. ToSet(q) \subseteq S
  BY <1>2 DEF ToSet
<1>. QED  BY <1>3, <1>4, <1>5, <1>6

LEMMA SetOfOne ==
    /\ ToSet(<<>>) = {}
    /\ \A a : ToSet(<<a>>) = {a}
    /\ \A a, b : ToSet(<<a, b>>) = {a, b}
BY DEF ToSet

LEMMA PutsTogether ==
    ASSUME NEW T, NEW U
    PROVE  /\ PutsOf(T \cup U) = PutsOf(T) \cup PutsOf(U)
           /\ ClonesOf(T \cup U) = ClonesOf(T) \cup ClonesOf(U)
           /\ PushesOf(T \cup U) = PushesOf(T) \cup PushesOf(U)
BY DEF PutsOf, ClonesOf, PushesOf

LEMMA NeedsMore ==
    ASSUME NEW s, NEW P, NEW C, NEW Q, NEW D, Needs(s, P, C), P \subseteq Q, D \subseteq C
    PROVE  Needs(s, Q, D)
BY DEF Needs

LEMMA FineMore ==
    ASSUME NEW q, NEW P, NEW C, NEW Q, NEW D, Fine(q, P, C), P \subseteq Q, D \subseteq C
    PROVE  Fine(q, Q, D)
<1>1. ASSUME NEW i \in 1 .. Len(q)
      PROVE  Needs(q[i], Q \cup Before(q, i), D)
  <2>1. Needs(q[i], P \cup Before(q, i), C)
    BY DEF Fine
  <2>2. P \cup Before(q, i) \subseteq Q \cup Before(q, i)
    OBVIOUS
  <2>. QED  BY <2>1, <2>2, NeedsMore
<1>. QED  BY <1>1 DEF Fine

LEMMA FineGiven ==
    ASSUME NEW q \in Seq(Steps), NEW P, NEW C, \A s \in ToSet(q) : Needs(s, P, C)
    PROVE  Fine(q, P, C)
<1>1. ASSUME NEW i \in 1 .. Len(q)
      PROVE  Needs(q[i], P \cup Before(q, i), C)
  <2>1. q[i] \in ToSet(q)
    BY DEF ToSet
  <2>2. P \subseteq P \cup Before(q, i)
    OBVIOUS
  <2>. QED  BY <2>1, <2>2, NeedsMore
<1>. QED  BY <1>1 DEF Fine

LEMMA FineTail ==
    ASSUME NEW q \in Seq(Steps), q # <<>>, NEW P, NEW C, Fine(q, P, C)
    PROVE  Fine(Tail(q), P \cup PutsOf({q[1]}), C)
<1>1. /\ Tail(q) \in Seq(Steps) /\ Len(Tail(q)) = Len(q) - 1 /\ Len(q) \in Nat \ {0}
      /\ \A i \in 1 .. Len(q) - 1 : Tail(q)[i] = q[i + 1]
      /\ \A i \in 2 .. Len(q) : Tail(q)[i - 1] = q[i] /\ i - 1 \in 1 .. Len(q) - 1
  BY TailFacts
<1>2. ASSUME NEW i \in 1 .. Len(Tail(q))
      PROVE  Needs(Tail(q)[i], P \cup PutsOf({q[1]}) \cup Before(Tail(q), i), C)
  <2>1. i + 1 \in 1 .. Len(q) /\ Tail(q)[i] = q[i + 1]
    BY <1>1
  <2>2. Needs(Tail(q)[i], P \cup Before(q, i + 1), C)
    BY <2>1 DEF Fine
  <2>. DEFINE T == {q[j] : j \in 1 .. i}
              U == {Tail(q)[j] : j \in 1 .. i - 1}
  <2>3. T \subseteq {q[1]} \cup U
    <3>1. ASSUME NEW j \in 1 .. i, j # 1
          PROVE  q[j] \in U
      <4>1. j \in 2 .. Len(q) /\ j - 1 \in 1 .. i - 1
        BY <3>1, <1>1
      <4>2. q[j] = Tail(q)[j - 1]
        BY <4>1, <1>1
      <4>. QED  BY <4>1, <4>2
    <3>. QED  BY <3>1
  <2>4. Before(q, i + 1) = PutsOf(T) /\ Before(Tail(q), i) = PutsOf(U)
    <3>1. i + 1 - 1 = i
      BY <1>1
    <3>. QED  BY <3>1 DEF Before
  <2>. HIDE DEF T, U
  <2>5. PutsOf(T) \subseteq PutsOf({q[1]}) \cup PutsOf(U)
    BY <2>3 DEF PutsOf
  <2>. DEFINE A == P \cup Before(q, i + 1)
              B == P \cup PutsOf({q[1]}) \cup Before(Tail(q), i)
              s == Tail(q)[i]
  <2>6. Needs(s, A, C) /\ A \subseteq B
    BY <2>2, <2>4, <2>5
  <2>. HIDE DEF A, B, s
  <2>7. Needs(s, B, C)
    BY <2>6, NeedsMore
  <2>. QED  BY <2>7 DEF B, s
<1>. QED  BY <1>2 DEF Fine

LEMMA FineJoin ==
    ASSUME NEW p \in Seq(Steps), NEW q \in Seq(Steps), NEW P, NEW C,
           Fine(p, P, C), Fine(q, P \cup PutsOf(ToSet(p)), C)
    PROVE  Fine(p \o q, P, C)
<1>. DEFINE r == p \o q
<1>1. /\ r \in Seq(Steps) /\ Len(p) \in Nat /\ Len(q) \in Nat
      /\ Len(r) = Len(p) + Len(q)
      /\ \A i \in 1 .. Len(p) : r[i] = p[i]
      /\ \A i \in 1 .. Len(q) : r[Len(p) + i] = q[i]
      /\ \A i \in 1 .. Len(p) + Len(q) :
            i > Len(p) => r[i] = q[i - Len(p)] /\ i - Len(p) \in 1 .. Len(q)
  BY ConcatFacts
<1>. HIDE DEF r
<1>2. ASSUME NEW i \in 1 .. Len(p)
      PROVE  Needs(r[i], P \cup Before(r, i), C)
  <2>1. r[i] = p[i] /\ {r[j] : j \in 1 .. i - 1} = {p[j] : j \in 1 .. i - 1}
    <3>1. \A j \in 1 .. i - 1 : r[j] = p[j]
      BY <1>1
    <3>. QED  BY <3>1, <1>1
  <2>. QED  BY <2>1 DEF Fine, Before
<1>3. ASSUME NEW i \in 1 .. Len(p) + Len(q), i > Len(p)
      PROVE  Needs(r[i], P \cup Before(r, i), C)
  <2>. DEFINE k == i - Len(p)
              T == {r[j] : j \in 1 .. i - 1}
              U == {q[j] : j \in 1 .. k - 1}
  <2>1. r[i] = q[k] /\ k \in 1 .. Len(q)
    BY <1>1, <1>3
  <2>2. Needs(r[i], P \cup PutsOf(ToSet(p)) \cup Before(q, k), C)
    BY <2>1 DEF Fine
  <2>3. U \subseteq T
    <3>1. ASSUME NEW j \in 1 .. k - 1
          PROVE  q[j] \in T
      <4>1. Len(p) + j \in 1 .. i - 1 /\ j \in 1 .. Len(q)
        <5>. DEFINE a == Len(p)
                    b == Len(q)
        <5>1. a \in Nat /\ b \in Nat /\ i \in 1 .. a + b /\ i > a /\ j \in 1 .. i - a - 1
          BY <1>1, <1>3
        <5>. HIDE DEF a, b
        <5>2. a + j \in 1 .. i - 1 /\ j \in 1 .. b
          BY ONLY <5>1
        <5>. QED  BY <5>2 DEF a, b
      <4>2. q[j] = r[Len(p) + j]
        BY <4>1, <1>1
      <4>. QED  BY <4>1, <4>2
    <3>. QED  BY <3>1
  <2>4. ToSet(p) \subseteq T
    <3>1. ASSUME NEW j \in 1 .. Len(p)
          PROVE  p[j] \in T
      <4>1. j \in 1 .. i - 1 /\ r[j] = p[j]
        BY <1>1, <1>3
      <4>. QED  BY <4>1
    <3>. QED  BY <3>1 DEF ToSet
  <2>5. Before(r, i) = PutsOf(T) /\ Before(q, k) = PutsOf(U)
    BY DEF Before
  <2>. HIDE DEF T, U, k
  <2>6. PutsOf(ToSet(p)) \cup PutsOf(U) \subseteq PutsOf(T)
    BY <2>3, <2>4 DEF PutsOf
  <2>7. P \cup PutsOf(ToSet(p)) \cup Before(q, k) \subseteq P \cup Before(r, i)
    BY <2>5, <2>6
  <2>. QED  BY <2>2, <2>7, NeedsMore
<1>4. ASSUME NEW i \in 1 .. Len(r)
      PROVE  Needs(r[i], P \cup Before(r, i), C)
  <2>1. CASE i \in 1 .. Len(p)
    BY <2>1, <1>2
  <2>2. CASE i \notin 1 .. Len(p)
    <3>1. i \in 1 .. Len(p) + Len(q) /\ i > Len(p)
      BY <2>2, <1>1
    <3>. QED  BY <3>1, <1>3
  <2>. QED  BY <2>1, <2>2
<1>. QED  BY <1>4 DEF Fine, r

LEMMA EndsTail ==
    ASSUME NEW q \in Seq(Steps), q # <<>>, Ends(q)
    PROVE  Ends(Tail(q))
<1>1. /\ Len(Tail(q)) = Len(q) - 1 /\ Len(q) \in Nat \ {0}
      /\ \A i \in 1 .. Len(q) - 1 : Tail(q)[i] = q[i + 1]
  BY TailFacts
<1>2. ASSUME NEW i \in 1 .. Len(Tail(q)) - 1
      PROVE  Tail(q)[i].do \notin {"done", "push"}
  <2>1. i + 1 \in 1 .. Len(q) - 1 /\ Tail(q)[i] = q[i + 1]
    BY <1>1
  <2>. QED  BY <2>1 DEF Ends
<1>. QED  BY <1>2 DEF Ends

LEMMA EndsJoin ==
    ASSUME NEW p \in Seq(Steps), NEW q \in Seq(Steps), Ends(q),
           \A s \in ToSet(p) : s.do \notin {"done", "push"}
    PROVE  Ends(p \o q)
<1>. DEFINE r == p \o q
<1>1. /\ r \in Seq(Steps) /\ Len(p) \in Nat /\ Len(q) \in Nat
      /\ Len(r) = Len(p) + Len(q)
      /\ \A i \in 1 .. Len(p) : r[i] = p[i]
      /\ \A i \in 1 .. Len(p) + Len(q) :
            i > Len(p) => r[i] = q[i - Len(p)] /\ i - Len(p) \in 1 .. Len(q)
  BY ConcatFacts
<1>. HIDE DEF r
<1>2. ASSUME NEW i \in 1 .. Len(r) - 1
      PROVE  r[i].do \notin {"done", "push"}
  <2>1. CASE i \in 1 .. Len(p)
    <3>1. r[i] = p[i] /\ p[i] \in ToSet(p)
      BY <2>1, <1>1 DEF ToSet
    <3>. QED  BY <3>1
  <2>2. CASE i \notin 1 .. Len(p)
    <3>1. r[i] = q[i - Len(p)] /\ i - Len(p) \in 1 .. Len(q) - 1
      BY <2>2, <1>1
    <3>. QED  BY <3>1 DEF Ends
  <2>. QED  BY <2>1, <2>2
<1>. QED  BY <1>2 DEF Ends, r

(* The steps of copies                                                     *)
LEMMA CopiesSet ==
    ASSUME NEW n \in Nat, NEW ids \in [1 .. n -> Ids], NEW cs \in [1 .. n -> Clients],
           NEW q, AreCopies(q, ids, cs, n)
    PROVE  /\ q \in Seq(Steps)
           /\ \A s \in ToSet(q) : \E i \in 1 .. n :
                 s.do \in {"copy", "put"} /\ s.id = ids[i] /\ s.client = cs[i]
           /\ PutsOf(ToSet(q)) = {<<ids[i], cs[i]>> : i \in 1 .. n}
<1>1. /\ q \in Seq(Steps) /\ Len(q) = 2 * n /\ DOMAIN q = 1 .. 2 * n
      /\ \A i \in 1 .. n : /\ q[2 * i - 1] = Step("copy", ids[i], cs[i])
                           /\ q[2 * i] = Step("put", ids[i], cs[i])
  BY DEF AreCopies
<1>2. ASSUME NEW s \in ToSet(q)
      PROVE  \E i \in 1 .. n :
                s.do \in {"copy", "put"} /\ s.id = ids[i] /\ s.client = cs[i]
  <2>1. PICK j \in 1 .. 2 * n : s = q[j]
    BY <1>1 DEF ToSet
  <2>2. PICK i \in 1 .. n : j = 2 * i - 1 \/ j = 2 * i
    BY CopiesIndex
  <2>3. s = Step("copy", ids[i], cs[i]) \/ s = Step("put", ids[i], cs[i])
    BY <1>1, <2>1, <2>2
  <2>. QED  BY <2>3, StepFields
<1>3. ASSUME NEW i \in 1 .. n
      PROVE  <<ids[i], cs[i]>> \in PutsOf(ToSet(q))
  <2>1. 2 * i \in 1 .. 2 * n /\ ids[i] \in Ids /\ cs[i] \in Clients
    OBVIOUS
  <2>. DEFINE s == Step("put", ids[i], cs[i])
  <2>2. s \in ToSet(q)
    BY <1>1, <2>1 DEF ToSet
  <2>3. s.do = "put" /\ s.id = ids[i] /\ s.client = cs[i]
    BY StepFields
  <2>. HIDE DEF s
  <2>. QED  BY <2>1, <2>2, <2>3 DEF PutsOf
<1>4. ASSUME NEW k \in PutsOf(ToSet(q))
      PROVE  k \in {<<ids[i], cs[i]>> : i \in 1 .. n}
  <2>1. PICK s \in ToSet(q) : k \in Ids \X Clients /\ s.id = k[1] /\ s.client = k[2]
    BY DEF PutsOf
  <2>2. PICK i \in 1 .. n : s.id = ids[i] /\ s.client = cs[i]
    BY <1>2
  <2>3. PICK x \in Ids, y \in Clients : k = <<x, y>>
    BY <2>1
  <2>4. x = ids[i] /\ y = cs[i]
    BY <2>1, <2>2, <2>3
  <2>. QED  BY <2>3, <2>4
<1>. QED  BY <1>1, <1>2, <1>3, <1>4

LEMMA CopyToSet ==
    ASSUME NEW id \in Ids, NEW clients \in Seq(Clients)
    PROVE  /\ CopyTo(id, clients) \in Seq(Steps)
           /\ \A s \in ToSet(CopyTo(id, clients)) : s.do \in {"copy", "put"} /\ s.id = id
           /\ PutsOf(ToSet(CopyTo(id, clients))) = {<<id, c>> : c \in ToSet(clients)}
<1>. DEFINE n == Len(clients)
            ids == [i \in 1 .. n |-> id]
            q == CopyTo(id, clients)
<1>1. n \in Nat /\ DOMAIN clients = 1 .. n /\ clients \in [1 .. n -> Clients]
      /\ ids \in [1 .. n -> Ids]
  OBVIOUS
<1>2. AreCopies(q, ids, clients, n)
  BY CopyToCopies
<1>3. \A i \in 1 .. n : ids[i] = id
  OBVIOUS
<1>. HIDE DEF n, ids, q
<1>4. /\ q \in Seq(Steps)
      /\ \A s \in ToSet(q) : \E i \in 1 .. n :
            s.do \in {"copy", "put"} /\ s.id = ids[i] /\ s.client = clients[i]
      /\ PutsOf(ToSet(q)) = {<<ids[i], clients[i]>> : i \in 1 .. n}
  BY <1>1, <1>2, CopiesSet
<1>5. PutsOf(ToSet(q)) = {<<id, c>> : c \in ToSet(clients)}
  BY <1>1, <1>3, <1>4 DEF ToSet
<1>. QED  BY <1>3, <1>4, <1>5 DEF q

LEMMA NoPuts ==
    ASSUME NEW T
    PROVE  /\ (\A s \in T : s.do # "put") => PutsOf(T) = {}
           /\ (\A s \in T : s.do # "clone") => ClonesOf(T) = {}
           /\ (\A s \in T : s.do # "push") => PushesOf(T) = {}
BY DEF PutsOf, ClonesOf, PushesOf

LEMMA PutOne ==
    ASSUME NEW s, s.do = "put", s.id \in Ids, s.client \in Clients
    PROVE  PutsOf({s}) = {<<s.id, s.client>>}
BY DEF PutsOf

(* What is made                                                            *)
LEMMA MadeFacts ==
    /\ Made \in SUBSET (Ids \X Clients)
    /\ \A id \in Ids, c \in Clients : <<id, c>> \in Made <=> running[id][c] # None
    /\ RunningIn(running) = IdsOf(Made)
BY DEF Made, InstancesIn, RunningIn, IdsOf

LEMMA MadeNext ==
    /\ Made' \in SUBSET (Ids \X Clients)
    /\ \A id \in Ids, c \in Clients : <<id, c>> \in Made' <=> running'[id][c] # None
    /\ Made' = InstancesIn(running')
BY DEF Made, InstancesIn

LEMMA SameMade ==
    ASSUME \A id \in Ids, c \in Clients : running'[id][c] # None <=> running[id][c] # None
    PROVE  Made' = Made
BY DEF Made, InstancesIn

----------------------------------------------------------------------------
(* A step of one task *)

LEMMA OthersStay ==
    ASSUME TypeInv, NEW w \in Workers, NEW u, tasks' = [tasks EXCEPT ![w] = u]
    PROVE  /\ tasks'[w] = u
           /\ \A v \in Workers : v # w => tasks'[v] = tasks[v] /\ StepsOf(v)' = StepsOf(v)
                                          /\ (Busy(v)' <=> Busy(v))
           /\ StepsOf(w)' = ToSet(u.steps) /\ (Busy(w)' <=> u.steps # <<>>)
           /\ Main \in Workers /\ Ids \subseteq Workers
<1>1. tasks \in [Workers -> Tasks]
  BY TypesOfInv
<1>2. tasks'[w] = u /\ \A v \in Workers : v # w => tasks'[v] = tasks[v]
  BY <1>1
<1>. QED  BY <1>2 DEF StepsOf, Busy, Workers

(* What a plugin has is kept, if the task puts what it would have put.     *)
LEMMA HasKept ==
    ASSUME TypeInv, NEW w \in Workers, NEW u, tasks' = [tasks EXCEPT ![w] = u],
           Made \cup PutsOf(StepsOf(w)) \subseteq Made' \cup PutsOf(ToSet(u.steps)),
           IdsOf(Made' \cup PutsOf(ToSet(u.steps))) \subseteq IdsOf(Made \cup PutsOf(StepsOf(w)))
    PROVE  /\ Has \subseteq Has' /\ IdsOf(Has') = IdsOf(Has)
           /\ Made' \cup PutsOf(ToSet(u.steps)) \subseteq Has'
<1>1. /\ StepsOf(w)' = ToSet(u.steps)
      /\ \A v \in Workers : v # w => StepsOf(v)' = StepsOf(v)
  BY OthersStay
<1>. DEFINE P == PutsOf(StepsOf(w))
            Q == PutsOf(ToSet(u.steps))
            Z == {k \in Ids \X Clients : \E v \in Workers \ {w} : k \in PutsOf(StepsOf(v))}
<1>2. P \subseteq Ids \X Clients /\ Q \subseteq Ids \X Clients
  BY DEF PutsOf
<1>3. Has = Made \cup P \cup Z
  BY <1>2 DEF Has
<1>4. \A v \in Workers \ {w} : PutsOf(StepsOf(v)') = PutsOf(StepsOf(v))
  BY <1>1
<1>5. Has' = Made' \cup Q \cup Z
  <2>1. Has' = Made' \cup {k \in Ids \X Clients : \E v \in Workers : k \in PutsOf(StepsOf(v)')}
    BY DEF Has, PutsOf
  <2>2. {k \in Ids \X Clients : \E v \in Workers : k \in PutsOf(StepsOf(v)')}
          = PutsOf(StepsOf(w)') \cup Z
    <3>1. PutsOf(StepsOf(w)') \subseteq Ids \X Clients
      BY DEF PutsOf
    <3>. QED  BY <3>1, <1>4
  <2>. QED  BY <2>1, <2>2, <1>1
<1>6. Made \cup P \subseteq Made' \cup Q /\ IdsOf(Made' \cup Q) \subseteq IdsOf(Made \cup P)
  OBVIOUS
<1>7. Made' \cup Q \subseteq Has'
  BY <1>5
<1>. HIDE DEF P, Q, Z
<1>8. Has \subseteq Has'
  BY <1>3, <1>5, <1>6
<1>9. IdsOf(Has') = IdsOf(Has)
  <2>. DEFINE A == Made \cup P
              B == Made' \cup Q
  <2>1. A \subseteq B /\ IdsOf(B) \subseteq IdsOf(A)
    BY <1>6
  <2>. HIDE DEF A, B
  <2>2. IdsOf(B \cup Z) = IdsOf(A \cup Z)
    BY <2>1 DEF IdsOf
  <2>. QED  BY <1>3, <1>5, <2>2 DEF A, B
<1>. QED  BY <1>7, <1>8, <1>9 DEF Q

LEMMA ClonesKept ==
    ASSUME TypeInv, NEW w \in Workers, NEW u, tasks' = [tasks EXCEPT ![w] = u]
    PROVE  /\ \A id \in Cloning : id \in Cloning' \/ id \in ClonesOf(StepsOf(w)) \ ClonesOf(ToSet(u.steps))
           /\ w # Main => Listed' = Connected' \cup PushesOf(StepsOf(Main))
           /\ w = Main => Listed' = Connected' \cup PushesOf(ToSet(u.steps))
<1>1. /\ StepsOf(w)' = ToSet(u.steps) /\ Main \in Workers
      /\ \A v \in Workers : v # w => StepsOf(v)' = StepsOf(v)
  BY OthersStay
<1>2. Cloning' = {id \in Ids : \E v \in Workers : id \in ClonesOf(StepsOf(v)')}
  BY DEF Cloning, ClonesOf
<1>3. Listed' = Connected' \cup PushesOf(StepsOf(Main)')
  BY DEF Listed, PushesOf
<1>4. ASSUME NEW id \in Cloning
      PROVE  id \in Cloning' \/ id \in ClonesOf(StepsOf(w)) \ ClonesOf(ToSet(u.steps))
  <2>1. PICK v \in Workers : id \in ClonesOf(StepsOf(v)) /\ id \in Ids
    BY DEF Cloning
  <2>2. CASE v # w
    BY <2>1, <2>2, <1>1, <1>2
  <2>3. CASE v = w
    BY <2>1, <2>3, <1>1, <1>2
  <2>. QED  BY <2>2, <2>3
<1>. QED  BY <1>1, <1>3, <1>4

LEMMA OrderFacts ==
    ASSUME OrderInv
    PROVE  /\ TypeInv /\ AllFine /\ ModuleStays /\ AllTidy /\ Apart /\ SomeoneIsThere
           /\ AllHave /\ OpenHave /\ bridge.up /\ screen.failed = {}
BY DEF OrderInv, NothingFails

LEMMA FineNothing ==
    ASSUME NEW P, NEW C
    PROVE  Fine(<<>>, P, C) /\ Ends(<<>>)
BY DEF Fine, Ends

LEMMA FineKept ==
    ASSUME OrderInv, NEW w \in Workers, NEW u, tasks' = [tasks EXCEPT ![w] = u],
           Made \subseteq Made' \/ \A v \in Workers \ {w} : ~Busy(v),
           Connected' \subseteq Connected,
           Fine(u.steps, Made', Connected'), Ends(u.steps)
    PROVE  AllFine'
<1>1. /\ tasks'[w] = u
      /\ \A v \in Workers : v # w => tasks'[v] = tasks[v]
  BY OrderFacts, OthersStay
<1>2. ASSUME NEW v \in Workers
      PROVE  Fine(tasks'[v].steps, Made', Connected') /\ Ends(tasks'[v].steps)
  <2>1. CASE v = w
    BY <2>1, <1>1
  <2>2. CASE v # w /\ Made \subseteq Made'
    <3>. DEFINE q == tasks[v].steps
    <3>1. Fine(q, Made, Connected) /\ Ends(q) /\ tasks'[v].steps = q
      BY <2>2, <1>1, OrderFacts DEF AllFine
    <3>. HIDE DEF q
    <3>2. Fine(q, Made', Connected')
      BY <3>1, <2>2, FineMore
    <3>. QED  BY <3>1, <3>2
  <2>3. CASE v # w /\ ~Busy(v)
    <3>1. tasks'[v].steps = <<>>
      BY <2>3, <1>1 DEF Busy
    <3>. QED  BY <3>1, FineNothing
  <2>. QED  BY <2>1, <2>2, <2>3
<1>. QED  BY <1>2 DEF AllFine, Fine, Needs, Before, Ends, PutsOf

LEMMA HaveKept ==
    ASSUME OrderInv, Has \subseteq Has', IdsOf(Has') = IdsOf(Has), Listed' \subseteq Listed,
           \A id \in Cloning : id \in Cloning' \/ \A c \in Listed' : <<id, c>> \in Has',
           screen'.open = screen.open, screen'.given = screen.given
    PROVE  AllHave' /\ OpenHave'
<1>1. ASSUME NEW id \in IdsOf(Has')
      PROVE  id \in Cloning' \/ \A c \in Listed' : <<id, c>> \in Has'
  <2>1. id \in Cloning \/ \A c \in Listed : <<id, c>> \in Has
    BY OrderFacts DEF AllHave
  <2>. QED  BY <2>1
<1>2. IdsOf(Has)' = IdsOf(Has')
  BY DEF IdsOf
<1>3. AllHave'
  BY <1>1, <1>2 DEF AllHave
<1>4. OpenHave'
  BY <1>2, OrderFacts DEF OpenHave
<1>. QED  BY <1>3, <1>4

LEMMA TaskMoves ==
    ASSUME OrderInv, TypeInv', NEW w \in Workers, Busy(w), NEW u,
           tasks' = [tasks EXCEPT ![w] = u],
           u.ids = tasks[w].ids, u.for = "start" <=> tasks[w].for = "start",
           w # Main => \A s \in ToSet(u.steps) : s.id \in u.ids \cup {None},
           w # Main /\ u.for = "start" =>
               /\ \A s \in ToSet(u.steps) : s.do \notin {"again", "memory"}
               /\ w \in IdsOf(Made') \cup ClonesOf(ToSet(u.steps)),
           Made \subseteq Made' \/ (w # Main /\ tasks[w].for # "start"),
           Fine(u.steps, Made', Connected), Ends(u.steps),
           Made \cup PutsOf(StepsOf(w)) \subseteq Made' \cup PutsOf(ToSet(u.steps)),
           IdsOf(Made' \cup PutsOf(ToSet(u.steps))) \subseteq IdsOf(Made \cup PutsOf(StepsOf(w))),
           PushesOf(ToSet(u.steps)) \subseteq PushesOf(StepsOf(w)),
           \A id \in ClonesOf(StepsOf(w)) \ ClonesOf(ToSet(u.steps)) :
               \A c \in Listed : <<id, c>> \in Made' \cup PutsOf(ToSet(u.steps)),
           ~NoModule',
           bridge'.connected = bridge.connected, bridge'.loading = bridge.loading,
           bridge'.pending = bridge.pending, bridge'.up = bridge.up,
           screen'.open = screen.open, screen'.given = screen.given, screen'.failed = {},
           toPlugins' = toPlugins
    PROVE  OrderInv'
<1>0. TypeInv /\ AllTidy /\ Apart /\ SomeoneIsThere /\ bridge.up
  BY OrderFacts
<1>1. /\ tasks'[w] = u /\ StepsOf(w)' = ToSet(u.steps) /\ (Busy(w)' <=> u.steps # <<>>)
      /\ \A v \in Workers : v # w => tasks'[v] = tasks[v] /\ StepsOf(v)' = StepsOf(v)
                                     /\ (Busy(v)' <=> Busy(v))
      /\ Main \in Workers /\ Ids \subseteq Workers
  BY <1>0, OthersStay
<1>2. w # Main => w \in Ids /\ Tidy(w)
  BY <1>0 DEF Workers, AllTidy
<1>3. Made \subseteq Made' \/ \A v \in Workers \ {w} : ~Busy(v)
  BY <1>2 DEF Tidy
<1>4. Connected' = Connected
  BY DEF Connected
<1>5. AllFine'
  BY <1>3, <1>4, FineKept
<1>6. Has \subseteq Has' /\ IdsOf(Has') = IdsOf(Has) /\ Made' \cup PutsOf(ToSet(u.steps)) \subseteq Has'
  BY <1>0, HasKept
<1>7. Listed' \subseteq Listed
  <2>1. CASE w # Main
    BY <2>1, <1>0, <1>4, ClonesKept DEF Listed
  <2>2. CASE w = Main
    BY <2>2, <1>0, <1>4, ClonesKept DEF Listed
  <2>. QED  BY <2>1, <2>2
<1>8. AllHave' /\ OpenHave'
  <2>1. \A id \in Cloning :
           id \in Cloning' \/ id \in ClonesOf(StepsOf(w)) \ ClonesOf(ToSet(u.steps))
    BY <1>0, ClonesKept
  <2>2. ASSUME NEW id \in Cloning
        PROVE  id \in Cloning' \/ \A c \in Listed' : <<id, c>> \in Has'
    BY <2>1, <1>6, <1>7
  <2>. QED  BY <2>2, <1>6, <1>7, HaveKept
<1>9. ModuleStays'
  BY DEF ModuleStays
<1>10. AllTidy'
  <2>1. ASSUME NEW v \in Ids, Busy(v)'
        PROVE  Tidy(v)'
    <3>1. CASE v = w
      <4>1. v # Main /\ Tidy(v)
        BY <3>1, <1>2, NoneIsNone
      <4>2. \A x \in Workers \ {v} : Busy(x)' <=> Busy(x)
        BY <3>1, <1>1
      <4>3. IdsOf(Made)' = IdsOf(Made') /\ ClonesOf(StepsOf(v))' = ClonesOf(ToSet(u.steps))
        BY <3>1, <1>1 DEF IdsOf, ClonesOf
      <4>4. tasks'[v] = u /\ StepsOf(v)' = ToSet(u.steps)
        BY <3>1, <1>1
      <4>. QED  BY <3>1, <4>1, <4>2, <4>3, <4>4 DEF Tidy
    <3>2. CASE v # w
      <4>1. Busy(v) /\ v \in Workers /\ tasks'[v] = tasks[v] /\ StepsOf(v)' = StepsOf(v)
        BY <3>2, <2>1, <1>1
      <4>2. Tidy(v) /\ tasks[v].for = "start"
        <5>1. Tidy(v)
          BY <4>1, <1>0 DEF AllTidy
        <5>. QED  BY <5>1, <3>2 DEF Tidy
      <4>3. Made \subseteq Made'
        BY <4>1, <3>2, <1>3
      <4>4. IdsOf(Made) \subseteq IdsOf(Made)' /\ ClonesOf(StepsOf(v))' = ClonesOf(StepsOf(v))
        BY <4>1, <4>3 DEF IdsOf, ClonesOf
      <4>. QED  BY <4>1, <4>2, <4>4 DEF Tidy
    <3>. QED  BY <3>1, <3>2
  <2>. QED  BY <2>1 DEF AllTidy
<1>11. Apart'
  <2>1. \A v \in Ids : Busy(v)' => Busy(v) /\ tasks'[v].ids = tasks[v].ids
    BY <1>1
  <2>. QED  BY <2>1, <1>0 DEF Apart
<1>12. SomeoneIsThere'
  <2>1. Reloading' => Reloading
    <3>1. ASSUME NEW v \in Ids, Busy(v)', tasks'[v].for # "start"
          PROVE  Busy(v) /\ tasks[v].for # "start"
      BY <3>1, <1>1
    <3>. QED  BY <3>1 DEF Reloading
  <2>. QED  BY <2>1, <1>0 DEF SomeoneIsThere
<1>13. NothingFails'
  BY <1>0 DEF NothingFails
<1>. QED  BY <1>5, <1>8, <1>9, <1>10, <1>11, <1>12, <1>13 DEF OrderInv

(* A task goes on to its next step.                                        *)
LEMMA TailMoves ==
    ASSUME OrderInv, TypeInv', NEW w \in Workers, Busy(w),
           Current(w).do \in Making \cup {"put", "unlock", "loaded"}, NEW u,
           tasks' = [tasks EXCEPT ![w] = u], u.steps = Tail(tasks[w].steps),
           u.ids = tasks[w].ids, u.for = tasks[w].for,
           Made' = Made \cup PutsOf({Current(w)}), ~NoModule',
           bridge'.connected = bridge.connected, bridge'.loading = bridge.loading,
           bridge'.pending = bridge.pending, bridge'.up = bridge.up,
           screen'.open = screen.open, screen'.given = screen.given, screen'.failed = {},
           toPlugins' = toPlugins
    PROVE  OrderInv'
<1>. DEFINE q == tasks[w].steps
            s == Current(w)
            T == ToSet(Tail(q))
<1>1. q \in Seq(Steps) /\ q # <<>> /\ s = q[1]
  BY OrderFacts, CurrentFacts, TaskFields
<1>2. StepsOf(w) = {s} \cup T
  BY <1>1, SetOfSeq DEF StepsOf
<1>3. s.do \notin {"clone", "push"}
  BY DEF Making
<1>4. /\ PutsOf(StepsOf(w)) = PutsOf({s}) \cup PutsOf(T)
      /\ ClonesOf(StepsOf(w)) = ClonesOf(T)
      /\ PushesOf(StepsOf(w)) = PushesOf(T)
  <2>1. ClonesOf({s}) = {} /\ PushesOf({s}) = {}
    BY <1>3, NoPuts
  <2>. HIDE DEF s, T
  <2>2. /\ PutsOf({s} \cup T) = PutsOf({s}) \cup PutsOf(T)
        /\ ClonesOf({s} \cup T) = ClonesOf({s}) \cup ClonesOf(T)
        /\ PushesOf({s} \cup T) = PushesOf({s}) \cup PushesOf(T)
    BY ONLY PutsTogether
  <2>. QED  BY <1>2, <2>1, <2>2
<1>5. Fine(q, Made, Connected) /\ Ends(q)
  BY OrderFacts DEF AllFine
<1>6. Fine(Tail(q), Made', Connected) /\ Ends(Tail(q))
  <2>1. Fine(Tail(q), Made \cup PutsOf({q[1]}), Connected) /\ Ends(Tail(q))
    <3>. HIDE DEF q
    <3>. QED  BY <1>1, <1>5, FineTail, EndsTail
  <2>. QED  BY <2>1, <1>1
<1>7. u.steps = Tail(q) /\ ToSet(u.steps) = T
  OBVIOUS
<1>8. ASSUME w # Main
      PROVE  /\ \A x \in T : x.id \in u.ids \cup {None}
             /\ u.for = "start" => /\ \A x \in T : x.do \notin {"again", "memory"}
                                   /\ w \in IdsOf(Made') \cup ClonesOf(T)
  <2>1. Tidy(w)
    BY <1>8, OrderFacts DEF AllTidy, Workers
  <2>2. IdsOf(Made) \subseteq IdsOf(Made')
    BY DEF IdsOf
  <2>. QED  BY <2>1, <2>2, <1>2, <1>4 DEF Tidy
<1>9. /\ Made \cup PutsOf(StepsOf(w)) = Made' \cup PutsOf(ToSet(u.steps))
      /\ Made \subseteq Made'
  BY <1>4, <1>7
<1>10. /\ IdsOf(Made' \cup PutsOf(ToSet(u.steps))) \subseteq IdsOf(Made \cup PutsOf(StepsOf(w)))
       /\ Made \cup PutsOf(StepsOf(w)) \subseteq Made' \cup PutsOf(ToSet(u.steps))
       /\ PushesOf(ToSet(u.steps)) \subseteq PushesOf(StepsOf(w))
       /\ ClonesOf(StepsOf(w)) \ ClonesOf(ToSet(u.steps)) = {}
  BY <1>4, <1>7, <1>9
<1>11. /\ Fine(u.steps, Made', Connected) /\ Ends(u.steps)
       /\ w # Main => \A x \in ToSet(u.steps) : x.id \in u.ids \cup {None}
       /\ w # Main /\ u.for = "start" =>
               /\ \A x \in ToSet(u.steps) : x.do \notin {"again", "memory"}
               /\ w \in IdsOf(Made') \cup ClonesOf(ToSet(u.steps))
       /\ u.for = "start" <=> tasks[w].for = "start"
  BY <1>6, <1>7, <1>8
<1>. HIDE DEF q, s, T
<1>. QED  BY <1>9, <1>10, <1>11, TaskMoves

(* Who has a module                                                        *)
LEMMA ModuleFacts ==
    ASSUME OrderInv, NEW w \in Workers, Busy(w), Current(w).do \notin {"load", "push"}
    PROVE  /\ ~NoModule
           /\ Current(w).do # "put" =>
                tasks[w].module = None /\ (cache # None \/ \E v \in Workers \ {w} : tasks[v].module # None)
<1>1. ~NoModule
  BY OrderFacts DEF ModuleStays
<1>2. TaskOK(w, tasks[w]) /\ Current(w) = tasks[w].steps[1]
  BY OrderFacts, CurrentFacts
<1>3. Current(w).do # "put" => tasks[w].module = None
  BY <1>2 DEF TaskOK
<1>. QED  BY <1>1, <1>3 DEF NoModule

LEMMA ModuleElsewhere ==
    ASSUME TypeInv, NEW w \in Workers, NEW u, tasks' = [tasks EXCEPT ![w] = u],
           \/ cache' # None
           \/ u.module # None
           \/ \E v \in Workers \ {w} : tasks[v].module # None
    PROVE  ~NoModule'
<1>1. tasks'[w] = u /\ \A v \in Workers : v # w => tasks'[v] = tasks[v]
  BY OthersStay
<1>. QED  BY <1>1 DEF NoModule

LEMMA LoadModuleInOrder ==
    ASSUME OrderInv, NEW w \in Workers, LoadModule(w)
    PROVE  OrderInv'
<1>. DEFINE m == IF cache # None THEN cache ELSE file
            u == [Next1(tasks[w]) EXCEPT !.module = m]
<1>0. TypeInv /\ TypeInv'
  BY OrderFacts, LoadModuleKeeps
<1>1. Busy(w) /\ Current(w).do = "load" /\ Goes(w, [Rest(w) EXCEPT !.module = m])
      /\ cache' = None /\ UNCHANGED <<bridge, running, file, toPlugins, screen, requests>>
  BY DEF LoadModule, Does
<1>2. tasks[w] \in Tasks /\ tasks[w].steps # <<>> /\ Rest(w) = Next1(tasks[w])
  BY <1>0, <1>1, CurrentFacts
<1>3. m \in Versions /\ m # None
  BY <1>0, TypesOfInv, NoneIsNone DEF Maybe, Versions
<1>4. /\ u.steps = Tail(tasks[w].steps) /\ u.module = m
      /\ u.ids = tasks[w].ids /\ u.for = tasks[w].for
  <2>1. None \in Maybe(Sizes)
    BY DEF Maybe
  <2>. HIDE DEF m
  <2>. QED  BY <1>2, <1>3, <2>1, MadeFields
<1>5. tasks' = [tasks EXCEPT ![w] = u]
  BY <1>1, <1>2 DEF Goes
<1>. HIDE DEF u, m
<1>6. Made' = Made \cup PutsOf({Current(w)})
  <2>1. Made' = Made
    BY <1>1, SameMade
  <2>2. PutsOf({Current(w)}) = {}
    BY <1>1, NoPuts
  <2>. QED  BY <2>1, <2>2
<1>7. ~NoModule'
  BY <1>0, <1>3, <1>4, <1>5, ModuleElsewhere
<1>8. screen'.failed = {}
  BY <1>1, OrderFacts
<1>9. Current(w).do \in Making \cup {"put", "unlock", "loaded"}
  BY <1>1 DEF Making
<1>. QED  BY <1>0, <1>1, <1>4, <1>5, <1>6, <1>7, <1>8, <1>9, TailMoves

(* A task that fails has its "done" still to do.                            *)
LEMMA FailsGivesUp ==
    ASSUME OrderInv, NEW w \in Ids, Busy(w), Current(w).do # "done", Fails(w)
    PROVE  GivenUp'
<1>. DEFINE t == tasks[w]
            After == {i \in DOMAIN t.steps : i > 1 /\ t.steps[i].do \in {"memory", "done"}}
            n == IF t.for = "others" THEN Min(After) ELSE Len(t.steps)
            u == [t EXCEPT !.steps = SubSeq(@, n, Len(@)), !.module = None]
<1>0. TypeInv /\ w \in Workers /\ w # Main
  BY OrderFacts, NoneIsNone DEF Workers
<1>1. /\ t \in Tasks /\ Line(w, t.steps) /\ t.steps # <<>> /\ t.steps[1].do # "done"
      /\ w \in t.ids
  BY <1>0, CurrentFacts, OrderFacts DEF AllTidy, Tidy
<1>2. t.steps \in Seq(Steps) /\ Len(t.steps) \in Nat /\ Len(t.steps) > 0
      /\ DOMAIN t.steps = 1 .. Len(t.steps)
  BY <1>1, TaskFields, NotEmpty
<1>3. t.steps[Len(t.steps)].do = "done" /\ Len(t.steps) > 1
  BY <1>0, <1>1, <1>2 DEF Line
<1>4. /\ tasks' = [tasks EXCEPT ![w] = u]
      /\ screen' = [screen EXCEPT !.failed =
                       @ \cup (IF t.for = "others" THEN {Current(w).id} ELSE t.ids)]
  BY DEF Fails, Goes
<1>. HIDE DEF t
<1>5. n \in 1 .. Len(t.steps)
  <2>1. CASE t.for = "others"
    <3>1. After \in SUBSET Nat /\ Len(t.steps) \in After
      BY <1>2, <1>3
    <3>2. PICK i \in After : \A j \in After : i <= j
      <4>. HIDE DEF After
      <4>. QED  BY <3>1, LeastExists
    <3>3. Min(After) \in After
      <4>. HIDE DEF After
      <4>. QED  BY <3>1, <3>2 DEF Min
    <3>. QED  BY <2>1, <3>3, <1>2
  <2>2. CASE t.for # "others"
    BY <2>2, <1>2, <1>3
  <2>. QED  BY <2>1, <2>2
<1>6. screen'.failed # {}
  <2>1. screen \in Screens
    BY <1>0, TypesOfInv
  <2>. QED  BY <1>1, <1>4, <2>1 DEF Screens
<1>7. tasks'[w].steps # <<>>
  <2>. HIDE DEF n
  <2>1. Len(SubSeq(t.steps, n, Len(t.steps))) = Len(t.steps) - n + 1
    BY <1>2, <1>5
  <2>2. SubSeq(t.steps, n, Len(t.steps)) # <<>>
    <3>1. Len(<<>>) = 0
      OBVIOUS
    <3>2. Len(SubSeq(t.steps, n, Len(t.steps))) # 0
      BY <2>1, <1>2, <1>5
    <3>. QED  BY <3>1, <3>2
  <2>3. tasks'[w] = u /\ u.steps = SubSeq(t.steps, n, Len(t.steps))
    BY <1>0, <1>1, <1>4, TypesOfInv DEF Tasks
  <2>. QED  BY <2>2, <2>3
<1>. QED  BY <1>0, <1>6, <1>7 DEF GivenUp, NothingFails, Busy

LEMMA FailGivesUp ==
    ASSUME OrderInv, NEW w \in Workers, Busy(w), Current(w).do # "done", Fail(w)
    PROVE  GivenUp'
<1>1. CASE w = Main
  <2>1. bridge' = [bridge EXCEPT !.up = FALSE] /\ tasks' = tasks
    BY <1>1 DEF Fail, FailsInMain
  <2>2. bridge \in Bridges
    BY OrderFacts, TypesOfInv
  <2>3. ~bridge'.up
    BY <2>1, <2>2 DEF Bridges
  <2>. QED  BY <2>1, <2>3 DEF GivenUp, NothingFails, Busy
<1>2. CASE w # Main
  BY <1>2, FailsGivesUp DEF Fail, Workers
<1>. QED  BY <1>1, <1>2

LEMMA CompileModuleInOrder ==
    ASSUME OrderInv, NEW w \in Workers, CompileModule(w)
    PROVE  OrderInv' \/ (GivenUp' /\ Mishap(w))
<1>. SUFFICES ASSUME ~(GivenUp' /\ Mishap(w))
              PROVE  OrderInv'
  OBVIOUS
<1>. DEFINE u == [Next1(tasks[w]) EXCEPT !.module = file]
<1>0. TypeInv /\ TypeInv'
  BY OrderFacts, CompileModuleKeeps
<1>1. Busy(w) /\ Current(w).do = "compile" /\ Goes(w, [Rest(w) EXCEPT !.module = file])
      /\ UNCHANGED <<bridge, running, cache, file, toPlugins, screen, requests>>
  <2>1. Busy(w) /\ Current(w).do = "compile"
    BY DEF CompileModule, Does
  <2>2. w \in Ids
    BY <1>0, <2>1, CurrentFacts DEF StepOK, Workers
  <2>3. ~(Happens("broken build") /\ Fails(w))
    <3>1. Fails(w) => GivenUp'
      BY <2>1, <2>2, FailsGivesUp
    <3>. QED  BY <3>1 DEF Mishap
  <2>. QED  BY <2>1, <2>3 DEF CompileModule
<1>2. tasks[w] \in Tasks /\ tasks[w].steps # <<>> /\ Rest(w) = Next1(tasks[w])
  BY <1>0, <1>1, CurrentFacts
<1>3. file \in Versions /\ file # None
  BY <1>0, TypesOfInv, NoneIsNone DEF Versions
<1>4. /\ u.steps = Tail(tasks[w].steps) /\ u.module = file
      /\ u.ids = tasks[w].ids /\ u.for = tasks[w].for
  <2>1. None \in Maybe(Sizes)
    BY DEF Maybe
  <2>. QED  BY <1>2, <1>3, <2>1, MadeFields
<1>5. tasks' = [tasks EXCEPT ![w] = u]
  BY <1>1, <1>2 DEF Goes
<1>. HIDE DEF u
<1>6. Made' = Made \cup PutsOf({Current(w)})
  <2>1. Made' = Made
    BY <1>1, SameMade
  <2>2. PutsOf({Current(w)}) = {}
    BY <1>1, NoPuts
  <2>. QED  BY <2>1, <2>2
<1>7. ~NoModule'
  BY <1>0, <1>3, <1>4, <1>5, ModuleElsewhere
<1>8. screen'.failed = {}
  BY <1>1, OrderFacts
<1>9. Current(w).do \in Making \cup {"put", "unlock", "loaded"}
  BY <1>1 DEF Making
<1>. QED  BY <1>0, <1>1, <1>4, <1>5, <1>6, <1>7, <1>8, <1>9, TailMoves

(* A module is found in the cache, unless somebody else has taken it.      *)
LEMMA FoundInCache ==
    ASSUME OrderInv, NEW w \in Workers, Busy(w), Current(w).do \in {"take", "copy"},
           NEW task, LoadModuleFromMemory(w, task), Take(w) \/ Copy(w),
           ~(GivenUp' /\ Mishap(w))
    PROVE  cache # None
<1>. SUFFICES ASSUME cache = None
              PROVE  FALSE
  OBVIOUS
<1>1. \E v \in Workers \ {w} : tasks[v].module # None
  BY ModuleFacts
<1>2. Mishap(w)
  BY <1>1 DEF Mishap
<1>3. GivenUp'
  BY FailGivesUp DEF LoadModuleFromMemory
<1>. QED  BY <1>2, <1>3

LEMMA TakesInOrder ==
    ASSUME OrderInv, TypeInv', NEW w \in Workers, Busy(w), Current(w).do \in {"take", "copy"},
           cache # None, NEW task, task.steps = Tail(tasks[w].steps), task \in Tasks,
           task.ids = tasks[w].ids, task.for = tasks[w].for, LoadModuleFromMemory(w, task)
    PROVE  OrderInv'
<1>. DEFINE u == [task EXCEPT !.module = cache]
<1>0. TypeInv
  BY OrderFacts
<1>1. /\ tasks' = [tasks EXCEPT ![w] = u] /\ cache' = None
      /\ UNCHANGED <<bridge, running, file, toPlugins, screen, requests>>
  BY DEF LoadModuleFromMemory, Goes
<1>2. /\ u.steps = Tail(tasks[w].steps) /\ u.module = cache
      /\ u.ids = tasks[w].ids /\ u.for = tasks[w].for
  BY DEF Tasks
<1>. HIDE DEF u
<1>6. Made' = Made \cup PutsOf({Current(w)})
  <2>1. Made' = Made
    BY <1>1, SameMade
  <2>2. PutsOf({Current(w)}) = {}
    BY NoPuts
  <2>. QED  BY <2>1, <2>2
<1>7. ~NoModule'
  BY <1>0, <1>1, <1>2, ModuleElsewhere
<1>8. screen'.failed = {}
  BY <1>1, OrderFacts
<1>9. Current(w).do \in Making \cup {"put", "unlock", "loaded"}
  BY DEF Making
<1>. QED  BY <1>0, <1>1, <1>2, <1>6, <1>7, <1>8, <1>9, TailMoves

LEMMA TakeInOrder ==
    ASSUME OrderInv, NEW w \in Workers, Take(w)
    PROVE  OrderInv' \/ (GivenUp' /\ Mishap(w))
<1>. SUFFICES ASSUME ~(GivenUp' /\ Mishap(w))
              PROVE  OrderInv'
  OBVIOUS
<1>0. TypeInv /\ TypeInv'
  BY OrderFacts, TakeKeeps
<1>1. Busy(w) /\ Current(w).do = "take" /\ LoadModuleFromMemory(w, Rest(w))
  BY DEF Take, Does
<1>2. /\ Rest(w) \in Tasks /\ Rest(w).steps = Tail(tasks[w].steps)
      /\ Rest(w).ids = tasks[w].ids /\ Rest(w).for = tasks[w].for
  BY <1>0, <1>1, CurrentFacts, Next1Fields
<1>3. cache # None
  BY <1>1, FoundInCache
<1>. QED  BY <1>0, <1>1, <1>2, <1>3, TakesInOrder

LEMMA CopyInOrder ==
    ASSUME OrderInv, NEW w \in Workers, Copy(w)
    PROVE  OrderInv' \/ (GivenUp' /\ Mishap(w))
<1>. SUFFICES ASSUME ~(GivenUp' /\ Mishap(w))
              PROVE  OrderInv'
  OBVIOUS
<1>. DEFINE s == Current(w)
            instances == {running[s.id][c] : c \in Clients} \ {None}
<1>0. TypeInv /\ TypeInv'
  BY OrderFacts, CopyKeeps
<1>1. Busy(w) /\ s.do = "copy"
  BY DEF Copy, Does
<1>2. /\ tasks[w] \in Tasks /\ tasks[w].steps # <<>> /\ Rest(w) = Next1(tasks[w])
      /\ s = tasks[w].steps[1] /\ StepOK(w, s)
  BY <1>0, <1>1, CurrentFacts
<1>3. s.id \in Ids
  BY <1>1, <1>2, StepIds DEF OfPlugin, Making
(* There is an instance to copy the size from.                             *)
<1>4. instances # {}
  <2>1. 1 \in 1 .. Len(tasks[w].steps) /\ Fine(tasks[w].steps, Made, Connected)
    BY <1>2, TaskFields, NotEmpty, OrderFacts DEF AllFine
  <2>2. Needs(s, Made \cup Before(tasks[w].steps, 1), Connected)
    BY <2>1, <1>2 DEF Fine
  <2>3. Before(tasks[w].steps, 1) = {}
    BY DEF Before, PutsOf
  <2>4. PICK c \in Clients : <<s.id, c>> \in Made
    BY <2>2, <2>3, <1>1 DEF Needs
  <2>5. running[s.id][c] # None
    BY <2>4, <1>3, MadeFacts
  <2>. QED  BY <2>5
<1>5. PICK i \in instances : \E size \in SizesOf(i) :
         LoadModuleFromMemory(w, [Rest(w) EXCEPT !.size = size])
  BY <1>4 DEF Copy
<1>6. PICK size \in SizesOf(i) : LoadModuleFromMemory(w, [Rest(w) EXCEPT !.size = size])
  BY <1>5
<1>7. i \in Instances
  BY <1>0, <1>3, <1>5, TypesOfInv DEF Maybe
<1>8. size \in Maybe(Sizes)
  BY <1>7, SizesOfType DEF Maybe
<1>. DEFINE task == [Rest(w) EXCEPT !.size = size]
<1>9. /\ task \in Tasks /\ task.steps = Tail(tasks[w].steps)
      /\ task.ids = tasks[w].ids /\ task.for = tasks[w].for
  <2>1. /\ Rest(w) \in Tasks /\ Rest(w).steps = Tail(tasks[w].steps)
        /\ Rest(w).ids = tasks[w].ids /\ Rest(w).for = tasks[w].for
    BY <1>2, Next1Fields
  <2>. QED  BY <2>1, <1>8 DEF Tasks
<1>. HIDE DEF task
<1>10. LoadModuleFromMemory(w, task)
  BY <1>6 DEF task
<1>11. s.do \in {"take", "copy"}
  BY <1>1
<1>12. cache # None
  BY <1>1, <1>10, <1>11, FoundInCache
<1>. QED  BY <1>0, <1>1, <1>9, <1>10, <1>11, <1>12, TakesInOrder

LEMMA PutInOrder ==
    ASSUME OrderInv, NEW w \in Workers, Put(w)
    PROVE  OrderInv'
<1>. DEFINE s == Current(w)
            u == [Next1(tasks[w]) EXCEPT !.module = None]
            i == NewInstance(tasks[w].module, tasks[w].size)
<1>0. TypeInv /\ TypeInv'
  BY OrderFacts, PutKeeps
<1>1. Busy(w) /\ s.do = "put"
  BY DEF Put, Does
<1>2. /\ TaskOK(w, tasks[w]) /\ tasks[w] \in Tasks /\ tasks[w].steps # <<>>
      /\ tasks[w].steps[1].do = "put" /\ Rest(w) = Next1(tasks[w])
      /\ StepOK(w, s)
  BY <1>0, <1>1, CurrentFacts
<1>3. s.id \in Ids /\ s.client \in Clients
  BY <1>1, <1>2, StepIds DEF OfPlugin, OfClient
<1>4. tasks[w].module \in Versions /\ tasks[w].module # None /\ tasks[w].size \in Sizes
  <2>1. tasks[w].module # None /\ tasks[w].size # None
    BY <1>2 DEF TaskOK
  <2>. QED  BY <1>2, <2>1, TaskFields DEF Maybe
<1>5. i # None
  BY <1>4, NewInstanceType, NoneIsNoInstance
<1>6. /\ running' = [running EXCEPT ![s.id][s.client] = i]
      /\ cache' = tasks[w].module
      /\ UNCHANGED <<bridge, file, toPlugins, screen, requests>>
      /\ tasks' = [tasks EXCEPT ![w] = u]
  BY <1>2 DEF Put, Goes
<1>7. u.steps = Tail(tasks[w].steps) /\ u.ids = tasks[w].ids /\ u.for = tasks[w].for
  BY <1>2, TaskPuts
<1>. HIDE DEF u, i, s
<1>8. Made' = Made \cup PutsOf({s})
  <2>1. PutsOf({s}) = {<<s.id, s.client>>}
    BY <1>1, <1>3, PutOne
  <2>2. ASSUME NEW id \in Ids, NEW c \in Clients
        PROVE  running'[id][c] = IF id = s.id /\ c = s.client THEN i ELSE running[id][c]
    BY <1>0, <1>3, <1>6, TypesOfInv
  <2>3. ASSUME NEW id \in Ids, NEW c \in Clients
        PROVE  <<id, c>> \in Made' <=> <<id, c>> \in Made \cup {<<s.id, s.client>>}
    BY <2>2, <1>5, MadeFacts, MadeNext
  <2>4. Made \cup {<<s.id, s.client>>} \in SUBSET (Ids \X Clients) /\ Made' \in SUBSET (Ids \X Clients)
    BY <1>3, MadeFacts, MadeNext
  <2>5. Made' = Made \cup {<<s.id, s.client>>}
    BY <2>3, <2>4, SamePairs
  <2>. QED  BY <2>1, <2>5
<1>9. ~NoModule'
  BY <1>4, <1>6 DEF NoModule
<1>10. screen'.failed = {}
  BY <1>6, OrderFacts
<1>11. Current(w).do \in Making \cup {"put", "unlock", "loaded"} /\ Made' = Made \cup PutsOf({Current(w)})
  BY <1>1, <1>8 DEF s
<1>. QED  BY <1>0, <1>1, <1>6, <1>7, <1>9, <1>10, <1>11, TailMoves

LEMMA GoesOnInOrder ==
    ASSUME OrderInv, TypeInv', NEW w \in Workers, Busy(w), Current(w).do \in {"unlock", "loaded"},
           Goes(w, Rest(w)), UNCHANGED <<running, cache, toPlugins>>,
           bridge'.connected = bridge.connected, bridge'.loading = bridge.loading,
           bridge'.pending = bridge.pending, bridge'.up = bridge.up,
           screen'.open = screen.open, screen'.given = screen.given, screen'.failed = {}
    PROVE  OrderInv'
<1>. DEFINE u == Next1(tasks[w])
<1>0. TypeInv
  BY OrderFacts
<1>1. tasks[w] \in Tasks /\ tasks[w].steps # <<>> /\ Rest(w) = u
  BY <1>0, CurrentFacts
<1>2. u.steps = Tail(tasks[w].steps) /\ u.ids = tasks[w].ids /\ u.for = tasks[w].for
  BY <1>1, Next1Fields
<1>3. tasks' = [tasks EXCEPT ![w] = u]
  BY <1>1 DEF Goes
<1>. HIDE DEF u
<1>4. Made' = Made \cup PutsOf({Current(w)})
  <2>1. Made' = Made
    BY SameMade
  <2>2. PutsOf({Current(w)}) = {}
    BY NoPuts
  <2>. QED  BY <2>1, <2>2
<1>5. ~NoModule'
  BY <1>0, <1>3, ModuleFacts, ModuleElsewhere
<1>6. Current(w).do \in Making \cup {"put", "unlock", "loaded"}
  OBVIOUS
<1>. QED  BY <1>2, <1>3, <1>4, <1>5, <1>6, TailMoves

LEMMA UnlockInOrder ==
    ASSUME OrderInv, NEW w \in Workers, Unlock(w)
    PROVE  OrderInv'
<1>1. Busy(w) /\ Current(w).do = "unlock"
      /\ bridge' = [bridge EXCEPT !.locked = None] /\ Goes(w, Rest(w))
      /\ UNCHANGED <<running, cache, file, toPlugins, screen, requests>>
  BY DEF Unlock, Does
<1>2. TypeInv /\ TypeInv' /\ screen.failed = {} /\ bridge \in Bridges
  BY OrderFacts, UnlockKeeps, TypesOfInv
<1>3. /\ bridge'.connected = bridge.connected /\ bridge'.loading = bridge.loading
      /\ bridge'.pending = bridge.pending /\ bridge'.up = bridge.up
  BY <1>1, <1>2 DEF Bridges
<1>. QED  BY <1>1, <1>2, <1>3, GoesOnInOrder

LEMMA LoadedInOrder ==
    ASSUME OrderInv, NEW w \in Workers, Loaded(w)
    PROVE  OrderInv'
<1>1. Busy(w) /\ Current(w).do = "loaded"
      /\ screen' = [screen EXCEPT !.asked = TRUE, !.failed = @ \ {Current(w).id}]
      /\ Goes(w, Rest(w)) /\ UNCHANGED <<bridge, running, cache, file, toPlugins, requests>>
  BY DEF Loaded, Does
<1>2. TypeInv /\ TypeInv' /\ screen.failed = {} /\ screen \in Screens
  BY OrderFacts, LoadedKeeps, TypesOfInv
<1>3. screen'.open = screen.open /\ screen'.given = screen.given /\ screen'.failed = {}
  BY <1>1, <1>2 DEF Screens
<1>. QED  BY <1>1, <1>2, <1>3, GoesOnInOrder

(* What the first step of a task needs is there.                           *)
LEMMA FirstIsFine ==
    ASSUME OrderInv, NEW w \in Workers, Busy(w)
    PROVE  /\ Needs(Current(w), Made, Connected) /\ Current(w) \in StepsOf(w)
           /\ tasks[w].steps \in Seq(Steps) /\ tasks[w].steps # <<>>
           /\ StepsOf(w) = {Current(w)} \cup ToSet(Tail(tasks[w].steps))
           /\ Tail(tasks[w].steps) \in Seq(Steps)
           /\ Fine(Tail(tasks[w].steps), Made \cup PutsOf({Current(w)}), Connected)
           /\ Ends(Tail(tasks[w].steps))
<1>. DEFINE q == tasks[w].steps
<1>1. q \in Seq(Steps) /\ q # <<>> /\ Current(w) = q[1]
  BY OrderFacts, CurrentFacts, TaskFields
<1>2. Fine(q, Made, Connected) /\ Ends(q)
  BY OrderFacts DEF AllFine
<1>. HIDE DEF q
<1>3. 1 \in 1 .. Len(q)
  BY <1>1, NotEmpty
<1>4. Needs(q[1], Made \cup Before(q, 1), Connected)
  BY <1>2, <1>3 DEF Fine
<1>5. Before(q, 1) = {}
  BY DEF Before, PutsOf
<1>6. Needs(q[1], Made, Connected)
  BY <1>4, <1>5
<1>7. ToSet(q) = {q[1]} \cup ToSet(Tail(q))
  BY <1>1, SetOfSeq
<1>8. Fine(Tail(q), Made \cup PutsOf({q[1]}), Connected) /\ Ends(Tail(q))
      /\ Tail(q) \in Seq(Steps)
  BY <1>1, <1>2, FineTail, EndsTail, TailFacts
<1>. QED  BY <1>1, <1>6, <1>7, <1>8 DEF q, StepsOf

LEMMA CloneInOrder ==
    ASSUME Calm, OrderInv, NEW w \in Workers, Clone(w)
    PROVE  OrderInv'
<1>. DEFINE s == Current(w)
            others == Others(bridge.connected, s.client)
            a == CopyTo(s.id, others)
            z == <<Step("unlock", s.id, None)>>
            r == Tail(tasks[w].steps)
            q == a \o z \o r
            u == [Next1(tasks[w]) EXCEPT !.steps = q]
<1>0. TypeInv /\ TypeInv'
  BY OrderFacts, CloneKeeps
<1>1. Busy(w) /\ s.do = "clone" /\ ~Busy(Main)
      /\ bridge' = [bridge EXCEPT !.locked = w]
      /\ UNCHANGED <<running, cache, file, toPlugins, screen, requests>>
  BY DEF Clone, Does, Calm, Happens
<1>2. tasks[w] \in Tasks /\ tasks[w].steps # <<>> /\ Rest(w) = Next1(tasks[w]) /\ StepOK(w, s)
  BY <1>0, <1>1, CurrentFacts
<1>3. w \in Ids /\ w # Main /\ s.id \in Ids /\ s.client \in Clients
  <2>1. w # Main
    BY <1>1, <1>2 DEF StepOK
  <2>. QED  BY <1>1, <1>2, <2>1, StepIds DEF OfPlugin, OfClient, Workers
<1>4. others \in Seq(Clients) /\ ToSet(others) = Connected \ {s.client}
  BY <1>0, TypesOfInv, BridgeFields, OthersFacts DEF Connected
<1>5. /\ Needs(s, Made, Connected) /\ s \in StepsOf(w) /\ StepsOf(w) = {s} \cup ToSet(r)
      /\ r \in Seq(Steps) /\ Fine(r, Made \cup PutsOf({s}), Connected) /\ Ends(r)
  BY <1>1, FirstIsFine
<1>6. <<s.id, s.client>> \in Made
  BY <1>1, <1>5 DEF Needs
<1>7. /\ z \in Seq(Steps) /\ ToSet(z) = {Step("unlock", s.id, None)}
      /\ Step("unlock", s.id, None).do = "unlock" /\ Step("unlock", s.id, None).id = s.id
  <2>1. StepOK(w, Step("unlock", s.id, None))
    BY <1>3, StepsAlone
  <2>. QED  BY <2>1, SetOfOne, StepFields DEF StepOK
<1>8. /\ a \in Seq(Steps)
      /\ \A x \in ToSet(a) : x.do \in {"copy", "put"} /\ x.id = s.id
      /\ PutsOf(ToSet(a)) = {<<s.id, c>> : c \in Connected \ {s.client}}
  <2>. HIDE DEF others, s
  <2>. QED  BY <1>3, <1>4, CopyToSet
<1>9. tasks' = [tasks EXCEPT ![w] = u]
  <2>1. tasks' = [tasks EXCEPT ![w] = [Next1(tasks[w]) EXCEPT !.steps =
                       CopyTo(s.id, others) \o <<Step("unlock", s.id, None)>> \o @]]
    BY <1>2 DEF Clone, Goes
  <2>2. Next1(tasks[w]) \in Tasks /\ Next1(tasks[w]).steps = Tail(tasks[w].steps)
    BY <1>2, Next1Fields
  <2>. HIDE DEF s, others, Next1
  <2>. QED  BY <2>1, <2>2
<1>10. u.steps = q /\ u.ids = tasks[w].ids /\ u.for = tasks[w].for
  <2>1. Next1(tasks[w]) \in Tasks /\ Next1(tasks[w]).ids = tasks[w].ids
        /\ Next1(tasks[w]).for = tasks[w].for
    BY <1>2, Next1Fields
  <2>. HIDE DEF q, Next1
  <2>. QED  BY <2>1 DEF Tasks
<1>. HIDE DEF u, a, z, r, s, others
<1>11. /\ a \o z \in Seq(Steps) /\ ToSet(a \o z) = ToSet(a) \cup ToSet(z)
       /\ q \in Seq(Steps) /\ ToSet(q) = ToSet(a) \cup ToSet(z) \cup ToSet(r)
  <2>1. a \o z \in Seq(Steps) /\ ToSet(a \o z) = ToSet(a) \cup ToSet(z)
    BY <1>7, <1>8, SetOfSeq, ConcatFacts
  <2>. DEFINE b == a \o z
  <2>2. b \in Seq(Steps)
    BY <2>1
  <2>. HIDE DEF b
  <2>3. b \o r \in Seq(Steps) /\ ToSet(b \o r) = ToSet(b) \cup ToSet(r)
    BY <2>2, <1>5, SetOfSeq, ConcatFacts
  <2>. QED  BY <2>1, <2>3 DEF b
<1>12. Fine(q, Made, Connected) /\ Ends(q)
  <2>1. PutsOf({s}) = {}
    BY <1>1, NoPuts DEF s
  <2>2. Fine(a, Made, Connected)
    <3>1. ASSUME NEW x \in ToSet(a)
          PROVE  Needs(x, Made, Connected)
      BY <1>3, <1>6, <1>8 DEF Needs
    <3>. QED  BY <3>1, <1>8, FineGiven
  <2>3. \A P : Fine(z, P, Connected)
    <3>1. ASSUME NEW P, NEW x \in ToSet(z)
          PROVE  Needs(x, P, Connected)
      BY <1>7 DEF Needs
    <3>. QED  BY <3>1, <1>7, FineGiven
  <2>4. \A P : Made \subseteq P => Fine(r, P, Connected)
    <3>1. Fine(r, Made, Connected)
      BY <1>5, <2>1 DEF s
    <3>. QED  BY <3>1, FineMore
  <2>5. Fine(a \o z, Made, Connected)
    BY <1>7, <1>8, <2>2, <2>3, FineJoin
  <2>. DEFINE b == a \o z
  <2>6. b \in Seq(Steps) /\ Fine(b, Made, Connected)
        /\ \A x \in ToSet(b) : x.do \notin {"done", "push"}
    BY <1>7, <1>8, <1>11, <2>5
  <2>. HIDE DEF b
  <2>7. Fine(r, Made \cup PutsOf(ToSet(b)), Connected)
    BY <2>4
  <2>8. Fine(b \o r, Made, Connected) /\ Ends(b \o r)
    BY <1>5, <2>6, <2>7, FineJoin, EndsJoin
  <2>. QED  BY <2>8 DEF b
<1>. DEFINE A == ToSet(a)
            Z == ToSet(z)
            R == ToSet(r)
            others2 == {<<s.id, c>> : c \in Connected \ {s.client}}
<1>13. /\ PutsOf(ToSet(q)) = others2 \cup PutsOf(R)
       /\ ClonesOf(ToSet(q)) = ClonesOf(R) /\ PushesOf(ToSet(q)) = PushesOf(R)
  <2>1. PutsOf(Z) = {} /\ ClonesOf(Z) = {} /\ PushesOf(Z) = {}
    BY <1>7, NoPuts
  <2>2. ClonesOf(A) = {} /\ PushesOf(A) = {} /\ PutsOf(A) = others2
    BY <1>8, NoPuts
  <2>. HIDE DEF A, Z, R, others2, q
  <2>3. /\ PutsOf(A \cup Z \cup R) = PutsOf(A) \cup PutsOf(Z) \cup PutsOf(R)
        /\ ClonesOf(A \cup Z \cup R) = ClonesOf(A) \cup ClonesOf(Z) \cup ClonesOf(R)
        /\ PushesOf(A \cup Z \cup R) = PushesOf(A) \cup PushesOf(Z) \cup PushesOf(R)
    BY DEF PutsOf, ClonesOf, PushesOf
  <2>4. ToSet(q) = A \cup Z \cup R
    BY <1>11 DEF A, Z, R
  <2>. QED  BY <2>1, <2>2, <2>3, <2>4
<1>14. /\ PutsOf(StepsOf(w)) = PutsOf(R) /\ PushesOf(StepsOf(w)) = PushesOf(R)
       /\ ClonesOf(StepsOf(w)) = {s.id} \cup ClonesOf(R)
  <2>1. PutsOf({s}) = {} /\ PushesOf({s}) = {} /\ ClonesOf({s}) = {s.id}
    <3>1. s.do = "clone"
      BY <1>1 DEF s
    <3>. QED  BY <3>1, <1>3, NoPuts DEF ClonesOf
  <2>2. StepsOf(w) = {s} \cup R
    BY <1>5
  <2>. HIDE DEF R
  <2>. QED  BY <2>1, <2>2, PutsTogether
<1>15. Made' = Made
  BY <1>1, SameMade
<1>16. Listed = Connected
  <2>1. tasks[Main].steps = <<>>
    BY <1>1 DEF Busy
  <2>2. PushesOf(StepsOf(Main)) = {}
    BY <2>1, SetOfOne, NoPuts DEF StepsOf
  <2>. QED  BY <2>2 DEF Listed
<1>17. Tidy(w)
  BY <1>1, <1>3, OrderFacts DEF AllTidy
<1>18. /\ \A x \in ToSet(u.steps) : x.id \in u.ids \cup {None}
       /\ u.for = "start" =>
            /\ \A x \in ToSet(u.steps) : x.do \notin {"again", "memory"}
            /\ w \in IdsOf(Made') \cup ClonesOf(ToSet(u.steps))
  <2>1. s.id \in tasks[w].ids
    BY <1>3, <1>5, <1>17, NoneIsNone DEF Tidy
  <2>2. \A x \in ToSet(q) : x \in StepsOf(w) \/ (x.id = s.id /\ x.do \in {"copy", "put", "unlock"})
    BY <1>5, <1>7, <1>8, <1>11
  <2>3. tasks[w].for = "start" => w \in IdsOf(Made')
    <3>1. tasks[w].for = "start" => s.id = w
      BY <2>1, <1>17 DEF Tidy
    <3>. QED  BY <3>1, <1>6, <1>15 DEF IdsOf
  <2>. QED  BY <2>1, <2>2, <2>3, <1>10, <1>17 DEF Tidy
<1>19. ~NoModule'
  BY <1>0, <1>1, <1>9, ModuleFacts, ModuleElsewhere DEF s
<1>20. /\ bridge'.connected = bridge.connected /\ bridge'.loading = bridge.loading
       /\ bridge'.pending = bridge.pending /\ bridge'.up = bridge.up
  BY <1>0, <1>1, TypesOfInv DEF Bridges
<1>21. /\ Made \cup PutsOf(StepsOf(w)) \subseteq Made' \cup PutsOf(ToSet(u.steps))
       /\ IdsOf(Made' \cup PutsOf(ToSet(u.steps))) \subseteq IdsOf(Made \cup PutsOf(StepsOf(w)))
       /\ PushesOf(ToSet(u.steps)) \subseteq PushesOf(StepsOf(w))
       /\ \A id \in ClonesOf(StepsOf(w)) \ ClonesOf(ToSet(u.steps)) :
               \A c \in Listed : <<id, c>> \in Made' \cup PutsOf(ToSet(u.steps))
  <2>. HIDE DEF R, q
  <2>1. \A c \in Connected : <<s.id, c>> \in Made \cup others2
    BY <1>6
  <2>2. IdsOf(Made \cup (others2 \cup PutsOf(R))) \subseteq IdsOf(Made \cup PutsOf(R))
    BY <1>6 DEF IdsOf
  <2>. HIDE DEF others2
  <2>. QED  BY <1>10, <1>13, <1>14, <1>15, <1>16, <2>1, <2>2
<1>22. /\ Fine(u.steps, Made', Connected) /\ Ends(u.steps)
       /\ u.for = "start" <=> tasks[w].for = "start"
       /\ screen'.open = screen.open /\ screen'.given = screen.given /\ screen'.failed = {}
  BY <1>1, <1>10, <1>12, <1>15, OrderFacts
<1>. HIDE DEF q
<1>. QED  BY <1>0, <1>1, <1>3, <1>9, <1>10, <1>15, <1>18, <1>19, <1>20, <1>21, <1>22, TaskMoves

(* What a reload of a plugin turns into                                    *)
LEMMA RemadeSet ==
    ASSUME NEW w \in Ids, NEW id \in Ids, NEW c \in Clients, NEW clients \in Seq(Clients),
           NEW how, how \in {"compile", "take"}
    PROVE  /\ Remade(how, id, c, clients) \in Seq(Steps)
           /\ \A s \in ToSet(Remade(how, id, c, clients)) :
                 s.id = id /\ s.do \in {how, "copy", "put", "loaded"}
           /\ PutsOf(ToSet(Remade(how, id, c, clients))) =
                 {<<id, c>>} \cup {<<id, d>> : d \in ToSet(clients)}
           /\ \A P, C : Fine(Remade(how, id, c, clients), P, C)
<1>. DEFINE m == Step(how, id, c)
            t == Step("put", id, c)
            l == Step("loaded", id, None)
            p == <<m, t>>
            z == <<l>>
            a == CopyTo(id, clients)
<1>1. /\ m \in Steps /\ m.do = how /\ m.id = id
      /\ t \in Steps /\ t.do = "put" /\ t.id = id /\ t.client = c
      /\ l \in Steps /\ l.do = "loaded" /\ l.id = id
  <2>1. w # Main /\ how \in OfPlugin /\ "put" \in OfPlugin
    BY NoneIsNone DEF OfPlugin, Making
  <2>2. StepOK(w, m) /\ StepOK(w, t) /\ StepOK(w, l)
    BY <2>1, StepsOfTasks, StepsAlone
  <2>. QED  BY <2>2, StepFields DEF StepOK
<1>. HIDE DEF m, t, l
<1>2. p \in Seq(Steps) /\ ToSet(p) = {m, t} /\ z \in Seq(Steps) /\ ToSet(z) = {l}
  BY <1>1, SetOfOne
<1>3. /\ a \in Seq(Steps)
      /\ \A s \in ToSet(a) : s.do \in {"copy", "put"} /\ s.id = id
      /\ PutsOf(ToSet(a)) = {<<id, d>> : d \in ToSet(clients)}
  BY CopyToSet
<1>. HIDE DEF p, z, a
<1>. DEFINE b == p \o a
            q == b \o z
<1>4. b \in Seq(Steps) /\ ToSet(b) = {m, t} \cup ToSet(a)
  BY <1>2, <1>3, SetOfSeq, ConcatFacts
<1>5. q \in Seq(Steps) /\ ToSet(q) = {m, t} \cup ToSet(a) \cup {l}
  <2>. HIDE DEF b
  <2>1. b \o z \in Seq(Steps) /\ ToSet(b \o z) = ToSet(b) \cup ToSet(z)
    BY <1>2, <1>4, SetOfSeq, ConcatFacts
  <2>. QED  BY <1>2, <1>4, <2>1
<1>6. PutsOf({m, t}) = {<<id, c>>}
  <2>1. PutsOf({m}) = {} /\ PutsOf({t}) = {<<id, c>>}
    BY <1>1, NoPuts, PutOne
  <2>2. {m, t} = {m} \cup {t}
    OBVIOUS
  <2>3. PutsOf({m} \cup {t}) = PutsOf({m}) \cup PutsOf({t})
    BY ONLY PutsTogether
  <2>. QED  BY <2>1, <2>2, <2>3
<1>7. PutsOf(ToSet(q)) = {<<id, c>>} \cup {<<id, d>> : d \in ToSet(clients)}
  <2>. DEFINE A == ToSet(a)
              D == {<<id, d>> : d \in ToSet(clients)}
  <2>1. PutsOf({l}) = {} /\ PutsOf(A) = D
    BY <1>1, <1>3, NoPuts
  <2>2. ToSet(q) = {m, t} \cup A \cup {l}
    BY <1>5
  <2>. HIDE DEF A, D, q
  <2>3. PutsOf({m, t} \cup A \cup {l}) = PutsOf({m, t}) \cup PutsOf(A) \cup PutsOf({l})
    BY DEF PutsOf
  <2>. QED  BY <1>6, <2>1, <2>2, <2>3 DEF D
<1>8. ASSUME NEW P, NEW C
      PROVE  Fine(q, P, C)
  <2>1. Fine(p, P, C)
    <3>1. \A s \in ToSet(p) : Needs(s, P, C)
      BY <1>1, <1>2 DEF Needs
    <3>. QED  BY <1>2, <3>1, FineGiven
  <2>2. Fine(a, P \cup PutsOf(ToSet(p)), C)
    <3>. DEFINE Q == P \cup PutsOf(ToSet(p))
    <3>1. <<id, c>> \in Q
      BY <1>2, <1>6
    <3>. HIDE DEF Q
    <3>2. \A s \in ToSet(a) : Needs(s, Q, C)
      BY <1>3, <3>1 DEF Needs
    <3>3. Fine(a, Q, C)
      BY <1>3, <3>2, FineGiven
    <3>. QED  BY <3>3 DEF Q
  <2>3. Fine(b, P, C)
    BY <1>2, <1>3, <2>1, <2>2, FineJoin
  <2>4. ASSUME NEW Q
        PROVE  Fine(z, Q, C)
    <3>1. \A s \in ToSet(z) : Needs(s, Q, C)
      BY <1>1, <1>2 DEF Needs
    <3>. QED  BY <1>2, <3>1, FineGiven
  <2>. HIDE DEF b
  <2>5. Fine(z, P \cup PutsOf(ToSet(b)), C)
    BY <2>4
  <2>. QED  BY <1>2, <1>4, <2>3, <2>5, FineJoin
<1>9. \A s \in ToSet(q) : s.id = id /\ s.do \in {how, "copy", "put", "loaded"}
  <2>. HIDE DEF q
  <2>. QED  BY <1>1, <1>3, <1>5
<1>10. Remade(how, id, c, clients) = q
  BY DEF Remade, p, a, z, m, t, l
<1>. HIDE DEF q
<1>. QED  BY <1>5, <1>7, <1>8, <1>9, <1>10

(* Without disorder the first instance is there to be taken out: nobody     *)
(* else is at work, and the clients that are listed all have one.          *)
LEMMA TakeOutInOrder ==
    ASSUME OrderInv, TypeInv', NEW w \in Workers, NEW for \in {"reload", "others"},
           NEW how \in {"compile", "take"}, Busy(w), Current(w).do \in {"again", "memory"},
           TakeOut(w, for, how)
    PROVE  OrderInv'
<1>. DEFINE s == Current(w)
            id == s.id
            first == Head(bridge.connected)
            clients == Tail(bridge.connected)
            p == Remade(how, id, first, clients)
            r == Tail(tasks[w].steps)
<1>0. TypeInv /\ bridge \in Bridges /\ s = Current(w)
  BY OrderFacts, TypesOfInv
<1>1. /\ TaskOK(w, tasks[w]) /\ tasks[w] \in Tasks /\ tasks[w].steps # <<>>
      /\ tasks[w].steps[1] = s /\ StepOK(w, s)
  BY <1>0, CurrentFacts
<1>2. w \in Ids /\ w # Main /\ id \in Ids
  <2>1. w # Main
    BY <1>1 DEF StepOK
  <2>. QED  BY <1>1, <2>1, StepIds DEF OfPlugin, Workers
<1>3. /\ Needs(s, Made, Connected) /\ s \in StepsOf(w) /\ StepsOf(w) = {s} \cup ToSet(r)
      /\ r \in Seq(Steps) /\ Fine(r, Made \cup PutsOf({s}), Connected) /\ Ends(r)
  BY FirstIsFine
<1>4. Tidy(w) /\ tasks[w].for # "start" /\ id \in tasks[w].ids
  <2>1. Tidy(w)
    BY <1>2, OrderFacts DEF AllTidy
  <2>. QED  BY <2>1, <1>2, <1>3, NoneIsNone DEF Tidy
<1>5. bridge.connected # <<>> /\ bridge.connected \in Seq(Clients)
  <2>1. Reloading
    BY <1>2, <1>4 DEF Reloading
  <2>. QED  BY <1>0, <2>1, OrderFacts, BridgeFields DEF SomeoneIsThere
<1>6. /\ first \in Clients /\ clients \in Seq(Clients)
      /\ Connected = {first} \cup ToSet(clients)
  BY <1>5, TailFacts, SetOfSeq DEF Connected
<1>7. \A c \in Connected : <<id, c>> \in Made
  BY <1>3 DEF Needs
<1>8. <<id, first>> \in Made /\ running[id][first] # None
  <2>1. <<id, first>> \in Made
    BY <1>6, <1>7
  <2>. QED  BY <1>2, <1>6, <2>1, MadeFacts
<1>9. PICK size \in SizesOf(running[id][first]) :
           /\ running' = [running EXCEPT ![id][first] = None]
           /\ Goes(w, [tasks[w] EXCEPT
                 !.for = for, !.size = size,
                 !.steps = <<Step(how, id, first), Step("put", id, first)>>
                             \o CopyTo(id, Tail(bridge.connected))
                             \o <<Step("loaded", id, None)>> \o Tail(@)])
           /\ UNCHANGED <<bridge, cache, file, toPlugins, screen, requests>>
  BY <1>5, <1>8 DEF TakeOut
<1>10. size \in Sizes
  BY <1>0, <1>2, <1>6, <1>8, InstanceAt, SizesOfType
<1>. DEFINE u == Retask(tasks[w], for, size, how, id, first, clients)
<1>11. tasks' = [tasks EXCEPT ![w] = u]
  BY <1>9, <1>1 DEF Goes, Retask, Remade
<1>12. /\ u.for = for /\ u.ids = tasks[w].ids /\ u.module = None
       /\ u.steps = p \o r
  <2>. DEFINE t == tasks[w]
              v == Retask(t, for, size, how, id, first, clients)
  <2>1. t \in Tasks /\ t.module = None
    BY <1>1 DEF TaskOK
  <2>2. u = v /\ r = Tail(t.steps)
    OBVIOUS
  <2>. HIDE DEF u, r, t, first, clients, id
  <2>3. v.for = for /\ v.ids = t.ids /\ v.module = None /\ v.steps = p \o Tail(t.steps)
    BY <2>1 DEF Tasks, Retask
  <2>. QED  BY <2>2, <2>3 DEF t
<1>13. /\ p \in Seq(Steps)
       /\ \A x \in ToSet(p) : x.id = id /\ x.do \in {how, "copy", "put", "loaded"}
       /\ PutsOf(ToSet(p)) = {<<id, first>>} \cup {<<id, d>> : d \in ToSet(clients)}
       /\ \A P, C : Fine(p, P, C)
  <2>. HIDE DEF first, clients, id
  <2>. QED  BY <1>2, <1>6, RemadeSet
<1>. HIDE DEF u, p, r, first, clients, id, s
<1>14. p \o r \in Seq(Steps) /\ ToSet(p \o r) = ToSet(p) \cup ToSet(r)
  BY <1>3, <1>13, SetOfSeq, ConcatFacts
<1>15. Made' = Made \ {<<id, first>>}
  <2>1. ASSUME NEW i \in Ids, NEW c \in Clients
        PROVE  running'[i][c] = IF i = id /\ c = first THEN None ELSE running[i][c]
    BY <1>0, <1>2, <1>6, <1>9, TypesOfInv
  <2>2. ASSUME NEW i \in Ids, NEW c \in Clients
        PROVE  <<i, c>> \in Made' <=> <<i, c>> \in Made \ {<<id, first>>}
    BY <2>1, MadeFacts, MadeNext
  <2>3. Made \ {<<id, first>>} \in SUBSET (Ids \X Clients) /\ Made' \in SUBSET (Ids \X Clients)
    BY MadeFacts, MadeNext
  <2>. QED  BY <2>2, <2>3
<1>16. s.do \in {"again", "memory"}
  BY DEF s
<1>17. PutsOf({s}) = {} /\ ClonesOf({s}) = {} /\ PushesOf({s}) = {}
  BY <1>16, NoPuts
<1>18. ClonesOf(ToSet(p)) = {} /\ PushesOf(ToSet(p)) = {}
  BY <1>13, NoPuts
<1>. DEFINE Q == PutsOf(ToSet(p))
            R == ToSet(r)
            T == ToSet(p)
<1>19. /\ PutsOf(ToSet(u.steps)) = Q \cup PutsOf(R)
       /\ ClonesOf(ToSet(u.steps)) = ClonesOf(R) /\ PushesOf(ToSet(u.steps)) = PushesOf(R)
  <2>1. ToSet(u.steps) = T \cup R
    BY <1>12, <1>14
  <2>2. ClonesOf(T) = {} /\ PushesOf(T) = {} /\ Q = PutsOf(T)
    BY <1>18
  <2>. HIDE DEF T, R, Q
  <2>3. /\ PutsOf(T \cup R) = PutsOf(T) \cup PutsOf(R)
        /\ ClonesOf(T \cup R) = ClonesOf(T) \cup ClonesOf(R)
        /\ PushesOf(T \cup R) = PushesOf(T) \cup PushesOf(R)
    BY ONLY PutsTogether
  <2>. QED  BY <2>1, <2>2, <2>3
<1>20. /\ PutsOf(StepsOf(w)) = PutsOf(R) /\ ClonesOf(StepsOf(w)) = ClonesOf(R)
       /\ PushesOf(StepsOf(w)) = PushesOf(R)
  <2>. HIDE DEF R
  <2>1. StepsOf(w) = {s} \cup R
    BY <1>3 DEF R
  <2>2. /\ PutsOf({s} \cup R) = PutsOf({s}) \cup PutsOf(R)
        /\ ClonesOf({s} \cup R) = ClonesOf({s}) \cup ClonesOf(R)
        /\ PushesOf({s} \cup R) = PushesOf({s}) \cup PushesOf(R)
    BY ONLY PutsTogether
  <2>. QED  BY <1>17, <2>1, <2>2
<1>21. Fine(u.steps, Made', Connected) /\ Ends(u.steps)
  <2>1. Made \cup PutsOf({s}) \subseteq Made' \cup Q
    BY <1>13, <1>15, <1>17
  <2>2. Fine(r, Made' \cup Q, Connected)
    <3>. HIDE DEF Q
    <3>. QED  BY <1>3, <2>1, FineMore
  <2>3. Fine(p \o r, Made', Connected)
    BY <1>3, <1>13, <2>2, FineJoin
  <2>4. Ends(p \o r)
    BY <1>3, <1>13, EndsJoin
  <2>. QED  BY <1>12, <2>3, <2>4
<1>22. /\ Made \cup PutsOf(StepsOf(w)) \subseteq Made' \cup PutsOf(ToSet(u.steps))
       /\ IdsOf(Made' \cup PutsOf(ToSet(u.steps))) \subseteq IdsOf(Made \cup PutsOf(StepsOf(w)))
  <2>1. Made \subseteq Made' \cup Q
    BY <1>13, <1>15
  <2>2. \A k \in Q : k[1] = id
    BY <1>13
  <2>3. Made' \subseteq Made
    BY <1>15
  <2>. HIDE DEF Q, R
  <2>4. IdsOf(Made' \cup (Q \cup PutsOf(R))) \subseteq IdsOf(Made \cup PutsOf(R))
    <3>1. id \in IdsOf(Made)
      BY <1>8 DEF IdsOf
    <3>. QED  BY <2>2, <2>3, <3>1 DEF IdsOf
  <2>. QED  BY <1>19, <1>20, <2>1, <2>4
<1>23. \A x \in ToSet(u.steps) : x.id \in u.ids \cup {None}
  BY <1>3, <1>4, <1>12, <1>13, <1>14 DEF Tidy
<1>24. ~NoModule'
  <2>1. s.do \notin {"load", "push"} /\ s.do # "put"
    BY <1>16
  <2>2. cache # None \/ \E v \in Workers \ {w} : tasks[v].module # None
    BY <2>1, ModuleFacts DEF s
  <2>. QED  BY <1>0, <1>9, <1>11, <2>2, ModuleElsewhere
<1>25. /\ u.for # "start" /\ (u.for = "start" <=> tasks[w].for = "start")
       /\ PushesOf(ToSet(u.steps)) \subseteq PushesOf(StepsOf(w))
       /\ ClonesOf(StepsOf(w)) \ ClonesOf(ToSet(u.steps)) = {}
       /\ screen'.failed = {}
  BY <1>4, <1>9, <1>12, <1>19, <1>20, OrderFacts
<1>. HIDE DEF Q, R, T
<1>. QED  BY <1>2, <1>4, <1>9, <1>11, <1>12, <1>21, <1>22, <1>23, <1>24, <1>25, TaskMoves

LEMMA ReloadsInOrder ==
    ASSUME OrderInv, NEW w \in Workers, ReloadFirst(w) \/ ReloadFromMemory(w)
    PROVE  OrderInv'
<1>0. TypeInv'
  BY OrderFacts, ReloadFirstKeeps
<1>1. CASE ReloadFirst(w)
  <2>1. Busy(w) /\ Current(w).do \in {"again", "memory"} /\ TakeOut(w, "reload", "compile")
    BY <1>1 DEF ReloadFirst, Does
  <2>. QED  BY <1>0, <2>1, TakeOutInOrder
<1>2. CASE ReloadFromMemory(w)
  <2>1. Busy(w) /\ Current(w).do \in {"again", "memory"} /\ TakeOut(w, "others", "take")
    BY <1>2 DEF ReloadFromMemory, Does
  <2>. QED  BY <1>0, <2>1, TakeOutInOrder
<1>. QED  BY <1>1, <1>2

----------------------------------------------------------------------------
(* The end of a task *)

LEMMA LastStep ==
    ASSUME OrderInv, NEW w \in Workers, Busy(w), Current(w).do \in {"done", "push"}
    PROVE  StepsOf(w) = {Current(w)} /\ tasks[w].module = None
<1>. DEFINE q == tasks[w].steps
<1>1. /\ q \in Seq(Steps) /\ q # <<>> /\ Current(w) = q[1] /\ Ends(q)
      /\ TaskOK(w, tasks[w])
  BY OrderFacts, CurrentFacts, TaskFields DEF AllFine
<1>2. tasks[w].module = None
  BY <1>1 DEF TaskOK
<1>3. q[1].do \in {"done", "push"}
  BY <1>1
<1>4. StepsOf(w) = ToSet(q)
  BY DEF StepsOf
<1>. HIDE DEF q
<1>5. Len(q) \in Nat \ {0}
  BY <1>1, TailFacts
<1>6. Len(q) = 1
  <2>1. CASE Len(q) # 1
    <3>1. 1 \in 1 .. Len(q) - 1
      <4>. DEFINE n == Len(q)
      <4>1. n \in Nat \ {0} /\ n # 1
        BY <1>5, <2>1
      <4>. HIDE DEF n
      <4>2. 1 \in 1 .. n - 1
        BY ONLY <4>1
      <4>. QED  BY <4>2 DEF n
    <3>. QED  BY <1>1, <1>3, <3>1 DEF Ends
  <2>. QED  BY <2>1
<1>7. ToSet(q) = {q[1]}
  <2>1. DOMAIN q = 1 .. 1
    BY <1>1, <1>6, NotEmpty
  <2>. QED  BY <2>1 DEF ToSet
<1>. QED  BY <1>1, <1>2, <1>4, <1>7

LEMMA Idle ==
    LET u == Task("client", {}, None, <<>>)
    IN  /\ u.steps = <<>> /\ u.module = None /\ ToSet(u.steps) = {}
        /\ PutsOf(ToSet(u.steps)) = {} /\ ClonesOf(ToSet(u.steps)) = {}
        /\ PushesOf(ToSet(u.steps)) = {}
<1>. DEFINE u == Task("client", {}, None, <<>>)
<1>1. u.steps = <<>> /\ u.module = None
  BY DEF Task
<1>. HIDE DEF u
<1>2. ToSet(u.steps) = {}
  BY <1>1, SetOfOne
<1>3. PutsOf({}) = {} /\ ClonesOf({}) = {} /\ PushesOf({}) = {}
  BY NoPuts
<1>. QED  BY <1>1, <1>2, <1>3 DEF u

LEMMA DoneInOrder ==
    ASSUME OrderInv, NEW w \in Workers, Done(w)
    PROVE  OrderInv'
<1>. DEFINE u == Task("client", {}, None, <<>>)
            s == Current(w)
<1>0. /\ TypeInv /\ TypeInv' /\ AllTidy /\ Apart /\ SomeoneIsThere /\ bridge.up
      /\ screen.failed = {}
  BY OrderFacts, DoneKeeps
<1>1. /\ Busy(w) /\ s.do = "done" /\ toPlugins' = Append(toPlugins, tasks[w].ids)
      /\ tasks' = [tasks EXCEPT ![w] = u]
      /\ UNCHANGED <<bridge, running, cache, file, screen, requests>>
  BY DEF Done, Does, Goes
<1>2. StepsOf(w) = {s} /\ tasks[w].module = None
  BY <1>1, LastStep
<1>3. w \in Ids /\ w # Main /\ Tidy(w) /\ tasks[w] \in Tasks
  <2>1. StepOK(w, s) /\ tasks[w] \in Tasks
    BY <1>0, <1>1, CurrentFacts
  <2>2. w # Main
    BY <1>1, <2>1 DEF StepOK
  <2>. QED  BY <1>0, <1>1, <2>1, <2>2 DEF AllTidy, Workers
<1>4. /\ PutsOf(StepsOf(w)) = {} /\ ClonesOf(StepsOf(w)) = {} /\ PushesOf(StepsOf(w)) = {}
  BY <1>1, <1>2, NoPuts
<1>5. /\ u.steps = <<>> /\ u.module = None /\ ToSet(u.steps) = {}
      /\ PutsOf(ToSet(u.steps)) = {} /\ ClonesOf(ToSet(u.steps)) = {}
  BY Idle
<1>. HIDE DEF u, s
<1>6. /\ tasks'[w] = u /\ ~Busy(w)'
      /\ \A v \in Workers : v # w => tasks'[v] = tasks[v] /\ StepsOf(v)' = StepsOf(v)
                                     /\ (Busy(v)' <=> Busy(v))
      /\ Ids \subseteq Workers
  BY <1>0, <1>1, <1>5, OthersStay
<1>7. Made' = Made /\ Connected' = Connected
  BY <1>1, SameMade DEF Connected
<1>8. AllFine'
  <2>1. Fine(u.steps, Made', Connected') /\ Ends(u.steps)
    BY <1>5, FineNothing
  <2>. QED  BY <1>1, <1>7, <2>1, FineKept
<1>9. Has \subseteq Has' /\ IdsOf(Has') = IdsOf(Has)
  <2>1. /\ Made \cup PutsOf(StepsOf(w)) \subseteq Made' \cup PutsOf(ToSet(u.steps))
        /\ IdsOf(Made' \cup PutsOf(ToSet(u.steps))) \subseteq IdsOf(Made \cup PutsOf(StepsOf(w)))
    BY <1>4, <1>5, <1>7
  <2>. QED  BY <1>0, <1>1, <2>1, HasKept
<1>10. AllHave' /\ OpenHave'
  <2>1. /\ \A id \in Cloning : id \in Cloning'
        /\ Listed' \subseteq Listed
    BY <1>0, <1>1, <1>3, <1>4, <1>7, ClonesKept DEF Listed
  <2>2. screen'.open = screen.open /\ screen'.given = screen.given
    BY <1>1
  <2>. QED  BY <1>9, <2>1, <2>2, HaveKept
<1>11. ModuleStays'
  <2>1. s.do \notin {"load", "push"} /\ s.do # "put"
    BY <1>1
  <2>2. cache # None \/ \E v \in Workers \ {w} : tasks[v].module # None
    BY <1>1, <2>1, ModuleFacts DEF s
  <2>3. ~NoModule'
    BY <1>0, <1>1, <2>2, ModuleElsewhere
  <2>. QED  BY <2>3 DEF ModuleStays
<1>12. AllTidy'
  <2>1. ASSUME NEW v \in Ids, Busy(v)'
        PROVE  Tidy(v)'
    <3>1. v # w /\ Busy(v) /\ v \in Workers /\ tasks'[v] = tasks[v] /\ StepsOf(v)' = StepsOf(v)
      BY <2>1, <1>6
    <3>2. Tidy(v) /\ tasks[v].for = "start"
      <4>1. Tidy(v)
        BY <3>1, <1>0 DEF AllTidy
      <4>. QED  BY <4>1, <3>1, <1>1 DEF Tidy
    <3>3. IdsOf(Made)' = IdsOf(Made) /\ ClonesOf(StepsOf(v))' = ClonesOf(StepsOf(v))
      BY <3>1, <1>7 DEF IdsOf, ClonesOf
    <3>. QED  BY <1>1, <3>1, <3>2, <3>3 DEF Tidy
  <2>. QED  BY <2>1 DEF AllTidy
<1>13. Apart'
  <2>. DEFINE n == Len(toPlugins)
  <2>1. toPlugins \in Seq(SUBSET Ids) /\ tasks[w].ids \in SUBSET Ids /\ n \in Nat
    BY <1>0, <1>3, TypesOfInv, TaskFields
  <2>2. /\ Len(toPlugins') = n + 1
        /\ \A k \in 1 .. n : toPlugins'[k] = toPlugins[k]
        /\ toPlugins'[n + 1] = tasks[w].ids
    BY <1>1, <2>1
  <2>. HIDE DEF n
  <2>3. \A v \in Ids : Busy(v)' => v # w /\ Busy(v) /\ tasks'[v].ids = tasks[v].ids
    BY <1>6
  <2>4. ASSUME NEW k \in 1 .. n + 1
        PROVE  k \in 1 .. n \/ k = n + 1
    BY <2>1
  <2>5. \A k \in 1 .. n : toPlugins[k] \cap tasks[w].ids = {}
    BY <1>0, <1>1, <1>3 DEF Apart, n
  <2>6. ASSUME NEW v \in Ids, NEW k \in 1 .. n + 1, Busy(v)'
        PROVE  toPlugins'[k] \cap tasks'[v].ids = {}
    <3>1. CASE k \in 1 .. n
      BY <1>0, <2>2, <2>3, <2>6, <3>1 DEF Apart, n
    <3>2. CASE k = n + 1
      <4>1. tasks[v].ids \cap tasks[w].ids = {}
        BY <1>0, <1>1, <1>3, <2>3, <2>6 DEF Apart
      <4>. QED  BY <2>2, <2>3, <2>6, <3>2, <4>1
    <3>. QED  BY <2>4, <3>1, <3>2
  <2>7. ASSUME NEW j \in 1 .. n + 1, NEW k \in 1 .. n + 1, j # k
        PROVE  toPlugins'[j] \cap toPlugins'[k] = {}
    <3>1. CASE j \in 1 .. n /\ k \in 1 .. n
      BY <1>0, <2>2, <2>7, <3>1 DEF Apart, n
    <3>2. CASE j = n + 1 /\ k \in 1 .. n
      BY <2>2, <2>5, <3>2
    <3>3. CASE j \in 1 .. n /\ k = n + 1
      BY <2>2, <2>5, <3>3
    <3>. QED  BY <2>4, <2>7, <3>1, <3>2, <3>3
  <2>8. ASSUME NEW k \in 1 .. n + 1
        PROVE  toPlugins'[k] \cap bridge.loading # {} /\ toPlugins'[k] \subseteq screen.given
    <3>1. CASE k \in 1 .. n
      BY <1>0, <2>2, <3>1 DEF Apart, n
    <3>2. CASE k = n + 1
      BY <1>3, <2>2, <3>2 DEF Tidy
    <3>. QED  BY <2>4, <3>1, <3>2
  <2>9. \A v, x \in Ids : Busy(v)' /\ Busy(x)' /\ v # x => tasks'[v].ids \cap tasks'[x].ids = {}
    BY <1>0, <2>3 DEF Apart
  <2>10. bridge'.loading = bridge.loading /\ screen'.given = screen.given
         /\ bridge.loading \subseteq screen.given
    BY <1>0, <1>1 DEF Apart
  <2>. QED  BY <2>2, <2>6, <2>7, <2>8, <2>9, <2>10 DEF Apart
<1>14. SomeoneIsThere'
  <2>1. Reloading' => Reloading
    BY <1>6 DEF Reloading
  <2>. QED  BY <1>0, <1>1, <2>1 DEF SomeoneIsThere
<1>15. NothingFails'
  BY <1>0, <1>1 DEF NothingFails
<1>. QED  BY <1>0, <1>8, <1>10, <1>11, <1>12, <1>13, <1>14, <1>15 DEF OrderInv

(* Only what reloads needs the clients that are listed.                    *)
LEMMA FineForAll ==
    ASSUME NEW q \in Seq(Steps), NEW P, NEW C, Fine(q, P, C),
           \A s \in ToSet(q) : s.do \notin {"again", "memory"}, NEW D
    PROVE  Fine(q, P, D)
<1>1. ASSUME NEW i \in 1 .. Len(q)
      PROVE  Needs(q[i], P \cup Before(q, i), D)
  <2>1. Needs(q[i], P \cup Before(q, i), C) /\ q[i] \in ToSet(q)
    BY DEF Fine, ToSet
  <2>2. q[i].do \notin {"again", "memory"}
    BY <2>1
  <2>. QED  BY <2>1, <2>2 DEF Needs
<1>. QED  BY <1>1 DEF Fine

LEMMA PushInOrder ==
    ASSUME OrderInv, Push
    PROVE  OrderInv'
<1>. DEFINE u == Task("client", {}, None, <<>>)
            s == Current(Main)
<1>0. /\ TypeInv /\ TypeInv' /\ AllTidy /\ Apart /\ SomeoneIsThere /\ bridge.up
      /\ screen.failed = {} /\ Main \in Workers
  BY OrderFacts, PushKeeps DEF Workers
<1>1. /\ Busy(Main) /\ s.do = "push"
      /\ bridge' = [bridge EXCEPT !.connected = Append(@, s.client)]
      /\ screen' = [screen EXCEPT !.asked = TRUE]
      /\ tasks' = [tasks EXCEPT ![Main] = u]
      /\ UNCHANGED <<running, cache, file, toPlugins, requests>>
  BY DEF Push, Does, Goes
<1>2. StepsOf(Main) = {s} /\ tasks[Main].module = None
  BY <1>0, <1>1, LastStep
<1>3. s.client \in Clients
  <2>1. StepOK(Main, s)
    BY <1>0, <1>1, CurrentFacts
  <2>. QED  BY <1>1, <2>1, StepIds DEF OfClient
<1>4. /\ PutsOf(StepsOf(Main)) = {} /\ ClonesOf(StepsOf(Main)) = {}
      /\ PushesOf(StepsOf(Main)) = {s.client}
  <2>1. s.do = "push"
    BY <1>1
  <2>. HIDE DEF s
  <2>2. PushesOf({s}) = {s.client}
    BY <1>3, <2>1 DEF PushesOf
  <2>. QED  BY <1>2, <2>1, <2>2, NoPuts
<1>5. /\ u.steps = <<>> /\ u.module = None /\ ToSet(u.steps) = {}
      /\ PutsOf(ToSet(u.steps)) = {} /\ ClonesOf(ToSet(u.steps)) = {}
      /\ PushesOf(ToSet(u.steps)) = {}
  BY Idle
<1>. HIDE DEF u, s
<1>6. /\ tasks'[Main] = u /\ ~Busy(Main)'
      /\ \A v \in Workers : v # Main => tasks'[v] = tasks[v] /\ StepsOf(v)' = StepsOf(v)
                                        /\ (Busy(v)' <=> Busy(v))
  BY <1>0, <1>1, <1>5, OthersStay
<1>7. /\ bridge \in Bridges /\ screen \in Screens
      /\ bridge'.connected = Append(bridge.connected, s.client)
      /\ bridge'.loading = bridge.loading /\ bridge'.pending = bridge.pending
      /\ bridge'.up = bridge.up
      /\ screen'.open = screen.open /\ screen'.given = screen.given /\ screen'.failed = {}
  BY <1>0, <1>1, TypesOfInv DEF Bridges, Screens
<1>8. Made' = Made
  BY <1>1, SameMade
<1>9. Connected' = Connected \cup {s.client} /\ bridge'.connected # <<>>
  <2>1. bridge.connected \in Seq(Clients) /\ IsInjective(bridge.connected)
    BY <1>0, TypesOfInv, BridgeFields
  <2>2. <<s.client>> \in Seq(Clients) /\ ToSet(<<s.client>>) = {s.client}
    BY <1>3, SetOfOne
  <2>. DEFINE p == bridge.connected
              q == <<s.client>>
  <2>3. Append(p, s.client) = p \o q
    BY <1>3, <2>1
  <2>6. p \in Seq(Clients) /\ q \in Seq(Clients)
    BY <2>1, <2>2
  <2>. HIDE DEF p, q
  <2>4. ToSet(p \o q) = ToSet(p) \cup ToSet(q)
    BY <2>6, SetOfSeq
  <2>5. bridge'.connected # <<>>
    BY <1>3, <1>7, <2>1
  <2>. QED  BY <1>7, <2>2, <2>3, <2>4, <2>5 DEF Connected, p, q
(* Nothing is reloaded while the client comes.                             *)
<1>10. \A v \in Ids : Busy(v) => /\ v # Main /\ v \in Workers /\ Tidy(v) /\ tasks[v].for = "start"
                                 /\ \A x \in StepsOf(v) : x.do \notin {"again", "memory"}
  <2>1. ASSUME NEW v \in Ids, Busy(v)
        PROVE  /\ v # Main /\ v \in Workers /\ Tidy(v) /\ tasks[v].for = "start"
               /\ \A x \in StepsOf(v) : x.do \notin {"again", "memory"}
    <3>1. v # Main /\ v \in Workers /\ Tidy(v)
      BY <1>0, <2>1, NoneIsNone DEF AllTidy, Workers
    <3>2. tasks[v].for = "start"
      BY <1>0, <1>1, <3>1 DEF Tidy
    <3>. QED  BY <3>1, <3>2 DEF Tidy
  <2>. QED  BY <2>1
<1>11. AllFine'
  <2>1. ASSUME NEW v \in Workers
        PROVE  Fine(tasks'[v].steps, Made', Connected') /\ Ends(tasks'[v].steps)
    <3>1. CASE tasks'[v].steps = <<>>
      BY <3>1, FineNothing
    <3>2. CASE tasks'[v].steps # <<>>
      <4>. DEFINE q == tasks[v].steps
      <4>1. v \in Ids /\ Busy(v) /\ tasks'[v].steps = q
        BY <1>5, <1>6, <3>2 DEF Workers, Busy
      <4>2. Fine(q, Made, Connected) /\ Ends(q) /\ q \in Seq(Steps)
        BY <1>0, OrderFacts, TypesOfInv, TaskFields DEF AllFine
      <4>3. \A x \in ToSet(q) : x.do \notin {"again", "memory"}
        BY <1>10, <4>1 DEF StepsOf
      <4>. HIDE DEF q
      <4>4. Fine(q, Made, Connected')
        BY <4>2, <4>3, FineForAll
      <4>. QED  BY <1>8, <4>1, <4>2, <4>4
    <3>. QED  BY <3>1, <3>2
  <2>. QED  BY <2>1 DEF AllFine, Fine, Needs, Before, Ends, PutsOf
<1>12. Has \subseteq Has' /\ IdsOf(Has') = IdsOf(Has)
  <2>1. /\ Made \cup PutsOf(StepsOf(Main)) \subseteq Made' \cup PutsOf(ToSet(u.steps))
        /\ IdsOf(Made' \cup PutsOf(ToSet(u.steps))) \subseteq IdsOf(Made \cup PutsOf(StepsOf(Main)))
    BY <1>4, <1>5, <1>8
  <2>. QED  BY <1>0, <1>1, <2>1, HasKept
<1>13. AllHave' /\ OpenHave'
  <2>1. /\ \A id \in Cloning : id \in Cloning'
        /\ Listed' \subseteq Listed
    BY <1>0, <1>1, <1>4, <1>5, <1>9, ClonesKept DEF Listed
  <2>. QED  BY <1>7, <1>12, <2>1, HaveKept
<1>14. ModuleStays'
  <2>1. NoModule' => NoModule
    BY <1>1, <1>2, <1>6 DEF NoModule
  <2>2. \A v \in Workers : Busy(v)' => Busy(v) /\ Current(v)' = Current(v)
    BY <1>6 DEF Current
  <2>. QED  BY <1>8, <2>1, <2>2, OrderFacts DEF ModuleStays
<1>15. AllTidy'
  <2>1. ASSUME NEW v \in Ids, Busy(v)'
        PROVE  Tidy(v)'
    <3>1. v # Main /\ v \in Workers
      BY NoneIsNone DEF Workers
    <3>2. Busy(v) /\ tasks'[v] = tasks[v] /\ StepsOf(v)' = StepsOf(v)
      BY <2>1, <3>1, <1>6
    <3>3. Tidy(v) /\ tasks[v].for = "start"
      BY <3>2, <1>10
    <3>4. IdsOf(Made)' = IdsOf(Made) /\ ClonesOf(StepsOf(v))' = ClonesOf(StepsOf(v))
      BY <3>2, <1>8 DEF IdsOf, ClonesOf
    <3>. QED  BY <1>7, <3>2, <3>3, <3>4 DEF Tidy
  <2>. QED  BY <2>1 DEF AllTidy
<1>16. Apart'
  <2>1. \A v \in Ids : Busy(v)' => Busy(v) /\ tasks'[v].ids = tasks[v].ids
    BY <1>6 DEF Workers
  <2>2. toPlugins' = toPlugins
    BY <1>1
  <2>. QED  BY <1>0, <1>7, <2>1, <2>2 DEF Apart
<1>17. SomeoneIsThere'
  BY <1>9 DEF SomeoneIsThere
<1>18. NothingFails'
  BY <1>0, <1>7 DEF NothingFails
<1>. QED  BY <1>0, <1>11, <1>13, <1>14, <1>15, <1>16, <1>17, <1>18 DEF OrderInv

(* Whatever a task does, nothing fails but by a mishap.                    *)
LEMMA TaskStepsInOrder ==
    ASSUME Calm, OrderInv, NEW w \in Workers, TaskStep(w)
    PROVE  OrderInv' \/ (GivenUp' /\ Mishap(w))
BY LoadModuleInOrder, CompileModuleInOrder, TakeInOrder, CopyInOrder, PutInOrder, CloneInOrder,
   UnlockInOrder, ReloadsInOrder, LoadedInOrder, DoneInOrder DEF TaskStep

----------------------------------------------------------------------------
(* Steps that start no task: what is told to instances, what is resized     *)

LEMMA SameTasks ==
    ASSUME TypeInv, tasks' = tasks
    PROVE  /\ \A w \in Workers : StepsOf(w)' = StepsOf(w) /\ (Busy(w)' <=> Busy(w))
                                 /\ Current(w)' = Current(w)
           /\ Main \in Workers /\ Ids \subseteq Workers
           /\ tasks' = [tasks EXCEPT ![Main] = tasks[Main]]
           /\ tasks[Main].steps \in Seq(Steps)
           /\ ToSet(tasks[Main].steps) = StepsOf(Main)
BY TypesOfInv, TaskFields DEF StepsOf, Busy, Current, Workers

LEMMA SameWork ==
    ASSUME OrderInv, TypeInv', Made' = Made, UNCHANGED <<tasks, cache>>,
           toPlugins = <<>> => toPlugins' = <<>>, bridge'.up = bridge.up,
           \A w \in Ids : Busy(w) => w \in bridge'.loading, Apart',
           Connected' \subseteq Connected, SomeoneIsThere',
           screen'.open = screen.open, screen'.given = screen.given,
           screen'.failed = screen.failed
    PROVE  OrderInv'
<1>. DEFINE u == tasks[Main]
<1>0. /\ TypeInv /\ AllTidy /\ bridge.up /\ screen.failed = {}
      /\ tasks' = tasks /\ cache' = cache
  BY OrderFacts
<1>1. /\ \A w \in Workers : StepsOf(w)' = StepsOf(w) /\ (Busy(w)' <=> Busy(w))
                                 /\ Current(w)' = Current(w)
      /\ Main \in Workers /\ Ids \subseteq Workers
      /\ tasks' = [tasks EXCEPT ![Main] = u] /\ ToSet(u.steps) = StepsOf(Main)
      /\ u.steps \in Seq(Steps)
  BY <1>0, SameTasks
<1>. HIDE DEF u
<1>2. AllFine'
  <2>. DEFINE q == u.steps
  <2>1. Fine(q, Made, Connected) /\ Ends(q)
    BY <1>1, OrderFacts DEF AllFine, u
  <2>. HIDE DEF q
  <2>2. Fine(q, Made', Connected')
    BY <2>1, FineMore
  <2>. QED  BY <1>1, <2>1, <2>2, FineKept DEF q
<1>3. Has \subseteq Has' /\ IdsOf(Has') = IdsOf(Has)
  BY <1>0, <1>1, HasKept
<1>4. AllHave' /\ OpenHave'
  <2>1. /\ \A id \in Cloning : id \in Cloning'
        /\ Listed' = Connected' \cup PushesOf(StepsOf(Main))
    BY <1>0, <1>1, ClonesKept
  <2>2. Listed' \subseteq Listed
    BY <2>1 DEF Listed
  <2>. QED  BY <1>3, <2>1, <2>2, HaveKept
<1>5. ModuleStays'
  <2>1. NoModule' <=> NoModule
    BY <1>0 DEF NoModule
  <2>. QED  BY <1>1, <2>1, OrderFacts DEF ModuleStays
<1>6. AllTidy'
  <2>1. ASSUME NEW v \in Ids, Busy(v)'
        PROVE  Tidy(v)'
    <3>1. v \in Workers /\ Busy(v) /\ Tidy(v) /\ StepsOf(v)' = StepsOf(v)
      BY <1>0, <1>1, <2>1 DEF AllTidy
    <3>2. IdsOf(Made)' = IdsOf(Made) /\ ClonesOf(StepsOf(v))' = ClonesOf(StepsOf(v))
      BY <3>1 DEF IdsOf, ClonesOf
    <3>. QED  BY <1>0, <1>1, <3>1, <3>2 DEF Tidy
  <2>. QED  BY <2>1 DEF AllTidy
<1>7. NothingFails'
  BY <1>0 DEF NothingFails
<1>. QED  BY <1>2, <1>4, <1>5, <1>6, <1>7 DEF OrderInv

LEMMA Quiet ==
    ASSUME OrderInv, TypeInv', Made' = Made, UNCHANGED <<tasks, cache, toPlugins>>,
           bridge'.loading = bridge.loading, bridge'.up = bridge.up,
           Connected' \subseteq Connected, SomeoneIsThere',
           screen'.open = screen.open, screen'.given = screen.given,
           screen'.failed = screen.failed
    PROVE  OrderInv'
<1>1. TypeInv /\ Apart /\ AllTidy
  BY OrderFacts
<1>2. \A w \in Ids : (Busy(w)' <=> Busy(w)) /\ tasks'[w].ids = tasks[w].ids
  BY <1>1, SameTasks
<1>3. Apart'
  BY <1>1, <1>2 DEF Apart
<1>4. \A w \in Ids : Busy(w) => w \in bridge'.loading
  BY <1>1 DEF AllTidy, Tidy
<1>. QED  BY <1>3, <1>4, SameWork

LEMMA StillThere ==
    ASSUME OrderInv, UNCHANGED tasks, bridge'.pending = bridge.pending,
           bridge'.connected = bridge.connected
    PROVE  SomeoneIsThere' /\ Connected' \subseteq Connected
<1>1. Reloading' <=> Reloading
  BY DEF Reloading, Busy
<1>. QED  BY <1>1, OrderFacts DEF SomeoneIsThere, Connected

LEMMA OneStays ==
    ASSUME OrderInv, TypeInv', NEW id \in Ids, NEW c \in Clients, running[id][c] # None,
           NEW i \in Instances, running' = [running EXCEPT ![id][c] = i],
           UNCHANGED <<bridge, cache, file, tasks, toPlugins, screen, requests>>
    PROVE  OrderInv'
<1>1. Made' = Made
  <2>1. i # None
    BY NoneIsNoInstance
  <2>2. ASSUME NEW d \in Ids, NEW e \in Clients
        PROVE  running'[d][e] # None <=> running[d][e] # None
    <3>1. running'[d][e] = IF d = id /\ e = c THEN i ELSE running[d][e]
      BY OrderFacts, TypesOfInv
    <3>. QED  BY <2>1, <3>1
  <2>. QED  BY <2>2, SameMade
<1>2. SomeoneIsThere' /\ Connected' \subseteq Connected
  BY StillThere
<1>. QED  BY <1>1, <1>2, Quiet

LEMMA EventsInOrder ==
    ASSUME OrderInv, NEW id \in Ids, NEW c \in Clients, TellsNews(id, c) \/ Resizes(id, c)
    PROVE  OrderInv'
<1>0. TypeInv /\ TypeInv'
  BY OrderFacts, TellsNewsKeeps, ResizesKeeps
<1>1. running[id][c] # None /\ UNCHANGED <<bridge, cache, file, tasks, toPlugins, screen, requests>>
  BY DEF TellsNews, Resizes
<1>2. running[id][c] \in Instances
  BY <1>0, <1>1, InstanceAt
<1>3. CASE TellsNews(id, c)
  <2>1. PICK news \in running[id][c].news :
           running' = [running EXCEPT ![id][c].news = @ \ {news}, ![id][c].told = news]
    BY <1>3 DEF TellsNews
  <2>. DEFINE i == [running[id][c] EXCEPT !.news = @ \ {news}, !.told = news]
  <2>2. i \in Instances
    BY <1>2 DEF Instances
  <2>3. running' = [running EXCEPT ![id][c] = i]
    BY <1>0, <2>1, TypesOfInv
  <2>. HIDE DEF i
  <2>. QED  BY <1>0, <1>1, <2>2, <2>3, OneStays
<1>4. CASE Resizes(id, c)
  <2>1. PICK r \in running[id][c].resizes :
           running' = [running EXCEPT ![id][c] = Tried(running[id][c], r)]
    BY <1>4 DEF Resizes
  <2>2. Tried(running[id][c], r) \in Instances
    BY <1>2, TriedType
  <2>. QED  BY <1>0, <1>1, <2>1, <2>2, OneStays
<1>. QED  BY <1>3, <1>4

LEMMA ToldStays ==
    ASSUME NEW f \in [Clients -> Maybe(Instances)], NEW C, NEW news \in SUBSET News
    PROVE  \A c \in Clients : Told(f, C, news)[c] # None <=> f[c] # None
<1>. DEFINE told(i) == [i EXCEPT !.news = @ \cup news]
<1>1. ASSUME NEW i \in Instances
      PROVE  told(i) # None
  <2>1. told(i) \in Instances
    BY DEF Instances
  <2>. QED  BY <2>1, NoneIsNoInstance
<1>2. Told(f, C, news) = [c \in Clients |-> IF f[c] = None \/ c \notin C THEN f[c] ELSE told(f[c])]
  BY DEF Told
<1>. HIDE DEF told
<1>3. ASSUME NEW c \in Clients, f[c] # None
      PROVE  f[c] \in Instances
  BY <1>3 DEF Maybe
<1>. QED  BY <1>1, <1>2, <1>3

LEMMA ResizedStays ==
    ASSUME NEW f \in [Clients -> Maybe(Instances)], NEW size \in Sizes,
           \A c \in Clients : f[c] # None => f[c].next + 1 \in EventIds
    PROVE  \A c \in Clients : Resized(f, size)[c] # None <=> f[c] # None
<1>. DEFINE resized(i) == [i EXCEPT !.resizes = @ \cup {<<i.next, size>>}, !.next = @ + 1]
<1>1. ASSUME NEW i \in Instances, i.next + 1 \in EventIds
      PROVE  resized(i) # None
  <2>1. i.resizes \cup {<<i.next, size>>} \in SUBSET (EventIds \X Sizes)
    BY InstanceFields
  <2>2. resized(i) \in Instances
    BY <1>1, <2>1 DEF Instances
  <2>. QED  BY <2>2, NoneIsNoInstance
<1>2. Resized(f, size) = [c \in Clients |-> IF f[c] = None THEN None ELSE resized(f[c])]
  BY DEF Resized
<1>. HIDE DEF resized
<1>3. ASSUME NEW c \in Clients, f[c] # None
      PROVE  f[c] \in Instances
  BY <1>3 DEF Maybe
<1>. QED  BY <1>1, <1>2, <1>3

LEMMA ResizePluginInOrder ==
    ASSUME OrderInv, NEW id \in Ids, NEW size \in Sizes, ResizePlugin(id, size)
    PROVE  OrderInv'
<1>0. TypeInv /\ TypeInv' /\ bridge \in Bridges /\ screen \in Screens
      /\ running \in [Ids -> [Clients -> Maybe(Instances)]]
  BY OrderFacts, ResizePluginKeeps, TypesOfInv
<1>1. /\ Requested /\ screen' = [screen EXCEPT !.size[id] = size]
      /\ UNCHANGED <<cache, file, tasks, toPlugins>>
      /\ \/ running' = [running EXCEPT ![id] = Resized(@, size)] /\ UNCHANGED bridge
         \/ bridge' = [bridge EXCEPT !.sizes[id] = size] /\ UNCHANGED running
  BY DEF ResizePlugin
<1>2. /\ screen'.open = screen.open /\ screen'.given = screen.given
      /\ screen'.failed = screen.failed
  BY <1>0, <1>1 DEF Screens
<1>3. /\ bridge'.connected = bridge.connected /\ bridge'.pending = bridge.pending
      /\ bridge'.loading = bridge.loading /\ bridge'.up = bridge.up
  BY <1>0, <1>1 DEF Bridges
<1>4. Made' = Made
  <2>1. CASE running' = [running EXCEPT ![id] = Resized(@, size)]
    <3>. DEFINE f == Resized(running[id], size)
    <3>1. \A c \in Clients : f[c] # None <=> running[id][c] # None
      BY <1>0, <1>1, RequestedFacts, ResizedStays
    <3>2. running' = [running EXCEPT ![id] = f]
      BY <2>1
    <3>. HIDE DEF f
    <3>3. ASSUME NEW d \in Ids, NEW c \in Clients
          PROVE  running'[d][c] # None <=> running[d][c] # None
      BY <1>0, <3>1, <3>2
    <3>. QED  BY <3>3, SameMade
  <2>2. CASE UNCHANGED running
    BY <2>2, SameMade
  <2>. QED  BY <1>1, <2>1, <2>2
<1>5. SomeoneIsThere' /\ Connected' \subseteq Connected
  BY <1>1, <1>3, StillThere
<1>. QED  BY <1>0, <1>1, <1>2, <1>3, <1>4, <1>5, Quiet

LEMMA UpdatesInOrder ==
    ASSUME OrderInv, Update \/ UpdateAgain
    PROVE  OrderInv'
<1>0. TypeInv /\ TypeInv' /\ bridge \in Bridges /\ screen \in Screens
      /\ running \in [Ids -> [Clients -> Maybe(Instances)]]
  BY OrderFacts, UpdateKeeps, TypesOfInv
<1>1. /\ \E news \in News : UpdatePlugins(news)
      /\ screen'.open = screen.open /\ screen'.given = screen.given
      /\ screen'.failed = screen.failed
  <2>1. CASE Update
    <3>1. Requested /\ UpdatePlugins(screen.now + 1) /\ screen' = [screen EXCEPT !.now = @ + 1]
      BY <2>1 DEF Update
    <3>2. screen.now + 1 \in News
      BY <1>0, <3>1, RequestedFacts
    <3>. QED  BY <1>0, <3>1, <3>2 DEF Screens
  <2>2. CASE UpdateAgain
    <3>1. UpdatePlugins(screen.now) /\ screen' = [screen EXCEPT !.asked = FALSE]
      BY <2>2 DEF UpdateAgain
    <3>2. screen.now \in News
      BY <1>0, ScreenFields
    <3>. QED  BY <1>0, <3>1, <3>2 DEF Screens
  <2>. QED  BY <2>1, <2>2
<1>2. PICK news \in News : UpdatePlugins(news)
  BY <1>1
<1>3. /\ running' = [id \in Ids |-> IF bridge.events[id] # None THEN running[id]
                                    ELSE Told(running[id], Clients, {news})]
      /\ UNCHANGED <<cache, file, tasks, toPlugins>>
      /\ bridge' = [bridge EXCEPT !.events =
                     [id \in Ids |-> IF bridge.events[id] = None THEN None
                                     ELSE bridge.events[id] \cup {news}]]
  BY <1>2 DEF UpdatePlugins
<1>4. /\ bridge'.connected = bridge.connected /\ bridge'.pending = bridge.pending
      /\ bridge'.loading = bridge.loading /\ bridge'.up = bridge.up
  BY <1>0, <1>3 DEF Bridges
<1>5. Made' = Made
  <2>1. ASSUME NEW id \in Ids, NEW c \in Clients
        PROVE  running'[id][c] # None <=> running[id][c] # None
    <3>1. running[id] \in [Clients -> Maybe(Instances)] /\ {news} \in SUBSET News
      BY <1>0
    <3>2. Told(running[id], Clients, {news})[c] # None <=> running[id][c] # None
      BY <3>1, ToldStays
    <3>. QED  BY <1>3, <3>2
  <2>. QED  BY <2>1, SameMade
<1>6. SomeoneIsThere' /\ Connected' \subseteq Connected
  BY <1>3, <1>4, StillThere
<1>. QED  BY <1>0, <1>1, <1>3, <1>4, <1>5, <1>6, Quiet

LEMMA RemoveClientInOrder ==
    ASSUME Calm, OrderInv, NEW c \in Clients, RemoveClient(c)
    PROVE  OrderInv'
<1>0. TypeInv /\ TypeInv' /\ bridge \in Bridges
  BY OrderFacts, RemoveClientKeeps, TypesOfInv
<1>1. /\ bridge' = [bridge EXCEPT !.connected = Others(@, c)]
      /\ Connected # {c} \/ ~(Reloading \/ bridge.pending)
      /\ UNCHANGED <<running, cache, file, tasks, toPlugins, screen>>
      /\ c \in Connected
  BY DEF RemoveClient, Calm, Happens
<1>. DEFINE left == Others(bridge.connected, c)
<1>2. left \in Seq(Clients) /\ ToSet(left) = Connected \ {c}
  BY <1>0, BridgeFields, OthersFacts DEF Connected
<1>3. bridge' = [bridge EXCEPT !.connected = left]
  BY <1>1
<1>. HIDE DEF left
<1>4. /\ bridge'.connected = left /\ bridge'.pending = bridge.pending
      /\ bridge'.loading = bridge.loading /\ bridge'.up = bridge.up
  BY <1>0, <1>3 DEF Bridges
<1>5. Made' = Made /\ Connected' \subseteq Connected
  BY <1>1, <1>2, <1>4, SameMade DEF Connected
<1>6. SomeoneIsThere'
  <2>1. Reloading' <=> Reloading
    BY <1>1 DEF Reloading, Busy
  <2>2. Connected # {c} => left # <<>>
    <3>1. Connected # {c} => ToSet(left) # {}
      BY <1>1, <1>2
    <3>. QED  BY <3>1, SetOfOne
  <2>. QED  BY <1>1, <1>4, <2>1, <2>2 DEF SomeoneIsThere
<1>. QED  BY <1>0, <1>1, <1>4, <1>5, <1>6, Quiet

----------------------------------------------------------------------------
(* Plugins come and go *)

LEMMA FineWithout ==
    ASSUME NEW q \in Seq(Steps), NEW P, NEW C, NEW Q, NEW id, Fine(q, P, C),
           \A s \in ToSet(q) : s.id # id, \A k \in P : k[1] # id => k \in Q
    PROVE  Fine(q, Q, C)
<1>1. ASSUME NEW i \in 1 .. Len(q)
      PROVE  Needs(q[i], Q \cup Before(q, i), C)
  <2>. DEFINE s == q[i]
              B == Before(q, i)
  <2>1. Needs(s, P \cup B, C) /\ s \in ToSet(q)
    <3>1. Needs(s, P \cup B, C)
      BY DEF Fine
    <3>2. s \in ToSet(q)
      BY NotEmpty DEF ToSet
    <3>. QED  BY <3>1, <3>2
  <2>2. s.id # id
    BY <2>1
  <2>. HIDE DEF s, B
  <2>3. \A c : <<s.id, c>> \in P \cup B => <<s.id, c>> \in Q \cup B
    BY <2>2
  <2>4. Needs(s, Q \cup B, C)
    BY <2>1, <2>3 DEF Needs
  <2>. QED  BY <2>4 DEF s, B
<1>. QED  BY <1>1 DEF Fine

(* The plugins that are loaded are not the one that is closed.             *)
LEMMA UnloadInOrder ==
    ASSUME Calm, OrderInv, NEW id \in Ids, Unload(id)
    PROVE  OrderInv'
<1>0. /\ TypeInv /\ TypeInv' /\ AllTidy /\ Apart /\ SomeoneIsThere /\ bridge.up
      /\ screen.failed = {} /\ screen \in Screens /\ Main \in Workers
  BY OrderFacts, UnloadKeeps, TypesOfInv DEF Workers
<1>1. /\ running' = [running EXCEPT ![id] = [c \in Clients |-> None]]
      /\ screen' = [screen EXCEPT !.open = @ \ {id}] /\ ~Busy(Main)
      /\ UNCHANGED <<bridge, cache, file, tasks, toPlugins>>
      /\ \A w \in Ids : Busy(w) => id \notin tasks[w].ids
  BY DEF Unload, Requested, MainIsIdle, Calm, Happens
<1>2. /\ screen'.open = screen.open \ {id} /\ screen'.given = screen.given
      /\ screen'.failed = {}
  BY <1>0, <1>1 DEF Screens
<1>3. /\ \A w \in Workers : StepsOf(w)' = StepsOf(w) /\ (Busy(w)' <=> Busy(w))
                                 /\ Current(w)' = Current(w)
      /\ Ids \subseteq Workers
  BY <1>0, <1>1, SameTasks
<1>4. \A k : k \in Made' <=> k \in Made /\ k[1] # id
  <2>1. ASSUME NEW d \in Ids, NEW c \in Clients
        PROVE  running'[d][c] = IF d = id THEN None ELSE running[d][c]
    BY <1>0, <1>1, TypesOfInv
  <2>2. ASSUME NEW d \in Ids, NEW c \in Clients
        PROVE  <<d, c>> \in Made' <=> <<d, c>> \in Made /\ d # id
    BY <2>1, MadeFacts, MadeNext
  <2>3. Made \in SUBSET (Ids \X Clients) /\ Made' \in SUBSET (Ids \X Clients)
    BY MadeFacts, MadeNext
  <2>4. ASSUME NEW k \in Ids \X Clients
        PROVE  k \in Made' <=> k \in Made /\ k[1] # id
    <3>1. k = <<k[1], k[2]>> /\ k[1] \in Ids /\ k[2] \in Clients
      OBVIOUS
    <3>. QED  BY <2>2, <3>1
  <2>. QED  BY <2>3, <2>4
<1>5. ASSUME NEW w \in Workers
      PROVE  \A s \in StepsOf(w) : s.id # id
  <2>1. CASE Busy(w)
    <3>1. w \in Ids /\ Tidy(w) /\ id \notin tasks[w].ids
      BY <1>0, <1>1, <2>1 DEF AllTidy, Workers
    <3>. QED  BY <3>1, NoneIsNone DEF Tidy
  <2>2. CASE ~Busy(w)
    <3>1. StepsOf(w) = {}
      BY <2>2, SetOfOne DEF Busy, StepsOf
    <3>. QED  BY <3>1
  <2>. QED  BY <2>1, <2>2
<1>6. \A k : k \in Has' <=> k \in Has /\ k[1] # id
  <2>. DEFINE P == {k \in Ids \X Clients : \E w \in Workers : k \in PutsOf(StepsOf(w))}
  <2>1. \A w \in Workers : PutsOf(StepsOf(w))' = PutsOf(StepsOf(w))
    BY <1>3 DEF PutsOf
  <2>2. \A k \in P : k[1] # id
    BY <1>5 DEF PutsOf
  <2>3. Has = Made \cup P /\ Has' = Made' \cup P
    BY <2>1 DEF Has
  <2>. HIDE DEF P
  <2>. QED  BY <1>4, <2>2, <2>3
<1>7. AllFine'
  <2>1. ASSUME NEW w \in Workers
        PROVE  Fine(tasks'[w].steps, Made', Connected') /\ Ends(tasks'[w].steps)
    <3>. DEFINE q == tasks[w].steps
    <3>1. Fine(q, Made, Connected) /\ Ends(q) /\ q \in Seq(Steps)
      BY <1>0, OrderFacts, TypesOfInv, TaskFields DEF AllFine
    <3>2. \A s \in ToSet(q) : s.id # id
      BY <1>5 DEF StepsOf
    <3>. HIDE DEF q
    <3>3. Fine(q, Made', Connected)
      BY <1>4, <3>1, <3>2, FineWithout
    <3>4. Connected' = Connected /\ tasks'[w].steps = q
      BY <1>1 DEF Connected, q
    <3>. QED  BY <3>1, <3>3, <3>4
  <2>. QED  BY <2>1 DEF AllFine, Fine, Needs, Before, Ends, PutsOf
<1>8. AllHave' /\ OpenHave'
  <2>1. IdsOf(Has') = IdsOf(Has) \ {id} /\ IdsOf(Has)' = IdsOf(Has')
    BY <1>6 DEF IdsOf
  <2>2. Cloning' = Cloning /\ Listed' = Listed
    BY <1>0, <1>1, <1>3 DEF Cloning, Listed, Connected, ClonesOf, PushesOf
  <2>3. \A d \in IdsOf(Has') : d \in Cloning' \/ \A c \in Listed' : <<d, c>> \in Has'
    BY <1>6, <2>1, <2>2, OrderFacts DEF AllHave
  <2>. QED  BY <1>2, <2>1, <2>3, OrderFacts DEF AllHave, OpenHave
<1>9. ModuleStays'
  <2>1. NoModule' <=> NoModule
    BY <1>1 DEF NoModule
  <2>. QED  BY <1>3, <1>4, <2>1, OrderFacts DEF ModuleStays
<1>10. AllTidy'
  <2>1. ASSUME NEW v \in Ids, Busy(v)'
        PROVE  Tidy(v)'
    <3>1. v \in Workers /\ Busy(v) /\ Tidy(v) /\ StepsOf(v)' = StepsOf(v)
      BY <1>0, <1>3, <2>1 DEF AllTidy
    <3>2. v # id
      BY <1>1, <3>1 DEF Tidy
    <3>3. v \in IdsOf(Made) => v \in IdsOf(Made)'
      BY <1>4, <3>2 DEF IdsOf
    <3>4. ClonesOf(StepsOf(v))' = ClonesOf(StepsOf(v))
      BY <3>1 DEF ClonesOf
    <3>5. tasks' = tasks /\ bridge' = bridge /\ toPlugins' = toPlugins
      BY <1>1
    <3>. QED  BY <1>2, <1>3, <3>1, <3>3, <3>4, <3>5 DEF Tidy
  <2>. QED  BY <2>1 DEF AllTidy
<1>11. Apart'
  BY <1>0, <1>1, <1>2, <1>3 DEF Apart
<1>12. SomeoneIsThere'
  BY <1>1, StillThere
<1>13. NothingFails'
  BY <1>0, <1>1, <1>2 DEF NothingFails
<1>. QED  BY <1>0, <1>7, <1>8, <1>9, <1>10, <1>11, <1>12, <1>13 DEF OrderInv

(* The steps of a plugin that starts                                       *)
LEMMA StartSteps ==
    ASSUME NEW id \in Ids, NEW c \in Clients, NEW P, NEW C
    PROVE  LET q == <<Step("load", id, c), Step("put", id, c), Step("clone", id, c),
                      Step("loaded", id, None), Step("done", None, None)>>
           IN  /\ Fine(q, P, C) /\ Ends(q) /\ q # <<>> /\ q[1].do = "load"
               /\ \A s \in ToSet(q) : s.id \in {id, None} /\ s.do \notin {"again", "memory", "push"}
               /\ PutsOf(ToSet(q)) = {<<id, c>>} /\ ClonesOf(ToSet(q)) = {id}
               /\ PushesOf(ToSet(q)) = {}
<1>. DEFINE a == Step("load", id, c)
            b == Step("put", id, c)
            d == Step("clone", id, c)
            e == Step("loaded", id, None)
            f == Step("done", None, None)
            q == <<a, b, d, e, f>>
<1>1. /\ a.do = "load" /\ a.id = id /\ a.client = c
      /\ b.do = "put" /\ b.id = id /\ b.client = c
      /\ d.do = "clone" /\ d.id = id /\ d.client = c
      /\ e.do = "loaded" /\ e.id = id
      /\ f.do = "done" /\ f.id = None
  BY StepFields
<1>. HIDE DEF a, b, d, e, f
<1>2. /\ Len(q) = 5 /\ q[1] = a /\ q[2] = b /\ q[3] = d /\ q[4] = e /\ q[5] = f
      /\ DOMAIN q = 1 .. 5 /\ q # <<>>
  OBVIOUS
<1>. HIDE DEF q
<1>3. 1 .. 5 = {1, 2, 3, 4, 5} /\ 1 .. 5 - 1 = {1, 2, 3, 4} /\ 1 .. 3 - 1 = {1, 2}
  OBVIOUS
<1>4. ToSet(q) = {a, b, d, e, f}
  BY <1>2, <1>3 DEF ToSet
<1>5. Ends(q)
  BY <1>1, <1>2, <1>3 DEF Ends
<1>6. Fine(q, P, C)
  <2>1. <<id, c>> \in Before(q, 3)
    <3>1. b \in {q[j] : j \in 1 .. 3 - 1}
      BY <1>2, <1>3
    <3>. QED  BY <1>1, <3>1 DEF Before, PutsOf
  <2>2. Needs(q[3], P \cup Before(q, 3), C)
    BY <1>1, <1>2, <2>1 DEF Needs
  <2>3. ASSUME NEW i \in 1 .. 5, i # 3
        PROVE  Needs(q[i], P \cup Before(q, i), C)
    BY <1>1, <1>2, <1>3, <2>3 DEF Needs
  <2>4. \A i \in 1 .. 5 : Needs(q[i], P \cup Before(q, i), C)
    BY <2>2, <2>3
  <2>. QED  BY <1>2, <2>4 DEF Fine
<1>7. \A s \in ToSet(q) : s.id \in {id, None} /\ s.do \notin {"again", "memory", "push"}
  BY <1>1, <1>4
<1>8. PutsOf(ToSet(q)) = {<<id, c>>} /\ ClonesOf(ToSet(q)) = {id} /\ PushesOf(ToSet(q)) = {}
  <2>1. PutsOf({a, b, d, e, f}) = {<<id, c>>}
    BY <1>1 DEF PutsOf
  <2>2. ClonesOf({a, b, d, e, f}) = {id}
    BY <1>1 DEF ClonesOf
  <2>3. PushesOf({a, b, d, e, f}) = {}
    BY <1>1 DEF PushesOf
  <2>. QED  BY <1>4, <2>1, <2>2, <2>3
<1>. QED  BY <1>1, <1>2, <1>5, <1>6, <1>7, <1>8 DEF q, a, b, d, e, f

LEMMA LoadPluginInOrder ==
    ASSUME Calm, OrderInv, TypeInv', Requested, NEW id \in Ids, NEW c \in Clients,
           LoadPlugin(id, c), UNCHANGED <<running, cache, toPlugins>>
    PROVE  OrderInv'
<1>. DEFINE q == <<Step("load", id, c), Step("put", id, c), Step("clone", id, c),
                   Step("loaded", id, None), Step("done", None, None)>>
            u == Task("start", {id}, screen.size[id], q)
            size == screen.size[id]
<1>0. /\ TypeInv /\ AllTidy /\ Apart /\ SomeoneIsThere /\ bridge.up
      /\ screen.failed = {} /\ screen \in Screens /\ bridge \in Bridges
  BY OrderFacts, TypesOfInv
<1>1. /\ tasks' = [tasks EXCEPT ![id] = u]
      /\ bridge' = [bridge EXCEPT !.loading = @ \cup {id}, !.events[id] = {}, !.sizes[id] = size]
      /\ screen' = [screen EXCEPT !.open = @ \cup {id}, !.given = @ \cup {id}]
      /\ id \notin screen.given /\ ~Reloading
  BY DEF LoadPlugin, Calm, Happens
<1>2. /\ Fine(q, Made, Connected) /\ Ends(q) /\ q # <<>> /\ q[1].do = "load"
      /\ \A s \in ToSet(q) : s.id \in {id, None} /\ s.do \notin {"again", "memory", "push"}
      /\ PutsOf(ToSet(q)) = {<<id, c>>} /\ ClonesOf(ToSet(q)) = {id}
      /\ PushesOf(ToSet(q)) = {}
  BY StartSteps
<1>3. u.steps = q /\ u.ids = {id} /\ u.for = "start" /\ u.module = None
  BY DEF Task
<1>. HIDE DEF q, u, size
<1>4. /\ bridge'.connected = bridge.connected /\ bridge'.pending = bridge.pending
      /\ bridge'.loading = bridge.loading \cup {id} /\ bridge'.up = bridge.up
      /\ screen'.open = screen.open \cup {id} /\ screen'.given = screen.given \cup {id}
      /\ screen'.failed = {}
  BY <1>0, <1>1 DEF Bridges, Screens
<1>5. id \in Workers /\ id # Main /\ Main \in Workers /\ ~Busy(Main)
  BY NoneIsNone DEF Workers, Requested, MainIsIdle
<1>6. ~Busy(id) /\ tasks[id].module = None /\ StepsOf(id) = {}
  <2>1. ~Busy(id)
    BY <1>0, <1>1 DEF AllTidy, Tidy
  <2>2. TaskOK(id, tasks[id]) /\ tasks[id].steps = <<>>
    BY <1>0, <1>5, <2>1, TypesOfInv DEF Busy
  <2>. QED  BY <2>1, <2>2, SetOfOne DEF TaskOK, StepsOf
<1>7. /\ tasks'[id] = u /\ StepsOf(id)' = ToSet(q)
      /\ \A v \in Workers : v # id => tasks'[v] = tasks[v] /\ StepsOf(v)' = StepsOf(v)
                                      /\ (Busy(v)' <=> Busy(v))
  BY <1>0, <1>1, <1>3, <1>5, OthersStay
<1>8. Made' = Made /\ Connected' = Connected
  BY <1>4, SameMade DEF Connected
<1>9. AllFine'
  BY <1>1, <1>2, <1>3, <1>5, <1>8, FineKept
<1>10. Has' = Has \cup {<<id, c>>}
  <2>. DEFINE P == {k \in Ids \X Clients : \E w \in Workers : k \in PutsOf(StepsOf(w))}
              Q == {k \in Ids \X Clients : \E w \in Workers : k \in PutsOf(StepsOf(w)')}
  <2>1. Has = Made \cup P /\ Has' = Made' \cup Q
    BY DEF Has, PutsOf
  <2>2. \A w \in Workers : w # id => PutsOf(StepsOf(w)') = PutsOf(StepsOf(w))
    BY <1>7
  <2>3. PutsOf(StepsOf(id)') = {<<id, c>>} /\ PutsOf(StepsOf(id)) = {}
    BY <1>2, <1>6, <1>7, NoPuts
  <2>4. Q = P \cup {<<id, c>>}
    BY <1>5, <2>2, <2>3
  <2>. QED  BY <1>8, <2>1, <2>4
<1>11. AllHave' /\ OpenHave'
  <2>1. IdsOf(Has') = IdsOf(Has) \cup {id}
    <3>. DEFINE H == Has
                G == Has'
    <3>1. G = H \cup {<<id, c>>}
      BY <1>10
    <3>. HIDE DEF H, G
    <3>2. IdsOf(G) = IdsOf(H) \cup IdsOf({<<id, c>>})
      BY <3>1 DEF IdsOf
    <3>3. IdsOf({<<id, c>>}) = {id}
      BY DEF IdsOf
    <3>. QED  BY <3>2, <3>3 DEF H, G
  <2>2. id \in Cloning'
    BY <1>2, <1>5, <1>7 DEF Cloning, ClonesOf
  <2>3. ClonesOf(StepsOf(id)) = {}
    BY <1>6, NoPuts
  <2>4. (\A d \in Cloning : d \in Cloning') /\ Listed' = Listed
    BY <1>0, <1>1, <1>5, <1>8, <2>3, ClonesKept DEF Listed
  <2>5. \A d \in IdsOf(Has') : d \in Cloning' \/ \A e \in Listed' : <<d, e>> \in Has'
    BY <1>10, <2>1, <2>2, <2>4, OrderFacts DEF AllHave
  <2>. QED  BY <1>4, <2>1, <2>5, OrderFacts DEF AllHave, OpenHave
<1>12. ModuleStays'
  <2>1. NoModule' => NoModule
    BY <1>6, <1>7 DEF NoModule
  <2>2. ASSUME NEW w \in Workers, Busy(w)', w # id
        PROVE  Busy(w) /\ Current(w)' = Current(w)
    BY <1>7, <2>2 DEF Current
  <2>3. Current(id)' = q[1]
    <3>1. Current(id)' = Head(tasks'[id].steps) /\ q \in Seq(Steps)
      BY <1>3, <1>5, <1>7, TypesOfInv, TaskFields DEF Current, TypeInv, TypeOK
    <3>. QED  BY <1>2, <1>3, <1>7, <3>1, TailFacts
  <2>. QED  BY <1>2, <1>8, <2>1, <2>2, <2>3, OrderFacts DEF ModuleStays
<1>13. AllTidy'
  <2>1. ASSUME NEW v \in Ids, Busy(v)'
        PROVE  Tidy(v)'
    <3>1. CASE v = id
      <4>1. ClonesOf(StepsOf(v))' = {id}
        BY <1>2, <1>7, <3>1 DEF ClonesOf
      <4>. QED  BY <1>2, <1>3, <1>4, <1>7, <3>1, <4>1 DEF Tidy
    <3>2. CASE v # id
      <4>1. v \in Workers /\ Busy(v) /\ Tidy(v) /\ StepsOf(v)' = StepsOf(v) /\ tasks'[v] = tasks[v]
        BY <1>0, <1>7, <2>1, <3>2 DEF AllTidy, Workers
      <4>2. tasks[v].for = "start"
        BY <1>1, <4>1 DEF Reloading
      <4>3. IdsOf(Made)' = IdsOf(Made) /\ ClonesOf(StepsOf(v))' = ClonesOf(StepsOf(v))
        BY <1>8, <4>1 DEF IdsOf, ClonesOf
      <4>. QED  BY <1>4, <4>1, <4>2, <4>3 DEF Tidy
    <3>. QED  BY <3>1, <3>2
  <2>. QED  BY <2>1 DEF AllTidy
<1>14. Apart'
  <2>1. \A v \in Ids : Busy(v)' /\ v # id =>
           Busy(v) /\ tasks'[v].ids = tasks[v].ids /\ tasks[v].ids \subseteq screen.given
    BY <1>0, <1>7 DEF Workers, AllTidy, Tidy
  <2>2. tasks'[id].ids = {id}
    BY <1>3, <1>7
  <2>3. ASSUME NEW v \in Ids, NEW w \in Ids, Busy(v)', Busy(w)', v # w
        PROVE  tasks'[v].ids \cap tasks'[w].ids = {}
    BY <1>0, <1>1, <2>1, <2>2, <2>3 DEF Apart
  <2>4. ASSUME NEW v \in Ids, NEW k \in 1 .. Len(toPlugins), Busy(v)'
        PROVE  toPlugins[k] \cap tasks'[v].ids = {}
    BY <1>0, <1>1, <2>1, <2>2, <2>4 DEF Apart
  <2>5. toPlugins' = toPlugins
    OBVIOUS
  <2>. QED  BY <1>0, <1>4, <2>3, <2>4, <2>5 DEF Apart
<1>15. SomeoneIsThere'
  <2>1. ASSUME NEW v \in Ids, Busy(v)'
        PROVE  tasks'[v].for = "start"
    <3>1. CASE v = id
      BY <1>3, <1>7, <3>1
    <3>2. CASE v # id
      BY <1>1, <1>7, <2>1, <3>2 DEF Reloading, Workers
    <3>. QED  BY <3>1, <3>2
  <2>2. ~Reloading'
    BY <2>1 DEF Reloading
  <2>. QED  BY <1>0, <1>4, <2>2 DEF SomeoneIsThere
<1>16. NothingFails'
  BY <1>0, <1>4 DEF NothingFails
<1>. QED  BY <1>9, <1>11, <1>12, <1>13, <1>14, <1>15, <1>16 DEF OrderInv

(* The steps of a client that comes: one of each plugin in ids              *)
LEMMA ClientSteps ==
    ASSUME NEW n \in Nat, NEW order \in [1 .. n -> Ids], NEW c \in Clients, NEW P, NEW C,
           \A i \in 1 .. n : \E d \in Clients : <<order[i], d>> \in P
    PROVE  LET q == FlattenSeq([i \in DOMAIN order |-> <<Step("copy", order[i], c),
                                                         Step("put", order[i], c)>>])
                      \o <<Step("push", None, c)>>
           IN  /\ q \in Seq(Steps) /\ Fine(q, P, C) /\ Ends(q)
               /\ PutsOf(ToSet(q)) = {<<order[i], c>> : i \in 1 .. n}
               /\ ClonesOf(ToSet(q)) = {} /\ PushesOf(ToSet(q)) = {c}
               /\ n = 0 => \A s \in ToSet(q) : s.do = "push"
<1>. DEFINE cs == [i \in 1 .. n |-> c]
            a == FlattenSeq([i \in 1 .. n |-> <<Step("copy", order[i], cs[i]),
                                                Step("put", order[i], cs[i])>>])
            l == Step("push", None, c)
            z == <<l>>
<1>1. cs \in [1 .. n -> Clients] /\ \A i \in 1 .. n : cs[i] = c
  OBVIOUS
<1>2. [i \in 1 .. n |-> <<Step("copy", order[i], cs[i]), Step("put", order[i], cs[i])>>]
        = [i \in DOMAIN order |-> <<Step("copy", order[i], c), Step("put", order[i], c)>>]
  OBVIOUS
<1>3. a \o z = FlattenSeq([i \in DOMAIN order |-> <<Step("copy", order[i], c),
                                                    Step("put", order[i], c)>>])
                 \o <<Step("push", None, c)>>
  BY <1>2
<1>4. AreCopies(a, order, cs, n)
  <2>. HIDE DEF cs
  <2>. QED  BY <1>1, FlatCopies
<1>. HIDE DEF cs, a
<1>5. /\ a \in Seq(Steps)
      /\ \A s \in ToSet(a) : \E i \in 1 .. n :
            s.do \in {"copy", "put"} /\ s.id = order[i] /\ s.client = cs[i]
      /\ PutsOf(ToSet(a)) = {<<order[i], cs[i]>> : i \in 1 .. n}
  BY <1>1, <1>4, CopiesSet
<1>6. l \in Steps /\ l.do = "push" /\ l.client = c
  BY DEF Step, Steps, Maybe
<1>. HIDE DEF l
<1>7. z \in Seq(Steps) /\ ToSet(z) = {l} /\ Len(z) = 1
  BY <1>6, SetOfOne
<1>. HIDE DEF z
<1>. DEFINE q == a \o z
<1>8. q \in Seq(Steps) /\ ToSet(q) = ToSet(a) \cup {l}
  BY <1>5, <1>7, SetOfSeq, ConcatFacts
<1>9. Fine(q, P, C)
  <2>1. Fine(a, P, C)
    <3>1. \A s \in ToSet(a) : Needs(s, P, C)
      BY <1>5 DEF Needs
    <3>. QED  BY <1>5, <3>1, FineGiven
  <2>2. Fine(z, P \cup PutsOf(ToSet(a)), C)
    <3>. DEFINE Q == P \cup PutsOf(ToSet(a))
    <3>. HIDE DEF Q
    <3>1. \A s \in ToSet(z) : Needs(s, Q, C)
      BY <1>6, <1>7 DEF Needs
    <3>2. Fine(z, Q, C)
      BY <1>7, <3>1, FineGiven
    <3>. QED  BY <3>2 DEF Q
  <2>. QED  BY <1>5, <1>7, <2>1, <2>2, FineJoin
<1>10. Ends(q)
  <2>1. Ends(z)
    BY <1>7 DEF Ends
  <2>2. \A s \in ToSet(a) : s.do \notin {"done", "push"}
    BY <1>5
  <2>. QED  BY <1>5, <1>7, <2>1, <2>2, EndsJoin
<1>. DEFINE A == ToSet(a)
<1>11. /\ PutsOf(A) = {<<order[i], c>> : i \in 1 .. n}
       /\ ClonesOf(A) = {} /\ PushesOf(A) = {}
  <2>1. \A s \in A : s.do # "clone" /\ s.do # "push"
    BY <1>5
  <2>2. PutsOf(A) = {<<order[i], c>> : i \in 1 .. n}
    BY <1>1, <1>5
  <2>. HIDE DEF A
  <2>. QED  BY <2>1, <2>2, NoPuts
<1>12. PutsOf({l}) = {} /\ ClonesOf({l}) = {} /\ PushesOf({l}) = {c}
  <2>1. PushesOf({l}) = {c}
    BY <1>6 DEF PushesOf
  <2>. QED  BY <1>6, <2>1, NoPuts
<1>13. ToSet(q) = A \cup {l}
  BY <1>8
<1>14. n = 0 => \A s \in ToSet(q) : s.do = "push"
  BY <1>5, <1>6, <1>8
<1>. HIDE DEF A, q
<1>15. /\ PutsOf(ToSet(q)) = {<<order[i], c>> : i \in 1 .. n}
       /\ ClonesOf(ToSet(q)) = {} /\ PushesOf(ToSet(q)) = {c}
  <2>1. /\ PutsOf(A \cup {l}) = PutsOf(A) \cup PutsOf({l})
        /\ ClonesOf(A \cup {l}) = ClonesOf(A) \cup ClonesOf({l})
        /\ PushesOf(A \cup {l}) = PushesOf(A) \cup PushesOf({l})
    BY ONLY PutsTogether
  <2>. QED  BY <1>11, <1>12, <1>13, <2>1
<1>. QED  BY <1>3, <1>8, <1>9, <1>10, <1>14, <1>15 DEF q

(* A plugin that is made for the others, and not yet listed when the client *)
(* comes, is one that is still to be cloned, for the client too.           *)
LEMMA AddClientInOrder ==
    ASSUME Calm, OrderInv, NEW c \in Clients, AddClient(c)
    PROVE  OrderInv'
<1>. DEFINE q(order) == FlattenSeq([i \in DOMAIN order |-> <<Step("copy", order[i], c),
                                                             Step("put", order[i], c)>>])
                          \o <<Step("push", None, c)>>
            n == Cardinality(RunningIn(running))
<1>0. /\ TypeInv /\ TypeInv' /\ AllTidy /\ Apart /\ SomeoneIsThere /\ bridge.up
      /\ screen.failed = {} /\ Main \in Workers
  BY OrderFacts, AddClientKeeps DEF Workers
<1>1. /\ ~Busy(Main) /\ ~Reloading
      /\ bridge' = bridge /\ running' = running /\ cache' = cache
      /\ toPlugins' = toPlugins /\ screen' = screen
  BY DEF AddClient, Calm, Happens, Requested, MainIsIdle
<1>2. PICK order \in SetToSeqs(RunningIn(running)) :
         tasks' = [tasks EXCEPT ![Main] = Task("client", {}, None, q(order))]
  BY DEF AddClient
<1>3. RunningIn(running) \in SUBSET Ids /\ IsFiniteSet(RunningIn(running))
  <2>1. RunningIn(running) \in SUBSET Ids
    BY DEF RunningIn, InstancesIn
  <2>. QED  BY <2>1, FS_Subset, PluginsAssumption
<1>4. /\ n \in Nat /\ order \in [1 .. n -> Ids] /\ ToSet(order) = IdsOf(Made)
      /\ order \in [1 .. n -> IdsOf(Made)]
  BY <1>2, <1>3, InOrder, MadeFacts
<1>. HIDE DEF n
<1>. DEFINE p == q(order)
            u == Task("client", {}, None, p)
<1>5. /\ p \in Seq(Steps) /\ Fine(p, Made, Connected) /\ Ends(p)
      /\ PutsOf(ToSet(p)) = {<<order[i], c>> : i \in 1 .. n}
      /\ ClonesOf(ToSet(p)) = {} /\ PushesOf(ToSet(p)) = {c}
      /\ n = 0 => \A s \in ToSet(p) : s.do = "push"
  <2>1. ASSUME NEW i \in 1 .. n
        PROVE  \E d \in Clients : <<order[i], d>> \in Made
    <3>1. order[i] \in IdsOf(Made)
      BY <1>4
    <3>2. PICK k \in Made : order[i] = k[1]
      BY <3>1 DEF IdsOf
    <3>3. k[2] \in Clients /\ k = <<k[1], k[2]>>
      BY MadeFacts
    <3>. QED  BY <3>2, <3>3
  <2>. QED  BY <1>4, <2>1, ClientSteps
<1>6. PutsOf(ToSet(p)) = {<<d, c>> : d \in IdsOf(Made)}
  <2>1. DOMAIN order = 1 .. n
    BY <1>4
  <2>2. IdsOf(Made) = {order[i] : i \in 1 .. n}
    BY <1>4, <2>1 DEF ToSet
  <2>. QED  BY <1>5, <2>2
<1>7. tasks' = [tasks EXCEPT ![Main] = u] /\ u.steps = p /\ u.module = None
  BY <1>2 DEF Task
<1>. HIDE DEF p, u
<1>8. StepsOf(Main) = {} /\ tasks[Main].module = None
  <2>1. TaskOK(Main, tasks[Main]) /\ tasks[Main].steps = <<>>
    BY <1>0, <1>1, TypesOfInv DEF Busy
  <2>. QED  BY <2>1, SetOfOne DEF TaskOK, StepsOf
<1>9. /\ tasks'[Main] = u /\ StepsOf(Main)' = ToSet(p)
      /\ \A v \in Workers : v # Main => tasks'[v] = tasks[v] /\ StepsOf(v)' = StepsOf(v)
                                        /\ (Busy(v)' <=> Busy(v))
      /\ Ids \subseteq Workers /\ \A v \in Ids : v # Main
  BY <1>0, <1>7, OthersStay, NoneIsNone
<1>10. Made' = Made /\ Connected' = Connected
  BY <1>1, SameMade DEF Connected
<1>11. AllFine'
  BY <1>0, <1>5, <1>7, <1>10, FineKept
<1>12. Has \subseteq Has' /\ IdsOf(Has') = IdsOf(Has)
       /\ Made' \cup PutsOf(ToSet(p)) \subseteq Has'
  <2>1. PutsOf(StepsOf(Main)) = {}
    BY <1>8, NoPuts
  <2>. DEFINE Q == PutsOf(ToSet(p))
  <2>2. \A k \in Q : k[1] \in IdsOf(Made)
    BY <1>6
  <2>. HIDE DEF Q
  <2>3. IdsOf(Made' \cup Q) \subseteq IdsOf(Made)
    BY <1>10, <2>2 DEF IdsOf
  <2>4. /\ Made \cup PutsOf(StepsOf(Main)) \subseteq Made' \cup PutsOf(ToSet(u.steps))
        /\ IdsOf(Made' \cup PutsOf(ToSet(u.steps))) \subseteq IdsOf(Made \cup PutsOf(StepsOf(Main)))
    BY <1>7, <1>10, <2>1, <2>3 DEF Q
  <2>. QED  BY <1>0, <1>7, <2>4, HasKept
<1>13. \A d \in IdsOf(Has) : d \in IdsOf(Made) \/ d \in Cloning
  <2>1. ASSUME NEW k \in Has, k \notin Made
        PROVE  k[1] \in IdsOf(Made) \/ k[1] \in Cloning
    <3>1. PICK v \in Workers : k \in PutsOf(StepsOf(v))
      BY <2>1 DEF Has
    <3>2. PICK s \in StepsOf(v) : s.id = k[1] /\ k[1] \in Ids
      BY <3>1 DEF PutsOf
    <3>3. v \in Ids /\ Busy(v)
      <4>1. v # Main
        BY <1>8, <3>2
      <4>2. Busy(v)
        BY <3>2, SetOfOne DEF StepsOf, Busy
      <4>. QED  BY <4>1, <4>2 DEF Workers
    <3>4. Tidy(v) /\ tasks[v].for = "start"
      BY <1>0, <1>1, <3>3 DEF AllTidy, Reloading
    <3>5. k[1] = v
      BY <3>2, <3>4, NoneIsNone DEF Tidy
    <3>6. v \in IdsOf(Made) \/ v \in ClonesOf(StepsOf(v))
      BY <3>4 DEF Tidy
    <3>. QED  BY <1>9, <3>3, <3>5, <3>6 DEF Cloning
  <2>. QED  BY <2>1 DEF IdsOf
<1>14. AllHave' /\ OpenHave'
  <2>1. \A d \in Cloning : d \in Cloning'
    <3>1. ClonesOf(StepsOf(Main)) = {}
      BY <1>8, NoPuts
    <3>. QED  BY <1>0, <1>7, <3>1, ClonesKept
  <2>2. Listed' = Connected \cup {c} /\ Connected \subseteq Listed
    BY <1>0, <1>5, <1>7, <1>10, ClonesKept DEF Listed
  <2>3. IdsOf(Has)' = IdsOf(Has')
    BY DEF IdsOf
  <2>4. ASSUME NEW d \in IdsOf(Has'), d \notin Cloning', NEW e \in Listed'
        PROVE  <<d, e>> \in Has'
    <3>1. d \in IdsOf(Has) /\ d \notin Cloning /\ d \in IdsOf(Made)
      BY <1>12, <1>13, <2>1, <2>4
    <3>2. CASE e \in Connected
      BY <1>12, <2>2, <3>1, <3>2, OrderFacts DEF AllHave
    <3>3. CASE e = c
      BY <1>6, <1>12, <3>1, <3>3
    <3>. QED  BY <2>2, <3>2, <3>3
  <2>. QED  BY <1>1, <1>12, <2>3, <2>4, OrderFacts DEF AllHave, OpenHave
<1>15. ModuleStays'
  <2>1. NoModule' => NoModule
    BY <1>1, <1>8, <1>9 DEF NoModule
  <2>2. ASSUME NEW w \in Workers, Busy(w)', w # Main
        PROVE  Busy(w) /\ Current(w)' = Current(w)
    BY <1>9, <2>2 DEF Current
  <2>3. ASSUME Made = {}, Busy(Main)'
        PROVE  Current(Main)'.do = "push"
    <3>1. n = 0
      <4>1. n > 0 => 1 \in 1 .. n
        BY <1>4
      <4>2. IdsOf(Made) = {}
        BY <2>3 DEF IdsOf
      <4>. QED  BY <1>4, <4>1, <4>2
    <3>2. p # <<>> /\ Current(Main)' = p[1] /\ p[1] \in ToSet(p)
      <4>1. p # <<>>
        BY <1>7, <1>9, <2>3 DEF Busy
      <4>2. p[1] = Head(p) /\ 1 \in DOMAIN p
        BY <1>5, <4>1, TailFacts, NotEmpty
      <4>. QED  BY <1>7, <1>9, <4>1, <4>2 DEF Current, ToSet
    <3>. QED  BY <1>5, <3>1, <3>2
  <2>. QED  BY <1>10, <2>1, <2>2, <2>3, OrderFacts DEF ModuleStays
<1>16. AllTidy'
  <2>1. ASSUME NEW v \in Ids, Busy(v)'
        PROVE  Tidy(v)'
    <3>1. v \in Workers /\ Busy(v) /\ Tidy(v) /\ StepsOf(v)' = StepsOf(v) /\ tasks'[v] = tasks[v]
      BY <1>0, <1>9, <2>1 DEF AllTidy
    <3>2. tasks[v].for = "start"
      BY <1>1, <3>1 DEF Reloading
    <3>3. IdsOf(Made)' = IdsOf(Made) /\ ClonesOf(StepsOf(v))' = ClonesOf(StepsOf(v))
      BY <1>10, <3>1 DEF IdsOf, ClonesOf
    <3>. QED  BY <1>1, <3>1, <3>2, <3>3 DEF Tidy
  <2>. QED  BY <2>1 DEF AllTidy
<1>17. Apart'
  <2>1. \A v \in Ids : (Busy(v)' <=> Busy(v)) /\ tasks'[v].ids = tasks[v].ids
    BY <1>9
  <2>. QED  BY <1>0, <1>1, <2>1 DEF Apart
<1>18. SomeoneIsThere'
  <2>1. Reloading' => Reloading
    BY <1>9 DEF Reloading
  <2>. QED  BY <1>0, <1>1, <2>1 DEF SomeoneIsThere
<1>19. NothingFails'
  BY <1>0, <1>1 DEF NothingFails
<1>. QED  BY <1>0, <1>11, <1>14, <1>15, <1>16, <1>17, <1>18, <1>19 DEF OrderInv

----------------------------------------------------------------------------
(* Reloads *)

(* The steps of a reload of the plugins that are listed                    *)
LEMMA ReloadSteps ==
    ASSUME NEW listed \in Seq(Ids), listed # <<>>, NEW ids, NEW P, NEW C,
           \A d \in ToSet(listed), c \in C : <<d, c>> \in P
    PROVE  LET u == ReloadTask(listed, ids)
           IN  /\ u.ids = ids /\ u.for = "reload" /\ u.module = None
               /\ Fine(u.steps, P, C) /\ Ends(u.steps)
               /\ \A s \in ToSet(u.steps) : /\ s.id \in ToSet(listed) \cup {None}
                                            /\ s.do \in {"again", "memory", "done"}
<1>. DEFINE first == listed[1]
            others == Others(listed, first)
            l == Step("again", first, None)
            a == <<l>>
            m == [i \in DOMAIN others |-> Step("memory", others[i], None)]
            e == Step("done", None, None)
            z == <<e>>
            q == a \o m \o z
            u == ReloadTask(listed, ids)
<1>1. first \in Ids /\ first \in ToSet(listed)
  BY TailFacts, NotEmpty DEF ToSet
<1>2. others \in Seq(Ids) /\ ToSet(others) \subseteq ToSet(listed)
  BY OthersFacts
<1>3. u.ids = ids /\ u.for = "reload" /\ u.module = None /\ u.steps = q
  BY DEF ReloadTask, Task
<1>. HIDE DEF u, first, others
<1>4. l \in Steps /\ l.do = "again" /\ l.id = first /\ e \in Steps /\ e.do = "done" /\ e.id = None
  <2>1. StepOK(first, l) /\ StepOK(first, e)
    BY <1>1, NoneIsNone, StepsAlone
  <2>. QED  BY <2>1, StepFields DEF StepOK
<1>. HIDE DEF l, e
<1>5. /\ m \in Seq(Steps)
      /\ \A s \in ToSet(m) : s.do = "memory" /\ s.id \in ToSet(others)
  <2>1. others \in Seq(Ids) /\ Len(others) \in Nat /\ DOMAIN others = 1 .. Len(others)
    BY <1>2, NotEmpty
  <2>2. ASSUME NEW i \in 1 .. Len(others)
        PROVE  /\ Step("memory", others[i], None) \in Steps
               /\ Step("memory", others[i], None).do = "memory"
               /\ Step("memory", others[i], None).id = others[i] /\ others[i] \in ToSet(others)
    <3>1. others[i] \in Ids /\ others[i] \in ToSet(others)
      BY <2>1 DEF ToSet
    <3>2. StepOK(first, Step("memory", others[i], None))
      BY <1>1, <3>1, NoneIsNone, StepsAlone
    <3>. QED  BY <3>1, <3>2, StepFields DEF StepOK
  <2>3. m \in Seq(Steps) /\ DOMAIN m = 1 .. Len(others)
        /\ \A i \in 1 .. Len(others) : m[i] = Step("memory", others[i], None)
    BY <2>1, <2>2
  <2>. HIDE DEF m
  <2>. QED  BY <2>2, <2>3 DEF ToSet
<1>. HIDE DEF m
<1>6. a \in Seq(Steps) /\ ToSet(a) = {l} /\ z \in Seq(Steps) /\ ToSet(z) = {e} /\ Len(z) = 1
  BY <1>4, SetOfOne
<1>. HIDE DEF a, z
<1>. DEFINE b == a \o m
<1>7. b \in Seq(Steps) /\ ToSet(b) = {l} \cup ToSet(m)
  BY <1>5, <1>6, SetOfSeq, ConcatFacts
<1>8. q = b \o z
  OBVIOUS
<1>. HIDE DEF b, q
<1>9. q \in Seq(Steps) /\ ToSet(q) = {l} \cup ToSet(m) \cup {e}
  BY <1>6, <1>7, <1>8, SetOfSeq, ConcatFacts
<1>10. Fine(q, P, C)
  <2>1. \A s \in ToSet(q) : Needs(s, P, C)
    BY <1>1, <1>2, <1>4, <1>5, <1>9 DEF Needs
  <2>. QED  BY <1>9, <2>1, FineGiven
<1>11. Ends(q)
  <2>1. Ends(z)
    BY <1>6 DEF Ends
  <2>2. \A s \in ToSet(b) : s.do \notin {"done", "push"}
    BY <1>4, <1>5, <1>7
  <2>. QED  BY <1>6, <1>7, <1>8, <2>1, <2>2, EndsJoin
<1>12. \A s \in ToSet(q) : /\ s.id \in ToSet(listed) \cup {None}
                           /\ s.do \in {"again", "memory", "done"}
  BY <1>1, <1>2, <1>4, <1>5, <1>9
<1>. QED  BY <1>3, <1>10, <1>11, <1>12 DEF u

LEMMA ReloadStepsNow ==
    ASSUME NEW listed \in Seq(Ids), listed # <<>>, NEW ids,
           \A d \in ToSet(listed), c \in Connected : <<d, c>> \in Made
    PROVE  LET u == ReloadTask(listed, ids)
           IN  /\ u.ids = ids /\ u.for = "reload" /\ u.module = None
               /\ Fine(u.steps, Made, Connected) /\ Ends(u.steps)
               /\ \A s \in ToSet(u.steps) : /\ s.id \in ToSet(listed) \cup {None}
                                            /\ s.do \in {"again", "memory", "done"}
BY ReloadSteps

(* When nobody is at work, each plugin that runs has an instance for each   *)
(* client that is listed.                                                  *)
LEMMA NobodyAtWork ==
    ASSUME OrderInv, \A w \in Workers : ~Busy(w)
    PROVE  /\ Has = Made /\ \A w \in Workers : StepsOf(w) = {} /\ tasks[w].module = None
           /\ Listed = Connected
           /\ \A id \in IdsOf(Made), c \in Connected : <<id, c>> \in Made
           /\ IdsOf(Made) \subseteq screen.given
           /\ Made # {} => cache # None
<1>1. ASSUME NEW w \in Workers
      PROVE  StepsOf(w) = {} /\ tasks[w].module = None
  <2>1. TaskOK(w, tasks[w]) /\ tasks[w].steps = <<>>
    BY OrderFacts, TypesOfInv DEF Busy
  <2>. QED  BY <2>1, SetOfOne DEF TaskOK, StepsOf
<1>2. PutsOf({}) = {} /\ ClonesOf({}) = {} /\ PushesOf({}) = {}
  BY NoPuts
<1>3. Has = Made /\ Cloning = {} /\ Listed = Connected
  BY <1>1, <1>2 DEF Has, Cloning, Listed, Workers
<1>4. Made # {} => cache # None
  BY <1>1, OrderFacts DEF ModuleStays, NoModule
<1>. QED  BY <1>1, <1>3, <1>4, OrderFacts DEF AllHave, OpenHave

LEMMA ReloadBegins ==
    ASSUME OrderInv, TypeInv', \A w \in Workers : ~Busy(w),
           Made' = Made, UNCHANGED cache, toPlugins' = <<>>, bridge.connected # <<>>,
           bridge'.connected = bridge.connected, bridge'.up = bridge.up,
           screen'.open = screen.open, screen'.given = screen.given, screen'.failed = screen.failed,
           RunningIn(running') # {}, NEW listed \in Listings(running'),
           tasks' = [tasks EXCEPT ![listed[1]] = ReloadTask(listed, RunningIn(running'))],
           bridge'.loading = {listed[1]}
    PROVE  OrderInv'
<1>. DEFINE ids == RunningIn(running')
            w == listed[1]
            u == ReloadTask(listed, ids)
<1>0. TypeInv /\ bridge.up /\ screen.failed = {}
  BY OrderFacts
<1>1. listed \in Seq(Ids) /\ listed # <<>> /\ w \in ids /\ ToSet(listed) = ids /\ ids \in SUBSET Ids
  BY ListingFacts
<1>2. ids = IdsOf(Made)
  <2>1. ids = IdsOf(Made')
    BY DEF RunningIn, Made, IdsOf
  <2>. QED  BY <2>1
<1>3. /\ Has = Made /\ \A v \in Workers : StepsOf(v) = {} /\ tasks[v].module = None
      /\ \A id \in IdsOf(Made), c \in Connected : <<id, c>> \in Made
      /\ IdsOf(Made) \subseteq screen.given /\ (Made # {} => cache # None)
      /\ Listed = Connected
  BY NobodyAtWork
<1>19. (Made # {} => cache # None) /\ IdsOf(Made) \subseteq screen.given
  BY <1>3
<1>4. w \in Workers /\ w # Main /\ w \in Ids
  BY <1>1, NoneIsNone DEF Workers
<1>5. /\ u.ids = ids /\ u.for = "reload" /\ u.module = None
      /\ Fine(u.steps, Made, Connected) /\ Ends(u.steps)
      /\ \A s \in ToSet(u.steps) : /\ s.id \in ids \cup {None}
                                   /\ s.do \in {"again", "memory", "done"}
  <2>1. \A d \in ToSet(listed), c \in Connected : <<d, c>> \in Made
    BY <1>1, <1>2, <1>3
  <2>2. listed \in Seq(Ids) /\ listed # <<>> /\ ToSet(listed) = ids
    BY <1>1
  <2>. HIDE DEF ids
  <2>3. LET v == ReloadTask(listed, ids)
        IN  /\ v.ids = ids /\ v.for = "reload" /\ v.module = None
            /\ Fine(v.steps, Made, Connected) /\ Ends(v.steps)
            /\ \A s \in ToSet(v.steps) : /\ s.id \in ToSet(listed) \cup {None}
                                         /\ s.do \in {"again", "memory", "done"}
    <3>. HIDE DEF u
    <3>. QED  BY <2>1, <2>2, ReloadStepsNow
  <2>. QED  BY <2>2, <2>3
<1>6. tasks' = [tasks EXCEPT ![w] = u] /\ bridge'.loading = {w} /\ screen'.given = screen.given
  OBVIOUS
<1>. HIDE DEF u, w, ids
<1>7. /\ tasks'[w] = u /\ StepsOf(w)' = ToSet(u.steps)
      /\ \A v \in Workers : v # w => tasks'[v] = tasks[v] /\ StepsOf(v)' = StepsOf(v)
                                     /\ (Busy(v)' <=> Busy(v))
  BY <1>0, <1>4, <1>6, OthersStay
<1>8. Connected' = Connected
  BY DEF Connected
<1>9. AllFine'
  BY <1>4, <1>5, <1>6, <1>8, FineKept
<1>10. PutsOf(ToSet(u.steps)) = {} /\ PutsOf(StepsOf(w)) = {} /\ ClonesOf(StepsOf(w)) = {}
  <2>1. \A s \in ToSet(u.steps) : s.do # "put"
    BY <1>5
  <2>2. StepsOf(w) = {}
    BY <1>3, <1>4
  <2>. QED  BY <2>1, <2>2, NoPuts
<1>11. Has \subseteq Has' /\ IdsOf(Has') = IdsOf(Has)
  <2>1. /\ Made \cup PutsOf(StepsOf(w)) \subseteq Made' \cup PutsOf(ToSet(u.steps))
        /\ IdsOf(Made' \cup PutsOf(ToSet(u.steps))) \subseteq IdsOf(Made \cup PutsOf(StepsOf(w)))
    BY <1>10
  <2>. QED  BY <1>0, <1>4, <1>6, <2>1, HasKept
<1>12. AllHave' /\ OpenHave'
  <2>1. (\A id \in Cloning : id \in Cloning') /\ Listed' = Listed
    BY <1>0, <1>4, <1>6, <1>8, <1>10, ClonesKept DEF Listed
  <2>. QED  BY <1>11, <2>1, HaveKept
<1>13. ModuleStays'
  <2>1. Made # {}
    BY <1>1, <1>2 DEF IdsOf
  <2>2. ~NoModule'
    BY <1>19, <2>1 DEF NoModule
  <2>. QED  BY <2>2 DEF ModuleStays
<1>14. \A v \in Workers : Busy(v)' => v = w
  BY <1>7
<1>15. AllTidy'
  <2>1. Tidy(w)'
    <3>1. w \in u.ids /\ u.ids \subseteq screen'.given /\ w \in bridge'.loading
      BY <1>1, <1>2, <1>19, <1>5, <1>6
    <3>2. u.for # "start"
      BY <1>5
    <3>. QED  BY <1>5, <1>7, <1>14, <3>1, <3>2 DEF Tidy
  <2>. QED  BY <1>14, <2>1 DEF AllTidy, Workers
<1>16. Apart'
  <2>1. w \in screen'.given /\ bridge'.loading = {w}
    BY <1>1, <1>2, <1>19, <1>6
  <2>2. Len(toPlugins') = 0 /\ 1 .. 0 = {}
    OBVIOUS
  <2>3. bridge'.loading \subseteq screen'.given
    BY <2>1
  <2>4. \A v \in Ids : Busy(v)' => v = w
    BY <1>14 DEF Workers
  <2>. QED  BY <2>2, <2>3, <2>4 DEF Apart
<1>17. SomeoneIsThere'
  BY DEF SomeoneIsThere
<1>18. NothingFails'
  BY <1>0 DEF NothingFails
<1>. QED  BY <1>9, <1>12, <1>13, <1>15, <1>16, <1>17, <1>18 DEF OrderInv

(* What is being loaded, and on its way, when the tasks stay as they are    *)
StillApart(loading, q) ==
    /\ \A w \in Ids : Busy(w) => w \in loading
    /\ \A w \in Ids, k \in 1 .. Len(q) : Busy(w) => q[k] \cap tasks[w].ids = {}
    /\ \A j, k \in 1 .. Len(q) : j # k => q[j] \cap q[k] = {}
    /\ \A k \in 1 .. Len(q) : q[k] \cap loading # {} /\ q[k] \subseteq screen.given
    /\ loading \subseteq screen.given

LEMMA StayApart ==
    ASSUME OrderInv, UNCHANGED tasks, screen'.given = screen.given,
           StillApart(bridge'.loading, toPlugins')
    PROVE  Apart' /\ \A w \in Ids : Busy(w) => w \in bridge'.loading
<1>1. \A w \in Ids : (Busy(w)' <=> Busy(w)) /\ tasks'[w].ids = tasks[w].ids
  BY OrderFacts, SameTasks
<1>2. \A v, w \in Ids : Busy(v) /\ Busy(w) /\ v # w => tasks[v].ids \cap tasks[w].ids = {}
  BY OrderFacts DEF Apart
<1>. QED  BY <1>1, <1>2 DEF StillApart, Apart

(* A reload begins, or is put off.                                         *)
LEMMA ReloadPluginInOrder ==
    ASSUME OrderInv, TypeInv', ~Busy(Main), Made' = Made, UNCHANGED cache,
           NEW b \in Bridges, b.connected = bridge.connected, bridge.connected # <<>>,
           b.up = bridge.up, toPlugins = <<>> => toPlugins' = <<>>,
           StillApart(b.loading, toPlugins'), toPlugins' \in Seq(SUBSET Ids),
           screen'.open = screen.open, screen'.given = screen.given,
           screen'.failed = screen.failed,
           NEW r, r = running', b.loading # {} \/ RunningIn(r) # {}, ReloadPlugin(b, r)
    PROVE  OrderInv'
<1>1. CASE b.loading # {}
  <2>1. bridge' = [b EXCEPT !.pending = TRUE] /\ tasks' = tasks
    BY <1>1, ReloadPluginCases
  <2>2. /\ bridge'.loading = b.loading /\ bridge'.connected = bridge.connected
        /\ bridge'.up = bridge.up
    BY <2>1 DEF Bridges
  <2>3. Apart' /\ \A w \in Ids : Busy(w) => w \in bridge'.loading
    BY <2>1, <2>2, StayApart
  <2>4. SomeoneIsThere' /\ Connected' \subseteq Connected
    BY <2>2 DEF SomeoneIsThere, Connected
  <2>. QED  BY <2>1, <2>2, <2>3, <2>4, SameWork
<1>2. CASE b.loading = {}
  <2>. DEFINE ids == RunningIn(r)
              events == [id \in Ids |-> IF id \in ids THEN {} ELSE b.events[id]]
              sizes(size) == [id \in Ids |-> IF id \in ids THEN size[id] ELSE b.sizes[id]]
  <2>1. PICK listed \in Listings(r) : \E size \in [ids -> Sizes] :
           /\ tasks' = [tasks EXCEPT ![listed[1]] = ReloadTask(listed, ids)]
           /\ bridge' = [b EXCEPT !.loading = {listed[1]}, !.events = events, !.sizes = sizes(size)]
    <3>1. ReloadPlugin(b, r)
      OBVIOUS
    <3>2. \E listed \in Listings(r) : \E size \in [RunningIn(r) -> Sizes] :
             /\ tasks' = [tasks EXCEPT ![listed[1]] = ReloadTask(listed, RunningIn(r))]
             /\ bridge' = [b EXCEPT
                   !.loading = {listed[1]},
                   !.events = [id \in Ids |-> IF id \in RunningIn(r) THEN {} ELSE b.events[id]],
                   !.sizes = [id \in Ids |-> IF id \in RunningIn(r) THEN size[id]
                                             ELSE b.sizes[id]]]
      BY ONLY <1>2, <3>1, ReloadPluginCases
    <3>. QED  BY <3>2
  <2>2. PICK size \in [ids -> Sizes] :
           /\ tasks' = [tasks EXCEPT ![listed[1]] = ReloadTask(listed, ids)]
           /\ bridge' = [b EXCEPT !.loading = {listed[1]}, !.events = events, !.sizes = sizes(size)]
    BY <2>1
  <2>. HIDE DEF events, sizes
  <2>3. /\ bridge'.loading = {listed[1]} /\ bridge'.connected = bridge.connected
        /\ bridge'.up = bridge.up
    BY <2>2 DEF Bridges
  <2>4. \A w \in Workers : ~Busy(w)
    BY <1>2 DEF StillApart, Workers
  <2>5. toPlugins' = <<>>
    <3>1. toPlugins' # <<>> => 1 \in 1 .. Len(toPlugins')
      BY NotEmpty
    <3>. QED  BY <1>2, <3>1 DEF StillApart
  <2>. QED  BY <1>2, <2>2, <2>3, <2>4, <2>5, ReloadBegins
<1>. QED  BY <1>1, <1>2

LEMMA ReloadInOrder ==
    ASSUME Calm, OrderInv, NEW id \in Ids, Reload(id)
    PROVE  OrderInv'
<1>0. TypeInv /\ TypeInv' /\ Apart /\ AllTidy /\ bridge \in Bridges
  BY OrderFacts, ReloadKeeps, TypesOfInv
<1>1. /\ Requested /\ bridge.connected # <<>> /\ UNCHANGED <<running, cache, toPlugins>>
      /\ ~Busy(Main)
  BY DEF Reload, Requested, MainIsIdle, Calm, Happens
<1>2. CASE bridge.loading = {} /\ RunningIn(running) = {}
  <2>1. LoadPlugin(id, Head(bridge.connected))
    BY <1>2 DEF Reload
  <2>2. Head(bridge.connected) \in Clients
    BY <1>0, <1>1, BridgeFields, TailFacts
  <2>. QED  BY <1>0, <1>1, <2>1, <2>2, LoadPluginInOrder
<1>3. CASE ~(bridge.loading = {} /\ RunningIn(running) = {})
  <2>1. ReloadPlugin(bridge, running) /\ screen' = screen
    BY <1>3 DEF Reload
  <2>2. running' = running /\ toPlugins' = toPlugins
    BY <1>1
  <2>4. Made' = Made /\ toPlugins' \in Seq(SUBSET Ids)
    BY <1>0, <1>1, SameMade, TypesOfInv
  <2>5. StillApart(bridge.loading, toPlugins')
    BY <1>0, <2>2 DEF StillApart, Apart, AllTidy, Tidy
  <2>. QED  BY <1>0, <1>1, <1>3, <2>1, <2>2, <2>4, <2>5, ReloadPluginInOrder
<1>. QED  BY <1>2, <1>3

LEMMA GivenStays ==
    ASSUME TypeInv, NEW ids \in SUBSET Ids
    PROVE  \A id \in Ids, c \in Clients : Given(ids)[id][c] # None <=> running[id][c] # None
<1>1. ASSUME NEW id \in Ids
      PROVE  /\ TellAll(id) \in [Clients -> Maybe(Instances)]
             /\ \A c \in Clients : TellAll(id)[c] # None <=> running[id][c] # None
             /\ \A c \in Clients : TellAll(id)[c] # None =>
                  TellAll(id)[c].next = running[id][c].next
  <2>1. running[id] \in [Clients -> Maybe(Instances)] /\ bridge.events[id] \in Maybe(SUBSET News)
    BY TypesOfInv, BridgeFields
  <2>2. CASE bridge.events[id] = None
    BY <2>1, <2>2 DEF TellAll
  <2>3. CASE bridge.events[id] # None
    <3>1. bridge.events[id] \in SUBSET News
      BY <2>1, <2>3 DEF Maybe
    <3>. QED  BY <2>1, <2>3, <3>1, ToldType, ToldStays DEF TellAll
  <2>. QED  BY <2>2, <2>3
<1>2. ASSUME NEW id \in Ids
      PROVE  \A c \in Clients : Give(id)[c] # None <=> running[id][c] # None
  <2>1. CASE bridge.sizes[id] = None
    BY <1>1, <2>1 DEF Give
  <2>2. CASE bridge.sizes[id] # None
    <3>. DEFINE size == bridge.sizes[id]
                f == TellAll(id)
    <3>1. KeptIn(bridge, id) = 1 /\ Give(id) = Resized(f, size)
      BY <2>2 DEF KeptIn, Give
    <3>2. size \in Sizes
      BY <2>2, TypesOfInv, BridgeFields DEF Maybe
    <3>3. f \in [Clients -> Maybe(Instances)]
      BY <1>1
    <3>4. ASSUME NEW c \in Clients, f[c] # None
          PROVE  f[c].next + 1 \in EventIds
      <4>1. f[c].next = running[id][c].next /\ running[id][c] # None
        BY <3>4, <1>1
      <4>2. running[id][c].next \in Nat
            /\ running[id][c].next + KeptIn(bridge, id) + PutOffIn(bridge) <= requests
        BY <4>1, NumberFacts
      <4>3. PutOffIn(bridge) \in Nat
        BY KeptFacts
      <4>. QED  BY <3>1, <4>1, <4>2, <4>3, NumberFacts DEF EventIds
    <3>5. \A c \in Clients : f[c] # None <=> running[id][c] # None
      BY <1>1
    <3>. HIDE DEF f, size
    <3>6. \A c \in Clients : Resized(f, size)[c] # None <=> f[c] # None
      BY <3>2, <3>3, <3>4, ResizedStays
    <3>. QED  BY <3>1, <3>5, <3>6
  <2>. QED  BY <2>1, <2>2
<1>. QED  BY <1>2 DEF Given

(* What was kept is given to the plugins, which are no longer being loaded. *)
LEMMA ApplyInOrder ==
    ASSUME OrderInv, ApplyCachedEvents
    PROVE  OrderInv'
<1>. DEFINE ids == Head(toPlugins)
            b == Ready(ids, PutOffEnds(ids))
<1>0. TypeInv /\ TypeInv' /\ Apart /\ AllTidy /\ SomeoneIsThere /\ bridge \in Bridges
      /\ toPlugins \in Seq(SUBSET Ids)
  BY OrderFacts, ApplyCachedEventsKeeps, TypesOfInv
<1>1. /\ toPlugins # <<>> /\ toPlugins' = Tail(toPlugins) /\ ~Busy(Main)
      /\ running' = Given(ids) /\ UNCHANGED <<cache, file, screen, requests>>
      /\ \/ /\ PutOffEnds(ids)
            /\ b.loading # {} \/ RunningIn(Given(ids)) # {}
            /\ ReloadPlugin(b, Given(ids))
         \/ bridge' = b /\ UNCHANGED tasks
  BY ApplyCases DEF MainIsIdle
<1>2. /\ ids = toPlugins[1] /\ ids \in SUBSET Ids /\ Tail(toPlugins) \in Seq(SUBSET Ids)
      /\ Len(toPlugins) \in Nat \ {0} /\ Len(Tail(toPlugins)) = Len(toPlugins) - 1
      /\ \A k \in 1 .. Len(toPlugins) - 1 : Tail(toPlugins)[k] = toPlugins[k + 1]
  BY <1>0, <1>1, TailFacts
<1>3. PutOffEnds(ids) \in BOOLEAN
  BY DEF PutOffEnds
<1>4. /\ b \in Bridges /\ b.connected = bridge.connected /\ b.up = bridge.up
      /\ b.loading = bridge.loading \ ids /\ b.pending = (bridge.pending /\ ~PutOffEnds(ids))
  <2>. HIDE DEF ids
  <2>. QED  BY <1>0, <1>2, <1>3, ReadyFacts
<1>5. Made' = Made
  <2>1. \A id \in Ids, c \in Clients : running'[id][c] # None <=> running[id][c] # None
    BY <1>0, <1>1, <1>2, GivenStays
  <2>. QED  BY <2>1, SameMade
<1>. HIDE DEF b, ids
<1>6. StillApart(b.loading, toPlugins')
  <2>. DEFINE n == Len(toPlugins)
  <2>1. 1 \in 1 .. n
    BY <1>2
  <2>2. \A k \in 1 .. Len(toPlugins') :
           /\ k + 1 \in 1 .. n /\ k + 1 # 1 /\ toPlugins'[k] = toPlugins[k + 1]
    BY <1>1, <1>2
  <2>3. \A w \in Ids : Busy(w) => w \in tasks[w].ids /\ w \in bridge.loading
                                  /\ ids \cap tasks[w].ids = {}
    BY <1>0, <1>2, <2>1 DEF Apart, AllTidy, Tidy
  <2>4. ASSUME NEW k \in 1 .. Len(toPlugins')
        PROVE  /\ toPlugins'[k] \cap b.loading # {} /\ toPlugins'[k] \subseteq screen.given
               /\ \A w \in Ids : Busy(w) => toPlugins'[k] \cap tasks[w].ids = {}
    <3>1. k + 1 \in 1 .. n /\ k + 1 # 1 /\ toPlugins'[k] = toPlugins[k + 1]
      BY <2>2
    <3>2. toPlugins[k + 1] \cap ids = {}
      BY <1>0, <1>2, <2>1, <3>1 DEF Apart
    <3>. QED  BY <1>0, <1>4, <3>1, <3>2 DEF Apart
  <2>5. ASSUME NEW j \in 1 .. Len(toPlugins'), NEW k \in 1 .. Len(toPlugins'), j # k
        PROVE  toPlugins'[j] \cap toPlugins'[k] = {}
    <3>1. j + 1 # k + 1
      BY <2>5
    <3>. QED  BY <1>0, <2>2, <3>1 DEF Apart
  <2>. QED  BY <1>0, <1>4, <2>3, <2>4, <2>5 DEF StillApart, Apart
<1>7. CASE PutOffEnds(ids) /\ (b.loading # {} \/ RunningIn(Given(ids)) # {})
           /\ ReloadPlugin(b, Given(ids))
  <2>1. bridge.connected # <<>>
    BY <1>0, <1>7 DEF PutOffEnds, SomeoneIsThere
  <2>. DEFINE r == Given(ids)
  <2>2. r = running' /\ ReloadPlugin(b, r) /\ (b.loading # {} \/ RunningIn(r) # {})
    BY <1>1, <1>7
  <2>. HIDE DEF r
  <2>3. /\ screen'.open = screen.open /\ screen'.given = screen.given
        /\ screen'.failed = screen.failed /\ UNCHANGED cache
        /\ toPlugins' \in Seq(SUBSET Ids)
    BY <1>1, <1>2
  <2>. QED  BY <1>0, <1>1, <1>4, <1>5, <1>6, <2>1, <2>2, <2>3, ReloadPluginInOrder
<1>8. CASE bridge' = b /\ UNCHANGED tasks
  <2>1. Apart' /\ \A w \in Ids : Busy(w) => w \in bridge'.loading
    BY <1>1, <1>6, <1>8, StayApart
  <2>2. SomeoneIsThere' /\ Connected' \subseteq Connected
    <3>1. Reloading' <=> Reloading
      BY <1>8 DEF Reloading, Busy
    <3>. QED  BY <1>0, <1>4, <1>8, <3>1 DEF SomeoneIsThere, Connected
  <2>. QED  BY <1>0, <1>1, <1>4, <1>5, <1>8, <2>1, <2>2, SameWork
<1>. QED  BY <1>1, <1>7, <1>8

----------------------------------------------------------------------------
(* All steps *)

LEMMA LoadInOrder ==
    ASSUME Calm, OrderInv, NEW id \in Ids, NEW c \in Clients, Load(id, c)
    PROVE  OrderInv'
<1>1. TypeInv'
  BY OrderFacts, LoadKeeps
<1>2. Requested /\ LoadPlugin(id, c) /\ UNCHANGED <<running, cache, toPlugins>>
  BY DEF Load
<1>. QED  BY <1>1, <1>2, LoadPluginInOrder

LEMMA RequestsInOrder ==
    ASSUME Calm, OrderInv, Request
    PROVE  OrderInv'
BY LoadInOrder, UnloadInOrder, ReloadInOrder, ResizePluginInOrder, AddClientInOrder,
   RemoveClientInOrder, UpdatesInOrder DEF Request

LEMMA InitInOrder == Init => OrderInv
<1>. SUFFICES ASSUME Init
              PROVE  OrderInv
  OBVIOUS
<1>1. TypeInv
  BY InitIsTyped
<1>2. /\ running = [id \in Ids |-> [c \in Clients |-> None]]
      /\ tasks = [w \in Workers |-> Task("client", {}, None, <<>>)] /\ toPlugins = <<>>
      /\ screen.given = {} /\ screen.open = {} /\ screen.failed = {}
      /\ bridge.loading = {} /\ ~bridge.pending /\ bridge.up
  BY DEF Init
<1>3. Main \in Workers /\ Ids \subseteq Workers
  BY DEF Workers
<1>4. \A w \in Workers : tasks[w].steps = <<>> /\ ~Busy(w) /\ StepsOf(w) = {}
  BY <1>2, SetOfOne DEF Task, Busy, StepsOf
<1>5. Made = {}
  BY <1>2, MadeFacts
<1>6. Has = {} /\ IdsOf(Has) = {}
  <2>1. PutsOf({}) = {}
    BY NoPuts
  <2>. QED  BY <1>4, <1>5, <2>1 DEF Has, IdsOf
<1>7. AllFine
  BY <1>4, FineNothing DEF AllFine
<1>8. ModuleStays /\ AllTidy
  BY <1>3, <1>4, <1>5 DEF ModuleStays, AllTidy
<1>9. Apart
  BY <1>2, <1>3, <1>4 DEF Apart
<1>10. SomeoneIsThere
  BY <1>2, <1>3, <1>4 DEF SomeoneIsThere, Reloading
<1>11. AllHave /\ OpenHave /\ NothingFails
  BY <1>2, <1>6 DEF AllHave, OpenHave, NothingFails
<1>. QED  BY <1>1, <1>7, <1>8, <1>9, <1>10, <1>11 DEF OrderInv

LEMMA StepsInOrder ==
    ASSUME Calm
    PROVE  OrderInv /\ [Next]_vars => OrderInv' \/ (GivenUp' /\ \E w \in Workers : Mishap(w))
<1>. SUFFICES ASSUME OrderInv, [Next]_vars
              PROVE  OrderInv' \/ (GivenUp' /\ \E w \in Workers : Mishap(w))
  OBVIOUS
<1>1. CASE UNCHANGED vars
  <2>1. TypeInv'
    BY <1>1, OrderFacts, StepsKeepTypes
  <2>2. /\ bridge' = bridge /\ screen' = screen /\ running' = running
        /\ UNCHANGED <<tasks, cache, toPlugins>>
    BY <1>1 DEF vars
  <2>3. SomeoneIsThere' /\ Connected' \subseteq Connected
    BY <2>2, StillThere
  <2>4. Made' = Made
    BY <2>2, SameMade
  <2>. QED  BY <2>1, <2>2, <2>3, <2>4, Quiet
<1>2. CASE Request
  BY <1>2, RequestsInOrder
<1>3. CASE MainStep
  BY <1>3, PushInOrder, UpdatesInOrder, ApplyInOrder DEF MainStep
<1>4. CASE Events
  BY <1>4, EventsInOrder DEF Events
<1>5. CASE \E w \in Workers : TaskStep(w)
  BY <1>5, TaskStepsInOrder
<1>. QED  BY <1>1, <1>2, <1>3, <1>4, <1>5 DEF Next

----------------------------------------------------------------------------
(* Nothing is done after a failure.                                        *)
LEMMA GivenUpStays == GivenUp /\ [NothingFails /\ Next]_vars => GivenUp' /\ UNCHANGED vars
<1>. SUFFICES ASSUME GivenUp, [NothingFails /\ Next]_vars
              PROVE  GivenUp' /\ UNCHANGED vars
  OBVIOUS
<1>1. UNCHANGED vars
  BY DEF GivenUp
<1>2. bridge' = bridge /\ screen' = screen /\ tasks' = tasks
  BY <1>1 DEF vars
<1>. QED  BY <1>1, <1>2 DEF GivenUp, NothingFails, Busy

LEMMA StepsToFailure ==
    ASSUME Calm
    PROVE  (OrderInv \/ GivenUp) /\ [NothingFails /\ Next]_vars
             => /\ OrderInv' \/ GivenUp'
                /\ [NothingFails' \/ \E w \in Workers : Mishap(w)]_vars
<1>1. OrderInv' => NothingFails'
  BY DEF OrderInv
<1>2. OrderInv /\ [NothingFails /\ Next]_vars
        => OrderInv' \/ (GivenUp' /\ \E w \in Workers : Mishap(w))
  BY StepsInOrder
<1>. QED  BY <1>1, <1>2, GivenUpStays

(* As long as no client comes and no plugin is started while one is         *)
(* reloaded, no plugin is closed before it is loaded, and somebody stays    *)
(* while one is reloaded, the first failure is a mishap: the file does not  *)
(* compile, or a module is looked for while another has it in its hands.    *)
(* Nothing else makes a plugin fail to be loaded or reloaded, or a client   *)
(* end the thread by coming: the copy of a plugin for a client always finds *)
(* a running instance, and the compiled module is in the cache, or in the   *)
(* hands of one who will put it back.                                      *)
THEOREM FailsOnlyByMishap == ASSUME Calm PROVE SpecToFailure => FailsByMishap
<1>1. Init => OrderInv \/ GivenUp
  BY InitInOrder
<1>. QED  BY <1>1, StepsToFailure, PTL DEF SpecToFailure, FailsByMishap

(* And up to then, whenever nothing is under way, each client that is       *)
(* connected has its instance of each plugin that has a pane, and no plugin *)
(* runs without a pane, whatever has come and gone before.                 *)
THEOREM ClientsHaveTheirs == ASSUME Calm PROVE SpecToFailure => []ClientsHaveInstances
<1>1. OrderInv => ClientsHaveInstances
  <2>. SUFFICES ASSUME OrderInv, Settled
                PROVE  /\ \A id \in screen.open \ screen.failed, c \in Connected :
                             running[id][c] # None
                       /\ RunningIn(running) \subseteq screen.open
    BY DEF ClientsHaveInstances
  <2>1. /\ Has = Made
        /\ \A id \in IdsOf(Made), c \in Connected : <<id, c>> \in Made
    BY NobodyAtWork DEF Settled
  <2>2. screen.open = IdsOf(Made)
    BY <2>1, OrderFacts DEF OpenHave
  <2>3. RunningIn(running) = screen.open
    BY <2>2, MadeFacts
  <2>4. ASSUME NEW id \in screen.open \ screen.failed, NEW c \in Connected
        PROVE  running[id][c] # None
    <3>1. <<id, c>> \in Made
      BY <2>1, <2>2
    <3>2. id \in Ids /\ c \in Clients
      BY <3>1, MadeFacts
    <3>. QED  BY <3>1, <3>2, MadeFacts
  <2>. QED  BY <2>3, <2>4
<1>2. GivenUp => ClientsHaveInstances
  BY DEF GivenUp, ClientsHaveInstances, Settled
<1>3. Init => OrderInv \/ GivenUp
  BY InitInOrder
<1>4. (OrderInv \/ GivenUp) /\ [NothingFails /\ Next]_vars => (OrderInv \/ GivenUp)'
  BY StepsToFailure
<1>. QED  BY <1>1, <1>2, <1>3, <1>4, PTL DEF SpecToFailure

----------------------------------------------------------------------------
(* The instances that run are current, when everything comes in order     *)

(* What is being loaded: the plugins a task works for, and those for whom   *)
(* what was kept is about to be applied                                     *)
Covered == {id \in Ids :
    \/ \E w \in Ids : Busy(w) /\ id \in tasks[w].ids
    \/ \E k \in 1 .. Len(toPlugins) : id \in toPlugins[k]}

(* Events and sizes are kept for them and for no others.                    *)
KeptWhileLoading ==
    /\ \A id \in Ids : /\ bridge.events[id] # None <=> id \in Covered
                       /\ bridge.sizes[id] # None <=> id \in Covered
    /\ bridge.loading \subseteq Covered /\ bridge.loading \subseteq screen.open
    /\ bridge.pending => bridge.loading # {}

(* A client that comes gets its copies one by one.                          *)
NewcomerAlone ==
    /\ \A s \in StepsOf(Main) : s.client \notin Connected
    /\ \A i \in 1 .. Len(tasks[Main].steps) - 1 :
          tasks[Main].steps[i].do = "copy" =>
              tasks[Main].steps[i + 1].id = tasks[Main].steps[i].id

AgainOf(T)  == {id \in Ids : \E s \in T : s.do \in {"again", "memory"} /\ s.id = id}
LoadedOf(T) == {id \in Ids : \E s \in T : s.do \in {"again", "memory", "loaded"} /\ s.id = id}

(* What runs an older file is about to be made anew, unless a reload is put *)
(* off; and the first plugin of a reload compiles before others take.       *)
Renewed(id, c) == \E w \in Workers :
    id \in AgainOf(StepsOf(w)) \/ <<id, c>> \in PutsOf(StepsOf(w))
Compiles(w) == Busy(w) /\ tasks[w].for = "reload" /\ Current(w).do \in {"again", "compile", "put"}

CodeIsNew ==
    /\ \A id \in Ids, c \in Listed :
          running[id][c] # None => running[id][c].code = file \/ Renewed(id, c)
    /\ \A w \in Workers : tasks[w].module \in {None, file}
    /\ cache \in {None, file} \/ \E w \in Ids : Compiles(w)

(* The size of an instance once its tasks have run: that of the one with    *)
(* the largest number, if it is not too late.                               *)
Numbered(i) ==
    /\ i.last <= i.next
    /\ \A r \in i.resizes : r[1] < i.next /\ \A s \in i.resizes : s[1] = r[1] => s = r
Top(i, r) == r \in i.resizes /\ \A s \in i.resizes : s[1] <= r[1]
EndsAt(i, size) ==
    \/ \E r \in i.resizes : Top(i, r) /\ r[1] >= i.last /\ r[2] = size
    \/ (\A r \in i.resizes : r[1] < i.last) /\ i.size = size

SizesAreKnown ==
    /\ \A id \in Ids : bridge.sizes[id] \in {None, screen.size[id]}
    /\ \A id \in Ids, c \in Clients : running[id][c] # None =>
          /\ Numbered(running[id][c])
          /\ bridge.sizes[id] # None \/ EndsAt(running[id][c], screen.size[id])
    /\ tasks[Main].module # None =>
          \/ bridge.sizes[Current(Main).id] # None
          \/ tasks[Main].size = screen.size[Current(Main).id]

(* The last news an instance is told is the last there is.                  *)
Knows(i, now) == now \in i.news \/ (i.news = {} /\ i.told = now)

NewsIsKnown ==
    /\ \A id \in Ids, c \in Clients : running[id][c] # None =>
          /\ running[id][c].told <= screen.now
          /\ \A n \in running[id][c].news : n <= screen.now
          /\ bridge.events[id] = None /\ c \in Connected =>
                Knows(running[id][c], screen.now) \/ screen.asked
    /\ \A id \in Ids : bridge.events[id] # None =>
          /\ \A n \in bridge.events[id] : n <= screen.now
          /\ \/ screen.now \in bridge.events[id] \/ screen.asked
             \/ \E w \in Ids : id \in LoadedOf(StepsOf(w))

CurrentInv ==
    /\ KeptWhileLoading /\ NewcomerAlone /\ (bridge.pending \/ CodeIsNew)
    /\ SizesAreKnown /\ NewsIsKnown

----------------------------------------------------------------------------
LEMMA InstanceIs ==
    ASSUME NEW i \in Instances
    PROVE  /\ i.last \in Nat /\ i.next \in Nat /\ i.told \in Nat
           /\ i.news \in SUBSET Nat
           /\ \A r \in i.resizes : r[1] \in Nat /\ r[2] \in Sizes /\ r = <<r[1], r[2]>>
<1>1. EventIds \subseteq Nat /\ News \subseteq Nat
  BY PluginsAssumption DEF EventIds, News
<1>. QED  BY <1>1, InstanceFields

LEMMA NewEnds ==
    ASSUME NEW code, NEW size
    PROVE  Numbered(NewInstance(code, size)) /\ EndsAt(NewInstance(code, size), size)
BY DEF Numbered, EndsAt, NewInstance

LEMMA EndsSame ==
    ASSUME NEW i, NEW j, j.resizes = i.resizes, j.last = i.last, j.size = i.size, j.next = i.next
    PROVE  /\ Numbered(i) => Numbered(j)
           /\ \A size : EndsAt(i, size) => EndsAt(j, size)
BY DEF Numbered, EndsAt, Top

LEMMA ResizedEnds ==
    ASSUME NEW i \in Instances, Numbered(i), NEW size, NEW j,
           j.resizes = i.resizes \cup {<<i.next, size>>}, j.next = i.next + 1, j.last = i.last
    PROVE  Numbered(j) /\ EndsAt(j, size)
<1>1. \A r \in i.resizes : r[1] \in Nat /\ r[1] < i.next
  BY InstanceIs DEF Numbered
<1>2. i.last \in Nat /\ i.next \in Nat /\ i.last <= i.next
  BY InstanceIs DEF Numbered
<1>3. Numbered(j)
  BY <1>1, <1>2 DEF Numbered
<1>4. Top(j, <<i.next, size>>)
  BY <1>1, <1>2 DEF Top
<1>. QED  BY <1>2, <1>3, <1>4 DEF EndsAt

LEMMA TriedEnds ==
    ASSUME NEW i \in Instances, Numbered(i), NEW r \in i.resizes
    PROVE  /\ Numbered(Tried(i, r))
           /\ \A size : EndsAt(i, size) => EndsAt(Tried(i, r), size)
           /\ Tried(i, r).code = i.code /\ Tried(i, r).told = i.told /\ Tried(i, r).news = i.news
<1>. DEFINE j == Tried(i, r)
<1>1. /\ j.resizes = i.resizes \ {r} /\ j.next = i.next
      /\ j.code = i.code /\ j.told = i.told /\ j.news = i.news
      /\ j.last = IF r[1] >= i.last THEN r[1] ELSE i.last
      /\ j.size = IF r[1] >= i.last THEN r[2] ELSE i.size
  BY DEF Tried, ApplyEventId, Instances
<1>2. i.last \in Nat /\ i.next \in Nat /\ \A s \in i.resizes : s[1] \in Nat
  BY InstanceIs
<1>. HIDE DEF j
<1>3. Numbered(j)
  BY <1>1, <1>2 DEF Numbered
<1>4. ASSUME NEW size, EndsAt(i, size) PROVE EndsAt(j, size)
  <2>1. CASE \E t \in i.resizes : Top(i, t) /\ t[1] >= i.last /\ t[2] = size
    <3>1. PICK t \in i.resizes : Top(i, t) /\ t[1] >= i.last /\ t[2] = size
      BY <2>1
    <3>2. CASE t = r
      <4>1. \A s \in j.resizes : s[1] < j.last
        BY <1>1, <1>2, <3>1, <3>2 DEF Top, Numbered
      <4>2. j.size = size
        BY <1>1, <3>1, <3>2
      <4>. QED  BY <4>1, <4>2 DEF EndsAt
    <3>3. CASE t # r
      <4>1. Top(j, t) /\ t[1] >= j.last
        BY <1>1, <1>2, <3>1, <3>3 DEF Top
      <4>. QED  BY <3>1, <4>1 DEF EndsAt, Top
    <3>. QED  BY <3>2, <3>3
  <2>2. CASE (\A t \in i.resizes : t[1] < i.last) /\ i.size = size
    <3>1. j.last = i.last /\ j.size = size
      BY <1>1, <1>2, <2>2
    <3>. QED  BY <1>1, <2>2, <3>1 DEF EndsAt
  <2>. QED  BY <1>4, <2>1, <2>2 DEF EndsAt
<1>. QED  BY <1>1, <1>3, <1>4 DEF j

LEMMA EndsSizes ==
    ASSUME InTurn, NEW i \in Instances, Numbered(i), NEW size, EndsAt(i, size)
    PROVE  SizesOf(i) = {size}
<1>0. i.last \in Nat /\ \A s \in i.resizes : s[1] \in Nat
  BY InstanceIs
<1>1. ~Happens("late resize")
  BY DEF Happens, InTurn
<1>2. CASE \E t \in i.resizes : Top(i, t) /\ t[1] >= i.last /\ t[2] = size
  <2>1. PICK t \in i.resizes : Top(i, t) /\ t[1] >= i.last /\ t[2] = size
    BY <1>2
  <2>2. \A r \in i.resizes : (\A s \in i.resizes : s[1] <= r[1]) => r = t
    BY <1>0, <2>1 DEF Top, Numbered
  <2>3. Latest(i) = t
    BY <2>1, <2>2 DEF Latest, Top
  <2>. QED  BY <1>1, <2>1, <2>3 DEF SizesOf
<1>3. CASE (\A r \in i.resizes : r[1] < i.last) /\ i.size = size
  <2>1. ~ \E r \in i.resizes : r[1] >= i.last
    BY <1>0, <1>3
  <2>2. {i.size} \cup {} = {size}
    BY <1>3
  <2>. QED  BY <1>1, <2>1, <2>2 DEF SizesOf
<1>. QED  BY <1>2, <1>3 DEF EndsAt

----------------------------------------------------------------------------
(* A task does a step                                                      *)

LEMMA MoreToDo ==
    ASSUME OrderInv, NEW w \in Workers, Busy(w), Current(w).do \notin {"done", "push"}
    PROVE  Tail(tasks[w].steps) # <<>>
<1>. DEFINE q == tasks[w].steps
<1>1. Line(w, q) /\ q # <<>> /\ Current(w) = q[1] /\ q \in Seq(Steps)
  BY CurrentFacts, OrderFacts, TaskFields
<1>2. q[Len(q)].do \in {"push", "done"}
  BY <1>1 DEF Line
<1>. HIDE DEF q
<1>3. Len(q) # 1
  BY <1>1, <1>2
<1>4. Len(q) \in Nat /\ Len(q) > 0 /\ Len(Tail(q)) = Len(q) - 1
  BY <1>1, EmptySeq, LenProperties, HeadTailProperties
<1>5. Len(<<>>) = 0
  OBVIOUS
<1>6. Len(Tail(q)) # 0
  BY <1>3, <1>4
<1>7. Tail(q) # <<>>
  BY <1>5, <1>6
<1>. QED  BY <1>7 DEF q

LEMMA KeptMoves ==
    ASSUME OrderInv, OrderInv', CurrentInv, NEW w \in Workers, Busy(w), NEW u,
           tasks' = [tasks EXCEPT ![w] = u], w = Main \/ (u.ids = tasks[w].ids /\ u.steps # <<>>),
           bridge'.events = bridge.events, bridge'.sizes = bridge.sizes,
           bridge'.loading = bridge.loading, bridge'.pending = bridge.pending,
           toPlugins' = toPlugins, screen'.open = screen.open
    PROVE  KeptWhileLoading'
<1>1. /\ tasks'[w] = u /\ (Busy(w)' <=> u.steps # <<>>)
      /\ \A v \in Workers : v # w => tasks'[v] = tasks[v] /\ (Busy(v)' <=> Busy(v))
      /\ Ids \subseteq Workers
  BY OthersStay, OrderFacts
<1>2. \A v \in Ids : (Busy(v)' <=> Busy(v)) /\ (tasks[v].ids)' = tasks[v].ids
  BY <1>1, NoneIsNone
<1>3. Covered' = Covered
  BY <1>2 DEF Covered
<1>. QED  BY <1>3 DEF CurrentInv, KeptWhileLoading

LEMMA NewcomerMoves ==
    ASSUME OrderInv, OrderInv', CurrentInv, NEW w \in Workers, Busy(w), NEW u,
           tasks' = [tasks EXCEPT ![w] = u],
           w = Main => u.steps = <<>> \/ u.steps = Tail(tasks[Main].steps),
           u.steps = <<>> \/ bridge'.connected = bridge.connected
    PROVE  w = Main \/ bridge'.connected = bridge.connected => NewcomerAlone'
<1>1. /\ tasks'[w] = u /\ StepsOf(w)' = ToSet(u.steps)
      /\ \A v \in Workers : v # w => tasks'[v] = tasks[v] /\ StepsOf(v)' = StepsOf(v)
      /\ Main \in Workers
  BY OthersStay, OrderFacts
<1>2. CASE w # Main /\ bridge'.connected = bridge.connected
  BY <1>1, <1>2 DEF CurrentInv, NewcomerAlone, Connected
<1>3. CASE w = Main /\ u.steps = <<>>
  <2>1. StepsOf(Main)' = {} /\ tasks'[Main].steps = <<>> /\ Len(<<>>) = 0
    BY <1>1, <1>3, SetOfOne
  <2>. QED  BY <2>1 DEF NewcomerAlone
<1>4. CASE w = Main /\ u.steps = Tail(tasks[Main].steps) /\ u.steps # <<>>
  <2>. DEFINE q == tasks[Main].steps
  <2>1. /\ StepsOf(Main) = {Current(Main)} \cup ToSet(Tail(q)) /\ q \in Seq(Steps) /\ q # <<>>
    BY <1>4, FirstIsFine
  <2>2. /\ Len(q) \in Nat /\ Len(q) > 0 /\ Len(Tail(q)) = Len(q) - 1
        /\ \A i \in 1 .. Len(Tail(q)) : Tail(q)[i] = q[i + 1]
    BY <2>1, EmptySeq, LenProperties, HeadTailProperties
  <2>3. tasks'[Main].steps = Tail(q) /\ StepsOf(Main)' \subseteq StepsOf(Main)
    BY <1>1, <1>4, <2>1
  <2>4. Connected' = Connected
    BY <1>4 DEF Connected
  <2>5. \A i \in 1 .. Len(q) - 1 : q[i].do = "copy" => q[i + 1].id = q[i].id
    BY DEF CurrentInv, NewcomerAlone
  <2>. HIDE DEF q
  <2>6. ASSUME NEW i \in 1 .. Len(Tail(q)) - 1, Tail(q)[i].do = "copy"
        PROVE  Tail(q)[i + 1].id = Tail(q)[i].id
    <3>1. i \in 1 .. Len(Tail(q)) /\ i + 1 \in 1 .. Len(Tail(q)) /\ i + 1 \in 1 .. Len(q) - 1
      BY <2>2
    <3>. QED  BY <2>2, <2>5, <2>6, <3>1
  <2>. QED  BY <2>3, <2>4, <2>6 DEF CurrentInv, NewcomerAlone
<1>. QED  BY <1>2, <1>3, <1>4

LEMMA CodeMoves ==
    ASSUME OrderInv, OrderInv', CodeIsNew, NEW w \in Workers, Busy(w), NEW u,
           tasks' = [tasks EXCEPT ![w] = u], file' = file, Listed' \subseteq Listed,
           \A id \in Ids, c \in Clients : running'[id][c] # None =>
               running'[id][c] = running[id][c] \/ running'[id][c].code = file,
           \A id \in AgainOf(StepsOf(w)), c \in Listed' :
               id \in AgainOf(ToSet(u.steps)) \/ <<id, c>> \in PutsOf(ToSet(u.steps)),
           \A id \in Ids, c \in Clients : <<id, c>> \in PutsOf(StepsOf(w)) =>
               \/ <<id, c>> \in PutsOf(ToSet(u.steps))
               \/ running'[id][c] # None => running'[id][c].code = file,
           u.module \in {None, file},
           cache' \in {None, file} \/ \E v \in Ids : Compiles(v)'
    PROVE  CodeIsNew'
<1>1. /\ tasks'[w] = u /\ StepsOf(w)' = ToSet(u.steps)
      /\ \A v \in Workers : v # w => tasks'[v] = tasks[v] /\ StepsOf(v)' = StepsOf(v)
  BY OthersStay, OrderFacts
<1>2. Listed \subseteq Clients
  <2>1. bridge.connected \in Seq(Clients)
    BY OrderFacts, TypesOfInv, BridgeFields
  <2>2. Connected \subseteq Clients
    BY <2>1, SetOfSeq DEF Connected
  <2>. QED  BY <2>2 DEF Listed, PushesOf
<1>3. ASSUME NEW id \in Ids, NEW c \in Listed', running'[id][c] # None
      PROVE  running'[id][c].code = file \/ Renewed(id, c)'
  <2>0. c \in Clients /\ c \in Listed
    BY <1>2
  <2>1. CASE running'[id][c] = running[id][c] /\ running[id][c].code # file
    <3>1. Renewed(id, c)
      BY <1>3, <2>0, <2>1 DEF CodeIsNew
    <3>2. PICK v \in Workers : id \in AgainOf(StepsOf(v)) \/ <<id, c>> \in PutsOf(StepsOf(v))
      BY <3>1 DEF Renewed
    <3>3. CASE v # w
      BY <1>1, <3>2, <3>3 DEF Renewed
    <3>4. CASE v = w
      <4>1. id \in AgainOf(ToSet(u.steps)) \/ <<id, c>> \in PutsOf(ToSet(u.steps))
        BY <1>3, <2>0, <2>1, <3>2, <3>4
      <4>. QED  BY <1>1, <4>1 DEF Renewed
    <3>. QED  BY <3>3, <3>4
  <2>. QED  BY <1>3, <2>0, <2>1
<1>4. \A v \in Workers : tasks'[v].module \in {None, file}
  BY <1>1 DEF CodeIsNew
<1>. QED  BY <1>3, <1>4 DEF CodeIsNew

LEMMA SizesMove ==
    ASSUME OrderInv, OrderInv', CurrentInv, NEW w \in Workers, Busy(w), NEW u,
           tasks' = [tasks EXCEPT ![w] = u],
           bridge'.sizes = bridge.sizes, screen'.size = screen.size,
           \A id \in Ids, c \in Clients : running'[id][c] # None =>
               \/ running'[id][c] = running[id][c]
               \/ /\ Numbered(running'[id][c])
                  /\ bridge.sizes[id] # None \/ EndsAt(running'[id][c], screen.size[id]),
           w = Main /\ u.module # None =>
               \/ bridge.sizes[Head(u.steps).id] # None
               \/ u.size = screen.size[Head(u.steps).id]
    PROVE  SizesAreKnown'
<1>1. /\ tasks'[w] = u /\ Main \in Workers
      /\ \A v \in Workers : v # w => tasks'[v] = tasks[v]
  BY OthersStay, OrderFacts
<1>2. tasks'[Main].module # None =>
          \/ bridge'.sizes[Current(Main)'.id] # None
          \/ tasks'[Main].size = screen'.size[Current(Main)'.id]
  <2>1. CASE w = Main
    BY <1>1, <2>1 DEF Current
  <2>2. CASE w # Main
    BY <1>1, <2>2 DEF Current, CurrentInv, SizesAreKnown
  <2>. QED  BY <2>1, <2>2
<1>3. ASSUME NEW id \in Ids, NEW c \in Clients, running'[id][c] # None
      PROVE  /\ Numbered(running'[id][c])
             /\ bridge'.sizes[id] # None \/ EndsAt(running'[id][c], screen'.size[id])
  BY <1>3 DEF CurrentInv, SizesAreKnown
<1>. QED  BY <1>2, <1>3 DEF CurrentInv, SizesAreKnown

LEMMA NewsMoves ==
    ASSUME OrderInv, OrderInv', CurrentInv, NEW w \in Workers, Busy(w), NEW u,
           tasks' = [tasks EXCEPT ![w] = u],
           bridge'.events = bridge.events, screen'.now = screen.now,
           screen.asked => screen'.asked, Connected' = Connected \/ screen'.asked,
           \A id \in Ids, c \in Clients : running'[id][c] # None =>
               \/ running'[id][c] = running[id][c]
               \/ /\ running'[id][c].told = 0 /\ running'[id][c].news = {}
                  /\ bridge.events[id] # None \/ c \notin Connected',
           \A id \in LoadedOf(StepsOf(w)) : id \in LoadedOf(ToSet(u.steps)) \/ screen'.asked
    PROVE  NewsIsKnown'
<1>1. /\ tasks'[w] = u /\ StepsOf(w)' = ToSet(u.steps)
      /\ \A v \in Workers : v # w => tasks'[v] = tasks[v] /\ StepsOf(v)' = StepsOf(v)
      /\ Ids \subseteq Workers
  BY OthersStay, OrderFacts
<1>2. screen.now \in Nat
  BY OrderFacts, NumberFacts
<1>3. ASSUME NEW id \in Ids, NEW c \in Clients, running'[id][c] # None
      PROVE  /\ running'[id][c].told <= screen'.now
             /\ \A n \in running'[id][c].news : n <= screen'.now
             /\ bridge'.events[id] = None /\ c \in Connected' =>
                   Knows(running'[id][c], screen'.now) \/ screen'.asked
  <2>1. CASE running'[id][c] = running[id][c]
    BY <1>3, <2>1 DEF CurrentInv, NewsIsKnown
  <2>2. CASE /\ running'[id][c].told = 0 /\ running'[id][c].news = {}
             /\ bridge.events[id] # None \/ c \notin Connected'
    BY <1>2, <2>2
  <2>. QED  BY <1>3, <2>1, <2>2
<1>4. ASSUME NEW id \in Ids, bridge'.events[id] # None
      PROVE  /\ \A n \in bridge'.events[id] : n <= screen'.now
             /\ \/ screen'.now \in bridge'.events[id] \/ screen'.asked
                \/ \E v \in Ids : id \in LoadedOf(StepsOf(v))'
  <2>1. \A v \in Ids : id \in LoadedOf(StepsOf(v)) => id \in LoadedOf(StepsOf(v))' \/ screen'.asked
    BY <1>1 DEF LoadedOf
  <2>. QED  BY <1>4, <2>1 DEF CurrentInv, NewsIsKnown
<1>. QED  BY <1>3, <1>4 DEF NewsIsKnown

LEMMA NeverFails ==
    ASSUME OrderInv, OrderInv', NEW w \in Workers, Busy(w)
    PROVE  ~Fail(w) /\ (w # Main => ~Fails(w))
<1>1. bridge'.up /\ screen'.failed = {}
  BY OrderFacts DEF OrderInv, NothingFails
<1>2. ~FailsInMain
  <2>1. bridge \in Bridges
    BY OrderFacts, TypesOfInv
  <2>. QED  BY <1>1, <2>1 DEF FailsInMain, Bridges
<1>3. ASSUME w # Main, Fails(w)
      PROVE  FALSE
  <2>1. w \in Ids /\ w \in tasks[w].ids
    BY <1>3, OrderFacts DEF Workers, AllTidy, Tidy
  <2>2. screen \in Screens
    BY OrderFacts, TypesOfInv
  <2>3. screen'.failed = screen.failed \cup (IF tasks[w].for = "others" THEN {Current(w).id} ELSE tasks[w].ids)
    BY <1>3, <2>2 DEF Fails, Screens
  <2>. QED  BY <1>1, <2>1, <2>3
<1>. QED  BY <1>2, <1>3 DEF Fail

LEMMA CacheIsNew ==
    ASSUME OrderInv, CodeIsNew, NEW w \in Workers, Busy(w),
           Current(w).do \notin {"again", "compile", "put"}
    PROVE  cache \in {None, file}
<1>1. ASSUME NEW v \in Ids, Compiles(v)
      PROVE  FALSE
  <2>1. \A x \in Workers \ {v} : ~Busy(x)
    BY <1>1, OrderFacts DEF Compiles, AllTidy, Tidy
  <2>2. v = w
    BY <2>1
  <2>. QED  BY <1>1, <2>2 DEF Compiles
<1>. QED  BY <1>1 DEF CodeIsNew

LEMMA StepsAhead ==
    ASSUME OrderInv, NEW w \in Workers, Busy(w)
    PROVE  LET T == ToSet(Tail(tasks[w].steps))
           IN  /\ AgainOf(StepsOf(w)) = AgainOf({Current(w)}) \cup AgainOf(T)
               /\ LoadedOf(StepsOf(w)) = LoadedOf({Current(w)}) \cup LoadedOf(T)
               /\ PutsOf(StepsOf(w)) = PutsOf({Current(w)}) \cup PutsOf(T)
               /\ PushesOf(T) \subseteq PushesOf(StepsOf(w))
<1>. DEFINE T == ToSet(Tail(tasks[w].steps))
<1>1. StepsOf(w) = {Current(w)} \cup T
  BY FirstIsFine
<1>. HIDE DEF T
<1>2. \A A, B : AgainOf(A \cup B) = AgainOf(A) \cup AgainOf(B)
                /\ LoadedOf(A \cup B) = LoadedOf(A) \cup LoadedOf(B)
  BY DEF AgainOf, LoadedOf
<1>3. /\ PutsOf({Current(w)} \cup T) = PutsOf({Current(w)}) \cup PutsOf(T)
      /\ PushesOf({Current(w)} \cup T) = PushesOf({Current(w)}) \cup PushesOf(T)
  BY PutsTogether
<1>4. /\ AgainOf(StepsOf(w)) = AgainOf({Current(w)}) \cup AgainOf(T)
      /\ LoadedOf(StepsOf(w)) = LoadedOf({Current(w)}) \cup LoadedOf(T)
  BY <1>1, <1>2
<1>5. /\ PutsOf(StepsOf(w)) = PutsOf({Current(w)}) \cup PutsOf(T)
      /\ PushesOf(T) \subseteq PushesOf(StepsOf(w))
  BY <1>1, <1>3
<1>. QED  BY <1>4, <1>5 DEF T

(* A task that goes on to its next step                                    *)
LEMMA TailCurrent ==
    ASSUME OrderInv, OrderInv', CurrentInv, NEW w \in Workers, Busy(w), NEW u,
           Current(w).do \in Making \cup {"put", "unlock", "loaded"},
           tasks' = [tasks EXCEPT ![w] = u], u.steps = Tail(tasks[w].steps), u.ids = tasks[w].ids,
           bridge'.events = bridge.events, bridge'.sizes = bridge.sizes,
           bridge'.loading = bridge.loading, bridge'.pending = bridge.pending,
           bridge'.connected = bridge.connected,
           toPlugins' = toPlugins, file' = file,
           screen'.open = screen.open, screen'.size = screen.size, screen'.now = screen.now,
           screen.asked => screen'.asked, Current(w).do = "loaded" => screen'.asked,
           \A id \in Ids, c \in Clients : running'[id][c] # None =>
               \/ /\ running'[id][c] = running[id][c]
                  /\ Current(w).do = "put" => id # Current(w).id \/ c # Current(w).client
               \/ /\ Numbered(running'[id][c])
                  /\ bridge.sizes[id] # None \/ EndsAt(running'[id][c], screen.size[id])
                  /\ running'[id][c].told = 0 /\ running'[id][c].news = {}
                  /\ bridge.events[id] # None \/ c \notin Connected
                  /\ bridge.pending \/ running'[id][c].code = file,
           bridge.pending \/ u.module \in {None, file},
           bridge.pending \/ cache' \in {None, file} \/ \E v \in Ids : Compiles(v)',
           w = Main /\ u.module # None =>
               \/ bridge.sizes[Head(u.steps).id] # None
               \/ u.size = screen.size[Head(u.steps).id]
    PROVE  CurrentInv'
<1>1. Tail(tasks[w].steps) # <<>>
  BY MoreToDo DEF Making
<1>2. KeptWhileLoading'
  BY <1>1, KeptMoves
<1>3. NewcomerAlone'
  BY NewcomerMoves
<1>4. SizesAreKnown'
  BY SizesMove
<1>5. /\ AgainOf(StepsOf(w)) = AgainOf(ToSet(u.steps))
      /\ \A id \in LoadedOf(StepsOf(w)) : id \in LoadedOf(ToSet(u.steps)) \/ screen'.asked
      /\ PutsOf(StepsOf(w)) = PutsOf({Current(w)}) \cup PutsOf(ToSet(u.steps))
      /\ PushesOf(ToSet(u.steps)) \subseteq PushesOf(StepsOf(w))
  <2>1. AgainOf({Current(w)}) = {}
    BY DEF AgainOf, Making
  <2>2. \A id \in LoadedOf({Current(w)}) : Current(w).do = "loaded"
    BY DEF LoadedOf, Making
  <2>. QED  BY <2>1, <2>2, StepsAhead
<1>6. NewsIsKnown'
  <2>1. Connected' = Connected
    BY DEF Connected
  <2>. QED  BY <1>5, <2>1, NewsMoves
<1>7. Listed' \subseteq Listed
  <2>1. TypeInv /\ (w = Main => PushesOf(ToSet(u.steps)) \subseteq PushesOf(StepsOf(Main)))
    BY <1>5, OrderFacts
  <2>2. /\ w # Main => Listed' = Connected' \cup PushesOf(StepsOf(Main))
        /\ w = Main => Listed' = Connected' \cup PushesOf(ToSet(u.steps))
    BY <2>1, ClonesKept
  <2>3. Connected' = Connected
    BY DEF Connected
  <2>. QED  BY <2>1, <2>2, <2>3 DEF Listed
<1>8. ASSUME ~bridge.pending
      PROVE  CodeIsNew'
  <2>1. ASSUME NEW id \in Ids, NEW c \in Clients, <<id, c>> \in PutsOf({Current(w)})
        PROVE  running'[id][c] # None => running'[id][c].code = file
    <3>1. Current(w).do = "put" /\ Current(w).id = id /\ Current(w).client = c
      BY <2>1 DEF PutsOf
    <3>. QED  BY <1>8, <3>1
  <2>2. \A id \in Ids, c \in Clients : <<id, c>> \in PutsOf(StepsOf(w)) =>
               \/ <<id, c>> \in PutsOf(ToSet(u.steps))
               \/ running'[id][c] # None => running'[id][c].code = file
    BY <1>5, <2>1
  <2>3. \A id \in Ids, c \in Clients : running'[id][c] # None =>
               running'[id][c] = running[id][c] \/ running'[id][c].code = file
    BY <1>8
  <2>4. \A id \in AgainOf(StepsOf(w)), c \in Listed' :
               id \in AgainOf(ToSet(u.steps)) \/ <<id, c>> \in PutsOf(ToSet(u.steps))
    BY <1>5
  <2>5. CodeIsNew
    BY <1>8 DEF CurrentInv
  <2>. QED  BY <1>7, <1>8, <2>2, <2>3, <2>4, <2>5, CodeMoves
<1>. QED  BY <1>2, <1>3, <1>4, <1>6, <1>8 DEF CurrentInv

(* What a step of a task needs, beyond that it goes on, when nothing runs  *)
(* otherwise                                                               *)
LEMMA QuietTail ==
    ASSUME OrderInv, OrderInv', CurrentInv, NEW w \in Workers, Busy(w), NEW u,
           Current(w).do \in Making \cup {"unlock", "loaded"},
           tasks' = [tasks EXCEPT ![w] = u], u.steps = Tail(tasks[w].steps), u.ids = tasks[w].ids,
           bridge'.events = bridge.events, bridge'.sizes = bridge.sizes,
           bridge'.loading = bridge.loading, bridge'.pending = bridge.pending,
           bridge'.connected = bridge.connected,
           UNCHANGED <<running, file, toPlugins>>,
           screen'.open = screen.open, screen'.size = screen.size, screen'.now = screen.now,
           screen.asked => screen'.asked, Current(w).do = "loaded" => screen'.asked,
           bridge.pending \/ u.module \in {None, file},
           bridge.pending \/ cache' \in {None, file} \/ \E v \in Ids : Compiles(v)',
           w = Main /\ u.module # None =>
               \/ bridge.sizes[Head(u.steps).id] # None
               \/ u.size = screen.size[Head(u.steps).id]
    PROVE  CurrentInv'
<1>1. Current(w).do # "put"
  BY DEF Making
<1>2. \A id \in Ids, c \in Clients : running'[id][c] # None => running'[id][c] = running[id][c]
  OBVIOUS
<1>. QED  BY <1>1, <1>2, TailCurrent

LEMMA LoadModuleCurrent ==
    ASSUME OrderInv, OrderInv', CurrentInv, NEW w \in Workers, LoadModule(w)
    PROVE  CurrentInv'
<1>. DEFINE m == IF cache # None THEN cache ELSE file
            u == [Next1(tasks[w]) EXCEPT !.module = m]
<1>1. Busy(w) /\ Current(w).do = "load" /\ tasks' = [tasks EXCEPT ![w] = u] /\ cache' = None
  BY DEF LoadModule, Does, Goes, Rest, Next1
<1>2. TypeInv /\ m \in Versions
  BY OrderFacts, TypesOfInv DEF Maybe
<1>3. u.steps = Tail(tasks[w].steps) /\ u.ids = tasks[w].ids /\ u.module = m
  <2>1. tasks[w] \in Tasks /\ tasks[w].steps # <<>>
    BY <1>1, <1>2, CurrentFacts
  <2>2. tasks[w].size \in Maybe(Sizes)
    BY <2>1, TaskFields
  <2>. HIDE DEF m
  <2>. QED  BY <1>2, <2>1, <2>2, MadeFields
<1>4. bridge.pending \/ m \in {None, file}
  <2>1. ~bridge.pending => CodeIsNew
    BY DEF CurrentInv
  <2>. QED  BY <1>1, <2>1, CacheIsNew
<1>5. w # Main
  <2>1. StepOK(w, Current(w))
    BY <1>1, <1>2, CurrentFacts
  <2>. QED  BY <1>1, <2>1 DEF StepOK
<1>. HIDE DEF u, m
<1>6. UNCHANGED <<bridge, running, file, toPlugins, screen>>
  BY DEF LoadModule
<1>. QED  BY <1>1, <1>3, <1>4, <1>5, <1>6, QuietTail DEF Making

LEMMA CompileModuleCurrent ==
    ASSUME OrderInv, OrderInv', CurrentInv, NEW w \in Workers, CompileModule(w)
    PROVE  CurrentInv'
<1>. DEFINE u == [Next1(tasks[w]) EXCEPT !.module = file]
<1>1. Busy(w) /\ Current(w).do = "compile"
  BY DEF CompileModule, Does
<1>2. TypeInv /\ file \in Versions
  BY OrderFacts, TypesOfInv
<1>3. w # Main
  <2>1. StepOK(w, Current(w))
    BY <1>1, <1>2, CurrentFacts
  <2>. QED  BY <1>1, <2>1 DEF StepOK
<1>4. tasks' = [tasks EXCEPT ![w] = u]
      /\ UNCHANGED <<bridge, running, cache, file, toPlugins, screen>>
  BY <1>1, <1>3, NeverFails DEF CompileModule, Goes, Rest, Next1
<1>5. u.steps = Tail(tasks[w].steps) /\ u.ids = tasks[w].ids /\ u.module = file /\ u.for = tasks[w].for
  <2>1. tasks[w] \in Tasks /\ tasks[w].steps # <<>>
    BY <1>1, <1>2, CurrentFacts
  <2>2. tasks[w].size \in Maybe(Sizes)
    BY <2>1, TaskFields
  <2>. QED  BY <1>2, <2>1, <2>2, MadeFields
<1>. HIDE DEF u
<1>6. ASSUME NEW v \in Ids, Compiles(v)
      PROVE  Compiles(v)'
  <2>1. \A x \in Workers \ {v} : ~Busy(x)
    BY <1>6, OrderFacts DEF Compiles, AllTidy, Tidy
  <2>2. v = w
    BY <1>1, <2>1
  <2>3. tasks'[w] = u
    BY <1>2, <1>4, OthersStay
  <2>4. Tail(tasks[w].steps) # <<>> /\ Tail(tasks[w].steps)[1].do = "put"
    <3>1. Line(w, tasks[w].steps) /\ tasks[w].steps # <<>> /\ Current(w) = tasks[w].steps[1]
      BY <1>1, <1>2, CurrentFacts
    <3>. QED  BY <1>1, <3>1, LineTail DEF Making
  <2>5. Busy(w)' /\ (Current(w).do)' = "put"
    <3>1. (Current(w))' = Head(u.steps)
      BY <2>3 DEF Current
    <3>2. u.steps \in Seq(Steps) /\ u.steps # <<>> /\ u.steps[1].do = "put"
      BY <1>1, <1>5, <2>4, FirstIsFine
    <3>3. Head(u.steps) = u.steps[1]
      BY <3>2, TailFacts
    <3>. QED  BY <2>3, <3>1, <3>2, <3>3 DEF Busy
  <2>. QED  BY <1>5, <1>6, <2>2, <2>3, <2>5 DEF Compiles
<1>7. bridge.pending \/ cache' \in {None, file} \/ \E v \in Ids : Compiles(v)'
  BY <1>4, <1>6 DEF CurrentInv, CodeIsNew
<1>. QED  BY <1>1, <1>3, <1>4, <1>5, <1>7, QuietTail DEF Making

LEMMA TakesCurrent ==
    ASSUME OrderInv, OrderInv', CurrentInv, NEW w \in Workers, Busy(w),
           Current(w).do \in {"take", "copy"},
           NEW task \in Tasks, task.steps = Tail(tasks[w].steps), task.ids = tasks[w].ids,
           LoadModuleFromMemory(w, task),
           w = Main => \/ bridge.sizes[Head(task.steps).id] # None
                       \/ task.size = screen.size[Head(task.steps).id]
    PROVE  CurrentInv'
<1>. DEFINE u == [task EXCEPT !.module = cache]
<1>1. /\ tasks' = [tasks EXCEPT ![w] = u] /\ cache' = None
      /\ UNCHANGED <<bridge, running, file, toPlugins, screen>>
  BY NeverFails DEF LoadModuleFromMemory, Goes
<1>2. u.steps = task.steps /\ u.module = cache /\ u.ids = task.ids /\ u.size = task.size
  BY DEF Tasks
<1>. HIDE DEF u
<1>3. bridge.pending \/ cache \in {None, file}
  <2>1. ~bridge.pending => CodeIsNew
    BY DEF CurrentInv
  <2>. QED  BY <2>1, CacheIsNew
<1>. QED  BY <1>1, <1>2, <1>3, QuietTail DEF Making

LEMMA TakeCurrent ==
    ASSUME OrderInv, OrderInv', CurrentInv, NEW w \in Workers, Take(w)
    PROVE  CurrentInv'
<1>0. TypeInv
  BY OrderFacts
<1>1. Busy(w) /\ Current(w).do = "take" /\ LoadModuleFromMemory(w, Rest(w))
  BY DEF Take, Does
<1>2. Rest(w) \in Tasks /\ Rest(w).steps = Tail(tasks[w].steps) /\ Rest(w).ids = tasks[w].ids
  BY <1>0, <1>1, CurrentFacts, Next1Fields
<1>3. w # Main
  <2>1. StepOK(w, Current(w))
    BY <1>0, <1>1, CurrentFacts
  <2>. QED  BY <1>1, <2>1 DEF StepOK
<1>. QED  BY <1>1, <1>2, <1>3, TakesCurrent

(* The size that is copied for a client that comes is that of the pane.    *)
LEMMA CopyCurrent ==
    ASSUME InTurn, OrderInv, OrderInv', CurrentInv, NEW w \in Workers, Copy(w)
    PROVE  CurrentInv'
<1>. DEFINE s == Current(w)
            instances == {running[s.id][c] : c \in Clients} \ {None}
<1>0. TypeInv
  BY OrderFacts
<1>1. Busy(w) /\ s.do = "copy"
  BY DEF Copy, Does
<1>2. /\ tasks[w] \in Tasks /\ tasks[w].steps # <<>> /\ Rest(w) = Next1(tasks[w])
      /\ s = tasks[w].steps[1] /\ StepOK(w, s)
  BY <1>0, <1>1, CurrentFacts
<1>3. s.id \in Ids
  BY <1>1, <1>2, StepIds DEF OfPlugin, Making
<1>4. PICK i \in instances : \E size \in SizesOf(i) :
         LoadModuleFromMemory(w, [Rest(w) EXCEPT !.size = size])
  BY <1>1, NeverFails DEF Copy
<1>5. PICK size \in SizesOf(i) : LoadModuleFromMemory(w, [Rest(w) EXCEPT !.size = size])
  BY <1>4
<1>6. i \in Instances
  BY <1>0, <1>3, <1>4, TypesOfInv DEF Maybe
<1>7. size \in Maybe(Sizes)
  BY <1>6, SizesOfType DEF Maybe
<1>. DEFINE task == [Rest(w) EXCEPT !.size = size]
<1>8. /\ task \in Tasks /\ task.steps = Tail(tasks[w].steps)
      /\ task.ids = tasks[w].ids /\ task.size = size
  <2>1. /\ Rest(w) \in Tasks /\ Rest(w).steps = Tail(tasks[w].steps)
        /\ Rest(w).ids = tasks[w].ids
    BY <1>2, Next1Fields
  <2>. QED  BY <2>1, <1>7 DEF Tasks
<1>9. ASSUME w = Main, bridge.sizes[s.id] = None
      PROVE  size = screen.size[s.id]
  <2>1. PICK c \in Clients : i = running[s.id][c] /\ running[s.id][c] # None
    BY <1>4
  <2>2. Numbered(i) /\ EndsAt(i, screen.size[s.id])
    BY <1>3, <1>9, <2>1 DEF CurrentInv, SizesAreKnown
  <2>3. SizesOf(i) = {screen.size[s.id]}
    BY <1>6, <2>2, EndsSizes
  <2>. QED  BY <1>5, <2>3
<1>10. ASSUME w = Main
       PROVE  Head(Tail(tasks[w].steps)).id = s.id
  <2>. DEFINE q == tasks[w].steps
  <2>1. q \in Seq(Steps) /\ q # <<>> /\ Tail(q) # <<>> /\ Tail(q) \in Seq(Steps)
    BY <1>1, MoreToDo, FirstIsFine
  <2>2. \A j \in 1 .. Len(q) - 1 : q[j].do = "copy" => q[j + 1].id = q[j].id
    BY <1>10 DEF CurrentInv, NewcomerAlone
  <2>3. q[1].do = "copy" /\ q[1] = s
    BY <1>1, <1>2
  <2>. HIDE DEF q, s
  <2>4. /\ Len(q) \in Nat /\ Len(q) > 1 /\ Head(Tail(q)) = Tail(q)[1] /\ Tail(q)[1] = q[2]
    <3>1. Head(Tail(q)) = Tail(q)[1] /\ Len(q) > 1 /\ Len(q) \in Nat
      BY <2>1, TailFacts
    <3>2. 1 \in 1 .. Len(q) - 1 /\ 1 + 1 = 2
      BY <3>1
    <3>3. Tail(q)[1] = q[1 + 1]
      BY <2>1, <3>2, TailFacts
    <3>. QED  BY <3>1, <3>2, <3>3
  <2>5. 1 \in 1 .. Len(q) - 1 /\ 1 + 1 = 2
    BY <2>4
  <2>6. q[1 + 1].id = q[1].id
    BY <2>2, <2>3, <2>5
  <2>. QED  BY <2>3, <2>4, <2>5, <2>6 DEF q
<1>. HIDE DEF task
<1>11. LoadModuleFromMemory(w, task)
  BY <1>5 DEF task
<1>12. w = Main => \/ bridge.sizes[Head(task.steps).id] # None
                   \/ task.size = screen.size[Head(task.steps).id]
  BY <1>8, <1>9, <1>10
<1>13. Current(w).do \in {"take", "copy"}
  BY <1>1
<1>. QED  BY <1>1, <1>8, <1>11, <1>12, <1>13, TakesCurrent

LEMMA WorkIsKept ==
    ASSUME OrderInv, CurrentInv, NEW w \in Ids, Busy(w), NEW id \in tasks[w].ids, id \in Ids
    PROVE  bridge.events[id] # None /\ bridge.sizes[id] # None
<1>1. id \in Covered
  BY DEF Covered
<1>. QED  BY <1>1 DEF CurrentInv, KeptWhileLoading

LEMMA PutCurrent ==
    ASSUME OrderInv, OrderInv', CurrentInv, NEW w \in Workers, Put(w)
    PROVE  CurrentInv'
<1>. DEFINE s == Current(w)
            u == [Next1(tasks[w]) EXCEPT !.module = None]
            i == NewInstance(tasks[w].module, tasks[w].size)
<1>0. TypeInv
  BY OrderFacts
<1>1. Busy(w) /\ s.do = "put"
  BY DEF Put, Does
<1>2. /\ TaskOK(w, tasks[w]) /\ tasks[w] \in Tasks /\ tasks[w].steps # <<>>
      /\ tasks[w].steps[1].do = "put" /\ Rest(w) = Next1(tasks[w])
      /\ StepOK(w, s)
  BY <1>0, <1>1, CurrentFacts
<1>3. s.id \in Ids /\ s.client \in Clients
  BY <1>1, <1>2, StepIds DEF OfPlugin, OfClient
<1>4. tasks[w].module # None
  BY <1>2 DEF TaskOK
<1>5. /\ running' = [running EXCEPT ![s.id][s.client] = i]
      /\ cache' = tasks[w].module
      /\ UNCHANGED <<bridge, file, toPlugins, screen, requests>>
      /\ tasks' = [tasks EXCEPT ![w] = u]
  BY <1>2 DEF Put, Goes
<1>6. u.steps = Tail(tasks[w].steps) /\ u.ids = tasks[w].ids /\ u.module = None
  BY <1>2, TaskPuts
<1>7. ASSUME NEW id \in Ids, NEW c \in Clients
      PROVE  running'[id][c] = IF id = s.id /\ c = s.client THEN i ELSE running[id][c]
  BY <1>0, <1>3, <1>5, TypesOfInv
<1>8. bridge.pending \/ tasks[w].module = file
  BY <1>4 DEF CurrentInv, CodeIsNew
<1>9. /\ i.code = tasks[w].module /\ i.told = 0 /\ i.news = {}
      /\ Numbered(i) /\ EndsAt(i, tasks[w].size)
  BY NewEnds DEF NewInstance
<1>10. /\ bridge.sizes[s.id] # None \/ tasks[w].size = screen.size[s.id]
       /\ bridge.events[s.id] # None \/ s.client \notin Connected
  <2>1. CASE w = Main
    <3>1. s \in StepsOf(Main)
      BY <1>1, <2>1, FirstIsFine
    <3>. QED  BY <1>4, <2>1, <3>1 DEF CurrentInv, SizesAreKnown, NewcomerAlone
  <2>2. CASE w # Main
    <3>1. w \in Ids /\ s \in StepsOf(w)
      BY <1>1, <2>2, FirstIsFine DEF Workers
    <3>2. s.id \in tasks[w].ids
      BY <1>1, <1>3, <3>1, NoneIsNone, OrderFacts DEF AllTidy, Tidy
    <3>. QED  BY <1>1, <1>3, <3>1, <3>2, WorkIsKept
  <2>. QED  BY <2>1, <2>2
<1>. HIDE DEF u, i, s
<1>11. \A id \in Ids, c \in Clients : running'[id][c] # None =>
               \/ /\ running'[id][c] = running[id][c]
                  /\ id # s.id \/ c # s.client
               \/ /\ Numbered(running'[id][c])
                  /\ bridge.sizes[id] # None \/ EndsAt(running'[id][c], screen.size[id])
                  /\ running'[id][c].told = 0 /\ running'[id][c].news = {}
                  /\ bridge.events[id] # None \/ c \notin Connected
                  /\ bridge.pending \/ running'[id][c].code = file
  BY <1>7, <1>8, <1>9, <1>10
<1>12. Current(w).do \in Making \cup {"put", "unlock", "loaded"} /\ Current(w).do # "loaded"
  BY <1>1 DEF s
<1>13. bridge.pending \/ cache' \in {None, file}
  BY <1>5, <1>8
<1>. QED  BY <1>1, <1>5, <1>6, <1>11, <1>12, <1>13, TailCurrent DEF s

LEMMA GoesOnCurrent ==
    ASSUME OrderInv, OrderInv', CurrentInv, NEW w \in Workers, Unlock(w) \/ Loaded(w)
    PROVE  CurrentInv'
<1>1. /\ Busy(w) /\ Current(w).do \in {"unlock", "loaded"} /\ tasks' = [tasks EXCEPT ![w] = Next1(tasks[w])]
      /\ UNCHANGED <<running, cache, file, toPlugins>>
  BY DEF Unlock, Loaded, Does, Goes, Rest, Next1
<1>2. TypeInv /\ bridge \in Bridges /\ screen \in Screens
  BY OrderFacts, TypesOfInv
<1>3. /\ bridge'.events = bridge.events /\ bridge'.sizes = bridge.sizes
      /\ bridge'.loading = bridge.loading /\ bridge'.pending = bridge.pending
      /\ bridge'.connected = bridge.connected
      /\ screen'.open = screen.open /\ screen'.size = screen.size /\ screen'.now = screen.now
      /\ screen.asked => screen'.asked
      /\ Current(w).do = "loaded" => screen'.asked
  <2>1. CASE Unlock(w)
    BY <1>2, <2>1 DEF Unlock, Does, Bridges
  <2>2. CASE Loaded(w)
    BY <1>2, <2>2 DEF Loaded, Screens
  <2>. QED  BY <2>1, <2>2
<1>4. /\ Next1(tasks[w]).steps = Tail(tasks[w].steps) /\ Next1(tasks[w]).ids = tasks[w].ids
      /\ Next1(tasks[w]).module = tasks[w].module /\ StepOK(w, Current(w))
  BY <1>1, <1>2, CurrentFacts, Next1Fields
<1>5. w # Main
  BY <1>1, <1>4 DEF StepOK
<1>6. bridge.pending \/ (cache \in {None, file} /\ tasks[w].module \in {None, file})
  <2>1. ~bridge.pending => CodeIsNew
    BY DEF CurrentInv
  <2>. QED  BY <1>1, <2>1, CacheIsNew DEF CodeIsNew
<1>. QED  BY <1>1, <1>3, <1>4, <1>5, <1>6, QuietTail

(* A task that gets more to do                                             *)
GetsMore(w, u) ==
    /\ Busy(w) /\ Current(w).do \in {"clone", "again", "memory"}
    /\ tasks' = [tasks EXCEPT ![w] = u]
    /\ u.ids = tasks[w].ids /\ u.steps # <<>> /\ u.module = None
    /\ StepsOf(w) \ {Current(w)} \subseteq ToSet(u.steps)
    /\ Current(w).do # "clone" =>
          /\ \E s \in ToSet(u.steps) : s.do = "loaded" /\ s.id = Current(w).id
          /\ \A c \in Connected : <<Current(w).id, c>> \in PutsOf(ToSet(u.steps))
    /\ bridge'.events = bridge.events /\ bridge'.sizes = bridge.sizes
    /\ bridge'.loading = bridge.loading /\ bridge'.pending = bridge.pending
    /\ bridge'.connected = bridge.connected
    /\ UNCHANGED <<cache, file, toPlugins, screen>>
    /\ \A id \in Ids, c \in Clients : running'[id][c] # None => running'[id][c] = running[id][c]
    /\ Current(w).do = "again" => Compiles(w)'

LEMMA RestepCurrent ==
    ASSUME OrderInv, OrderInv', CurrentInv, NEW w \in Ids, NEW u, GetsMore(w, u)
    PROVE  CurrentInv'
<1>0. TypeInv /\ w \in Workers /\ w # Main /\ Ids \subseteq Workers /\ Main \in Workers
  BY OrderFacts, NoneIsNone DEF Workers
<1>1. Connected' = Connected
  BY DEF GetsMore, Connected
<1>2. KeptWhileLoading'
  BY <1>0, KeptMoves DEF GetsMore
<1>3. NewcomerAlone'
  BY <1>0, NewcomerMoves DEF GetsMore
<1>4. SizesAreKnown'
  BY <1>0, SizesMove DEF GetsMore
<1>. DEFINE U == ToSet(u.steps)
            s == Current(w)
            T == StepsOf(w) \ {s}
<1>6. s.do \in {"clone", "again", "memory"} /\ T \subseteq U
  BY DEF GetsMore
<1>7. s.do # "clone" => /\ \E x \in U : x.do = "loaded" /\ x.id = s.id
                        /\ \A c \in Connected : <<s.id, c>> \in PutsOf(U)
  BY DEF GetsMore
<1>8. s \in StepsOf(w) /\ Busy(w)
  BY <1>0, FirstIsFine DEF GetsMore
<1>5. /\ AgainOf(StepsOf(w)) = AgainOf({s}) \cup AgainOf(T)
      /\ LoadedOf(StepsOf(w)) = LoadedOf({s}) \cup LoadedOf(T)
      /\ PutsOf(StepsOf(w)) = PutsOf({s}) \cup PutsOf(T)
  <2>1. StepsOf(w) = {s} \cup T
    BY <1>8
  <2>. HIDE DEF T, s
  <2>. QED  BY <2>1 DEF AgainOf, LoadedOf, PutsOf
<1>. HIDE DEF T, s
<1>9. /\ AgainOf(T) \subseteq AgainOf(U) /\ LoadedOf(T) \subseteq LoadedOf(U)
      /\ PutsOf(T) \subseteq PutsOf(U)
  BY <1>6 DEF AgainOf, LoadedOf, PutsOf
<1>. HIDE DEF U
<1>10. /\ \A id \in AgainOf({s}) : s.do # "clone" /\ id = s.id
       /\ \A id \in LoadedOf({s}) : s.do # "clone" /\ id = s.id
       /\ PutsOf({s}) = {}
  BY <1>6 DEF AgainOf, LoadedOf, PutsOf
<1>11. \A id \in LoadedOf(StepsOf(w)) : id \in LoadedOf(U)
  BY <1>5, <1>7, <1>9, <1>10 DEF LoadedOf
<1>12. NewsIsKnown'
  BY <1>0, <1>1, <1>11, NewsMoves DEF U, GetsMore
<1>13. Listed' = Connected' \cup PushesOf(StepsOf(Main)) /\ Listed' \subseteq Listed
  BY <1>0, <1>1, ClonesKept DEF Listed, GetsMore
<1>14. s.do # "clone" => Listed' = Connected
  <2>1. ASSUME s.do # "clone"
        PROVE  ~Busy(Main)
    <3>1. Tidy(w) /\ Busy(w)
      BY OrderFacts DEF AllTidy, GetsMore
    <3>2. tasks[w].for # "start"
      BY <1>6, <1>8, <2>1, <3>1 DEF Tidy
    <3>. QED  BY <1>0, <3>1, <3>2 DEF Tidy
  <2>2. ~Busy(Main) => StepsOf(Main) = {}
    BY SetOfOne DEF Busy, StepsOf
  <2>3. PushesOf({}) = {}
    BY NoPuts
  <2>. QED  BY <1>1, <1>13, <2>1, <2>2, <2>3
<1>15. \A id \in AgainOf(StepsOf(w)), c \in Listed' :
               id \in AgainOf(U) \/ <<id, c>> \in PutsOf(U)
  BY <1>5, <1>7, <1>9, <1>10, <1>14
<1>16. \A id \in Ids, c \in Clients : <<id, c>> \in PutsOf(StepsOf(w)) => <<id, c>> \in PutsOf(U)
  BY <1>5, <1>9, <1>10
<1>17. ASSUME ~bridge.pending
       PROVE  CodeIsNew'
  <2>1. CodeIsNew
    BY <1>17 DEF CurrentInv
  <2>2. cache' \in {None, file} \/ \E v \in Ids : Compiles(v)'
    <3>1. s.do # "again" => cache \in {None, file}
      BY <1>0, <1>6, <1>8, <2>1, CacheIsNew DEF s
    <3>. QED  BY <3>1 DEF s, GetsMore
  <2>. QED  BY <1>0, <1>13, <1>15, <1>16, <2>1, <2>2, CodeMoves DEF U, GetsMore
<1>. QED  BY <1>2, <1>3, <1>4, <1>12, <1>17 DEF CurrentInv, GetsMore

LEMMA CloneCurrent ==
    ASSUME OrderInv, OrderInv', CurrentInv, NEW w \in Workers, Clone(w)
    PROVE  CurrentInv'
<1>. DEFINE s == Current(w)
            others == Others(bridge.connected, s.client)
            a == CopyTo(s.id, others)
            z == <<Step("unlock", s.id, None)>>
            r == Tail(tasks[w].steps)
            q == a \o z \o r
            u == [Next1(tasks[w]) EXCEPT !.steps = q]
<1>0. TypeInv /\ bridge \in Bridges
  BY OrderFacts, TypesOfInv
<1>1. Busy(w) /\ s.do = "clone"
      /\ bridge' = [bridge EXCEPT !.locked = w]
      /\ UNCHANGED <<running, cache, file, toPlugins, screen, requests>>
  BY DEF Clone, Does
<1>2. /\ tasks[w] \in Tasks /\ tasks[w].steps # <<>> /\ Rest(w) = Next1(tasks[w]) /\ StepOK(w, s)
      /\ TaskOK(w, tasks[w]) /\ s = tasks[w].steps[1]
  BY <1>0, <1>1, CurrentFacts
<1>3. w \in Ids /\ w # Main /\ s.id \in Ids /\ s.client \in Clients
  <2>1. w # Main
    BY <1>1, <1>2 DEF StepOK
  <2>. QED  BY <1>1, <1>2, <2>1, StepIds DEF OfPlugin, OfClient, Workers
<1>4. others \in Seq(Clients)
  BY <1>0, TypesOfInv, BridgeFields, OthersFacts
<1>5. r \in Seq(Steps)
  BY <1>1, FirstIsFine
<1>7. z \in Seq(Steps)
  <2>1. StepOK(w, Step("unlock", s.id, None))
    BY <1>3, StepsAlone
  <2>. QED  BY <2>1 DEF StepOK
<1>8. a \in Seq(Steps)
  <2>. HIDE DEF others, s
  <2>. QED  BY <1>3, <1>4, CopyToSet
<1>9. tasks' = [tasks EXCEPT ![w] = u]
  <2>1. tasks' = [tasks EXCEPT ![w] = [Next1(tasks[w]) EXCEPT !.steps =
                       CopyTo(s.id, others) \o <<Step("unlock", s.id, None)>> \o @]]
    BY <1>2 DEF Clone, Goes
  <2>2. Next1(tasks[w]) \in Tasks /\ Next1(tasks[w]).steps = Tail(tasks[w].steps)
    BY <1>2, Next1Fields
  <2>. HIDE DEF s, others, Next1
  <2>. QED  BY <2>1, <2>2
<1>10. u.steps = q /\ u.ids = tasks[w].ids /\ u.module = None
  <2>1. Next1(tasks[w]) \in Tasks /\ Next1(tasks[w]).ids = tasks[w].ids
        /\ Next1(tasks[w]).module = tasks[w].module
    BY <1>2, Next1Fields
  <2>2. tasks[w].module = None
    BY <1>1, <1>2 DEF TaskOK
  <2>. HIDE DEF q, Next1
  <2>. QED  BY <2>1, <2>2 DEF Tasks
<1>. HIDE DEF u, a, z
<1>11. /\ q \in Seq(Steps) /\ ToSet(r) \subseteq ToSet(q) /\ q # <<>>
  <2>. DEFINE b == a \o z
  <2>1. b \in Seq(Steps)
    BY <1>7, <1>8, ConcatFacts
  <2>2. ToSet(b \o r) = ToSet(b) \cup ToSet(r) /\ b \o r \in Seq(Steps)
    <3>. HIDE DEF b, r
    <3>. QED  BY <1>5, <2>1, SetOfSeq, ConcatFacts
  <2>3. b # <<>>
    <3>1. Len(z) = 1 /\ Len(a \o z) = Len(a) + Len(z) /\ Len(a) \in Nat
      BY <1>7, <1>8, ConcatFacts DEF z
    <3>. QED  BY <2>1, <3>1, NotEmpty
  <2>4. b \o r # <<>>
    <3>. HIDE DEF b, r
    <3>1. Len(b) > 0 /\ Len(b \o r) = Len(b) + Len(r) /\ Len(b) \in Nat /\ Len(r) \in Nat
      BY <1>5, <2>1, <2>3, ConcatFacts, NotEmpty
    <3>. QED  BY <2>2, <3>1, NotEmpty
  <2>. QED  BY <2>2, <2>4
<1>12. /\ bridge'.events = bridge.events /\ bridge'.sizes = bridge.sizes
       /\ bridge'.loading = bridge.loading /\ bridge'.pending = bridge.pending
       /\ bridge'.connected = bridge.connected
  BY <1>0, <1>1 DEF Bridges
<1>. HIDE DEF q
<1>13. /\ Current(w).do = "clone" /\ Busy(w) /\ u.steps # <<>>
       /\ StepsOf(w) \ {Current(w)} \subseteq ToSet(u.steps)
       /\ UNCHANGED <<cache, file, toPlugins, screen>>
       /\ \A id \in Ids, c \in Clients : running'[id][c] # None => running'[id][c] = running[id][c]
  <2>1. StepsOf(w) = {Current(w)} \cup ToSet(r)
    BY <1>1, FirstIsFine
  <2>. HIDE DEF r
  <2>. QED  BY <1>1, <1>10, <1>11, <2>1
<1>. HIDE DEF r, s, others
<1>14. GetsMore(w, u)
  BY <1>9, <1>10, <1>12, <1>13 DEF GetsMore
<1>. QED  BY <1>3, <1>14, RestepCurrent

(* Whose instances are taken out will have them made anew.                 *)
LEMMA TakeOutCurrent ==
    ASSUME OrderInv, OrderInv', CurrentInv, NEW w \in Workers, NEW for \in {"reload", "others"},
           NEW how \in {"compile", "take"}, Busy(w), Current(w).do \in {"again", "memory"},
           TakeOut(w, for, how),
           Current(w).do = "again" => for = "reload" /\ how = "compile"
    PROVE  CurrentInv'
<1>. DEFINE s == Current(w)
            id == s.id
            first == Head(bridge.connected)
            clients == Tail(bridge.connected)
            p == Remade(how, id, first, clients)
            r == Tail(tasks[w].steps)
<1>0. TypeInv /\ bridge \in Bridges /\ s = Current(w) /\ s.do \in {"again", "memory"}
  BY OrderFacts, TypesOfInv
<1>1. /\ TaskOK(w, tasks[w]) /\ tasks[w] \in Tasks /\ tasks[w].steps # <<>>
      /\ tasks[w].steps[1] = s /\ StepOK(w, s)
  BY <1>0, CurrentFacts
<1>2. w \in Ids /\ w # Main /\ id \in Ids
  <2>1. w # Main
    BY <1>1 DEF StepOK
  <2>. QED  BY <1>1, <2>1, StepIds DEF OfPlugin, Workers
<1>3. r \in Seq(Steps) /\ StepsOf(w) = {s} \cup ToSet(r)
  BY FirstIsFine
<1>5. bridge.connected # <<>> /\ bridge.connected \in Seq(Clients) /\ running[id][first] # None
  <2>1. ~Fails(w)
    BY <1>2, NeverFails
  <2>. QED  BY <1>0, <2>1, BridgeFields DEF TakeOut
<1>6. /\ first \in Clients /\ clients \in Seq(Clients)
      /\ Connected = {first} \cup ToSet(clients)
  BY <1>5, TailFacts, SetOfSeq DEF Connected
<1>9. PICK size \in SizesOf(running[id][first]) :
           /\ running' = [running EXCEPT ![id][first] = None]
           /\ Goes(w, [tasks[w] EXCEPT
                 !.for = for, !.size = size,
                 !.steps = <<Step(how, id, first), Step("put", id, first)>>
                             \o CopyTo(id, Tail(bridge.connected))
                             \o <<Step("loaded", id, None)>> \o Tail(@)])
           /\ UNCHANGED <<bridge, cache, file, toPlugins, screen, requests>>
  BY <1>5 DEF TakeOut
<1>. DEFINE u == Retask(tasks[w], for, size, how, id, first, clients)
<1>11. tasks' = [tasks EXCEPT ![w] = u]
  BY <1>9, <1>1 DEF Goes, Retask, Remade
<1>12. /\ u.for = for /\ u.ids = tasks[w].ids /\ u.module = None
       /\ u.steps = p \o r
  <2>. DEFINE t == tasks[w]
              v == Retask(t, for, size, how, id, first, clients)
  <2>1. t \in Tasks /\ t.module = None
    BY <1>1 DEF TaskOK
  <2>2. u = v /\ r = Tail(t.steps)
    OBVIOUS
  <2>. HIDE DEF u, r, t, first, clients, id
  <2>3. v.for = for /\ v.ids = t.ids /\ v.module = None /\ v.steps = p \o Tail(t.steps)
    BY <2>1 DEF Tasks, Retask
  <2>. QED  BY <2>2, <2>3 DEF t
<1>13. /\ p \in Seq(Steps) /\ p # <<>> /\ p[1] = Step(how, id, first)
       /\ PutsOf(ToSet(p)) = {<<id, first>>} \cup {<<id, d>> : d \in ToSet(clients)}
       /\ Step("loaded", id, None) \in ToSet(p)
  <2>. DEFINE a == <<Step(how, id, first), Step("put", id, first)>> \o CopyTo(id, clients)
              z == <<Step("loaded", id, None)>>
  <2>. HIDE DEF first, clients, id
  <2>1. /\ p \in Seq(Steps)
        /\ PutsOf(ToSet(p)) = {<<id, first>>} \cup {<<id, d>> : d \in ToSet(clients)}
    BY <1>2, <1>6, RemadeSet
  <2>2. p # <<>> /\ p[1] = Step(how, id, first)
    BY <1>2, <1>6, PartRemade
  <2>3. p = a \o z
    BY DEF Remade
  <2>4. z \in Seq(Steps) /\ a \in Seq(Steps)
    <3>1. StepOK(w, Step("loaded", id, None))
      BY <1>2, StepsAlone
    <3>2. Part(w, a)
      BY <1>2, <1>6, PartTaken
    <3>. QED  BY <3>1, <3>2 DEF StepOK, Part
  <2>5. ToSet(a \o z) = ToSet(a) \cup ToSet(z)
    <3>. HIDE DEF a, z
    <3>. QED  BY <2>4, SetOfSeq
  <2>6. Step("loaded", id, None) \in ToSet(z)
    BY SetOfOne
  <2>. QED  BY <2>1, <2>2, <2>3, <2>5, <2>6
<1>. HIDE DEF u, p, r, first, clients, id, s
<1>14. /\ p \o r \in Seq(Steps) /\ ToSet(p \o r) = ToSet(p) \cup ToSet(r)
       /\ p \o r # <<>> /\ (p \o r)[1] = p[1]
  <2>1. /\ p \o r \in Seq(Steps) /\ Len(p) \in Nat /\ Len(p) > 0 /\ Len(r) \in Nat
        /\ Len(p \o r) = Len(p) + Len(r) /\ \A i \in 1 .. Len(p) : (p \o r)[i] = p[i]
    BY <1>3, <1>13, ConcatFacts, NotEmpty
  <2>2. ToSet(p \o r) = ToSet(p) \cup ToSet(r)
    BY <1>3, <1>13, SetOfSeq
  <2>. QED  BY <2>1, <2>2, NotEmpty
<1>15. \A i \in Ids, c \in Clients : running'[i][c] # None => running'[i][c] = running[i][c]
  <2>1. ASSUME NEW i \in Ids, NEW c \in Clients
        PROVE  running'[i][c] = IF i = id /\ c = first THEN None ELSE running[i][c]
    BY <1>0, <1>2, <1>6, <1>9, TypesOfInv
  <2>. QED  BY <2>1
<1>16. /\ \E x \in ToSet(u.steps) : x.do = "loaded" /\ x.id = id
       /\ \A c \in Connected : <<id, c>> \in PutsOf(ToSet(u.steps))
  <2>1. \E x \in ToSet(u.steps) : x.do = "loaded" /\ x.id = id
    BY <1>12, <1>13, <1>14, StepFields
  <2>2. PutsOf(ToSet(p)) \subseteq PutsOf(ToSet(u.steps))
    <3>1. ToSet(p) \subseteq ToSet(u.steps)
      BY <1>12, <1>14
    <3>. QED  BY <3>1 DEF PutsOf
  <2>. QED  BY <1>6, <1>13, <2>1, <2>2
<1>17. s.do = "again" => Compiles(w)'
  <2>1. ASSUME s.do = "again"
        PROVE  Compiles(w)'
    <3>1. for = "reload" /\ how = "compile"
      BY <2>1 DEF s
    <3>2. tasks'[w] = u
      BY <1>0, <1>11, OthersStay
    <3>3. u.steps # <<>> /\ Head(u.steps) = Step(how, id, first)
      BY <1>12, <1>13, <1>14, TailFacts
    <3>. QED  BY <1>12, <3>1, <3>2, <3>3, StepFields DEF Compiles, Busy, Current
  <2>. QED  BY <2>1
<1>18. /\ Current(w).do \in {"clone", "again", "memory"} /\ u.steps # <<>>
       /\ StepsOf(w) \ {Current(w)} \subseteq ToSet(u.steps)
  BY <1>0, <1>3, <1>12, <1>14 DEF s
<1>19. /\ \E x \in ToSet(u.steps) : x.do = "loaded" /\ x.id = Current(w).id
       /\ \A c \in Connected : <<Current(w).id, c>> \in PutsOf(ToSet(u.steps))
       /\ Current(w).do = "again" => Compiles(w)'
  BY <1>16, <1>17 DEF id, s
<1>20. /\ bridge'.events = bridge.events /\ bridge'.sizes = bridge.sizes
       /\ bridge'.loading = bridge.loading /\ bridge'.pending = bridge.pending
       /\ bridge'.connected = bridge.connected
       /\ UNCHANGED <<cache, file, toPlugins, screen>>
  BY <1>9
<1>21. GetsMore(w, u)
  BY <1>11, <1>12, <1>15, <1>18, <1>19, <1>20 DEF GetsMore
<1>. QED  BY <1>2, <1>21, RestepCurrent

LEMMA ReloadsCurrent ==
    ASSUME OrderInv, OrderInv', CurrentInv, NEW w \in Workers, ReloadFirst(w) \/ ReloadFromMemory(w)
    PROVE  CurrentInv'
<1>1. CASE ReloadFirst(w)
  BY <1>1, TakeOutCurrent DEF ReloadFirst, Does
<1>2. CASE ReloadFromMemory(w)
  BY <1>2, TakeOutCurrent DEF ReloadFromMemory, Does
<1>. QED  BY <1>1, <1>2

(* The plugins of a task that ends are on their way to the thread.         *)
LEMMA DoneCurrent ==
    ASSUME OrderInv, OrderInv', CurrentInv, NEW w \in Workers, Done(w)
    PROVE  CurrentInv'
<1>. DEFINE u == Task("client", {}, None, <<>>)
            s == Current(w)
<1>0. TypeInv /\ toPlugins \in Seq(SUBSET Ids)
  BY OrderFacts, TypesOfInv
<1>1. /\ Busy(w) /\ s.do = "done" /\ toPlugins' = Append(toPlugins, tasks[w].ids)
      /\ tasks' = [tasks EXCEPT ![w] = u]
      /\ UNCHANGED <<bridge, running, cache, file, screen, requests>>
  BY DEF Done, Does, Goes
<1>2. StepsOf(w) = {s}
  BY <1>1, LastStep
<1>3. w \in Ids /\ w # Main /\ tasks[w].ids \in SUBSET Ids
  <2>1. StepOK(w, s) /\ tasks[w] \in Tasks
    BY <1>0, <1>1, CurrentFacts
  <2>2. w # Main
    BY <1>1, <2>1 DEF StepOK
  <2>. QED  BY <2>1, <2>2, TaskFields DEF Workers
<1>4. AgainOf(StepsOf(w)) = {} /\ LoadedOf(StepsOf(w)) = {} /\ PutsOf(StepsOf(w)) = {}
  <2>. HIDE DEF s
  <2>. QED  BY <1>1, <1>2 DEF AgainOf, LoadedOf, PutsOf
<1>5. u.steps = <<>> /\ u.module = None
  BY Idle
<1>. HIDE DEF u
<1>6. /\ ~Busy(w)'
      /\ \A v \in Workers : v # w => tasks'[v] = tasks[v] /\ (Busy(v)' <=> Busy(v))
      /\ Ids \subseteq Workers
  BY <1>0, <1>1, <1>5, OthersStay
<1>7. Connected' = Connected
  BY <1>1 DEF Connected
<1>8. Covered' = Covered
  <2>. DEFINE n == Len(toPlugins)
  <2>1. /\ n \in Nat /\ Len(toPlugins') = n + 1 /\ toPlugins'[n + 1] = tasks[w].ids
        /\ \A k \in 1 .. n : toPlugins'[k] = toPlugins[k]
    BY <1>0, <1>1, <1>3
  <2>. HIDE DEF n
  <2>2. \A k \in 1 .. n + 1 : k \in 1 .. n \/ k = n + 1
    BY <2>1
  <2>3. 1 .. n \subseteq 1 .. n + 1 /\ n + 1 \in 1 .. n + 1
    BY <2>1
  <2>4. \A id \in Ids : (\E k \in 1 .. n + 1 : id \in toPlugins'[k]) <=>
                          id \in tasks[w].ids \/ \E k \in 1 .. n : id \in toPlugins[k]
    BY <2>1, <2>2, <2>3
  <2>5. \A id \in Ids : (\E v \in Ids : Busy(v) /\ id \in tasks[v].ids) <=>
             \/ id \in tasks[w].ids
             \/ \E v \in Ids : Busy(v)' /\ id \in tasks'[v].ids
    BY <1>1, <1>3, <1>6
  <2>6. Covered = {id \in Ids : \/ \E v \in Ids : Busy(v) /\ id \in tasks[v].ids
                                \/ \E k \in 1 .. n : id \in toPlugins[k]}
    BY DEF Covered, n
  <2>7. Covered' = {id \in Ids : \/ \E v \in Ids : Busy(v)' /\ id \in tasks'[v].ids
                                 \/ \E k \in 1 .. n + 1 : id \in toPlugins'[k]}
    BY <2>1 DEF Covered
  <2>8. \A id \in Ids : id \in Covered <=> id \in Covered'
    BY <2>4, <2>5, <2>6, <2>7
  <2>9. Covered \subseteq Ids /\ Covered' \subseteq Ids
    BY <2>6, <2>7
  <2>. QED  BY <2>8, <2>9
<1>9. KeptWhileLoading'
  BY <1>1, <1>8 DEF CurrentInv, KeptWhileLoading
<1>10. NewcomerAlone'
  BY <1>1, <1>3, <1>5, NewcomerMoves
<1>11. SizesAreKnown'
  BY <1>1, <1>3, <1>5, SizesMove
<1>12. NewsIsKnown'
  BY <1>1, <1>4, <1>7, NewsMoves
<1>13. ASSUME ~bridge.pending
       PROVE  CodeIsNew'
  <2>1. CodeIsNew /\ cache \in {None, file}
    BY <1>1, <1>13, CacheIsNew DEF CurrentInv
  <2>2. Listed' \subseteq Listed
    BY <1>0, <1>1, <1>3, <1>7, ClonesKept DEF Listed
  <2>. QED  BY <1>1, <1>4, <1>5, <2>1, <2>2, CodeMoves
<1>. QED  BY <1>1, <1>9, <1>10, <1>11, <1>12, <1>13 DEF CurrentInv

(* The client is listed, and all will be told the news once more.          *)
LEMMA PushCurrent ==
    ASSUME OrderInv, OrderInv', CurrentInv, Push
    PROVE  CurrentInv'
<1>. DEFINE u == Task("client", {}, None, <<>>)
            s == Current(Main)
<1>0. TypeInv /\ Main \in Workers
  BY OrderFacts DEF Workers
<1>1. /\ Busy(Main) /\ s.do = "push"
      /\ bridge' = [bridge EXCEPT !.connected = Append(@, s.client)]
      /\ screen' = [screen EXCEPT !.asked = TRUE]
      /\ tasks' = [tasks EXCEPT ![Main] = u]
      /\ UNCHANGED <<running, cache, file, toPlugins, requests>>
  BY DEF Push, Does, Goes
<1>2. StepsOf(Main) = {s}
  BY <1>0, <1>1, LastStep
<1>3. s.client \in Clients
  <2>1. StepOK(Main, s)
    BY <1>0, <1>1, CurrentFacts
  <2>. QED  BY <1>1, <2>1, StepIds DEF OfClient
<1>4. /\ AgainOf(StepsOf(Main)) = {} /\ LoadedOf(StepsOf(Main)) = {}
      /\ PutsOf(StepsOf(Main)) = {} /\ s.client \in PushesOf(StepsOf(Main))
  <2>1. s.do = "push"
    BY <1>1
  <2>. HIDE DEF s
  <2>. QED  BY <1>2, <1>3, <2>1 DEF AgainOf, LoadedOf, PutsOf, PushesOf
<1>5. u.steps = <<>> /\ u.module = None /\ PushesOf(ToSet(u.steps)) = {}
  BY Idle
<1>. HIDE DEF u, s
<1>6. /\ bridge \in Bridges /\ screen \in Screens
      /\ bridge'.connected = Append(bridge.connected, s.client)
      /\ bridge'.loading = bridge.loading /\ bridge'.pending = bridge.pending
      /\ bridge'.events = bridge.events /\ bridge'.sizes = bridge.sizes
      /\ screen'.open = screen.open /\ screen'.size = screen.size
      /\ screen'.now = screen.now /\ screen'.asked
  BY <1>0, <1>1, TypesOfInv DEF Bridges, Screens
<1>7. Connected' \subseteq Connected \cup {s.client}
  <2>1. bridge.connected \in Seq(Clients) /\ <<s.client>> \in Seq(Clients)
    BY <1>3, <1>6, BridgeFields
  <2>2. ToSet(<<s.client>>) = {s.client}
    BY SetOfOne
  <2>. DEFINE p == bridge.connected
              q == <<s.client>>
  <2>3. bridge'.connected = p \o q
    BY <1>3, <1>6, <2>1
  <2>4. p \in Seq(Clients) /\ q \in Seq(Clients)
    BY <2>1
  <2>. HIDE DEF p, q
  <2>5. ToSet(p \o q) = ToSet(p) \cup ToSet(q)
    BY <2>4, SetOfSeq
  <2>. QED  BY <2>2, <2>3, <2>5 DEF Connected, p, q
<1>8. Listed' \subseteq Listed
  BY <1>0, <1>1, <1>4, <1>5, <1>7, ClonesKept DEF Listed
<1>9. KeptWhileLoading'
  BY <1>0, <1>1, <1>6, KeptMoves
<1>10. NewcomerAlone'
  BY <1>0, <1>1, <1>5, NewcomerMoves
<1>11. SizesAreKnown'
  BY <1>0, <1>1, <1>5, <1>6, SizesMove
<1>12. NewsIsKnown'
  BY <1>0, <1>1, <1>6, NewsMoves
<1>13. ASSUME ~bridge.pending
       PROVE  CodeIsNew'
  <2>1. CodeIsNew
    BY <1>13 DEF CurrentInv
  <2>2. cache \in {None, file}
    BY <1>0, <1>1, <2>1, CacheIsNew DEF s
  <2>. QED  BY <1>0, <1>1, <1>4, <1>5, <1>8, <2>1, <2>2, CodeMoves
<1>. QED  BY <1>6, <1>9, <1>10, <1>11, <1>12, <1>13 DEF CurrentInv

LEMMA TaskStepsCurrent ==
    ASSUME InTurn, OrderInv, OrderInv', CurrentInv, NEW w \in Workers, TaskStep(w)
    PROVE  CurrentInv'
BY LoadModuleCurrent, CompileModuleCurrent, TakeCurrent, CopyCurrent, PutCurrent, CloneCurrent,
   GoesOnCurrent, ReloadsCurrent, DoneCurrent DEF TaskStep

----------------------------------------------------------------------------
(* While no task does anything *)

LEMMA KeptStays ==
    ASSUME OrderInv, CurrentInv, UNCHANGED <<tasks, toPlugins>>,
           bridge'.loading = bridge.loading, bridge'.pending = bridge.pending,
           \A id \in Ids : /\ bridge'.events[id] # None <=> bridge.events[id] # None
                           /\ bridge'.sizes[id] # None <=> bridge.sizes[id] # None,
           bridge.loading \subseteq screen'.open
    PROVE  KeptWhileLoading'
<1>1. \A v \in Ids : Busy(v)' <=> Busy(v)
  BY DEF Busy
<1>2. Covered' = Covered
  BY <1>1 DEF Covered
<1>. QED  BY <1>2 DEF CurrentInv, KeptWhileLoading

LEMMA NewcomerWaits ==
    ASSUME OrderInv, CurrentInv, UNCHANGED tasks, Connected' \subseteq Connected
    PROVE  NewcomerAlone' /\ Listed' \subseteq Listed
<1>1. StepsOf(Main)' = StepsOf(Main)
  BY DEF StepsOf
<1>. QED  BY <1>1 DEF CurrentInv, NewcomerAlone, Listed

LEMMA CodeStays ==
    ASSUME OrderInv, CodeIsNew, UNCHANGED <<tasks, file, cache>>, Listed' \subseteq Listed,
           \A id \in Ids, c \in Clients : running'[id][c] # None =>
               running[id][c] # None /\ running'[id][c].code = running[id][c].code
    PROVE  CodeIsNew'
<1>1. \A w \in Workers : StepsOf(w)' = StepsOf(w)
  BY DEF StepsOf
<1>2. \A id, c : Renewed(id, c)' <=> Renewed(id, c)
  BY <1>1 DEF Renewed
<1>3. \A w \in Workers : Compiles(w)' <=> Compiles(w)
  BY DEF Compiles, Busy, Current
<1>4. Listed \subseteq Clients
  <2>1. bridge.connected \in Seq(Clients)
    BY OrderFacts, TypesOfInv, BridgeFields
  <2>2. Connected \subseteq Clients
    BY <2>1, SetOfSeq DEF Connected
  <2>. QED  BY <2>2 DEF Listed, PushesOf
<1>5. \A w \in Ids : w \in Workers
  BY DEF Workers
<1>. QED  BY <1>2, <1>3, <1>4, <1>5 DEF CodeIsNew

LEMMA SizesStay ==
    ASSUME OrderInv, CurrentInv, UNCHANGED tasks,
           bridge'.sizes = bridge.sizes, screen'.size = screen.size,
           \A id \in Ids, c \in Clients : running'[id][c] # None =>
               LET i == running[id][c]
                   j == running'[id][c]
               IN  i # None /\ j.resizes = i.resizes /\ j.last = i.last
                            /\ j.size = i.size /\ j.next = i.next
    PROVE  SizesAreKnown'
<1>1. Current(Main)' = Current(Main)
  BY DEF Current
<1>2. ASSUME NEW id \in Ids, NEW c \in Clients, running'[id][c] # None
      PROVE  /\ Numbered(running'[id][c])
             /\ bridge'.sizes[id] # None \/ EndsAt(running'[id][c], screen'.size[id])
  <2>1. /\ Numbered(running[id][c])
        /\ bridge.sizes[id] # None \/ EndsAt(running[id][c], screen.size[id])
    BY <1>2 DEF CurrentInv, SizesAreKnown
  <2>. QED  BY <1>2, <2>1, EndsSame
<1>. QED  BY <1>1, <1>2 DEF CurrentInv, SizesAreKnown

LEMMA NewsStays ==
    ASSUME OrderInv, CurrentInv, UNCHANGED tasks, bridge'.events = bridge.events,
           screen'.now = screen.now, screen'.asked = screen.asked, Connected' \subseteq Connected,
           \A id \in Ids, c \in Clients : running'[id][c] # None =>
               LET i == running[id][c]
                   j == running'[id][c]
               IN  i # None /\ j.told = i.told /\ j.news = i.news
    PROVE  NewsIsKnown'
<1>1. \A w \in Ids : StepsOf(w)' = StepsOf(w)
  BY DEF StepsOf
<1>2. ASSUME NEW id \in Ids, NEW c \in Clients, running'[id][c] # None
      PROVE  /\ running'[id][c].told <= screen'.now
             /\ \A n \in running'[id][c].news : n <= screen'.now
             /\ bridge'.events[id] = None /\ c \in Connected' =>
                   Knows(running'[id][c], screen'.now) \/ screen'.asked
  BY <1>2 DEF CurrentInv, NewsIsKnown, Knows
<1>. QED  BY <1>1, <1>2 DEF CurrentInv, NewsIsKnown

LEMMA ToldIs ==
    ASSUME NEW f \in [Clients -> Maybe(Instances)], NEW C, NEW news, NEW c \in Clients
    PROVE  LET i == f[c]
               j == Told(f, C, news)[c]
           IN  /\ i = None \/ c \notin C => j = i
               /\ i # None /\ c \in C =>
                     /\ j.news = i.news \cup news /\ j.told = i.told /\ j.code = i.code
                     /\ j.resizes = i.resizes /\ j.last = i.last /\ j.size = i.size
                     /\ j.next = i.next
<1>. DEFINE told(i) == [i EXCEPT !.news = @ \cup news]
<1>1. ASSUME NEW i \in Instances
      PROVE  LET j == told(i)
             IN  /\ j.news = i.news \cup news /\ j.told = i.told /\ j.code = i.code
                 /\ j.resizes = i.resizes /\ j.last = i.last /\ j.size = i.size
                 /\ j.next = i.next
  BY DEF Instances
<1>2. Told(f, C, news)[c] = IF f[c] = None \/ c \notin C THEN f[c] ELSE told(f[c])
  BY DEF Told
<1>. HIDE DEF told
<1>3. f[c] # None => f[c] \in Instances
  BY DEF Maybe
<1>. QED  BY <1>1, <1>2, <1>3

LEMMA ResizedIs ==
    ASSUME NEW f \in [Clients -> Maybe(Instances)], NEW size, NEW c \in Clients
    PROVE  LET i == f[c]
               j == Resized(f, size)[c]
           IN  /\ i = None => j = None
               /\ i # None =>
                     /\ j.resizes = i.resizes \cup {<<i.next, size>>} /\ j.next = i.next + 1
                     /\ j.last = i.last /\ j.news = i.news /\ j.told = i.told /\ j.code = i.code
<1>. DEFINE resized(i) == [i EXCEPT !.resizes = @ \cup {<<i.next, size>>}, !.next = @ + 1]
<1>1. ASSUME NEW i \in Instances
      PROVE  LET j == resized(i)
             IN  /\ j.resizes = i.resizes \cup {<<i.next, size>>} /\ j.next = i.next + 1
                 /\ j.last = i.last /\ j.news = i.news /\ j.told = i.told /\ j.code = i.code
  BY DEF Instances
<1>2. Resized(f, size)[c] = IF f[c] = None THEN None ELSE resized(f[c])
  BY DEF Resized
<1>. HIDE DEF resized
<1>3. f[c] # None => f[c] \in Instances
  BY DEF Maybe
<1>. QED  BY <1>1, <1>2, <1>3

LEMMA RemoveClientCurrent ==
    ASSUME OrderInv, CurrentInv, NEW c \in Clients, RemoveClient(c)
    PROVE  CurrentInv'
<1>0. TypeInv /\ bridge \in Bridges /\ bridge.connected \in Seq(Clients)
  BY OrderFacts, TypesOfInv, BridgeFields
<1>1. /\ bridge' = [bridge EXCEPT !.connected = Others(@, c)]
      /\ UNCHANGED <<running, cache, file, tasks, toPlugins, screen>>
  BY DEF RemoveClient
<1>. DEFINE left == Others(bridge.connected, c)
<1>2. ToSet(left) \subseteq Connected
  BY <1>0, OthersFacts DEF Connected
<1>3. bridge' = [bridge EXCEPT !.connected = left]
  BY <1>1
<1>. HIDE DEF left
<1>4. /\ bridge'.loading = bridge.loading /\ bridge'.pending = bridge.pending
      /\ bridge'.events = bridge.events /\ bridge'.sizes = bridge.sizes
      /\ bridge'.connected = left
  BY <1>0, <1>3 DEF Bridges
<1>5. Connected' \subseteq Connected
  BY <1>2, <1>4 DEF Connected
<1>6. KeptWhileLoading'
  <2>1. bridge.loading \subseteq screen'.open
    BY <1>1 DEF CurrentInv, KeptWhileLoading
  <2>. QED  BY <1>1, <1>4, <2>1, KeptStays
<1>7. NewcomerAlone' /\ Listed' \subseteq Listed
  BY <1>1, <1>5, NewcomerWaits
<1>8. CodeIsNew => CodeIsNew'
  BY <1>1, <1>7, CodeStays
<1>9. SizesAreKnown'
  BY <1>1, <1>4, SizesStay
<1>10. NewsIsKnown'
  BY <1>1, <1>4, <1>5, NewsStays
<1>. QED  BY <1>4, <1>6, <1>7, <1>8, <1>9, <1>10 DEF CurrentInv

LEMMA UnloadCurrent ==
    ASSUME InTurn, OrderInv, CurrentInv, NEW id \in Ids, Unload(id)
    PROVE  CurrentInv'
<1>0. TypeInv /\ screen \in Screens /\ running \in [Ids -> [Clients -> Maybe(Instances)]]
  BY OrderFacts, TypesOfInv
<1>1. /\ running' = [running EXCEPT ![id] = [c \in Clients |-> None]]
      /\ screen' = [screen EXCEPT !.open = @ \ {id}]
      /\ UNCHANGED <<bridge, cache, file, tasks, toPlugins>>
      /\ id \notin bridge.loading
  BY DEF Unload, Happens, InTurn
<1>2. /\ screen'.open = screen.open \ {id} /\ screen'.size = screen.size
      /\ screen'.now = screen.now /\ screen'.asked = screen.asked
  BY <1>0, <1>1 DEF Screens
<1>3. ASSUME NEW d \in Ids, NEW c \in Clients, running'[d][c] # None
      PROVE  running'[d][c] = running[d][c]
  BY <1>0, <1>1, <1>3
<1>4. Connected' \subseteq Connected
  BY <1>1 DEF Connected
<1>6. KeptWhileLoading'
  <2>1. bridge.loading \subseteq screen'.open
    BY <1>1, <1>2 DEF CurrentInv, KeptWhileLoading
  <2>. QED  BY <1>1, <2>1, KeptStays
<1>7. NewcomerAlone' /\ Listed' \subseteq Listed
  BY <1>1, <1>4, NewcomerWaits
<1>8. CodeIsNew => CodeIsNew'
  BY <1>1, <1>3, <1>7, CodeStays
<1>9. SizesAreKnown'
  BY <1>1, <1>2, <1>3, SizesStay
<1>10. NewsIsKnown'
  BY <1>1, <1>2, <1>3, <1>4, NewsStays
<1>. QED  BY <1>1, <1>6, <1>7, <1>8, <1>9, <1>10 DEF CurrentInv

LEMMA LeastIs ==
    ASSUME NEW S \in SUBSET Nat, NEW n \in S, n = Min(S)
    PROVE  \A m \in S : n <= m
<1>1. \E m \in S : \A k \in S : m <= k
  BY LeastExists
<1>. QED  BY <1>1 DEF Min

LEMMA OneCurrent ==
    ASSUME OrderInv, CurrentInv, NEW id \in Ids, NEW c \in Clients, running[id][c] # None,
           NEW i, running' = [running EXCEPT ![id][c] = i],
           UNCHANGED <<bridge, cache, file, tasks, toPlugins, screen>>,
           LET j == running[id][c]
           IN  /\ i.code = j.code
               /\ Numbered(i) /\ \A size : EndsAt(j, size) => EndsAt(i, size)
               /\ i.told <= screen.now /\ \A n \in i.news : n <= screen.now
               /\ Knows(j, screen.now) => Knows(i, screen.now)
    PROVE  CurrentInv'
<1>0. TypeInv /\ running \in [Ids -> [Clients -> Maybe(Instances)]]
  BY OrderFacts, TypesOfInv
<1>1. \A d \in Ids, e \in Clients :
         running'[d][e] = IF d = id /\ e = c THEN i ELSE running[d][e]
  BY <1>0
<1>2. Connected' \subseteq Connected
  BY DEF Connected
<1>3. KeptWhileLoading'
  <2>1. bridge.loading \subseteq screen'.open
    BY DEF CurrentInv, KeptWhileLoading
  <2>. QED  BY <2>1, KeptStays
<1>4. NewcomerAlone' /\ Listed' \subseteq Listed
  BY <1>2, NewcomerWaits
<1>5. CodeIsNew => CodeIsNew'
  <2>1. \A d \in Ids, e \in Clients : running'[d][e] # None =>
           running[d][e] # None /\ running'[d][e].code = running[d][e].code
    BY <1>1
  <2>. QED  BY <1>4, <2>1, CodeStays
<1>6. SizesAreKnown'
  <2>1. ASSUME NEW d \in Ids, NEW e \in Clients, running'[d][e] # None
        PROVE  /\ Numbered(running'[d][e])
               /\ bridge'.sizes[d] # None \/ EndsAt(running'[d][e], screen'.size[d])
    <3>1. /\ running[d][e] # None
          /\ Numbered(running[d][e])
          /\ bridge.sizes[d] # None \/ EndsAt(running[d][e], screen.size[d])
      BY <1>1, <2>1 DEF CurrentInv, SizesAreKnown
    <3>2. CASE d = id /\ e = c
      BY <1>1, <3>1, <3>2
    <3>3. CASE ~(d = id /\ e = c)
      <4>1. running'[d][e] = running[d][e]
        BY <1>1, <3>3
      <4>. QED  BY <3>1, <4>1
    <3>. QED  BY <3>2, <3>3
  <2>2. Current(Main)' = Current(Main)
    BY DEF Current
  <2>. QED  BY <2>1, <2>2 DEF CurrentInv, SizesAreKnown
<1>7. NewsIsKnown'
  <2>1. \A w \in Ids : StepsOf(w)' = StepsOf(w)
    BY DEF StepsOf
  <2>2. ASSUME NEW d \in Ids, NEW e \in Clients, running'[d][e] # None
        PROVE  /\ running'[d][e].told <= screen'.now
               /\ \A n \in running'[d][e].news : n <= screen'.now
               /\ bridge'.events[d] = None /\ e \in Connected' =>
                     Knows(running'[d][e], screen'.now) \/ screen'.asked
    <3>1. /\ running[d][e] # None
          /\ running[d][e].told <= screen.now
          /\ \A n \in running[d][e].news : n <= screen.now
          /\ bridge.events[d] = None /\ e \in Connected =>
                Knows(running[d][e], screen.now) \/ screen.asked
      BY <1>1, <2>2 DEF CurrentInv, NewsIsKnown
    <3>2. CASE d = id /\ e = c
      BY <1>1, <1>2, <3>1, <3>2
    <3>3. CASE ~(d = id /\ e = c)
      <4>1. running'[d][e] = running[d][e]
        BY <1>1, <3>3
      <4>. QED  BY <1>2, <3>1, <4>1
    <3>. QED  BY <3>2, <3>3
  <2>. QED  BY <2>1, <2>2 DEF CurrentInv, NewsIsKnown
<1>. QED  BY <1>3, <1>4, <1>5, <1>6, <1>7 DEF CurrentInv

LEMMA EventsCurrent ==
    ASSUME InTurn, OrderInv, CurrentInv, NEW id \in Ids, NEW c \in Clients,
           TellsNews(id, c) \/ Resizes(id, c)
    PROVE  CurrentInv'
<1>0. TypeInv /\ running \in [Ids -> [Clients -> Maybe(Instances)]]
  BY OrderFacts, TypesOfInv
<1>1. running[id][c] # None /\ UNCHANGED <<bridge, cache, file, tasks, toPlugins, screen, requests>>
  BY DEF TellsNews, Resizes
<1>. DEFINE j == running[id][c]
<1>2. j \in Instances
  BY <1>0, <1>1, InstanceAt
<1>3. /\ Numbered(j) /\ j.told <= screen.now /\ \A n \in j.news : n <= screen.now
  BY <1>1 DEF CurrentInv, SizesAreKnown, NewsIsKnown
<1>3a. screen.now \in Nat
  BY <1>0, NumberFacts
<1>4. CASE TellsNews(id, c)
  <2>1. PICK news \in j.news :
           /\ Happens("reordered") \/ news = Min(j.news)
           /\ running' = [running EXCEPT ![id][c].news = @ \ {news}, ![id][c].told = news]
    BY <1>4 DEF TellsNews
  <2>. DEFINE i == [j EXCEPT !.news = @ \ {news}, !.told = news]
  <2>2. /\ i.code = j.code /\ i.told = news /\ i.news = j.news \ {news}
        /\ i.resizes = j.resizes /\ i.last = j.last /\ i.size = j.size /\ i.next = j.next
    BY <1>2 DEF Instances
  <2>3. running' = [running EXCEPT ![id][c] = i]
    BY <1>0, <2>1
  <2>. HIDE DEF i, j
  <2>4. Numbered(i) /\ \A size : EndsAt(j, size) => EndsAt(i, size)
    BY <1>3, <2>2, EndsSame
  <2>5. i.told <= screen.now /\ \A n \in i.news : n <= screen.now
    BY <1>3, <2>2
  <2>6. Knows(j, screen.now) => Knows(i, screen.now)
    <3>1. j.news \in SUBSET Nat /\ news = Min(j.news)
      BY <1>2, <2>1, InstanceIs DEF Happens, InTurn
    <3>2. \A m \in j.news : news <= m
      BY <2>1, <3>1, LeastIs
    <3>3. ASSUME screen.now \in j.news
          PROVE  Knows(i, screen.now)
      <4>1. CASE news # screen.now
        BY <2>2, <3>3, <4>1 DEF Knows
      <4>2. CASE news = screen.now
        <5>1. \A m \in j.news : m = news
          <6>1. ASSUME NEW m \in j.news PROVE m = news
            <7>1. m \in Nat /\ m <= screen.now /\ news <= m
              BY <1>3, <3>1, <3>2 DEF j
            <7>. QED  BY <1>3a, <4>2, <7>1
          <6>. QED  BY <6>1
        <5>. QED  BY <2>2, <4>2, <5>1 DEF Knows
      <4>. QED  BY <4>1, <4>2
    <3>. QED  BY <2>1, <3>3 DEF Knows
  <2>. QED  BY <1>1, <2>2, <2>3, <2>4, <2>5, <2>6, OneCurrent DEF j
<1>5. CASE Resizes(id, c)
  <2>1. PICK r \in j.resizes : running' = [running EXCEPT ![id][c] = Tried(j, r)]
    BY <1>5 DEF Resizes
  <2>. DEFINE i == Tried(j, r)
  <2>2. /\ i.code = j.code /\ i.told = j.told /\ i.news = j.news
        /\ Numbered(i) /\ \A size : EndsAt(j, size) => EndsAt(i, size)
    BY <1>2, <1>3, TriedEnds
  <2>3. running' = [running EXCEPT ![id][c] = i]
    BY <2>1
  <2>. HIDE DEF i, j
  <2>4. /\ i.told <= screen.now /\ \A n \in i.news : n <= screen.now
        /\ Knows(j, screen.now) => Knows(i, screen.now)
    BY <1>3, <2>2 DEF Knows
  <2>. QED  BY <1>1, <2>2, <2>3, <2>4, OneCurrent DEF j
<1>. QED  BY <1>1, <1>4, <1>5 DEF TellsNews, Resizes

LEMMA MainHoldsNothing ==
    ASSUME OrderInv, MainIsIdle
    PROVE  tasks[Main].module = None /\ ~Busy(Main) /\ tasks[Main].steps = <<>>
<1>1. TaskOK(Main, tasks[Main])
  BY OrderFacts, TypesOfInv DEF Workers
<1>. QED  BY <1>1 DEF TaskOK, MainIsIdle, Busy

(* Either its instances are resized, or the size is kept for them.         *)
LEMMA ResizePluginCurrent ==
    ASSUME OrderInv, CurrentInv, NEW id \in Ids, NEW size \in Sizes, ResizePlugin(id, size)
    PROVE  CurrentInv'
<1>0. /\ TypeInv /\ bridge \in Bridges /\ screen \in Screens
      /\ running \in [Ids -> [Clients -> Maybe(Instances)]]
      /\ bridge.sizes \in [Ids -> Maybe(Sizes)] /\ screen.size \in [Ids -> Sizes]
  BY OrderFacts, TypesOfInv, BridgeFields, ScreenFields
<1>1. /\ MainIsIdle /\ screen' = [screen EXCEPT !.size[id] = size]
      /\ UNCHANGED <<cache, file, tasks, toPlugins>>
      /\ bridge.sizes[id] = None =>
            running' = [running EXCEPT ![id] = Resized(@, size)] /\ UNCHANGED bridge
      /\ bridge.sizes[id] # None =>
            bridge' = [bridge EXCEPT !.sizes[id] = size] /\ UNCHANGED running
  BY DEF ResizePlugin, Requested
<1>2. /\ screen'.open = screen.open /\ screen'.now = screen.now /\ screen'.asked = screen.asked
      /\ screen'.size = [screen.size EXCEPT ![id] = size]
  BY <1>0, <1>1 DEF Screens
<1>3. /\ bridge'.connected = bridge.connected /\ bridge'.pending = bridge.pending
      /\ bridge'.loading = bridge.loading /\ bridge'.events = bridge.events
      /\ bridge.sizes[id] = None => bridge'.sizes = bridge.sizes
      /\ bridge.sizes[id] # None => bridge'.sizes = [bridge.sizes EXCEPT ![id] = size]
  BY <1>0, <1>1 DEF Bridges
<1>4. size # None /\ \A d \in Ids : bridge.sizes[d] # None <=> bridge'.sizes[d] # None
  <2>1. size # None
    BY PluginsAssumption
  <2>. QED  BY <1>0, <1>3, <2>1
<1>5. ASSUME NEW d \in Ids, NEW c \in Clients, running'[d][c] # None
      PROVE  LET i == running[d][c]
                 j == running'[d][c]
             IN  /\ i # None /\ j.told = i.told /\ j.news = i.news /\ j.code = i.code
                 /\ \/ j = i /\ (d # id \/ bridge.sizes[id] # None)
                    \/ /\ d = id /\ bridge.sizes[id] = None
                       /\ j.resizes = i.resizes \cup {<<i.next, size>>}
                       /\ j.next = i.next + 1 /\ j.last = i.last
  <2>1. CASE bridge.sizes[id] = None
    <3>. DEFINE f == Resized(running[id], size)
    <3>1. running' = [running EXCEPT ![id] = f]
      BY <1>1, <2>1
    <3>2. CASE d = id
      <4>1. running'[d][c] = f[c] /\ running[d] = running[id]
        BY <1>0, <3>1, <3>2
      <4>2. running[id] \in [Clients -> Maybe(Instances)]
        BY <1>0
      <4>3. LET i == running[id][c]
                j == f[c]
            IN  /\ i = None => j = None
                /\ i # None =>
                     /\ j.resizes = i.resizes \cup {<<i.next, size>>} /\ j.next = i.next + 1
                     /\ j.last = i.last /\ j.news = i.news /\ j.told = i.told /\ j.code = i.code
        BY <4>2, ResizedIs
      <4>. HIDE DEF f
      <4>. QED  BY <1>5, <2>1, <3>2, <4>1, <4>3
    <3>3. CASE d # id
      <4>. HIDE DEF f
      <4>1. running'[d][c] = running[d][c]
        BY <1>0, <3>1, <3>3
      <4>. QED  BY <1>5, <3>3, <4>1
    <3>. QED  BY <3>2, <3>3
  <2>2. CASE bridge.sizes[id] # None
    BY <1>1, <1>5, <2>2
  <2>. QED  BY <2>1, <2>2
<1>6. KeptWhileLoading'
  <2>1. bridge.loading \subseteq screen'.open
    BY <1>2 DEF CurrentInv, KeptWhileLoading
  <2>. QED  BY <1>1, <1>3, <1>4, <2>1, KeptStays
<1>7. Connected' \subseteq Connected
  BY <1>3 DEF Connected
<1>8. NewcomerAlone' /\ Listed' \subseteq Listed
  BY <1>1, <1>7, NewcomerWaits
<1>9. CodeIsNew => CodeIsNew'
  <2>1. \A d \in Ids, c \in Clients : running'[d][c] # None =>
           running[d][c] # None /\ running'[d][c].code = running[d][c].code
    BY <1>5
  <2>. QED  BY <1>1, <1>8, <2>1, CodeStays
<1>10. NewsIsKnown'
  <2>1. \A d \in Ids, c \in Clients : running'[d][c] # None =>
               LET i == running[d][c]
                   j == running'[d][c]
               IN  i # None /\ j.told = i.told /\ j.news = i.news
    BY <1>5
  <2>. QED  BY <1>1, <1>2, <1>3, <1>7, <2>1, NewsStays
<1>11. SizesAreKnown'
  <2>1. \A d \in Ids : bridge'.sizes[d] \in {None, screen'.size[d]}
    <3>1. ASSUME NEW d \in Ids
          PROVE  bridge'.sizes[d] \in {None, screen'.size[d]}
      <4>1. bridge.sizes[d] \in {None, screen.size[d]}
        BY DEF CurrentInv, SizesAreKnown
      <4>2. CASE d = id
        BY <1>0, <1>2, <1>3, <4>1, <4>2
      <4>3. CASE d # id
        BY <1>0, <1>2, <1>3, <4>1, <4>3
      <4>. QED  BY <4>2, <4>3
    <3>. QED  BY <3>1
  <2>2. ASSUME NEW d \in Ids, NEW c \in Clients, running'[d][c] # None
        PROVE  /\ Numbered(running'[d][c])
               /\ bridge'.sizes[d] # None \/ EndsAt(running'[d][c], screen'.size[d])
    <3>. DEFINE i == running[d][c]
                j == running'[d][c]
    <3>1. i # None
      BY <1>5, <2>2
    <3>2. Numbered(i) /\ (bridge.sizes[d] # None \/ EndsAt(i, screen.size[d])) /\ i \in Instances
      BY <1>0, <3>1, InstanceAt DEF CurrentInv, SizesAreKnown
    <3>3. CASE j = i /\ (d # id \/ bridge.sizes[id] # None)
      <4>1. d # id => screen'.size[d] = screen.size[d]
        BY <1>0, <1>2
      <4>2. bridge'.sizes[d] # None \/ EndsAt(i, screen'.size[d])
        BY <1>4, <3>2, <3>3, <4>1
      <4>. QED  BY <3>2, <3>3, <4>2
    <3>4. CASE /\ d = id /\ bridge.sizes[id] = None
               /\ j.resizes = i.resizes \cup {<<i.next, size>>}
               /\ j.next = i.next + 1 /\ j.last = i.last
      <4>1. screen'.size[d] = size
        BY <1>0, <1>2, <3>4
      <4>. HIDE DEF i, j
      <4>2. Numbered(j) /\ EndsAt(j, size)
        BY <3>2, <3>4, ResizedEnds
      <4>. QED  BY <4>1, <4>2 DEF j
    <3>. QED  BY <1>5, <2>2, <3>3, <3>4
  <2>3. tasks'[Main].module = None
    BY <1>1, MainHoldsNothing
  <2>. QED  BY <2>1, <2>2, <2>3 DEF SizesAreKnown
<1>. QED  BY <1>3, <1>6, <1>8, <1>9, <1>10, <1>11 DEF CurrentInv

(* The news goes to those that run, or is kept for them.                   *)
LEMMA UpdatesCurrent ==
    ASSUME OrderInv, CurrentInv, Update \/ UpdateAgain
    PROVE  CurrentInv'
<1>0. /\ TypeInv /\ bridge \in Bridges /\ screen \in Screens
      /\ running \in [Ids -> [Clients -> Maybe(Instances)]]
      /\ screen.now \in Nat
  BY OrderFacts, TypesOfInv, NumberFacts
<1>1. /\ UpdatePlugins(screen'.now) /\ screen.now <= screen'.now /\ screen'.now \in Nat
      /\ screen'.open = screen.open /\ screen'.size = screen.size
  <2>1. CASE Update
    <3>1. UpdatePlugins(screen.now + 1) /\ screen' = [screen EXCEPT !.now = @ + 1]
      BY <2>1 DEF Update
    <3>. QED  BY <1>0, <3>1 DEF Screens
  <2>2. CASE UpdateAgain
    <3>1. UpdatePlugins(screen.now) /\ screen' = [screen EXCEPT !.asked = FALSE]
      BY <2>2 DEF UpdateAgain
    <3>. QED  BY <1>0, <3>1 DEF Screens
  <2>. QED  BY <2>1, <2>2
<1>. DEFINE news == screen'.now
<1>2. /\ running' = [id \in Ids |-> IF bridge.events[id] # None THEN running[id]
                                    ELSE Told(running[id], Clients, {news})]
      /\ UNCHANGED <<cache, file, tasks, toPlugins>>
      /\ bridge' = [bridge EXCEPT !.events =
                     [id \in Ids |-> IF bridge.events[id] = None THEN None
                                     ELSE bridge.events[id] \cup {news}]]
  BY <1>1 DEF UpdatePlugins
<1>3. /\ bridge'.connected = bridge.connected /\ bridge'.pending = bridge.pending
      /\ bridge'.loading = bridge.loading /\ bridge'.sizes = bridge.sizes
      /\ bridge'.events = [id \in Ids |-> IF bridge.events[id] = None THEN None
                                          ELSE bridge.events[id] \cup {news}]
  BY <1>0, <1>2 DEF Bridges
<1>4. \A id \in Ids : bridge'.events[id] # None <=> bridge.events[id] # None
  <2>1. ASSUME NEW id \in Ids, bridge.events[id] # None
        PROVE  bridge'.events[id] # None
    <3>1. bridge.events[id] \in SUBSET News /\ news \in News
      <4>1. bridge.events \in [Ids -> Maybe(SUBSET News)]
        BY <1>0, BridgeFields
      <4>2. TypeInv'
        BY <1>0, UpdateKeeps
      <4>3. screen' \in Screens
        BY <4>2 DEF TypeInv, TypeOK
      <4>. QED  BY <2>1, <4>1, <4>3, ScreenFields DEF Maybe
    <3>2. bridge'.events[id] = bridge.events[id] \cup {news}
      BY <1>3, <2>1
    <3>. QED  BY <3>1, <3>2, NoneIsNoNews
  <2>. QED  BY <1>3, <2>1
<1>5. ASSUME NEW id \in Ids, NEW c \in Clients, running'[id][c] # None
      PROVE  LET i == running[id][c]
                 j == running'[id][c]
             IN  /\ i # None /\ j.told = i.told /\ j.code = i.code
                 /\ j.resizes = i.resizes /\ j.last = i.last /\ j.size = i.size /\ j.next = i.next
                 /\ j.news = i.news \cup (IF bridge.events[id] = None THEN {news} ELSE {})
  <2>1. CASE bridge.events[id] # None
    BY <1>2, <1>5, <2>1
  <2>2. CASE bridge.events[id] = None
    <3>. DEFINE f == Told(running[id], Clients, {news})
    <3>1. running'[id][c] = f[c] /\ running[id] \in [Clients -> Maybe(Instances)]
      BY <1>0, <1>2, <2>2
    <3>2. LET i == running[id][c]
              j == f[c]
          IN  /\ i = None => j = i
              /\ i # None =>
                     /\ j.news = i.news \cup {news} /\ j.told = i.told /\ j.code = i.code
                     /\ j.resizes = i.resizes /\ j.last = i.last /\ j.size = i.size
                     /\ j.next = i.next
      BY <3>1, ToldIs
    <3>. HIDE DEF f
    <3>. QED  BY <1>5, <2>2, <3>1, <3>2
  <2>. QED  BY <2>1, <2>2
<1>6. KeptWhileLoading'
  <2>1. bridge.loading \subseteq screen'.open
    BY <1>1 DEF CurrentInv, KeptWhileLoading
  <2>. QED  BY <1>2, <1>3, <1>4, <2>1, KeptStays
<1>7. Connected' \subseteq Connected
  BY <1>3 DEF Connected
<1>8. NewcomerAlone' /\ Listed' \subseteq Listed
  BY <1>2, <1>7, NewcomerWaits
<1>9. CodeIsNew => CodeIsNew'
  <2>1. \A d \in Ids, c \in Clients : running'[d][c] # None =>
           running[d][c] # None /\ running'[d][c].code = running[d][c].code
    BY <1>5
  <2>. QED  BY <1>2, <1>8, <2>1, CodeStays
<1>10. SizesAreKnown'
  <2>1. \A id \in Ids, c \in Clients : running'[id][c] # None =>
               LET i == running[id][c]
                   j == running'[id][c]
               IN  i # None /\ j.resizes = i.resizes /\ j.last = i.last
                            /\ j.size = i.size /\ j.next = i.next
    BY <1>5
  <2>. QED  BY <1>1, <1>2, <1>3, <2>1, SizesStay
<1>11. NewsIsKnown'
  <2>1. ASSUME NEW id \in Ids, NEW c \in Clients, running'[id][c] # None
        PROVE  /\ running'[id][c].told <= screen'.now
               /\ \A n \in running'[id][c].news : n <= screen'.now
               /\ bridge'.events[id] = None => Knows(running'[id][c], screen'.now)
    <3>. DEFINE i == running[id][c]
                j == running'[id][c]
    <3>1. /\ i # None /\ j.told = i.told
          /\ j.news = i.news \cup (IF bridge.events[id] = None THEN {news} ELSE {})
      BY <1>5, <2>1
    <3>2. /\ i.told <= screen.now /\ \A n \in i.news : n <= screen.now
      BY <3>1 DEF CurrentInv, NewsIsKnown
    <3>3. i.told \in Nat /\ i.news \in SUBSET Nat
      <4>1. i \in Instances
        BY <1>0, <3>1, InstanceAt
      <4>. QED  BY <4>1, InstanceIs
    <3>. HIDE DEF i, j
    <3>4. j.told <= screen'.now /\ \A n \in j.news : n <= screen'.now
      BY <1>0, <1>1, <3>1, <3>2, <3>3
    <3>5. bridge'.events[id] = None => Knows(j, screen'.now)
      BY <1>4, <3>1 DEF Knows
    <3>. QED  BY <3>4, <3>5 DEF j
  <2>2. ASSUME NEW id \in Ids, bridge'.events[id] # None
        PROVE  screen'.now \in bridge'.events[id] /\ \A n \in bridge'.events[id] : n <= screen'.now
    <3>1. /\ bridge.events[id] # None
          /\ bridge'.events[id] = bridge.events[id] \cup {news}
      BY <1>3, <2>2
    <3>2. \A n \in bridge.events[id] : n <= screen.now
      BY <3>1 DEF CurrentInv, NewsIsKnown
    <3>3. bridge.events[id] \in SUBSET Nat
      <4>1. bridge.events \in [Ids -> Maybe(SUBSET News)]
        BY <1>0, BridgeFields
      <4>2. News \subseteq Nat
        BY PluginsAssumption DEF News
      <4>. QED  BY <3>1, <4>1, <4>2 DEF Maybe
    <3>. QED  BY <1>0, <1>1, <3>1, <3>2, <3>3
  <2>. QED  BY <2>1, <2>2 DEF NewsIsKnown
<1>. QED  BY <1>3, <1>6, <1>8, <1>9, <1>10, <1>11 DEF CurrentInv

----------------------------------------------------------------------------
(* A plugin is loaded, and a client comes                                  *)

(* Nobody but the thread is at work while nothing is being loaded.         *)
LEMMA NobodyHoldsAny ==
    ASSUME OrderInv, MainIsIdle, bridge.loading = {}
    PROVE  /\ \A w \in Workers : ~Busy(w) /\ tasks[w].module = None
<1>1. \A w \in Ids : ~Busy(w)
  BY OrderFacts DEF AllTidy, Tidy
<1>2. \A w \in Workers : TaskOK(w, tasks[w])
  BY OrderFacts, TypesOfInv
<1>. QED  BY <1>1, <1>2 DEF Workers, TaskOK, Busy, MainIsIdle

LEMMA LoadPluginCurrent ==
    ASSUME InTurn, OrderInv, OrderInv', CurrentInv, Requested,
           NEW id \in Ids, NEW c \in Clients,
           LoadPlugin(id, c), UNCHANGED <<running, cache, toPlugins>>,
           file' = file \/ (Made = {} /\ cache = None /\ bridge.loading = {})
    PROVE  CurrentInv'
<1>. DEFINE q == <<Step("load", id, c), Step("put", id, c), Step("clone", id, c),
                   Step("loaded", id, None), Step("done", None, None)>>
            u == Task("start", {id}, screen.size[id], q)
            size == screen.size[id]
<1>0. /\ TypeInv /\ AllTidy /\ screen \in Screens /\ bridge \in Bridges
      /\ screen.size \in [Ids -> Sizes]
      /\ bridge.sizes \in [Ids -> Maybe(Sizes)] /\ bridge.events \in [Ids -> Maybe(SUBSET News)]
  BY OrderFacts, TypesOfInv, BridgeFields, ScreenFields
<1>1. /\ tasks' = [tasks EXCEPT ![id] = u]
      /\ bridge' = [bridge EXCEPT !.loading = @ \cup {id}, !.events[id] = {}, !.sizes[id] = size]
      /\ screen' = [screen EXCEPT !.open = @ \cup {id}, !.given = @ \cup {id}]
      /\ id \notin screen.given
  BY DEF LoadPlugin
<1>2. /\ q # <<>> /\ PushesOf(ToSet(q)) = {}
      /\ id \in LoadedOf(ToSet(q))
  <2>1. q # <<>> /\ PushesOf(ToSet(q)) = {}
    BY StartSteps
  <2>2. Step("loaded", id, None) \in ToSet(q)
    <3>1. q[4] = Step("loaded", id, None) /\ DOMAIN q = 1 .. 5
      OBVIOUS
    <3>. HIDE DEF q
    <3>. QED  BY <3>1 DEF ToSet
  <2>3. Step("loaded", id, None).do = "loaded" /\ Step("loaded", id, None).id = id
    BY StepFields
  <2>. HIDE DEF q
  <2>. QED  BY <2>1, <2>2, <2>3 DEF LoadedOf
<1>3. u.steps = q /\ u.ids = {id} /\ u.for = "start" /\ u.module = None
  BY DEF Task
<1>. HIDE DEF q, u, size
<1>4. /\ bridge'.connected = bridge.connected /\ bridge'.pending = bridge.pending
      /\ bridge'.loading = bridge.loading \cup {id}
      /\ bridge'.events = [bridge.events EXCEPT ![id] = {}]
      /\ bridge'.sizes = [bridge.sizes EXCEPT ![id] = size]
      /\ screen'.open = screen.open \cup {id} /\ screen'.size = screen.size
      /\ screen'.now = screen.now /\ screen'.asked = screen.asked
  BY <1>0, <1>1 DEF Bridges, Screens
<1>5. id \in Workers /\ id # Main /\ Main \in Workers /\ MainIsIdle
  BY NoneIsNone DEF Workers, Requested
<1>6. ~Busy(id) /\ tasks[id].module = None /\ StepsOf(id) = {}
  <2>1. ~Busy(id)
    BY <1>0, <1>1 DEF AllTidy, Tidy
  <2>2. TaskOK(id, tasks[id]) /\ tasks[id].steps = <<>>
    BY <1>0, <1>5, <2>1, TypesOfInv DEF Busy
  <2>. QED  BY <2>1, <2>2, SetOfOne DEF TaskOK, StepsOf
<1>7. /\ tasks'[id] = u /\ StepsOf(id)' = ToSet(q) /\ Busy(id)'
      /\ \A v \in Workers : v # id => tasks'[v] = tasks[v] /\ StepsOf(v)' = StepsOf(v)
                                      /\ (Busy(v)' <=> Busy(v))
      /\ Ids \subseteq Workers
  BY <1>0, <1>1, <1>2, <1>3, <1>5, OthersStay
<1>8. Made' = Made /\ Connected' = Connected /\ Listed' = Listed
  <2>1. Made' = Made /\ Connected' = Connected
    BY <1>4, SameMade DEF Connected
  <2>. QED  BY <1>5, <1>7, <2>1 DEF Listed, PushesOf
<1>9. \A d \in Ids : d \in Covered' <=> d \in Covered \/ d = id
  <2>1. tasks'[id].ids = {id}
    BY <1>3, <1>7
  <2>. QED  BY <1>6, <1>7, <2>1 DEF Covered
<1>10. KeptWhileLoading'
  <2>1. size # None /\ {} # None
    BY <1>0, PluginsAssumption, NoneIsNoNews DEF size
  <2>2. ASSUME NEW d \in Ids
        PROVE  /\ bridge'.events[d] # None <=> d \in Covered'
               /\ bridge'.sizes[d] # None <=> d \in Covered'
    <3>1. /\ bridge.events[d] # None <=> d \in Covered
          /\ bridge.sizes[d] # None <=> d \in Covered
      BY DEF CurrentInv, KeptWhileLoading
    <3>2. CASE d = id
      BY <1>0, <1>4, <1>9, <2>1, <3>2
    <3>3. CASE d # id
      BY <1>0, <1>4, <1>9, <3>1, <3>3
    <3>. QED  BY <3>2, <3>3
  <2>3. bridge'.loading \subseteq Covered'
    <3>1. bridge.loading \subseteq Covered /\ bridge.loading \subseteq Ids
      BY <1>0, BridgeFields DEF CurrentInv, KeptWhileLoading
    <3>. QED  BY <1>4, <1>9, <3>1
  <2>4. bridge'.loading \subseteq screen'.open /\ (bridge'.pending => bridge'.loading # {})
    BY <1>4 DEF CurrentInv, KeptWhileLoading
  <2>. QED  BY <2>2, <2>3, <2>4 DEF KeptWhileLoading
<1>11. NewcomerAlone'
  <2>1. tasks'[Main].steps = <<>> /\ StepsOf(Main)' = {}
    BY <1>5, <1>7, MainHoldsNothing, SetOfOne DEF StepsOf
  <2>2. Len(<<>>) = 0
    OBVIOUS
  <2>. QED  BY <2>1, <2>2 DEF NewcomerAlone
<1>12. ASSUME ~bridge.pending
       PROVE  CodeIsNew'
  <2>1. CodeIsNew
    BY <1>12 DEF CurrentInv
  <2>2. CASE file' = file
    <3>1. ASSUME NEW d \in Ids, NEW e \in Clients, Renewed(d, e)
          PROVE  Renewed(d, e)'
      <4>1. PICK w \in Workers : d \in AgainOf(StepsOf(w)) \/ <<d, e>> \in PutsOf(StepsOf(w))
        BY <3>1 DEF Renewed
      <4>2. w # id
        BY <1>6, <4>1 DEF AgainOf, PutsOf
      <4>3. StepsOf(w)' = StepsOf(w)
        BY <1>7, <4>2
      <4>. QED  BY <4>1, <4>3 DEF Renewed
    <3>2. \A w \in Ids : Compiles(w) => Compiles(w)'
      <4>1. \A w \in Ids : Compiles(w) => w # id
        BY <1>6 DEF Compiles
      <4>. QED  BY <1>7, <4>1 DEF Compiles, Current
    <3>3. Listed \subseteq Clients
      <4>1. bridge.connected \in Seq(Clients)
        BY <1>0, BridgeFields
      <4>2. Connected \subseteq Clients
        BY <4>1, SetOfSeq DEF Connected
      <4>. QED  BY <4>2 DEF Listed, PushesOf
    <3>4. \A w \in Workers : tasks'[w].module \in {None, file}
      BY <1>3, <1>7, <2>1 DEF CodeIsNew
    <3>. QED  BY <1>8, <2>1, <2>2, <3>1, <3>2, <3>3, <3>4 DEF CodeIsNew
  <2>3. CASE Made = {} /\ cache = None /\ bridge.loading = {}
    <3>1. \A d \in Ids, e \in Clients : running'[d][e] = None
      BY <2>3, MadeFacts
    <3>2. \A w \in Workers : tasks'[w].module = None
      BY <1>3, <1>5, <1>7, <2>3, NobodyHoldsAny
    <3>3. Listed' \subseteq Clients
      <4>1. bridge.connected \in Seq(Clients)
        BY <1>0, BridgeFields
      <4>2. Connected \subseteq Clients
        BY <4>1, SetOfSeq DEF Connected
      <4>. QED  BY <1>8, <4>2 DEF Listed, PushesOf
    <3>. QED  BY <2>3, <3>1, <3>2, <3>3 DEF CodeIsNew
  <2>. QED  BY <2>2, <2>3
<1>13. SizesAreKnown'
  <2>1. ASSUME NEW d \in Ids
        PROVE  /\ bridge'.sizes[d] \in {None, screen'.size[d]}
               /\ \A e \in Clients : running'[d][e] # None =>
                     /\ Numbered(running'[d][e])
                     /\ bridge'.sizes[d] # None \/ EndsAt(running'[d][e], screen'.size[d])
    <3>1. /\ bridge.sizes[d] \in {None, screen.size[d]}
          /\ \A e \in Clients : running[d][e] # None =>
                /\ Numbered(running[d][e])
                /\ bridge.sizes[d] # None \/ EndsAt(running[d][e], screen.size[d])
      BY DEF CurrentInv, SizesAreKnown
    <3>2. CASE d = id
      <4>1. bridge'.sizes[d] = screen.size[d] /\ bridge'.sizes[d] # None
        BY <1>0, <1>4, <3>2, PluginsAssumption DEF size
      <4>. QED  BY <1>4, <3>1, <4>1
    <3>3. CASE d # id
      <4>1. bridge'.sizes[d] = bridge.sizes[d]
        BY <1>0, <1>4, <3>3
      <4>. QED  BY <1>4, <3>1, <4>1
    <3>. QED  BY <3>2, <3>3
  <2>2. tasks'[Main].module = None
    BY <1>5, <1>7, MainHoldsNothing
  <2>. QED  BY <2>1, <2>2 DEF SizesAreKnown
<1>14. NewsIsKnown'
  <2>1. ASSUME NEW d \in Ids
        PROVE  /\ \A e \in Clients : running'[d][e] # None =>
                     /\ running'[d][e].told <= screen'.now
                     /\ \A n \in running'[d][e].news : n <= screen'.now
                     /\ bridge'.events[d] = None /\ e \in Connected' =>
                           Knows(running'[d][e], screen'.now) \/ screen'.asked
               /\ bridge'.events[d] # None =>
                     /\ \A n \in bridge'.events[d] : n <= screen'.now
                     /\ \/ screen'.now \in bridge'.events[d] \/ screen'.asked
                        \/ \E w \in Ids : d \in LoadedOf(StepsOf(w)')
    <3>1. /\ \A e \in Clients : running[d][e] # None =>
                /\ running[d][e].told <= screen.now
                /\ \A n \in running[d][e].news : n <= screen.now
                /\ bridge.events[d] = None /\ e \in Connected =>
                      Knows(running[d][e], screen.now) \/ screen.asked
          /\ bridge.events[d] # None =>
                /\ \A n \in bridge.events[d] : n <= screen.now
                /\ \/ screen.now \in bridge.events[d] \/ screen.asked
                   \/ \E w \in Ids : d \in LoadedOf(StepsOf(w))
      BY DEF CurrentInv, NewsIsKnown
    <3>2. CASE d = id
      <4>1. bridge'.events[d] = {} /\ bridge'.events[d] # None
        BY <1>0, <1>4, <3>2, NoneIsNoNews
      <4>2. d \in LoadedOf(StepsOf(id)')
        BY <1>2, <1>7, <3>2
      <4>. QED  BY <1>4, <3>1, <4>1, <4>2
    <3>3. CASE d # id
      <4>1. bridge'.events[d] = bridge.events[d]
        BY <1>0, <1>4, <3>3
      <4>2. \A w \in Ids : d \in LoadedOf(StepsOf(w)) => d \in LoadedOf(StepsOf(w)')
        <5>1. d \notin LoadedOf(StepsOf(id))
          BY <1>6 DEF LoadedOf
        <5>. QED  BY <1>7, <5>1
      <4>3. (\E w \in Ids : d \in LoadedOf(StepsOf(w))) => \E w \in Ids : d \in LoadedOf(StepsOf(w)')
        BY <4>2
      <4>. QED  BY <1>4, <1>8, <3>1, <4>1, <4>3
    <3>. QED  BY <3>2, <3>3
  <2>2. \A w \in Ids, d \in Ids : d \in LoadedOf(StepsOf(w)') <=> d \in LoadedOf(StepsOf(w))'
    BY DEF LoadedOf
  <2>. QED  BY <2>1, <2>2 DEF NewsIsKnown
<1>. QED  BY <1>4, <1>10, <1>11, <1>12, <1>13, <1>14 DEF CurrentInv

LEMMA LoadCurrent ==
    ASSUME InTurn, OrderInv, OrderInv', CurrentInv, NEW id \in Ids, NEW c \in Clients,
           Load(id, c)
    PROVE  CurrentInv'
BY LoadPluginCurrent DEF Load

LEMMA ClientAlone ==
    ASSUME NEW n \in Nat, NEW order \in [1 .. n -> Ids], NEW c \in Clients
    PROVE  LET q == FlattenSeq([i \in DOMAIN order |-> <<Step("copy", order[i], c),
                                                         Step("put", order[i], c)>>])
                      \o <<Step("push", None, c)>>
           IN  /\ \A s \in ToSet(q) : s.client = c
               /\ \A i \in 1 .. Len(q) - 1 : q[i].do = "copy" => q[i + 1].id = q[i].id
<1>. DEFINE cs == [i \in 1 .. n |-> c]
            a == FlattenSeq([i \in 1 .. n |-> <<Step("copy", order[i], cs[i]),
                                                Step("put", order[i], cs[i])>>])
            l == Step("push", None, c)
            z == <<l>>
            q == a \o z
<1>1. cs \in [1 .. n -> Clients] /\ \A i \in 1 .. n : cs[i] = c
  OBVIOUS
<1>2. [i \in 1 .. n |-> <<Step("copy", order[i], cs[i]), Step("put", order[i], cs[i])>>]
        = [i \in DOMAIN order |-> <<Step("copy", order[i], c), Step("put", order[i], c)>>]
  OBVIOUS
<1>3. q = FlattenSeq([i \in DOMAIN order |-> <<Step("copy", order[i], c),
                                               Step("put", order[i], c)>>])
            \o <<Step("push", None, c)>>
  BY <1>2
<1>4. AreCopies(a, order, cs, n)
  <2>. HIDE DEF cs
  <2>. QED  BY <1>1, FlatCopies
<1>. HIDE DEF cs, a
<1>5. l \in Steps /\ l.client = c /\ z \in Seq(Steps) /\ Len(z) = 1 /\ z[1] = l
  BY DEF Step, Steps, Maybe
<1>. HIDE DEF l, z
<1>6. /\ a \in Seq(Steps) /\ Len(a) = 2 * n
      /\ \A j \in 1 .. n : /\ a[2 * j - 1] = Step("copy", order[j], c)
                           /\ a[2 * j] = Step("put", order[j], c)
  BY <1>1, <1>4 DEF AreCopies
<1>7. /\ q \in Seq(Steps) /\ Len(q) = 2 * n + 1
      /\ \A i \in 1 .. 2 * n : q[i] = a[i]
      /\ q[2 * n + 1] = l
  <2>0. a \in Seq(Steps) /\ z \in Seq(Steps)
    BY <1>5, <1>6
  <2>1. /\ \A j \in 1 .. Len(a) : (a \o z)[j] = a[j]
        /\ Len(a \o z) = Len(a) + Len(z) /\ a \o z \in Seq(Steps)
        /\ \A j \in 1 .. Len(a) + Len(z) : j > Len(a) => (a \o z)[j] = z[j - Len(a)]
    <3>. HIDE DEF q
    <3>. QED  BY <2>0, ConcatFacts
  <2>2. 2 * n + 1 \in 1 .. Len(a) + Len(z) /\ 2 * n + 1 > Len(a) /\ 2 * n + 1 - Len(a) = 1
    BY <1>5, <1>6
  <2>3. q[2 * n + 1] = z[1]
    BY <2>1, <2>2
  <2>. QED  BY <1>5, <1>6, <2>1, <2>3
<1>. HIDE DEF q
<1>8. ASSUME NEW i \in 1 .. 2 * n
      PROVE  q[i].client = c /\ (q[i].do = "copy" => i + 1 \in 1 .. 2 * n /\ q[i + 1].id = q[i].id)
  <2>1. PICK j \in 1 .. n : i = 2 * j - 1 \/ i = 2 * j
    BY CopiesIndex
  <2>2. CASE i = 2 * j - 1
    <3>1. i + 1 = 2 * j /\ 2 * j \in 1 .. 2 * n
      BY <2>2
    <3>2. q[i] = Step("copy", order[j], c)
      BY <1>6, <1>7, <2>2
    <3>3. q[i + 1] = Step("put", order[j], c)
      BY <1>6, <1>7, <3>1
    <3>. QED  BY <3>1, <3>2, <3>3, StepFields
  <2>3. CASE i = 2 * j
    <3>1. q[i] = Step("put", order[j], c)
      BY <1>6, <1>7, <2>3
    <3>. QED  BY <3>1, StepFields
  <2>. QED  BY <2>1, <2>2, <2>3
<1>9. DOMAIN q = 1 .. 2 * n + 1
  BY <1>7
<1>10. \A i \in 1 .. 2 * n + 1 : i \in 1 .. 2 * n \/ i = 2 * n + 1
  OBVIOUS
<1>11. ASSUME NEW s \in ToSet(q)
       PROVE  s.client = c
  <2>1. PICK i \in 1 .. 2 * n + 1 : s = q[i]
    BY <1>9 DEF ToSet
  <2>2. CASE i \in 1 .. 2 * n
    BY <1>8, <2>1, <2>2
  <2>3. CASE i = 2 * n + 1
    BY <1>5, <1>7, <2>1, <2>3
  <2>. QED  BY <1>10, <2>2, <2>3
<1>12. \A i \in 1 .. Len(q) - 1 : q[i].do = "copy" => q[i + 1].id = q[i].id
  <2>1. 1 .. Len(q) - 1 = 1 .. 2 * n
    BY <1>7
  <2>. QED  BY <1>8, <2>1
<1>. QED  BY <1>3, <1>11, <1>12

(* What it left when it was there before is made anew with the rest.       *)
LEMMA AddClientCurrent ==
    ASSUME InTurn, OrderInv, OrderInv', CurrentInv, NEW c \in Clients, AddClient(c)
    PROVE  CurrentInv'
<1>. DEFINE q(order) == FlattenSeq([i \in DOMAIN order |-> <<Step("copy", order[i], c),
                                                             Step("put", order[i], c)>>])
                          \o <<Step("push", None, c)>>
            n == Cardinality(RunningIn(running))
<1>0. TypeInv /\ Main \in Workers
  BY OrderFacts DEF Workers
<1>1. /\ MainIsIdle /\ ~Busy(Main) /\ c \notin Connected
      /\ bridge' = bridge /\ running' = running /\ cache' = cache /\ file' = file
      /\ toPlugins' = toPlugins /\ screen' = screen
  BY DEF AddClient, Requested, MainIsIdle
<1>2. PICK order \in SetToSeqs(RunningIn(running)) :
         tasks' = [tasks EXCEPT ![Main] = Task("client", {}, None, q(order))]
  BY DEF AddClient
<1>3. RunningIn(running) \in SUBSET Ids /\ IsFiniteSet(RunningIn(running))
  <2>1. RunningIn(running) \in SUBSET Ids
    BY DEF RunningIn, InstancesIn
  <2>. QED  BY <2>1, FS_Subset, PluginsAssumption
<1>4. /\ n \in Nat /\ order \in [1 .. n -> Ids] /\ ToSet(order) = IdsOf(Made)
      /\ order \in [1 .. n -> IdsOf(Made)]
  BY <1>2, <1>3, InOrder, MadeFacts
<1>. HIDE DEF n
<1>. DEFINE p == q(order)
            u == Task("client", {}, None, p)
<1>5. /\ p \in Seq(Steps) /\ Fine(p, Made, Connected) /\ Ends(p)
      /\ PutsOf(ToSet(p)) = {<<order[i], c>> : i \in 1 .. n}
      /\ ClonesOf(ToSet(p)) = {} /\ PushesOf(ToSet(p)) = {c}
      /\ n = 0 => \A s \in ToSet(p) : s.do = "push"
  <2>1. ASSUME NEW i \in 1 .. n
        PROVE  \E d \in Clients : <<order[i], d>> \in Made
    <3>1. order[i] \in IdsOf(Made)
      BY <1>4
    <3>2. PICK k \in Made : order[i] = k[1]
      BY <3>1 DEF IdsOf
    <3>3. k[2] \in Clients /\ k = <<k[1], k[2]>>
      BY MadeFacts
    <3>. QED  BY <3>2, <3>3
  <2>. QED  BY <1>4, <2>1, ClientSteps
<1>6. PutsOf(ToSet(p)) = {<<d, c>> : d \in IdsOf(Made)}
  <2>1. DOMAIN order = 1 .. n
    BY <1>4
  <2>2. IdsOf(Made) = {order[i] : i \in 1 .. n}
    BY <1>4, <2>1 DEF ToSet
  <2>. QED  BY <1>5, <2>2
<1>6a. /\ \A s \in ToSet(p) : s.client = c
       /\ \A i \in 1 .. Len(p) - 1 : p[i].do = "copy" => p[i + 1].id = p[i].id
  BY <1>4, ClientAlone
<1>7. tasks' = [tasks EXCEPT ![Main] = u] /\ u.steps = p /\ u.module = None
  BY <1>2 DEF Task
<1>. HIDE DEF p, u
<1>8. StepsOf(Main) = {} /\ tasks[Main].module = None
  BY <1>1, MainHoldsNothing, SetOfOne DEF StepsOf
<1>9. /\ tasks'[Main] = u /\ StepsOf(Main)' = ToSet(p)
      /\ \A v \in Workers : v # Main => tasks'[v] = tasks[v] /\ StepsOf(v)' = StepsOf(v)
                                        /\ (Busy(v)' <=> Busy(v))
      /\ Ids \subseteq Workers /\ \A v \in Ids : v # Main
  BY <1>0, <1>7, OthersStay, NoneIsNone
<1>10. Made' = Made /\ Connected' = Connected /\ Listed' = Connected \cup {c}
  <2>1. Made' = Made /\ Connected' = Connected
    BY <1>1, SameMade DEF Connected
  <2>2. PushesOf(StepsOf(Main))' = {c}
    <3>1. PushesOf(StepsOf(Main))' = PushesOf(StepsOf(Main)')
      BY DEF PushesOf
    <3>. QED  BY <1>5, <1>9, <3>1
  <2>. QED  BY <2>1, <2>2 DEF Listed
<1>11. KeptWhileLoading'
  <2>1. Covered' = Covered
    BY <1>1, <1>9 DEF Covered
  <2>. QED  BY <1>1, <2>1 DEF CurrentInv, KeptWhileLoading
<1>12. NewcomerAlone'
  BY <1>1, <1>6a, <1>7, <1>9, <1>10 DEF NewcomerAlone
<1>13. ASSUME ~bridge.pending
       PROVE  CodeIsNew'
  <2>1. CodeIsNew
    BY <1>13 DEF CurrentInv
  <2>2. ASSUME NEW d \in Ids, NEW e \in Clients, Renewed(d, e)
        PROVE  Renewed(d, e)'
    <3>1. PICK w \in Workers : d \in AgainOf(StepsOf(w)) \/ <<d, e>> \in PutsOf(StepsOf(w))
      BY <2>2 DEF Renewed
    <3>2. w # Main
      BY <1>8, <3>1 DEF AgainOf, PutsOf
    <3>3. StepsOf(w)' = StepsOf(w)
      BY <1>9, <3>2
    <3>. QED  BY <3>1, <3>3 DEF Renewed
  <2>3. ASSUME NEW d \in Ids, running[d][c] # None
        PROVE  Renewed(d, c)'
    <3>1. <<d, c>> \in Made
      BY <2>3, MadeFacts
    <3>2. d \in IdsOf(Made)
      <4>1. <<d, c>>[1] = d
        OBVIOUS
      <4>. QED  BY <3>1, <4>1 DEF IdsOf
    <3>3. <<d, c>> \in PutsOf(ToSet(p))
      BY <1>6, <3>2
    <3>. QED  BY <1>0, <1>9, <3>3 DEF Renewed, PutsOf
  <2>4. ASSUME NEW d \in Ids, NEW e \in Listed', running'[d][e] # None
        PROVE  running'[d][e].code = file \/ Renewed(d, e)'
    <3>1. CASE e = c
      BY <1>1, <2>3, <2>4, <3>1
    <3>2. CASE e \in Connected
      <4>1. e \in Listed /\ e \in Clients
        <5>1. bridge.connected \in Seq(Clients)
          BY <1>0, TypesOfInv, BridgeFields
        <5>2. Connected \subseteq Clients
          BY <5>1, SetOfSeq DEF Connected
        <5>. QED  BY <3>2, <5>2 DEF Listed
      <4>2. running[d][e].code = file \/ Renewed(d, e)
        BY <1>1, <2>1, <2>4, <4>1 DEF CodeIsNew
      <4>. QED  BY <1>1, <2>2, <4>1, <4>2
    <3>. QED  BY <1>10, <3>1, <3>2
  <2>5. \A w \in Ids : Compiles(w)' <=> Compiles(w)
    BY <1>9 DEF Compiles, Current
  <2>6. \A w \in Workers : tasks'[w].module \in {None, file}
    BY <1>7, <1>9, <2>1 DEF CodeIsNew
  <2>. QED  BY <1>1, <2>1, <2>4, <2>5, <2>6 DEF CodeIsNew
<1>14. SizesAreKnown'
  <2>1. tasks'[Main].module = None
    BY <1>7, <1>9
  <2>. QED  BY <1>1, <2>1 DEF CurrentInv, SizesAreKnown
<1>15. NewsIsKnown'
  <2>1. \A w \in Ids : StepsOf(w)' = StepsOf(w)
    BY <1>9
  <2>. QED  BY <1>1, <1>10, <2>1 DEF CurrentInv, NewsIsKnown
<1>. QED  BY <1>1, <1>11, <1>12, <1>13, <1>14, <1>15 DEF CurrentInv

----------------------------------------------------------------------------
(* The plugins are reloaded                                                *)

(* All plugins that are listed are made anew.                              *)
LEMMA ReloadIsForAll ==
    ASSUME NEW listed \in Seq(Ids), listed # <<>>, NEW ids
    PROVE  LET u == ReloadTask(listed, ids)
           IN  /\ u.ids = ids /\ u.for = "reload" /\ u.module = None
               /\ u.steps # <<>> /\ Head(u.steps).do = "again"
               /\ \A d \in ToSet(listed) :
                     d \in AgainOf(ToSet(u.steps)) /\ d \in LoadedOf(ToSet(u.steps))
<1>. DEFINE first == listed[1]
            others == Others(listed, first)
            l == Step("again", first, None)
            a == <<l>>
            m == [i \in DOMAIN others |-> Step("memory", others[i], None)]
            z == <<Step("done", None, None)>>
            q == a \o m \o z
            u == ReloadTask(listed, ids)
<1>1. first \in Ids /\ first \in ToSet(listed)
  BY TailFacts, NotEmpty DEF ToSet
<1>2. others \in Seq(Ids) /\ ToSet(others) = ToSet(listed) \ {first}
  BY OthersFacts
<1>3. u.ids = ids /\ u.for = "reload" /\ u.module = None /\ u.steps = q
  BY DEF ReloadTask, Task
<1>4. Line(first, q) /\ q # <<>> /\ q[1].do = "again"
  <2>. HIDE DEF first, others
  <2>. QED  BY <1>1, <1>2, ReloadLine
<1>. HIDE DEF u, first, others
<1>5. l \in Steps /\ l.do = "again" /\ l.id = first
  <2>1. StepOK(first, l)
    BY <1>1, NoneIsNone, StepsAlone
  <2>. QED  BY <2>1, StepFields DEF StepOK
<1>6. a \in Seq(Steps) /\ ToSet(a) = {l}
  BY <1>5, SetOfOne
<1>7. m \in Seq(Steps) /\ \A d \in ToSet(others) : \E s \in ToSet(m) : s.do = "memory" /\ s.id = d
  <2>1. Len(others) \in Nat /\ DOMAIN others = 1 .. Len(others)
    BY <1>2, NotEmpty
  <2>2. ASSUME NEW i \in 1 .. Len(others)
        PROVE  /\ Step("memory", others[i], None) \in Steps
               /\ Step("memory", others[i], None).do = "memory"
               /\ Step("memory", others[i], None).id = others[i]
    <3>1. others[i] \in Ids
      BY <1>2, <2>1
    <3>2. StepOK(first, Step("memory", others[i], None))
      BY <1>1, <3>1, NoneIsNone, StepsAlone
    <3>. QED  BY <3>2, StepFields DEF StepOK
  <2>3. m \in Seq(Steps) /\ DOMAIN m = 1 .. Len(others)
        /\ \A i \in 1 .. Len(others) : m[i] = Step("memory", others[i], None)
    BY <2>1, <2>2
  <2>. HIDE DEF m
  <2>4. ASSUME NEW d \in ToSet(others)
        PROVE  \E s \in ToSet(m) : s.do = "memory" /\ s.id = d
    <3>1. PICK i \in 1 .. Len(others) : others[i] = d
      BY <2>1 DEF ToSet
    <3>2. m[i] \in ToSet(m)
      BY <2>3 DEF ToSet
    <3>. QED  BY <2>2, <2>3, <3>1, <3>2
  <2>. QED  BY <2>3, <2>4
<1>8. z \in Seq(Steps) /\ q \in Seq(Steps)
  <2>1. StepOK(first, Step("done", None, None))
    BY <1>1, NoneIsNone, StepsAlone
  <2>2. Step("done", None, None) \in Steps
    BY <2>1 DEF StepOK
  <2>3. q \in Seq(Steps)
    BY <1>4 DEF Line, Part
  <2>. HIDE DEF q
  <2>. QED  BY <2>2, <2>3
<1>. HIDE DEF a, m, z, l
<1>9. ToSet(a) \subseteq ToSet(q) /\ ToSet(m) \subseteq ToSet(q)
  <2>1. a \o m \in Seq(Steps) /\ ToSet(a \o m) = ToSet(a) \cup ToSet(m)
    BY <1>6, <1>7, SetOfSeq, ConcatFacts
  <2>. DEFINE b == a \o m
  <2>2. b \in Seq(Steps) /\ q = b \o z
    BY <2>1
  <2>. HIDE DEF b, q
  <2>3. ToSet(q) = ToSet(b) \cup ToSet(z)
    BY <1>8, <2>2, SetOfSeq
  <2>. QED  BY <2>1, <2>3 DEF b
<1>. HIDE DEF q
<1>10. ASSUME NEW d \in ToSet(listed)
       PROVE  d \in AgainOf(ToSet(q)) /\ d \in LoadedOf(ToSet(q))
  <2>1. ToSet(listed) \subseteq Ids
    BY SetOfSeq
  <2>2. \E s \in ToSet(q) : s.do \in {"again", "memory"} /\ s.id = d
    <3>1. CASE d = first
      BY <1>5, <1>6, <1>9, <3>1
    <3>2. CASE d # first
      BY <1>2, <1>7, <1>9, <3>2
    <3>. QED  BY <3>1, <3>2
  <2>. QED  BY <2>1, <2>2 DEF AgainOf, LoadedOf
<1>11. Head(q) = q[1]
  BY <1>4, <1>8, TailFacts
<1>. QED  BY <1>3, <1>4, <1>10, <1>11 DEF u

(* The thread is halfway through a request: b, r, and q are what it has     *)
(* made of its own state, the plugins and its channel.                     *)
Awaited(q) == {id \in Ids :
    \/ \E w \in Ids : Busy(w) /\ id \in tasks[w].ids
    \/ \E k \in 1 .. Len(q) : id \in q[k]}

Halfway(b, r, q) ==
    /\ \A id \in Ids : /\ b.events[id] # None <=> id \in Awaited(q)
                       /\ b.sizes[id] # None <=> id \in Awaited(q)
    /\ b.loading \subseteq Awaited(q) /\ b.loading \subseteq screen.open
    /\ b.pending => b.loading # {}
    /\ \A id \in Ids : b.sizes[id] \in {None, screen.size[id]}
    /\ \A id \in Ids, c \in Clients : r[id][c] # None =>
          /\ Numbered(r[id][c])
          /\ b.sizes[id] # None \/ EndsAt(r[id][c], screen.size[id])
          /\ r[id][c].told <= screen.now
          /\ \A n \in r[id][c].news : n <= screen.now
          /\ b.events[id] = None /\ c \in Connected => Knows(r[id][c], screen.now) \/ screen.asked
    /\ \A id \in Ids : b.events[id] # None =>
          /\ \A n \in b.events[id] : n <= screen.now
          /\ \/ screen.now \in b.events[id] \/ screen.asked
             \/ \E w \in Ids : id \in LoadedOf(StepsOf(w))

LEMMA HalfwayThrough ==
    ASSUME OrderInv, CurrentInv, MainIsIdle, UNCHANGED <<tasks, screen>>,
           NEW b, NEW r, NEW q, Halfway(b, r, q),
           running' = r, toPlugins' = q, bridge'.connected = bridge.connected,
           bridge'.events = b.events, bridge'.sizes = b.sizes, bridge'.loading = b.loading,
           bridge'.pending => b.pending \/ b.loading # {}
    PROVE  KeptWhileLoading' /\ NewcomerAlone' /\ SizesAreKnown' /\ NewsIsKnown'
           /\ Listed' = Listed
<1>1. \A v \in Workers : (Busy(v)' <=> Busy(v)) /\ StepsOf(v)' = StepsOf(v)
  BY DEF Busy, StepsOf
<1>2. Ids \subseteq Workers /\ Main \in Workers
  BY DEF Workers
<1>3. Covered' = Awaited(q)
  BY <1>1, <1>2 DEF Covered, Awaited
<1>4. KeptWhileLoading'
  BY <1>3 DEF Halfway, KeptWhileLoading
<1>5. Connected' = Connected
  BY DEF Connected
<1>6. Listed' = Listed
  BY <1>1, <1>2, <1>5 DEF Listed, PushesOf
<1>7. NewcomerAlone'
  BY <1>1, <1>2, <1>5 DEF CurrentInv, NewcomerAlone
<1>8. SizesAreKnown'
  <2>1. tasks'[Main].module = None
    BY MainHoldsNothing
  <2>. QED  BY <2>1 DEF Halfway, SizesAreKnown
<1>9. NewsIsKnown'
  BY <1>1, <1>2, <1>5 DEF Halfway, NewsIsKnown
<1>. QED  BY <1>4, <1>6, <1>7, <1>8, <1>9

(* A reload that begins asks each plugin for its size.                     *)
SizeAsked(r, id) ==
    UNION {SizesOf(r[id][c]) : c \in {c \in Clients : r[id][c] # None}}

LEMMA ReloadAsks ==
    ASSUME NEW b, NEW r, ReloadPlugin(b, r), b.loading = {}
    PROVE  \E listed \in Listings(r) : \E size \in [RunningIn(r) -> Sizes] :
              /\ \A id \in RunningIn(r) : size[id] \in SizeAsked(r, id)
              /\ tasks' = [tasks EXCEPT ![listed[1]] = ReloadTask(listed, RunningIn(r))]
              /\ bridge' = [b EXCEPT
                    !.loading = {listed[1]},
                    !.events = [id \in Ids |-> IF id \in RunningIn(r) THEN {} ELSE b.events[id]],
                    !.sizes = [id \in Ids |-> IF id \in RunningIn(r) THEN size[id]
                                              ELSE b.sizes[id]]]
BY DEF ReloadPlugin, ReloadTask, SizeAsked

LEMMA SizesAreAsked ==
    ASSUME InTurn, NEW b, NEW r \in [Ids -> [Clients -> Maybe(Instances)]], NEW q,
           Halfway(b, r, q), NEW id \in RunningIn(r), id \in Ids, b.sizes[id] = None,
           NEW size \in SizeAsked(r, id)
    PROVE  size = screen.size[id]
<1>1. PICK c \in Clients : r[id][c] # None /\ size \in SizesOf(r[id][c])
  BY DEF SizeAsked
<1>. DEFINE i == r[id][c]
<1>2. i \in Instances
  BY <1>1 DEF Maybe
<1>3. Numbered(i) /\ EndsAt(i, screen.size[id])
  BY <1>1 DEF Halfway
<1>. HIDE DEF i
<1>4. SizesOf(i) = {screen.size[id]}
  BY <1>2, <1>3, EndsSizes
<1>. QED  BY <1>1, <1>4 DEF i

LEMMA ReloadPluginCurrent ==
    ASSUME InTurn, OrderInv, OrderInv', CurrentInv, MainIsIdle, UNCHANGED cache,
           screen'.open = screen.open, screen' = screen, Made' = Made,
           NEW b \in Bridges, NEW r, NEW q, r \in [Ids -> [Clients -> Maybe(Instances)]],
           Halfway(b, r, q), StillApart(b.loading, q), q \in Seq(SUBSET Ids),
           running' = r, toPlugins' = q, b.connected = bridge.connected,
           b.loading # {} \/ RunningIn(r) # {}, ReloadPlugin(b, r)
    PROVE  CurrentInv'
<1>1. CASE b.loading # {}
  <2>1. bridge' = [b EXCEPT !.pending = TRUE] /\ tasks' = tasks
    BY <1>1, ReloadPluginCases
  <2>2. /\ bridge'.loading = b.loading /\ bridge'.connected = bridge.connected
        /\ bridge'.events = b.events /\ bridge'.sizes = b.sizes /\ bridge'.pending = TRUE
    BY <2>1 DEF Bridges
  <2>3. KeptWhileLoading' /\ NewcomerAlone' /\ SizesAreKnown' /\ NewsIsKnown'
    BY <1>1, <2>1, <2>2, HalfwayThrough
  <2>. QED  BY <2>2, <2>3 DEF CurrentInv
<1>2. CASE b.loading = {}
  <2>. DEFINE ids == RunningIn(r)
              events == [id \in Ids |-> IF id \in ids THEN {} ELSE b.events[id]]
              sizes(size) == [id \in Ids |-> IF id \in ids THEN size[id] ELSE b.sizes[id]]
  <2>1. PICK listed \in Listings(r) : \E size \in [ids -> Sizes] :
           /\ \A id \in ids : size[id] \in SizeAsked(r, id)
           /\ tasks' = [tasks EXCEPT ![listed[1]] = ReloadTask(listed, ids)]
           /\ bridge' = [b EXCEPT !.loading = {listed[1]}, !.events = events, !.sizes = sizes(size)]
    <3>1. ReloadPlugin(b, r)
      OBVIOUS
    <3>. QED  BY ONLY <1>2, <3>1, ReloadAsks
  <2>2. PICK size \in [ids -> Sizes] :
           /\ \A id \in ids : size[id] \in SizeAsked(r, id)
           /\ tasks' = [tasks EXCEPT ![listed[1]] = ReloadTask(listed, ids)]
           /\ bridge' = [b EXCEPT !.loading = {listed[1]}, !.events = events, !.sizes = sizes(size)]
    BY <2>1
  <2>. DEFINE w == listed[1]
              u == ReloadTask(listed, ids)
              s == sizes(size)
  <2>3. /\ bridge'.loading = {w} /\ bridge'.connected = bridge.connected
        /\ bridge'.events = events /\ bridge'.sizes = s
    <3>1. bridge' = [b EXCEPT !.loading = {w}, !.events = events, !.sizes = s]
      BY <2>2
    <3>. HIDE DEF w, events, s
    <3>. QED  BY <3>1 DEF Bridges
  <2>4. /\ listed \in Seq(Ids) /\ listed # <<>> /\ w \in ids /\ ToSet(listed) = ids
        /\ ids \in SUBSET Ids
    BY <1>2, ListingFacts
  <2>5. /\ u.ids = ids /\ u.for = "reload" /\ u.module = None
        /\ u.steps # <<>> /\ Head(u.steps).do = "again"
        /\ \A d \in ids : d \in AgainOf(ToSet(u.steps)) /\ d \in LoadedOf(ToSet(u.steps))
    <3>. HIDE DEF w
    <3>1. listed \in Seq(Ids) /\ listed # <<>> /\ ToSet(listed) = ids
      BY <2>4
    <3>. HIDE DEF ids, u
    <3>2. /\ u.ids = ids /\ u.for = "reload" /\ u.module = None
          /\ u.steps # <<>> /\ Head(u.steps).do = "again"
          /\ \A d \in ToSet(listed) : d \in AgainOf(ToSet(u.steps)) /\ d \in LoadedOf(ToSet(u.steps))
      BY <3>1, ReloadIsForAll DEF u
    <3>. QED  BY <3>1, <3>2
  <2>6. tasks' = [tasks EXCEPT ![w] = u] /\ \A id \in ids : size[id] \in SizeAsked(r, id)
    BY <2>2
  <2>7. \A v \in Workers : ~Busy(v)
    BY <1>2 DEF StillApart, Workers, MainIsIdle
  <2>8. q = <<>>
    <3>1. q # <<>> => 1 \in 1 .. Len(q)
      BY NotEmpty
    <3>. QED  BY <1>2, <3>1 DEF StillApart
  <2>9. w \in Workers /\ w # Main /\ w \in Ids /\ Main \in Workers /\ Ids \subseteq Workers
    BY <2>4, NoneIsNone DEF Workers
  <2>10. Awaited(q) = {}
    <3>1. Len(<<>>) = 0
      OBVIOUS
    <3>. QED  BY <2>7, <2>8, <2>9, <3>1 DEF Awaited
  <2>11. \A id \in Ids : b.events[id] = None /\ b.sizes[id] = None
    BY <2>10 DEF Halfway
  <2>12. \A id \in ids : size[id] = screen.size[id]
    <3>1. ASSUME NEW id \in ids
          PROVE  size[id] = screen.size[id]
      <4>1. id \in Ids /\ id \in RunningIn(r) /\ b.sizes[id] = None
        BY <2>4, <2>11
      <4>2. size[id] \in SizeAsked(r, id)
        BY <2>6
      <4>. QED  BY <4>1, <4>2, SizesAreAsked
    <3>. QED  BY <3>1
  <2>13. /\ \A id \in ids : events[id] = {} /\ s[id] = screen.size[id]
         /\ \A id \in Ids : id \notin ids => events[id] = None /\ s[id] = None
    BY <2>4, <2>11, <2>12
  <2>14. /\ {} # None /\ \A id \in Ids : screen.size[id] # None
    <3>1. screen.size \in [Ids -> Sizes]
      BY OrderFacts, TypesOfInv, ScreenFields
    <3>. QED  BY <3>1, NoneIsNone, NoneIsNoNews
  <2>15. ASSUME NEW id \in Ids, NEW c \in Clients, r[id][c] # None
         PROVE  id \in ids
    <3>1. <<id, c>> \in InstancesIn(r) /\ <<id, c>>[1] = id
      BY <2>15 DEF InstancesIn
    <3>. QED  BY <3>1 DEF RunningIn
  <2>16. ids \subseteq screen.open
    <3>1. \A id \in ids : \E c \in Clients : <<id, c>> \in Made'
      BY <2>4 DEF RunningIn, InstancesIn, Made
    <3>2. Made \subseteq Has /\ screen.open = IdsOf(Has)
      BY OrderFacts DEF Has, OpenHave
    <3>3. ASSUME NEW id \in ids
          PROVE  id \in IdsOf(Has)
      <4>1. PICK c \in Clients : <<id, c>> \in Has
        BY <3>1, <3>2
      <4>2. <<id, c>>[1] = id
        OBVIOUS
      <4>. QED  BY <4>1, <4>2 DEF IdsOf
    <3>. QED  BY <3>2, <3>3
  <2>. HIDE DEF w, u, ids, events, s
  <2>17. /\ tasks'[w] = u /\ StepsOf(w)' = ToSet(u.steps) /\ Busy(w)'
         /\ \A v \in Workers : v # w => tasks'[v] = tasks[v] /\ StepsOf(v)' = StepsOf(v)
                                        /\ (Busy(v)' <=> Busy(v))
    BY <2>5, <2>6, <2>9, OthersStay, OrderFacts
  <2>18. Covered' = ids
    <3>1. toPlugins' = <<>> /\ Len(<<>>) = 0
      BY <2>8
    <3>2. \A v \in Ids : Busy(v)' <=> v = w
      BY <2>7, <2>9, <2>17
    <3>3. tasks'[w].ids = ids
      BY <2>5, <2>17
    <3>. QED  BY <2>4, <2>9, <3>1, <3>2, <3>3 DEF Covered
  <2>19. KeptWhileLoading'
    <3>1. \A id \in Ids : /\ bridge'.events[id] # None <=> id \in Covered'
                          /\ bridge'.sizes[id] # None <=> id \in Covered'
      BY <2>3, <2>4, <2>13, <2>14, <2>18
    <3>2. bridge'.loading \subseteq Covered' /\ bridge'.loading \subseteq screen'.open
      BY <2>3, <2>4, <2>16, <2>18
    <3>3. bridge'.loading # {}
      BY <2>3
    <3>. QED  BY <3>1, <3>2, <3>3 DEF KeptWhileLoading
  <2>20. /\ tasks'[Main].steps = <<>> /\ tasks'[Main].module = None /\ StepsOf(Main)' = {}
    BY <2>9, <2>17, MainHoldsNothing, SetOfOne DEF StepsOf
  <2>21. NewcomerAlone'
    <3>1. Len(<<>>) = 0
      OBVIOUS
    <3>. QED  BY <2>20, <3>1 DEF NewcomerAlone
  <2>22. CodeIsNew'
    <3>1. Listed' \subseteq Clients
      <4>1. bridge.connected \in Seq(Clients)
        BY OrderFacts, TypesOfInv, BridgeFields
      <4>2. Connected' \subseteq Clients
        BY <2>3, <4>1, SetOfSeq DEF Connected
      <4>. QED  BY <4>2 DEF Listed, PushesOf
    <3>2. ASSUME NEW id \in Ids, NEW c \in Listed', running'[id][c] # None
          PROVE  Renewed(id, c)'
      <4>1. id \in ids
        BY <2>15, <3>1, <3>2
      <4>. QED  BY <2>5, <2>9, <2>17, <4>1 DEF Renewed, AgainOf
    <3>3. \A v \in Workers : tasks'[v].module = None
      BY <2>5, <2>7, <2>17, NobodyAtWork
    <3>4. Compiles(w)'
      BY <2>5, <2>17 DEF Compiles, Current
    <3>. QED  BY <2>9, <3>2, <3>3, <3>4 DEF CodeIsNew
  <2>23. SizesAreKnown'
    <3>1. ASSUME NEW id \in Ids, NEW c \in Clients, running'[id][c] # None
          PROVE  Numbered(running'[id][c]) /\ bridge'.sizes[id] # None
      <4>1. id \in ids
        BY <2>15, <3>1
      <4>2. Numbered(r[id][c])
        BY <3>1 DEF Halfway
      <4>. QED  BY <2>3, <2>13, <2>14, <4>1, <4>2
    <3>2. \A id \in Ids : bridge'.sizes[id] \in {None, screen'.size[id]}
      BY <2>3, <2>13
    <3>. QED  BY <2>20, <3>1, <3>2 DEF SizesAreKnown
  <2>24. NewsIsKnown'
    <3>1. ASSUME NEW id \in Ids, NEW c \in Clients, running'[id][c] # None
          PROVE  /\ running'[id][c].told <= screen'.now
                 /\ \A n \in running'[id][c].news : n <= screen'.now
                 /\ bridge'.events[id] # None
      <4>1. id \in ids
        BY <2>15, <3>1
      <4>2. /\ r[id][c].told <= screen.now
            /\ \A n \in r[id][c].news : n <= screen.now
        BY <3>1 DEF Halfway
      <4>. QED  BY <2>3, <2>13, <2>14, <4>1, <4>2
    <3>2. ASSUME NEW id \in Ids, bridge'.events[id] # None
          PROVE  bridge'.events[id] = {} /\ id \in LoadedOf(StepsOf(w))'
      <4>1. id \in ids
        BY <2>3, <2>13, <3>2
      <4>2. id \in LoadedOf(StepsOf(w)')
        BY <2>5, <2>17, <4>1
      <4>. QED  BY <2>3, <2>13, <4>1, <4>2 DEF LoadedOf
    <3>. QED  BY <2>9, <3>1, <3>2 DEF NewsIsKnown
  <2>. QED  BY <2>19, <2>21, <2>22, <2>23, <2>24 DEF CurrentInv
<1>. QED  BY <1>1, <1>2

LEMMA ReloadCurrent ==
    ASSUME InTurn, OrderInv, OrderInv', CurrentInv, NEW id \in Ids, Reload(id)
    PROVE  CurrentInv'
<1>0. /\ TypeInv /\ Apart /\ AllTidy /\ bridge \in Bridges
      /\ running \in [Ids -> [Clients -> Maybe(Instances)]] /\ toPlugins \in Seq(SUBSET Ids)
  BY OrderFacts, TypesOfInv
<1>1. /\ Requested /\ bridge.connected # <<>> /\ UNCHANGED <<running, cache, toPlugins>>
      /\ MainIsIdle
  BY DEF Reload, Requested, InTurn, Happens
<1>2. CASE bridge.loading = {} /\ RunningIn(running) = {}
  <2>1. /\ LoadPlugin(id, Head(bridge.connected))
        /\ file' = IF cache = None \/ Happens("edited") THEN file + 1 ELSE file
    BY <1>2 DEF Reload
  <2>2. Head(bridge.connected) \in Clients
    BY <1>0, <1>1, BridgeFields, TailFacts
  <2>3. Made = {}
    BY <1>2, MadeFacts DEF IdsOf
  <2>4. file' = file \/ (Made = {} /\ cache = None /\ bridge.loading = {})
    BY <1>2, <2>1, <2>3 DEF Happens, InTurn
  <2>. QED  BY <1>1, <2>1, <2>2, <2>4, LoadPluginCurrent
<1>3. CASE ~(bridge.loading = {} /\ RunningIn(running) = {})
  <2>1. ReloadPlugin(bridge, running) /\ screen' = screen
    BY <1>3 DEF Reload
  <2>2. Made' = Made
    BY <1>1, SameMade
  <2>3. StillApart(bridge.loading, toPlugins)
    BY <1>0 DEF StillApart, Apart, AllTidy, Tidy
  <2>4. Halfway(bridge, running, toPlugins)
    <3>1. Awaited(toPlugins) = Covered
      BY DEF Awaited, Covered
    <3>. QED  BY <3>1 DEF CurrentInv, KeptWhileLoading, SizesAreKnown, NewsIsKnown, Halfway
  <2>. QED  BY <1>0, <1>1, <1>3, <2>1, <2>2, <2>3, <2>4, ReloadPluginCurrent
<1>. QED  BY <1>2, <1>3

(* What was kept for a plugin is told to those that are connected, and all  *)
(* instances are resized.                                                  *)
LEMMA GiveIs ==
    ASSUME TypeInv, NEW id \in Ids, NEW c \in Clients,
           bridge.events[id] # None, bridge.sizes[id] # None
    PROVE  LET i == running[id][c]
               j == Give(id)[c]
           IN  /\ i = None => j = None
               /\ i # None =>
                     /\ j.resizes = i.resizes \cup {<<i.next, bridge.sizes[id]>>}
                     /\ j.next = i.next + 1 /\ j.last = i.last
                     /\ j.news = i.news \cup (IF c \in Connected THEN bridge.events[id] ELSE {})
                     /\ j.told = i.told /\ j.code = i.code
<1>. DEFINE i == running[id][c]
            f == Told(running[id], Connected, bridge.events[id])
            j == Resized(f, bridge.sizes[id])[c]
<1>1. /\ running[id] \in [Clients -> Maybe(Instances)] /\ bridge.events[id] \in SUBSET News
  BY TypesOfInv, BridgeFields DEF Maybe
<1>2. Give(id)[c] = j
  BY DEF Give, TellAll
<1>3. /\ i = None => f[c] = None
      /\ i # None =>
            /\ f[c] # None
            /\ f[c].news = i.news \cup (IF c \in Connected THEN bridge.events[id] ELSE {})
            /\ f[c].told = i.told /\ f[c].code = i.code
            /\ f[c].resizes = i.resizes /\ f[c].last = i.last /\ f[c].next = i.next
  <2>1. /\ i = None \/ c \notin Connected => f[c] = i
        /\ i # None /\ c \in Connected =>
              /\ f[c].news = i.news \cup bridge.events[id] /\ f[c].told = i.told
              /\ f[c].code = i.code
              /\ f[c].resizes = i.resizes /\ f[c].last = i.last /\ f[c].size = i.size
              /\ f[c].next = i.next
    BY <1>1, ToldIs
  <2>2. f[c] # None <=> i # None
    BY <1>1, ToldStays
  <2>. HIDE DEF f, i
  <2>. QED  BY <2>1, <2>2
<1>4. f \in [Clients -> Maybe(Instances)]
  BY <1>1, ToldType
<1>. HIDE DEF f
<1>5. /\ f[c] = None => j = None
      /\ f[c] # None =>
            /\ j.resizes = f[c].resizes \cup {<<f[c].next, bridge.sizes[id]>>}
            /\ j.next = f[c].next + 1
            /\ j.last = f[c].last /\ j.news = f[c].news /\ j.told = f[c].told /\ j.code = f[c].code
  BY <1>4, ResizedIs
<1>. HIDE DEF i, j
<1>6. /\ i = None => j = None
      /\ i # None =>
            /\ j.resizes = i.resizes \cup {<<i.next, bridge.sizes[id]>>}
            /\ j.next = i.next + 1 /\ j.last = i.last
            /\ j.news = i.news \cup (IF c \in Connected THEN bridge.events[id] ELSE {})
            /\ j.told = i.told /\ j.code = i.code
  BY <1>3, <1>5
<1>. QED  BY <1>2, <1>6 DEF i

LEMMA GivenIsKnown ==
    ASSUME OrderInv, CurrentInv, NEW ids \in SUBSET Ids, ids \subseteq Covered,
           \A w \in Ids : Busy(w) => ids \cap tasks[w].ids = {},
           NEW id \in ids, NEW c \in Clients, Given(ids)[id][c] # None
    PROVE  LET i == running[id][c]
               j == Given(ids)[id][c]
           IN  /\ Numbered(j) /\ EndsAt(j, screen.size[id])
               /\ j.told <= screen.now /\ \A n \in j.news : n <= screen.now
               /\ c \in Connected => Knows(j, screen.now) \/ screen.asked
               /\ i # None /\ j.code = i.code
<1>. DEFINE i == running[id][c]
            j == Given(ids)[id][c]
            size == bridge.sizes[id]
            events == bridge.events[id]
<1>0. TypeInv /\ id \in Ids
  BY OrderFacts
<1>1. events # None /\ size # None /\ size = screen.size[id]
  BY <1>0 DEF CurrentInv, KeptWhileLoading, SizesAreKnown
<1>2. j = Give(id)[c]
  BY <1>0 DEF Given
<1>3. /\ i # None /\ j.resizes = i.resizes \cup {<<i.next, size>>}
      /\ j.next = i.next + 1 /\ j.last = i.last
      /\ j.news = i.news \cup (IF c \in Connected THEN events ELSE {})
      /\ j.told = i.told /\ j.code = i.code
  BY <1>0, <1>1, <1>2, GiveIs
<1>4. i \in Instances /\ Numbered(i) /\ i.told <= screen.now /\ \A n \in i.news : n <= screen.now
  BY <1>0, <1>3, InstanceAt DEF CurrentInv, SizesAreKnown, NewsIsKnown
<1>5. /\ \A n \in events : n <= screen.now
      /\ screen.now \in events \/ screen.asked
  <2>1. ASSUME NEW w \in Ids, id \in LoadedOf(StepsOf(w))
        PROVE  FALSE
    <3>1. PICK s \in StepsOf(w) : s.id = id
      BY <2>1 DEF LoadedOf
    <3>2. Busy(w)
      BY <3>1, SetOfOne DEF StepsOf, Busy
    <3>3. s.id \in tasks[w].ids \cup {None}
      BY <3>1, <3>2, OrderFacts DEF AllTidy, Tidy
    <3>. QED  BY <1>0, <3>1, <3>2, <3>3, NoneIsNone
  <2>2. /\ \A n \in events : n <= screen.now
        /\ \/ screen.now \in events \/ screen.asked
           \/ \E w \in Ids : id \in LoadedOf(StepsOf(w))
    BY <1>0, <1>1 DEF CurrentInv, NewsIsKnown
  <2>. QED  BY <2>1, <2>2
<1>. HIDE DEF i, j, size, events
<1>6. Numbered(j) /\ EndsAt(j, size)
  BY <1>3, <1>4, ResizedEnds
<1>7. /\ j.told <= screen.now /\ \A n \in j.news : n <= screen.now
      /\ c \in Connected => Knows(j, screen.now) \/ screen.asked
  BY <1>3, <1>4, <1>5 DEF Knows
<1>. QED  BY <1>1, <1>3, <1>6, <1>7 DEF i, j

----------------------------------------------------------------------------
(* What was kept is given                                                  *)

(* Those at the head of the queue are at work nowhere else.                *)
LEMMA HeadApart ==
    ASSUME OrderInv, toPlugins # <<>>
    PROVE  LET ids == Head(toPlugins)
           IN  /\ ids \in SUBSET Ids /\ ids \subseteq Covered
               /\ \A w \in Ids : Busy(w) => ids \cap tasks[w].ids = {}
               /\ Awaited(Tail(toPlugins)) = Covered \ ids
               /\ StillApart(bridge.loading \ ids, Tail(toPlugins))
               /\ Tail(toPlugins) \in Seq(SUBSET Ids)
<1>. DEFINE ids == Head(toPlugins)
            n == Len(toPlugins)
            q == Tail(toPlugins)
<1>0. Apart /\ AllTidy /\ toPlugins \in Seq(SUBSET Ids)
  BY OrderFacts, TypesOfInv
<1>1. /\ ids = toPlugins[1] /\ ids \in SUBSET Ids /\ q \in Seq(SUBSET Ids)
      /\ n \in Nat \ {0} /\ Len(q) = n - 1
      /\ \A k \in 1 .. n - 1 : q[k] = toPlugins[k + 1]
  BY <1>0, TailFacts
<1>2. 1 \in 1 .. n
  BY <1>1
<1>3. \A k \in 1 .. Len(q) : k + 1 \in 1 .. n /\ k + 1 # 1 /\ q[k] = toPlugins[k + 1]
  BY <1>1
<1>4. \A k \in 1 .. n : k = 1 \/ (k - 1 \in 1 .. Len(q) /\ q[k - 1] = toPlugins[k])
  BY <1>1
<1>5. \A w \in Ids : Busy(w) => w \in tasks[w].ids /\ w \in bridge.loading
                                /\ ids \cap tasks[w].ids = {}
  BY <1>0, <1>1, <1>2 DEF Apart, AllTidy, Tidy
<1>6. ids \subseteq Covered
  BY <1>1, <1>2 DEF Covered
<1>7. \A k \in 1 .. Len(q) : q[k] \cap ids = {}
  BY <1>0, <1>1, <1>2, <1>3 DEF Apart
<1>8. Awaited(q) = Covered \ ids
  <2>1. ASSUME NEW id \in Awaited(q)
        PROVE  id \in Covered \ ids
    <3>1. CASE \E w \in Ids : Busy(w) /\ id \in tasks[w].ids
      BY <1>5, <2>1, <3>1 DEF Awaited, Covered
    <3>2. CASE \E k \in 1 .. Len(q) : id \in q[k]
      <4>1. PICK k \in 1 .. Len(q) : id \in q[k]
        BY <3>2
      <4>2. id \in toPlugins[k + 1] /\ k + 1 \in 1 .. n /\ id \notin ids
        BY <1>3, <1>7, <4>1
      <4>. QED  BY <2>1, <4>2 DEF Awaited, Covered
    <3>. QED  BY <2>1, <3>1, <3>2 DEF Awaited
  <2>2. ASSUME NEW id \in Covered, id \notin ids
        PROVE  id \in Awaited(q)
    <3>1. CASE \E w \in Ids : Busy(w) /\ id \in tasks[w].ids
      BY <2>2, <3>1 DEF Awaited, Covered
    <3>2. CASE \E k \in 1 .. n : id \in toPlugins[k]
      <4>1. PICK k \in 1 .. n : id \in toPlugins[k]
        BY <3>2
      <4>2. k # 1
        BY <1>1, <2>2, <4>1
      <4>3. k - 1 \in 1 .. Len(q) /\ id \in q[k - 1]
        BY <1>4, <4>1, <4>2
      <4>. QED  BY <2>2, <4>3 DEF Awaited, Covered
    <3>. QED  BY <2>2, <3>1, <3>2 DEF Covered
  <2>. QED  BY <2>1, <2>2
<1>9. StillApart(bridge.loading \ ids, q)
  <2>1. ASSUME NEW k \in 1 .. Len(q)
        PROVE  /\ q[k] \cap (bridge.loading \ ids) # {} /\ q[k] \subseteq screen.given
               /\ \A w \in Ids : Busy(w) => q[k] \cap tasks[w].ids = {}
    BY <1>0, <1>3, <1>7 DEF Apart
  <2>2. ASSUME NEW j \in 1 .. Len(q), NEW k \in 1 .. Len(q), j # k
        PROVE  q[j] \cap q[k] = {}
    <3>1. j + 1 # k + 1
      BY <2>2
    <3>. QED  BY <1>0, <1>3, <3>1 DEF Apart
  <2>. QED  BY <1>0, <1>5, <2>1, <2>2 DEF StillApart, Apart
<1>. QED  BY <1>1, <1>5, <1>6, <1>8, <1>9

LEMMA ApplyCurrent ==
    ASSUME InTurn, OrderInv, OrderInv', CurrentInv, ApplyCachedEvents
    PROVE  CurrentInv'
<1>. DEFINE ids == Head(toPlugins)
            b == Ready(ids, PutOffEnds(ids))
            r == Given(ids)
            q == Tail(toPlugins)
<1>0. TypeInv /\ bridge \in Bridges
  BY OrderFacts, TypesOfInv
<1>1. /\ toPlugins # <<>> /\ toPlugins' = q /\ MainIsIdle
      /\ running' = r /\ UNCHANGED <<cache, file, screen, requests>>
      /\ \/ /\ PutOffEnds(ids)
            /\ b.loading # {} \/ RunningIn(r) # {}
            /\ ReloadPlugin(b, r)
         \/ /\ PutOffEnds(ids) => b.loading = {} /\ RunningIn(r) = {}
            /\ bridge' = b /\ UNCHANGED tasks
  BY ApplyCases
<1>2. /\ ids \in SUBSET Ids /\ ids \subseteq Covered
      /\ \A w \in Ids : Busy(w) => ids \cap tasks[w].ids = {}
      /\ Awaited(q) = Covered \ ids
      /\ StillApart(bridge.loading \ ids, q)
      /\ q \in Seq(SUBSET Ids)
  BY <1>1, HeadApart
<1>3. PutOffEnds(ids) \in BOOLEAN
  BY DEF PutOffEnds
<1>4. /\ b \in Bridges /\ b.connected = bridge.connected
      /\ b.loading = bridge.loading \ ids /\ b.pending = (bridge.pending /\ ~PutOffEnds(ids))
      /\ b.sizes = Without(bridge.sizes, ids) /\ b.events = Without(bridge.events, ids)
  <2>. HIDE DEF ids
  <2>. QED  BY <1>0, <1>2, <1>3, ReadyFacts
<1>5. /\ r \in [Ids -> [Clients -> Maybe(Instances)]]
      /\ \A id \in Ids, c \in Clients : r[id][c] # None <=> running[id][c] # None
  BY <1>0, <1>2, GivenFacts, GivenStays
<1>6. Made' = Made
  BY <1>1, <1>5, SameMade
<1>7. \A id \in Ids \ ids : r[id] = running[id]
  BY DEF Given
<1>8. ASSUME NEW id \in ids, NEW c \in Clients, r[id][c] # None
      PROVE  LET i == running[id][c]
                 j == r[id][c]
             IN  /\ Numbered(j) /\ EndsAt(j, screen.size[id])
                 /\ j.told <= screen.now /\ \A n \in j.news : n <= screen.now
                 /\ c \in Connected => Knows(j, screen.now) \/ screen.asked
                 /\ i # None /\ j.code = i.code
  <2>. DEFINE D == ids
  <2>1. D \in SUBSET Ids /\ D \subseteq Covered /\ id \in D
        /\ \A w \in Ids : Busy(w) => D \cap tasks[w].ids = {}
    BY <1>2
  <2>2. Given(D)[id][c] # None
    BY <1>8
  <2>. HIDE DEF D, ids
  <2>3. LET i == running[id][c]
            j == Given(D)[id][c]
        IN  /\ Numbered(j) /\ EndsAt(j, screen.size[id])
            /\ j.told <= screen.now /\ \A n \in j.news : n <= screen.now
            /\ c \in Connected => Knows(j, screen.now) \/ screen.asked
            /\ i # None /\ j.code = i.code
    BY <2>1, <2>2, GivenIsKnown
  <2>. QED  BY <2>3 DEF D
<1>9. \A id \in Ids : /\ b.events[id] = IF id \in ids THEN None ELSE bridge.events[id]
                      /\ b.sizes[id] = IF id \in ids THEN None ELSE bridge.sizes[id]
  BY <1>4 DEF Without
<1>9a. b.pending => b.loading # {}
  <2>1. bridge.pending => bridge.loading # {}
    BY DEF CurrentInv, KeptWhileLoading
  <2>2. ASSUME b.pending
        PROVE  b.loading = bridge.loading /\ bridge.pending
    BY <1>4, <2>2 DEF PutOffEnds
  <2>. QED  BY <2>1, <2>2
<1>. HIDE DEF b, r, q, ids
<1>10. Halfway(b, r, q)
  <2>1. ASSUME NEW id \in Ids
        PROVE  /\ b.events[id] # None <=> id \in Awaited(q)
               /\ b.sizes[id] # None <=> id \in Awaited(q)
               /\ b.sizes[id] \in {None, screen.size[id]}
    BY <1>2, <1>9 DEF CurrentInv, KeptWhileLoading, SizesAreKnown
  <2>2. b.loading \subseteq Awaited(q) /\ b.loading \subseteq screen.open
    BY <1>2, <1>4 DEF CurrentInv, KeptWhileLoading
  <2>3. ASSUME NEW id \in Ids, NEW c \in Clients, r[id][c] # None
        PROVE  /\ Numbered(r[id][c])
               /\ b.sizes[id] # None \/ EndsAt(r[id][c], screen.size[id])
               /\ r[id][c].told <= screen.now
               /\ \A n \in r[id][c].news : n <= screen.now
               /\ b.events[id] = None /\ c \in Connected =>
                     Knows(r[id][c], screen.now) \/ screen.asked
    <3>1. CASE id \in ids
      BY <1>8, <2>3, <3>1
    <3>2. CASE id \notin ids
      <4>1. /\ r[id][c] = running[id][c] /\ running[id][c] # None
            /\ b.events[id] = bridge.events[id] /\ b.sizes[id] = bridge.sizes[id]
        BY <1>7, <1>9, <2>3, <3>2
      <4>. QED  BY <4>1 DEF CurrentInv, SizesAreKnown, NewsIsKnown
    <3>. QED  BY <3>1, <3>2
  <2>4. ASSUME NEW id \in Ids, b.events[id] # None
        PROVE  /\ \A n \in b.events[id] : n <= screen.now
               /\ \/ screen.now \in b.events[id] \/ screen.asked
                  \/ \E w \in Ids : id \in LoadedOf(StepsOf(w))
    <3>1. b.events[id] = bridge.events[id]
      BY <1>9, <2>4
    <3>. QED  BY <2>4, <3>1 DEF CurrentInv, NewsIsKnown
  <2>. QED  BY <1>9a, <2>1, <2>2, <2>3, <2>4 DEF Halfway
<1>11. CASE PutOffEnds(ids) /\ (b.loading # {} \/ RunningIn(r) # {}) /\ ReloadPlugin(b, r)
  <2>1. StillApart(b.loading, q) /\ screen' = screen /\ screen'.open = screen.open
        /\ UNCHANGED cache
    BY <1>1, <1>2, <1>4
  <2>. QED  BY <1>1, <1>2, <1>4, <1>5, <1>6, <1>10, <1>11, <2>1, ReloadPluginCurrent
<1>12. CASE /\ PutOffEnds(ids) => b.loading = {} /\ RunningIn(r) = {}
            /\ bridge' = b /\ UNCHANGED tasks
  <2>1. /\ KeptWhileLoading' /\ NewcomerAlone' /\ SizesAreKnown' /\ NewsIsKnown'
        /\ Listed' = Listed
    BY <1>1, <1>4, <1>10, <1>12, HalfwayThrough
  <2>2. ~PutOffEnds(ids)
    <3>1. SUFFICES ASSUME PutOffEnds(ids)
                   PROVE  FALSE
      OBVIOUS
    <3>2. b.loading = {} /\ RunningIn(r) = {}
      BY <1>12, <3>1
    <3>3. \A w \in Workers : ~Busy(w)
      BY <1>1, <1>2, <1>4, <3>2 DEF StillApart, Workers, MainIsIdle
    <3>4. Has = Made
      BY <3>3, NobodyAtWork
    <3>5. Made = {}
      <4>1. RunningIn(r) = IdsOf(Made')
        BY <1>1 DEF RunningIn, IdsOf, Made
      <4>. QED  BY <1>6, <3>2, <4>1 DEF IdsOf
    <3>6. screen.open = {}
      BY <3>4, <3>5, OrderFacts DEF OpenHave, IdsOf
    <3>. QED  BY <3>1, <3>6 DEF PutOffEnds, CurrentInv, KeptWhileLoading
  <2>3. bridge'.pending \/ CodeIsNew'
    <3>1. CASE bridge.pending
      BY <1>4, <1>12, <2>2, <3>1
    <3>2. CASE CodeIsNew
      <4>1. ASSUME NEW id \in Ids, NEW c \in Clients, running'[id][c] # None
            PROVE  running[id][c] # None /\ running'[id][c].code = running[id][c].code
        <5>1. CASE id \in ids
          BY <1>1, <1>8, <4>1, <5>1
        <5>2. CASE id \notin ids
          BY <1>1, <1>7, <4>1, <5>2
        <5>. QED  BY <5>1, <5>2
      <4>. QED  BY <1>1, <1>12, <2>1, <3>2, <4>1, CodeStays
    <3>. QED  BY <3>1, <3>2 DEF CurrentInv
  <2>. QED  BY <2>1, <2>3 DEF CurrentInv
<1>. QED  BY <1>1, <1>11, <1>12

----------------------------------------------------------------------------
(* All steps, and once nothing is under way                                *)

LEMMA InTurnIsCalm ==
    ASSUME InTurn
    PROVE  Calm
BY DEF InTurn, Calm

LEMMA RequestsCurrent ==
    ASSUME InTurn, OrderInv, OrderInv', CurrentInv, Request
    PROVE  CurrentInv'
BY LoadCurrent, UnloadCurrent, ReloadCurrent, ResizePluginCurrent, AddClientCurrent,
   RemoveClientCurrent, UpdatesCurrent DEF Request

LEMMA NobodyCovered ==
    ASSUME \A w \in Workers : ~Busy(w), toPlugins = <<>>
    PROVE  Covered = {}
<1>1. Ids \subseteq Workers /\ Len(<<>>) = 0
  BY DEF Workers
<1>. QED  BY <1>1 DEF Covered

LEMMA InitCurrent == Init => CurrentInv
<1>. SUFFICES ASSUME Init
              PROVE  CurrentInv
  OBVIOUS
<1>1. /\ running = [id \in Ids |-> [c \in Clients |-> None]]
      /\ tasks = [w \in Workers |-> Task("client", {}, None, <<>>)] /\ toPlugins = <<>>
      /\ cache = None
      /\ bridge.loading = {} /\ ~bridge.pending
      /\ bridge.events = [id \in Ids |-> None] /\ bridge.sizes = [id \in Ids |-> None]
  BY DEF Init
<1>2. Main \in Workers /\ Ids \subseteq Workers /\ Len(<<>>) = 0
  BY DEF Workers
<1>3. /\ \A w \in Workers : /\ tasks[w].steps = <<>> /\ tasks[w].module = None
                            /\ ~Busy(w) /\ StepsOf(w) = {}
  BY <1>1, SetOfOne DEF Task, Busy, StepsOf
<1>4. \A id \in Ids, c \in Clients : running[id][c] = None
  BY <1>1
<1>5. Listed \subseteq Clients
  <2>1. OrderInv
    BY InitInOrder
  <2>2. bridge.connected \in Seq(Clients)
    BY <2>1, OrderFacts, TypesOfInv, BridgeFields
  <2>3. Connected \subseteq Clients
    BY <2>2, SetOfSeq DEF Connected
  <2>. QED  BY <2>3 DEF Listed, PushesOf
<1>6. KeptWhileLoading
  <2>1. Covered = {}
    BY <1>1, <1>3, NobodyCovered
  <2>. QED  BY <1>1, <2>1 DEF KeptWhileLoading
<1>7. NewcomerAlone
  BY <1>2, <1>3 DEF NewcomerAlone
<1>8. CodeIsNew
  BY <1>1, <1>3, <1>4, <1>5 DEF CodeIsNew
<1>9. SizesAreKnown
  BY <1>1, <1>2, <1>3, <1>4 DEF SizesAreKnown
<1>10. NewsIsKnown
  BY <1>1, <1>4 DEF NewsIsKnown
<1>. QED  BY <1>6, <1>7, <1>8, <1>9, <1>10 DEF CurrentInv

LEMMA StepsCurrent ==
    ASSUME InTurn
    PROVE  OrderInv /\ CurrentInv /\ [Next]_vars => (OrderInv /\ CurrentInv)' \/ GivenUp'
<1>. SUFFICES ASSUME OrderInv, CurrentInv, [Next]_vars, OrderInv'
              PROVE  CurrentInv'
  BY InTurnIsCalm, StepsInOrder
<1>0. OrderInv'
  OBVIOUS
<1>1. CASE UNCHANGED vars
  <2>1. UNCHANGED <<bridge, running, cache, file, tasks, toPlugins, screen>>
    BY <1>1 DEF vars
  <2>2. Connected' = Connected /\ bridge.loading \subseteq screen'.open
    BY <2>1 DEF Connected, CurrentInv, KeptWhileLoading
  <2>3. KeptWhileLoading'
    BY <2>1, <2>2, KeptStays
  <2>4. NewcomerAlone' /\ Listed' \subseteq Listed
    BY <2>1, <2>2, NewcomerWaits
  <2>5. CodeIsNew => CodeIsNew'
    BY <2>1, <2>4, CodeStays
  <2>6. SizesAreKnown'
    BY <2>1, SizesStay
  <2>7. NewsIsKnown'
    BY <2>1, <2>2, NewsStays
  <2>. QED  BY <2>1, <2>3, <2>4, <2>5, <2>6, <2>7 DEF CurrentInv
<1>2. CASE Request
  BY <1>0, <1>2, RequestsCurrent
<1>3. CASE MainStep
  BY <1>0, <1>3, PushCurrent, UpdatesCurrent, ApplyCurrent DEF MainStep
<1>4. CASE Events
  BY <1>4, EventsCurrent DEF Events
<1>5. CASE \E w \in Workers : TaskStep(w)
  BY <1>0, <1>5, TaskStepsCurrent
<1>. QED  BY <1>1, <1>2, <1>3, <1>4, <1>5 DEF Next

(* When nothing is under way, what is kept, put off or about to be made has *)
(* come to its end, and the last of each is what an instance has.           *)
LEMMA SettledCurrent ==
    ASSUME OrderInv, CurrentInv
    PROVE  InstancesAreCurrent
<1>. SUFFICES ASSUME Settled, NEW id \in screen.open, NEW c \in Connected,
                     running[id][c] # None
              PROVE  /\ running[id][c].code = file
                     /\ running[id][c].size = screen.size[id]
                     /\ running[id][c].told = screen.now
  BY DEF InstancesAreCurrent
<1>. DEFINE i == running[id][c]
<1>1. /\ \A w \in Workers : ~Busy(w)
      /\ toPlugins = <<>> /\ ~screen.asked
  BY DEF Settled
<1>2. id \in Ids /\ c \in Clients /\ c \in Listed
  <2>1. bridge.connected \in Seq(Clients) /\ screen \in Screens
    BY OrderFacts, TypesOfInv, BridgeFields
  <2>2. Connected \subseteq Clients /\ screen.open \subseteq Ids
    BY <2>1, SetOfSeq, ScreenFields DEF Connected
  <2>. QED  BY <2>2 DEF Listed
<1>3. i.news = {} /\ i.resizes = {}
  BY <1>2 DEF Settled
<1>4. bridge.events[id] = None /\ bridge.sizes[id] = None /\ ~bridge.pending
  <2>1. Covered = {}
    BY <1>1, NobodyCovered
  <2>. QED  BY <1>2, <2>1 DEF CurrentInv, KeptWhileLoading
<1>5. i.code = file
  <2>1. \A w \in Workers : StepsOf(w) = {}
    BY <1>1, SetOfOne DEF Busy, StepsOf
  <2>2. ~Renewed(id, c)
    BY <2>1 DEF Renewed, AgainOf, PutsOf
  <2>. QED  BY <1>2, <1>4, <2>2 DEF CurrentInv, CodeIsNew
<1>6. i.size = screen.size[id]
  <2>1. EndsAt(i, screen.size[id])
    BY <1>2, <1>4 DEF CurrentInv, SizesAreKnown
  <2>. QED  BY <1>3, <2>1 DEF EndsAt
<1>7. i.told = screen.now
  <2>1. Knows(i, screen.now)
    BY <1>1, <1>2, <1>4 DEF CurrentInv, NewsIsKnown
  <2>. QED  BY <1>3, <2>1 DEF Knows
<1>. QED  BY <1>5, <1>6, <1>7

(* As long as everything comes in order, but for modules that are taken and *)
(* files that do not compile, and nothing has failed, whenever nothing is   *)
(* under way each instance of a connected client runs the file as it was    *)
(* last reloaded, has the size of the pane of its plugin and has been told  *)
(* the last news: no resize and no event is lost or overtaken while plugins *)
(* are loaded and reloaded and clients come and go, and no reload that was  *)
(* put off is forgotten.                                                   *)
THEOREM InstancesStayCurrent == ASSUME InTurn PROVE SpecToFailure => []InstancesAreCurrent
<1>1. Init => (OrderInv /\ CurrentInv) \/ GivenUp
  BY InitInOrder, InitCurrent
<1>2. ((OrderInv /\ CurrentInv) \/ GivenUp) /\ [NothingFails /\ Next]_vars
        => ((OrderInv /\ CurrentInv) \/ GivenUp)'
  BY StepsCurrent, GivenUpStays
<1>3. OrderInv /\ CurrentInv => InstancesAreCurrent
  BY SettledCurrent
<1>4. GivenUp => InstancesAreCurrent
  BY DEF GivenUp, InstancesAreCurrent, Settled
<1>. QED  BY <1>1, <1>2, <1>3, <1>4, PTL DEF SpecToFailure

(* No task is at work and no ApplyCachedEvents is on its way.              *)
LoadingIsOver == toPlugins = <<>> /\ \A w \in Workers : ~Busy(w)

NothingIsKept ==
    LoadingIsOver =>
        /\ bridge.loading = {} /\ ~bridge.pending
        /\ \A id \in Ids : bridge.events[id] = None /\ bridge.sizes[id] = None

(* And when the last task has ended, none having failed, and the thread has *)
(* been through with it, nothing is left that is being loaded, put off or   *)
(* kept for later.                                                         *)
(* This is what LoadingEnds says of the state in which all have stopped;    *)
(* that they stop nowhere else is left to TLC.                             *)
THEOREM NothingIsLeftOver == ASSUME InTurn PROVE SpecToFailure => []NothingIsKept
<1>1. Init => (OrderInv /\ CurrentInv) \/ GivenUp
  BY InitInOrder, InitCurrent
<1>2. ((OrderInv /\ CurrentInv) \/ GivenUp) /\ [NothingFails /\ Next]_vars
        => ((OrderInv /\ CurrentInv) \/ GivenUp)'
  BY StepsCurrent, GivenUpStays
<1>3. CurrentInv => NothingIsKept
  BY NobodyCovered DEF LoadingIsOver, NothingIsKept, CurrentInv, KeptWhileLoading
<1>4. GivenUp => NothingIsKept
  BY DEF GivenUp, NothingIsKept, LoadingIsOver
<1>. QED  BY <1>1, <1>2, <1>3, <1>4, PTL DEF SpecToFailure

=============================================================================

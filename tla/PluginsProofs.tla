---------------------------- MODULE PluginsProofs ----------------------------
(***************************************************************************)
(* Plugins, for any number of clients, of plugins and of requests: its     *)
(* variables keep their types whatever comes in disorder.                  *)
(*                                                                         *)
(* What a task has to do is a line: a step that makes an instance (from    *)
(* the file, from the cache or from another instance) is followed by the   *)
(* one that puts it in the map, and a task ends with what tells the thread *)
(* of it.  So a task has a module in its hands just when the next step is  *)
(* to put one, and then it knows the size.                                 *)
(***************************************************************************)
EXTENDS Plugins, TLAPS, FiniteSetTheorems, WellFoundedInduction, SequenceTheorems

----------------------------------------------------------------------------
(* The invariant *)

Making   == {"load", "compile", "take", "copy"}
OfPlugin == Making \cup {"put", "clone", "unlock", "again", "memory", "loaded"}
OfClient == Making \cup {"put", "clone", "push"}

StepOK(w, s) ==
    /\ s \in Steps
    /\ s.do \in OfPlugin => s.id # None
    /\ s.do \in OfClient => s.client # None
    /\ IF w = Main THEN s.do \in {"copy", "put", "push"} ELSE s.do # "push"

(* Some of the steps of w.  What is put was made just before, and only the  *)
(* first step loads, compiles or takes a module.                           *)
Part(w, q) ==
    /\ q \in Seq(Steps)
    /\ \A i \in 1 .. Len(q) : StepOK(w, q[i])
    /\ \A i \in 1 .. Len(q) : q[i].do \in Making => i < Len(q) /\ q[i + 1].do = "put"
    /\ \A i \in 2 .. Len(q) : /\ q[i].do = "put" => q[i - 1].do \in Making
                              /\ q[i].do \notin {"load", "compile", "take"}

(* All that is left of them                                                *)
Line(w, q) ==
    /\ Part(w, q)
    /\ q # <<>> => q[Len(q)].do = IF w = Main THEN "push" ELSE "done"

TaskOK(w, t) ==
    /\ t \in Tasks
    /\ Line(w, t.steps)
    /\ t.steps # <<>> =>
         (t.steps[1].do \in {"load", "compile", "take", "put"} => t.size # None)
    /\ t.module # None <=> (t.steps # <<>> /\ t.steps[1].do = "put")

(* A size that is kept for a plugin, and a reload that is put off, will     *)
(* take an event id of the plugin's instances: each came with a request.    *)
Kept(id) == IF bridge.sizes[id] = None THEN 0 ELSE 1
PutOff == IF bridge.pending THEN 1 ELSE 0

Bounds ==
    /\ \A id \in Ids : Kept(id) + PutOff <= requests
    /\ \A id \in Ids, c \in Clients :
          running[id][c] # None => running[id][c].next + Kept(id) + PutOff <= requests
    /\ screen.now <= requests
    /\ file <= requests + 1

(* The client that comes is not yet listed.                                *)
NewcomerIsNotListed ==
    \A i \in 1 .. Len(tasks[Main].steps) :
        tasks[Main].steps[i].do = "push" => tasks[Main].steps[i].client \notin Connected

TypeInv ==
    /\ TypeOK
    /\ \A w \in Workers : TaskOK(w, tasks[w])
    /\ Bounds
    /\ NewcomerIsNotListed

----------------------------------------------------------------------------
(* Numbers and sequences *)

LEMMA LeastExists ==
    ASSUME NEW S \in SUBSET Nat, S # {}
    PROVE  \E m \in S : \A n \in S : m <= n
<1>1. PICK m \in S : \A n \in S : ~ (<<n, m>> \in OpToRel(<, Nat))
  BY WFMin, NatLessThanWellFounded, Zenon
<1>2. \A n \in S : ~ (n < m)
  BY <1>1, Zenon DEF OpToRel
<1>. QED  BY <1>2

LEMMA GreatestExists ==
    ASSUME NEW n \in Nat, NEW S \in SUBSET (0 .. n), S # {}
    PROVE  \E m \in S : \A k \in S : k <= m
<1>. DEFINE above == {m \in Nat : \A k \in S : k <= m}
<1>1. n \in above
  OBVIOUS
<1>2. PICK m \in above : \A k \in above : m <= k
  <2>1. above \in SUBSET Nat /\ above # {}
    BY <1>1
  <2>. QED  BY <2>1, LeastExists
<1>3. m \in Nat /\ \A k \in S : k <= m
  BY <1>2
<1>4. m \in S
  <2>1. SUFFICES ASSUME m \notin S
                 PROVE  FALSE
    OBVIOUS
  <2>2. PICK k \in S : TRUE
    OBVIOUS
  <2>3. m # 0
    BY <1>3, <2>1, <2>2
  <2>4. \A j \in S : j <= m - 1
    BY <1>3, <2>1
  <2>5. m - 1 \in above
    BY <1>3, <2>3, <2>4
  <2>. QED  BY <1>2, <1>3, <2>5
<1>. QED  BY <1>3, <1>4

(* FlattenSeq is a function defined by recursion on the length: such a      *)
(* function exists, because otherwise there would be a shortest prefix for  *)
(* which it does not.                                                      *)
FlatOf(qs, f, n) ==
    f = [i \in 1 .. n |-> IF i = 1 THEN qs[i] ELSE f[i - 1] \o qs[i]]

LEMMA FlatExists ==
    ASSUME NEW qs
    PROVE  \A n \in Nat : \E f : FlatOf(qs, f, n)
<1>. DEFINE bad == {n \in Nat : ~ \E f : FlatOf(qs, f, n)}
<1>1. SUFFICES ASSUME bad # {}
               PROVE  FALSE
  OBVIOUS
<1>2. PICK n \in bad : \A m \in bad : n <= m
  BY <1>1, LeastExists
<1>3. n \in Nat /\ ~ \E f : FlatOf(qs, f, n)
  BY <1>2
<1>4. CASE n = 0
  <2>1. FlatOf(qs, [i \in 1 .. 0 |-> <<>>], 0)
    BY DEF FlatOf
  <2>. QED  BY <1>3, <1>4, <2>1
<1>5. CASE n # 0
  <2>1. n - 1 \in Nat /\ ~ (n <= n - 1)
    BY <1>3, <1>5
  <2>2. n - 1 \notin bad
    BY <1>2, <2>1
  <2>3. PICK f : FlatOf(qs, f, n - 1)
    BY <2>1, <2>2
  <2>. DEFINE last == IF n = 1 THEN qs[n] ELSE f[n - 1] \o qs[n]
              g == [i \in 1 .. n |-> IF i = n THEN last ELSE f[i]]
  <2>4. \A i \in 1 .. n - 1 : f[i] = IF i = 1 THEN qs[i] ELSE f[i - 1] \o qs[i]
    BY <2>3 DEF FlatOf
  <2>5. \A i \in 1 .. n : g[i] = IF i = 1 THEN qs[i] ELSE g[i - 1] \o qs[i]
    BY <1>3, <1>5, <2>4
  <2>6. FlatOf(qs, g, n)
    BY <2>5 DEF FlatOf
  <2>. QED  BY <1>3, <2>6
<1>. QED  BY <1>4, <1>5

(* Pairs, one after the other                                              *)
ArePairs(q, S, a, b, n) ==
    /\ q \in Seq(S) /\ Len(q) = 2 * n
    /\ \A i \in 1 .. n : q[2 * i - 1] = a[i] /\ q[2 * i] = b[i]

LEMMA MorePairs ==
    ASSUME NEW S, NEW n \in Nat \ {0}, NEW a, NEW b, NEW q, ArePairs(q, S, a, b, n - 1),
           a[n] \in S, b[n] \in S
    PROVE  ArePairs(q \o <<a[n], b[n]>>, S, a, b, n)
<1>. DEFINE p == <<a[n], b[n]>>
<1>1. p \in Seq(S) /\ Len(p) = 2 /\ p[1] = a[n] /\ p[2] = b[n]
  OBVIOUS
<1>2. q \in Seq(S) /\ Len(q) = 2 * (n - 1)
  BY DEF ArePairs
<1>. HIDE DEF p
<1>3. /\ q \o p \in Seq(S) /\ Len(q \o p) = 2 * n
      /\ \A i \in 1 .. Len(q) : (q \o p)[i] = q[i]
      /\ (q \o p)[2 * n - 1] = p[1] /\ (q \o p)[2 * n] = p[2]
  <2>0. q \in Seq(S) /\ p \in Seq(S) /\ Len(q) \in Nat /\ Len(p) \in Nat
    BY <1>1, <1>2
  <2>1. /\ q \o p \in Seq(S) /\ Len(q \o p) = Len(q) + Len(p)
        /\ \A i \in 1 .. Len(q) : (q \o p)[i] = q[i]
        /\ \A i \in 1 .. Len(q) + Len(p) : i > Len(q) => (q \o p)[i] = p[i - Len(q)]
    BY <2>0
  <2>2. /\ 2 * n - 1 \in 1 .. Len(q) + 2 /\ 2 * n - 1 - Len(q) = 1 /\ 2 * n - 1 > Len(q)
        /\ 2 * n \in 1 .. Len(q) + 2 /\ 2 * n - Len(q) = 2 /\ 2 * n > Len(q)
    BY <1>2
  <2>3. (q \o p)[2 * n - 1] = p[1] /\ (q \o p)[2 * n] = p[2]
    BY <1>1, <2>1, <2>2
  <2>4. Len(q \o p) = 2 * n
    BY <1>1, <1>2, <2>1
  <2>. QED  BY <2>1, <2>3, <2>4
<1>4. ASSUME NEW i \in 1 .. n
      PROVE  (q \o p)[2 * i - 1] = a[i] /\ (q \o p)[2 * i] = b[i]
  <2>1. CASE i = n
    BY <2>1, <1>1, <1>3
  <2>2. CASE i # n
    <3>1. i \in 1 .. n - 1 /\ 2 * i - 1 \in 1 .. Len(q) /\ 2 * i \in 1 .. Len(q)
      BY <2>2, <1>2
    <3>. QED  BY <3>1, <1>3 DEF ArePairs
  <2>. QED  BY <2>1, <2>2
<1>5. ArePairs(q \o p, S, a, b, n)
  BY <1>3, <1>4 DEF ArePairs
<1>. QED  BY <1>5 DEF p

LEMMA FlatPairs ==
    ASSUME NEW S, NEW n \in Nat, NEW a \in [1 .. n -> S], NEW b \in [1 .. n -> S]
    PROVE  ArePairs(FlattenSeq([i \in 1 .. n |-> <<a[i], b[i]>>]), S, a, b, n)
<1>. DEFINE qs == [i \in 1 .. n |-> <<a[i], b[i]>>]
<1>0. Len(qs) = n /\ \A i \in 1 .. n : qs[i] = <<a[i], b[i]>>
  OBVIOUS
<1>1. CASE n = 0
  <2>1. FlattenSeq(qs) = qs
    BY <1>0, <1>1 DEF FlattenSeq
  <2>2. qs = <<>>
    BY <1>1
  <2>3. ArePairs(<<>>, S, a, b, n)
    BY <1>1 DEF ArePairs
  <2>. QED  BY <2>1, <2>2, <2>3
<1>2. CASE n # 0
  <2>. DEFINE f == CHOOSE f : FlatOf(qs, f, Len(qs))
  <2>1. FlatOf(qs, f, Len(qs))
    BY <1>0, FlatExists
  <2>2. FlattenSeq(qs) = f[Len(qs)]
    BY <1>0, <1>2, Zenon DEF FlattenSeq, FlatOf
  <2>. HIDE DEF f, qs
  <2>. DEFINE bad == {i \in 1 .. n : ~ ArePairs(f[i], S, a, b, i)}
  <2>3. bad = {}
    <3>1. SUFFICES ASSUME bad # {}
                   PROVE  FALSE
      OBVIOUS
    <3>2. PICK i \in bad : \A j \in bad : i <= j
      <4>1. bad \in SUBSET Nat
        OBVIOUS
      <4>. QED  BY <3>1, <4>1, LeastExists
    <3>3. i \in 1 .. n /\ ~ ArePairs(f[i], S, a, b, i)
      BY <3>2
    <3>4. f[i] = IF i = 1 THEN qs[i] ELSE f[i - 1] \o qs[i]
      BY <1>0, <2>1, <3>3 DEF FlatOf
    <3>5. a[i] \in S /\ b[i] \in S
      BY <3>3
    <3>6. CASE i = 1
      <4>1. ArePairs(<<>>, S, a, b, 0)
        BY DEF ArePairs
      <4>2. ArePairs(<<>> \o <<a[1], b[1]>>, S, a, b, 1)
        <5>1. 1 \in Nat \ {0} /\ ArePairs(<<>>, S, a, b, 1 - 1)
          BY <4>1
        <5>. QED  BY <5>1, <3>5, <3>6, MorePairs
      <4>3. <<>> \o <<a[1], b[1]>> = <<a[1], b[1]>>
        BY <3>5, <3>6
      <4>. QED  BY <4>2, <4>3, <3>3, <3>4, <3>6, <1>0
    <3>7. CASE i # 1
      <4>1. i - 1 \in 1 .. n /\ ~ (i <= i - 1)
        BY <3>3, <3>7
      <4>2. ArePairs(f[i - 1], S, a, b, i - 1)
        BY <3>2, <4>1
      <4>3. ArePairs(f[i - 1] \o <<a[i], b[i]>>, S, a, b, i)
        BY <4>2, <3>3, <3>5, MorePairs
      <4>. QED  BY <4>3, <3>3, <3>4, <3>7, <1>0
    <3>. QED  BY <3>6, <3>7
  <2>4. ArePairs(f[n], S, a, b, n)
    BY <1>2, <2>3
  <2>. QED  BY <1>0, <2>2, <2>4 DEF qs
<1>. QED  BY <1>1, <1>2

LEMMA ConcatFacts ==
    ASSUME NEW S, NEW p \in Seq(S), NEW q \in Seq(S)
    PROVE  /\ p \o q \in Seq(S) /\ Len(p) \in Nat /\ Len(q) \in Nat
           /\ Len(p \o q) = Len(p) + Len(q)
           /\ \A i \in 1 .. Len(p) : (p \o q)[i] = p[i]
           /\ \A i \in 1 .. Len(q) : (p \o q)[Len(p) + i] = q[i]
           /\ \A i \in 1 .. Len(p) + Len(q) :
                i > Len(p) => (p \o q)[i] = q[i - Len(p)] /\ i - Len(p) \in 1 .. Len(q)
<1>1. Len(p) \in Nat /\ Len(q) \in Nat
  OBVIOUS
<1>2. /\ p \o q \in Seq(S) /\ Len(p \o q) = Len(p) + Len(q)
      /\ \A i \in 1 .. Len(p) : (p \o q)[i] = p[i]
      /\ \A i \in 1 .. Len(p) + Len(q) : i > Len(p) => (p \o q)[i] = q[i - Len(p)]
  BY <1>1
<1>3. ASSUME NEW i \in 1 .. Len(q)
      PROVE  (p \o q)[Len(p) + i] = q[i]
  <2>1. Len(p) + i \in 1 .. Len(p) + Len(q) /\ Len(p) + i > Len(p) /\ Len(p) + i - Len(p) = i
    BY <1>1
  <2>. QED  BY <1>2, <2>1
<1>4. \A i \in 1 .. Len(p) + Len(q) : i > Len(p) => i - Len(p) \in 1 .. Len(q)
  BY <1>1
<1>. QED  BY <1>1, <1>2, <1>3, <1>4

LEMMA TailFacts ==
    ASSUME NEW S, NEW q \in Seq(S), q # <<>>
    PROVE  /\ Head(q) = q[1] /\ q[1] \in S /\ Tail(q) \in Seq(S)
           /\ Len(q) \in Nat \ {0} /\ Len(Tail(q)) = Len(q) - 1
           /\ \A i \in 1 .. Len(q) - 1 : Tail(q)[i] = q[i + 1]
           /\ \A i \in 2 .. Len(q) : Tail(q)[i - 1] = q[i] /\ i - 1 \in 1 .. Len(q) - 1
           /\ Tail(q) # <<>> <=> Len(q) > 1
<1>1. /\ Head(q) = q[1] /\ q[1] \in S /\ Tail(q) \in Seq(S)
      /\ Len(q) \in Nat \ {0} /\ Len(Tail(q)) = Len(q) - 1
      /\ \A i \in 1 .. Len(q) - 1 : Tail(q)[i] = q[i + 1]
  OBVIOUS
<1>2. ASSUME NEW i \in 2 .. Len(q)
      PROVE  Tail(q)[i - 1] = q[i] /\ i - 1 \in 1 .. Len(q) - 1
  <2>1. i - 1 \in 1 .. Len(q) - 1 /\ i - 1 + 1 = i
    BY <1>1
  <2>. QED  BY <2>1, <1>1
<1>3. Tail(q) # <<>> <=> Len(q) > 1
  <2>1. Tail(q) # <<>> <=> Len(Tail(q)) # 0
    BY <1>1
  <2>. QED  BY <1>1, <2>1
<1>. QED  BY <1>1, <1>2, <1>3

LEMMA NotEmpty ==
    ASSUME NEW S, NEW q \in Seq(S)
    PROVE  Len(q) \in Nat /\ (q # <<>> <=> Len(q) > 0) /\ DOMAIN q = 1 .. Len(q)
OBVIOUS

(* What was removed is not in what is left; the rest is, as often as it was. *)
AreOthers(g, s, x, n) ==
    /\ ToSet(g) = {s[j] : j \in 1 .. n} \ {x}
    /\ (\A j, k \in 1 .. n : s[j] = s[k] => j = k) => IsInjective(g)

LEMMA MoreOthers ==
    ASSUME NEW S, NEW s \in Seq(S), NEW x, NEW n \in 1 .. Len(s), NEW g \in Seq(S),
           AreOthers(g, s, x, n - 1)
    PROVE  LET h == g \o (IF s[n] = x THEN <<>> ELSE <<s[n]>>)
           IN  h \in Seq(S) /\ AreOthers(h, s, x, n)
<1>0. Len(s) \in Nat /\ s[n] \in S
  OBVIOUS
<1>1. {s[j] : j \in 1 .. n} = {s[j] : j \in 1 .. n - 1} \cup {s[n]}
  BY <1>0
<1>2. CASE s[n] = x
  <2>1. g \o <<>> = g
    OBVIOUS
  <2>2. ToSet(g) = {s[j] : j \in 1 .. n} \ {x}
    BY <1>1, <1>2 DEF AreOthers
  <2>3. ASSUME \A j, k \in 1 .. n : s[j] = s[k] => j = k
        PROVE  IsInjective(g)
    <3>1. \A j, k \in 1 .. n - 1 : s[j] = s[k] => j = k
      BY <2>3
    <3>. QED  BY <3>1 DEF AreOthers
  <2>4. AreOthers(g, s, x, n)
    BY <2>2, <2>3 DEF AreOthers
  <2>. QED  BY <1>2, <2>1, <2>4
<1>3. CASE s[n] # x
  <2>. DEFINE h == Append(g, s[n])
  <2>1. /\ h \in Seq(S) /\ Len(h) = Len(g) + 1 /\ Len(g) \in Nat
        /\ \A i \in 1 .. Len(g) : h[i] = g[i]
        /\ h[Len(g) + 1] = s[n] /\ DOMAIN h = 1 .. Len(g) + 1 /\ DOMAIN g = 1 .. Len(g)
    BY <1>0
  <2>. HIDE DEF h
  <2>2. ToSet(h) = ToSet(g) \cup {s[n]}
    BY <2>1 DEF ToSet
  <2>3. ToSet(h) = {s[j] : j \in 1 .. n} \ {x}
    BY <1>1, <1>3, <2>2 DEF AreOthers
  <2>4. ASSUME \A j, k \in 1 .. n : s[j] = s[k] => j = k
        PROVE  IsInjective(h)
    <3>1. IsInjective(g)
      <4>1. \A j, k \in 1 .. n - 1 : s[j] = s[k] => j = k
        BY <2>4
      <4>. QED  BY <4>1 DEF AreOthers
    <3>2. \A i \in 1 .. Len(g) : g[i] # s[n]
      <4>1. \A i \in 1 .. Len(g) : g[i] \in {s[j] : j \in 1 .. n - 1}
        BY <2>1 DEF AreOthers, ToSet
      <4>2. \A j \in 1 .. n - 1 : s[j] # s[n]
        BY <2>4
      <4>. QED  BY <4>1, <4>2
    <3>3. ASSUME NEW i \in 1 .. Len(g) + 1, NEW j \in 1 .. Len(g) + 1, h[i] = h[j]
          PROVE  i = j
      <4>1. CASE i \in 1 .. Len(g) /\ j \in 1 .. Len(g)
        BY <4>1, <2>1, <3>1, <3>3 DEF IsInjective
      <4>2. CASE ~(i \in 1 .. Len(g) /\ j \in 1 .. Len(g))
        BY <4>2, <2>1, <3>2, <3>3
      <4>. QED  BY <4>1, <4>2
    <3>. QED  BY <2>1, <3>3 DEF IsInjective
  <2>5. AreOthers(h, s, x, n)
    BY <2>3, <2>4 DEF AreOthers
  <2>6. g \o <<s[n]>> = h
    BY <1>0 DEF h
  <2>. QED  BY <1>3, <2>1, <2>5, <2>6
<1>. QED  BY <1>2, <1>3

LEMMA OthersFacts ==
    ASSUME NEW S, NEW s \in Seq(S), NEW x
    PROVE  /\ Others(s, x) \in Seq(S)
           /\ ToSet(Others(s, x)) = ToSet(s) \ {x}
           /\ IsInjective(s) => IsInjective(Others(s, x))
<1>. DEFINE n == Len(s)
            one(i) == IF s[i] = x THEN <<>> ELSE <<s[i]>>
            qs == [i \in DOMAIN s |-> one(i)]
<1>0. /\ n \in Nat /\ DOMAIN s = 1 .. n /\ Len(qs) = n
      /\ \A i \in 1 .. n : qs[i] = one(i) /\ one(i) \in Seq(S)
  OBVIOUS
<1>1. \E g \in Seq(S) : g = FlattenSeq(qs) /\ AreOthers(g, s, x, n)
  <2>1. CASE n = 0
    <3>1. FlattenSeq(qs) = qs
      BY <1>0, <2>1 DEF FlattenSeq
    <3>2. qs = <<>>
      BY <2>1
    <3>3. AreOthers(<<>>, s, x, n) /\ <<>> \in Seq(S)
      BY <2>1 DEF AreOthers, ToSet, IsInjective
    <3>. HIDE DEF qs
    <3>. QED  BY <3>1, <3>2, <3>3
  <2>2. CASE n # 0
    <3>. DEFINE f == CHOOSE f : FlatOf(qs, f, Len(qs))
    <3>1. FlatOf(qs, f, Len(qs))
      BY <1>0, FlatExists
    <3>2. FlattenSeq(qs) = f[Len(qs)]
      BY <1>0, <2>2, Zenon DEF FlattenSeq, FlatOf
    <3>. HIDE DEF f, qs, one
    <3>. DEFINE bad == {i \in 1 .. n : ~ (f[i] \in Seq(S) /\ AreOthers(f[i], s, x, i))}
    <3>3. bad = {}
      <4>1. SUFFICES ASSUME bad # {}
                     PROVE  FALSE
        OBVIOUS
      <4>2. PICK i \in bad : \A j \in bad : i <= j
        <5>1. bad \in SUBSET Nat
          OBVIOUS
        <5>. QED  BY <4>1, <5>1, LeastExists
      <4>3. i \in 1 .. n /\ ~ (f[i] \in Seq(S) /\ AreOthers(f[i], s, x, i))
        BY <4>2
      <4>4. f[i] = IF i = 1 THEN qs[i] ELSE f[i - 1] \o qs[i]
        BY <1>0, <3>1, <4>3 DEF FlatOf
      <4>5. \E g \in Seq(S) : f[i] = g \o one(i) /\ AreOthers(g, s, x, i - 1)
        <5>1. CASE i = 1
          <6>1. AreOthers(<<>>, s, x, i - 1) /\ <<>> \in Seq(S)
            BY <5>1 DEF AreOthers, ToSet, IsInjective
          <6>2. f[i] = <<>> \o one(i)
            BY <1>0, <4>3, <4>4, <5>1
          <6>. QED  BY <6>1, <6>2
        <5>2. CASE i # 1
          <6>1. i - 1 \in 1 .. n /\ ~ (i <= i - 1)
            BY <4>3, <5>2
          <6>2. f[i - 1] \in Seq(S) /\ AreOthers(f[i - 1], s, x, i - 1)
            BY <4>2, <6>1
          <6>3. f[i] = f[i - 1] \o one(i)
            BY <4>3, <4>4, <5>2, <1>0
          <6>. QED  BY <6>2, <6>3
        <5>. QED  BY <5>1, <5>2
      <4>6. PICK g \in Seq(S) : f[i] = g \o one(i) /\ AreOthers(g, s, x, i - 1)
        BY <4>5
      <4>7. f[i] \in Seq(S) /\ AreOthers(f[i], s, x, i)
        BY <4>3, <4>6, MoreOthers DEF one
      <4>. QED  BY <4>3, <4>7
    <3>4. f[n] \in Seq(S) /\ AreOthers(f[n], s, x, n)
      BY <2>2, <3>3, <1>0
    <3>. QED  BY <1>0, <3>2, <3>4
  <2>. QED  BY <2>1, <2>2
<1>2. Others(s, x) = FlattenSeq(qs)
  BY DEF Others
<1>. HIDE DEF qs, one
<1>3. PICK g \in Seq(S) : g = Others(s, x) /\ AreOthers(g, s, x, n)
  BY <1>1, <1>2
<1>4. ToSet(s) = {s[j] : j \in 1 .. n}
  BY <1>0 DEF ToSet
<1>5. ASSUME IsInjective(s)
      PROVE  \A j, k \in 1 .. n : s[j] = s[k] => j = k
  BY <1>5, <1>0 DEF IsInjective
<1>. QED  BY <1>3, <1>4, <1>5 DEF AreOthers

----------------------------------------------------------------------------
(* Parts and lines *)

(* What may stand after what is complete                                   *)
Opens(q) == q # <<>> => q[1].do \notin {"put", "load", "compile", "take"}

LEMMA PartNil ==
    ASSUME NEW w
    PROVE  Part(w, <<>>)
BY DEF Part

LEMMA PartOne ==
    ASSUME NEW w, NEW s, StepOK(w, s), s.do \notin Making
    PROVE  Part(w, <<s>>) /\ <<s>>[1] = s
<1>1. <<s>> \in Seq(Steps) /\ Len(<<s>>) = 1 /\ <<s>>[1] = s
  BY DEF StepOK
<1>. QED  BY <1>1 DEF Part

LEMMA PartTwo ==
    ASSUME NEW w, NEW s, NEW r, StepOK(w, s), StepOK(w, r), s.do \in Making, r.do = "put"
    PROVE  Part(w, <<s, r>>) /\ <<s, r>>[1] = s /\ <<s, r>> # <<>>
<1>1. /\ <<s, r>> \in Seq(Steps) /\ Len(<<s, r>>) = 2
      /\ <<s, r>>[1] = s /\ <<s, r>>[2] = r /\ <<s, r>> # <<>>
  BY DEF StepOK
<1>2. r.do \notin Making /\ r.do \notin {"load", "compile", "take"}
  BY DEF Making
<1>. QED  BY <1>1, <1>2 DEF Part

LEMMA PartJoin ==
    ASSUME NEW w, NEW p, NEW q, Part(w, p), Part(w, q), Opens(q)
    PROVE  /\ Part(w, p \o q)
           /\ p # <<>> => p \o q # <<>> /\ (p \o q)[1] = p[1]
           /\ p = <<>> => p \o q = q
<1>0. p \in Seq(Steps) /\ q \in Seq(Steps)
  BY DEF Part
<1>. DEFINE m == Len(p)
            n == Len(q)
            r == p \o q
<1>1. /\ r \in Seq(Steps) /\ m \in Nat /\ n \in Nat /\ Len(r) = m + n
      /\ \A i \in 1 .. m : r[i] = p[i]
      /\ \A i \in 1 .. n : r[m + i] = q[i]
      /\ \A i \in 1 .. m + n : i > m => r[i] = q[i - m] /\ i - m \in 1 .. n
  BY <1>0, ConcatFacts
<1>2. (p # <<>> <=> m > 0) /\ (q # <<>> <=> n > 0) /\ (r # <<>> <=> m + n > 0)
  BY <1>0, <1>1, NotEmpty
<1>3. p = <<>> => r = q
  BY <1>0
<1>. HIDE DEF m, n, r
<1>4. ASSUME NEW i \in 1 .. m + n
      PROVE  /\ StepOK(w, r[i])
             /\ r[i].do \in Making => i < m + n /\ r[i + 1].do = "put"
  <2>1. CASE i <= m
    <3>1. i \in 1 .. m /\ r[i] = p[i]
      BY <1>1, <2>1
    <3>2. StepOK(w, p[i]) /\ (p[i].do \in Making => i < m /\ p[i + 1].do = "put")
      BY <3>1 DEF Part, m
    <3>3. i < m => r[i + 1] = p[i + 1] /\ i < m + n
      BY <1>1, <3>1
    <3>. QED  BY <3>1, <3>2, <3>3
  <2>2. CASE i > m
    <3>1. i - m \in 1 .. n /\ r[i] = q[i - m]
      BY <1>1, <2>2
    <3>2. StepOK(w, q[i - m]) /\ (q[i - m].do \in Making => i - m < n /\ q[i - m + 1].do = "put")
      BY <3>1 DEF Part, n
    <3>3. i - m < n => i + 1 \in 1 .. m + n /\ i + 1 > m /\ i + 1 - m = i - m + 1
      BY <1>1, <3>1
    <3>4. i - m < n => r[i + 1] = q[i - m + 1] /\ i < m + n
      BY <1>1, <3>3
    <3>. QED  BY <3>1, <3>2, <3>4
  <2>. QED  BY <1>1, <2>1, <2>2
<1>5. ASSUME NEW i \in 2 .. m + n
      PROVE  /\ r[i].do = "put" => r[i - 1].do \in Making
             /\ r[i].do \notin {"load", "compile", "take"}
  <2>1. CASE i <= m
    <3>1. i \in 2 .. m /\ r[i] = p[i] /\ r[i - 1] = p[i - 1]
      BY <1>1, <2>1
    <3>. QED  BY <3>1 DEF Part, m
  <2>2. CASE i = m + 1
    <3>1. r[i] = q[1] /\ q # <<>>
      BY <1>1, <1>2, <2>2
    <3>. QED  BY <3>1 DEF Opens
  <2>3. CASE i > m + 1
    <3>1. i - m \in 2 .. n /\ r[i] = q[i - m]
      BY <1>1, <2>3
    <3>2. i - 1 \in 1 .. m + n /\ i - 1 > m /\ i - 1 - m = i - m - 1
      BY <1>1, <2>3
    <3>3. r[i - 1] = q[i - m - 1]
      BY <1>1, <3>2
    <3>. QED  BY <3>1, <3>3 DEF Part, n
  <2>. QED  BY <1>1, <2>1, <2>2, <2>3
<1>6. Part(w, r)
  BY <1>1, <1>4, <1>5 DEF Part
<1>7. p # <<>> => r # <<>> /\ r[1] = p[1]
  BY <1>1, <1>2
<1>. QED  BY <1>3, <1>6, <1>7 DEF r

LEMMA LineJoin ==
    ASSUME NEW w, NEW p, NEW q, Part(w, p), Line(w, q), q # <<>>, Opens(q)
    PROVE  /\ Line(w, p \o q) /\ p \o q # <<>>
           /\ p # <<>> => (p \o q)[1] = p[1]
           /\ p = <<>> => p \o q = q
           /\ (p \o q)[Len(p \o q)] = q[Len(q)]
<1>0. p \in Seq(Steps) /\ q \in Seq(Steps) /\ Part(w, q)
  BY DEF Part, Line
<1>1. Part(w, p \o q) /\ (p # <<>> => (p \o q)[1] = p[1]) /\ (p = <<>> => p \o q = q)
  BY <1>0, PartJoin
<1>2. /\ Len(p \o q) = Len(p) + Len(q) /\ Len(p) \in Nat /\ Len(q) \in Nat
      /\ \A i \in 1 .. Len(q) : (p \o q)[Len(p) + i] = q[i]
      /\ p \o q \in Seq(Steps)
  BY <1>0, ConcatFacts
<1>3. Len(q) > 0
  BY <1>0, NotEmpty
<1>4. (p \o q)[Len(p \o q)] = q[Len(q)]
  BY <1>2, <1>3
<1>5. p \o q # <<>>
  <2>1. Len(p \o q) > 0
    BY <1>2, <1>3
  <2>. QED  BY <2>1, <1>2, NotEmpty
<1>. QED  BY <1>1, <1>4, <1>5 DEF Line

LEMMA LineTail ==
    ASSUME NEW w, NEW q, Line(w, q), q # <<>>
    PROVE  /\ Line(w, Tail(q)) /\ Head(q) = q[1] /\ StepOK(w, q[1])
           /\ q[1].do \in Making <=> Tail(q) # <<>> /\ Tail(q)[1].do = "put"
           /\ Tail(q) # <<>> => Tail(q)[1].do \notin {"load", "compile", "take"}
           /\ Tail(q) # <<>> => Tail(q)[Len(Tail(q))] = q[Len(q)]
           /\ Tail(q) = <<>> <=> Len(q) = 1
           /\ Tail(q) = <<>> => q[1].do = IF w = Main THEN "push" ELSE "done"
<1>0. q \in Seq(Steps) /\ Part(w, q)
  BY DEF Line, Part
<1>. DEFINE n == Len(q)
            r == Tail(q)
<1>1. /\ Head(q) = q[1] /\ q[1] \in Steps /\ r \in Seq(Steps)
      /\ n \in Nat \ {0} /\ Len(r) = n - 1
      /\ \A i \in 1 .. n - 1 : r[i] = q[i + 1]
      /\ r # <<>> <=> n > 1
  BY <1>0, TailFacts
<1>2. /\ \A i \in 1 .. n : StepOK(w, q[i])
      /\ \A i \in 1 .. n : q[i].do \in Making => i < n /\ q[i + 1].do = "put"
      /\ \A i \in 2 .. n : /\ q[i].do = "put" => q[i - 1].do \in Making
                           /\ q[i].do \notin {"load", "compile", "take"}
  BY <1>0 DEF Part
<1>. HIDE DEF n, r
<1>3. ASSUME NEW i \in 1 .. n - 1
      PROVE  /\ StepOK(w, r[i])
             /\ r[i].do \in Making => i < n - 1 /\ r[i + 1].do = "put"
  <2>1. r[i] = q[i + 1] /\ i + 1 \in 1 .. n
    BY <1>1
  <2>2. r[i].do \in Making => i + 1 < n /\ q[i + 1 + 1].do = "put"
    BY <2>1, <1>2
  <2>3. i + 1 < n => i + 1 \in 1 .. n - 1 /\ i < n - 1
    BY <1>1
  <2>4. i + 1 < n => r[i + 1] = q[i + 1 + 1]
    BY <1>1, <2>3
  <2>. QED  BY <2>1, <2>2, <2>3, <2>4, <1>2
<1>4. ASSUME NEW i \in 2 .. n - 1
      PROVE  /\ r[i].do = "put" => r[i - 1].do \in Making
             /\ r[i].do \notin {"load", "compile", "take"}
  <2>1. i \in 1 .. n - 1 /\ i - 1 \in 1 .. n - 1 /\ i - 1 + 1 = i /\ i + 1 \in 2 .. n /\ i + 1 - 1 = i
    BY <1>1
  <2>2. r[i] = q[i + 1] /\ r[i - 1] = q[i]
    BY <2>1, <1>1
  <2>. QED  BY <2>1, <2>2, <1>2
<1>5. Part(w, r)
  BY <1>1, <1>3, <1>4 DEF Part
<1>6. r # <<>> => r[Len(r)] = q[n]
  BY <1>1
<1>7. Line(w, r)
  BY <1>5, <1>6 DEF Line, n
<1>8. StepOK(w, q[1])
  BY <1>1, <1>2
<1>9. r # <<>> => r[1] = q[2] /\ 2 \in 2 .. n
  BY <1>1
<1>10. q[1].do \in Making <=> r # <<>> /\ r[1].do = "put"
  <2>1. q[1].do \in Making => 1 < n /\ q[2].do = "put"
    BY <1>1, <1>2
  <2>2. r # <<>> /\ q[2].do = "put" => q[1].do \in Making
    BY <1>9, <1>2
  <2>. QED  BY <2>1, <2>2, <1>1, <1>9
<1>11. r # <<>> => r[1].do \notin {"load", "compile", "take"}
  BY <1>9, <1>2
<1>12. r = <<>> <=> n = 1
  BY <1>1
<1>13. r = <<>> => q[1].do = IF w = Main THEN "push" ELSE "done"
  BY <1>12 DEF Line, n
<1>. QED  BY <1>1, <1>6, <1>7, <1>8, <1>10, <1>11, <1>12, <1>13 DEF r, n

(* What is left when the steps before one that stands alone are given up   *)
LEMMA LineFrom ==
    ASSUME NEW w, NEW q, Line(w, q), NEW n \in 1 .. Len(q),
           q[n].do \notin Making \cup {"put"}
    PROVE  LET r == SubSeq(q, n, Len(q))
           IN  /\ Line(w, r) /\ r # <<>> /\ r[1] = q[n]
               /\ r[Len(r)] = q[Len(q)]
<1>0. q \in Seq(Steps) /\ Part(w, q) /\ Len(q) \in Nat
  BY DEF Line, Part
<1>. DEFINE l == Len(q)
            r == SubSeq(q, n, l)
<1>1. /\ r \in Seq(Steps) /\ Len(r) = l - n + 1 /\ l \in Nat /\ n \in 1 .. l
      /\ \A i \in 1 .. l - n + 1 : r[i] = q[n + i - 1]
  BY <1>0
<1>2. /\ \A i \in 1 .. l : StepOK(w, q[i])
      /\ \A i \in 1 .. l : q[i].do \in Making => i < l /\ q[i + 1].do = "put"
      /\ \A i \in 2 .. l : /\ q[i].do = "put" => q[i - 1].do \in Making
                           /\ q[i].do \notin {"load", "compile", "take"}
  BY <1>0 DEF Part
<1>. HIDE DEF l, r
<1>3. r # <<>>
  <2>1. Len(r) > 0
    BY <1>1
  <2>. QED  BY <2>1, <1>1, NotEmpty
<1>4. ASSUME NEW i \in 1 .. l - n + 1
      PROVE  /\ StepOK(w, r[i])
             /\ r[i].do \in Making => i < l - n + 1 /\ r[i + 1].do = "put"
  <2>1. r[i] = q[n + i - 1] /\ n + i - 1 \in 1 .. l
    BY <1>1
  <2>2. i < l - n + 1 => i + 1 \in 1 .. l - n + 1 /\ n + (i + 1) - 1 = n + i - 1 + 1
    BY <1>1
  <2>3. i < l - n + 1 => r[i + 1] = q[n + i - 1 + 1]
    BY <1>1, <2>2
  <2>4. n + i - 1 < l => i < l - n + 1
    BY <1>1
  <2>. QED  BY <2>1, <2>3, <2>4, <1>2
<1>5. ASSUME NEW i \in 2 .. l - n + 1
      PROVE  /\ r[i].do = "put" => r[i - 1].do \in Making
             /\ r[i].do \notin {"load", "compile", "take"}
  <2>1. /\ i \in 1 .. l - n + 1 /\ i - 1 \in 1 .. l - n + 1 /\ n + i - 1 \in 2 .. l
        /\ n + (i - 1) - 1 = n + i - 1 - 1
    BY <1>1
  <2>2. r[i] = q[n + i - 1] /\ r[i - 1] = q[n + i - 1 - 1]
    BY <2>1, <1>1
  <2>. QED  BY <2>1, <2>2, <1>2
<1>6. Part(w, r)
  BY <1>1, <1>4, <1>5 DEF Part
<1>7. r[1] = q[n] /\ r[Len(r)] = q[l]
  <2>1. 1 \in 1 .. l - n + 1 /\ n + 1 - 1 = n /\ l - n + 1 \in 1 .. l - n + 1 /\ n + (l - n + 1) - 1 = l
    BY <1>1
  <2>. QED  BY <2>1, <1>1
<1>8. Line(w, r)
  <2>1. l > 0
    BY <1>1
  <2>2. q # <<>>
    BY <1>0, <2>1, NotEmpty DEF l
  <2>. QED  BY <1>6, <1>7, <2>2 DEF Line, l
<1>. QED  BY <1>3, <1>7, <1>8 DEF r, l

----------------------------------------------------------------------------
(* The steps of tasks *)

LEMMA StepFields ==
    ASSUME NEW do, NEW id, NEW c
    PROVE  /\ Step(do, id, c).do = do
           /\ Step(do, id, c).id = id
           /\ Step(do, id, c).client = c
BY DEF Step

LEMMA StepType ==
    ASSUME NEW do \in OfPlugin \cup OfClient \cup {"done"},
           NEW id \in Maybe(Ids), NEW c \in Maybe(Clients)
    PROVE  Step(do, id, c) \in Steps
BY DEF Step, Steps, OfPlugin, OfClient, Making

LEMMA NoneIsNone ==
    /\ \A id \in Ids : id # None
    /\ \A c \in Clients : c # None
    /\ \A s \in Sizes : s # None
    /\ \A n \in Nat : n # None
    /\ \A id \in Ids : id # Main
BY PluginsAssumption

(* A step of a plugin as a whole                                           *)
LEMMA StepsAlone ==
    ASSUME NEW id \in Ids, NEW w, w # Main
    PROVE  /\ \A do \in {"unlock", "again", "memory", "loaded"} :
                StepOK(w, Step(do, id, None)) /\ Step(do, id, None).do = do
           /\ StepOK(w, Step("done", None, None)) /\ Step("done", None, None).do = "done"
<1>1. id \in Maybe(Ids) /\ None \in Maybe(Ids) /\ None \in Maybe(Clients) /\ id # None
  BY NoneIsNone DEF Maybe
<1>2. ASSUME NEW do \in {"unlock", "again", "memory", "loaded"}
      PROVE  StepOK(w, Step(do, id, None))
  BY <1>1, StepType, StepFields DEF StepOK, OfPlugin, OfClient, Making
<1>3. StepOK(w, Step("done", None, None))
  BY <1>1, StepType, StepFields DEF StepOK, OfPlugin, OfClient, Making
<1>. QED  BY <1>2, <1>3, StepFields

LEMMA StepsOfTasks ==
    ASSUME NEW id \in Ids, NEW c \in Clients, NEW w
    PROVE  /\ w # Main => \A do \in OfPlugin : StepOK(w, Step(do, id, c))
           /\ \A do \in {"copy", "put"} : StepOK(w, Step(do, id, c))
           /\ StepOK(Main, Step("push", None, c))
<1>1. id \in Maybe(Ids) /\ c \in Maybe(Clients) /\ None \in Maybe(Ids) /\ None \in Maybe(Clients)
  BY DEF Maybe
<1>2. id # None /\ c # None
  BY NoneIsNone
<1>3. ASSUME NEW do \in OfPlugin, w # Main
      PROVE  StepOK(w, Step(do, id, c))
  BY <1>1, <1>2, <1>3, StepType, StepFields DEF StepOK, OfPlugin, Making
<1>4. ASSUME NEW do \in {"copy", "put"}
      PROVE  StepOK(w, Step(do, id, c))
  BY <1>1, <1>2, StepType, StepFields DEF StepOK, OfPlugin, Making
<1>5. StepOK(Main, Step("push", None, c))
  BY <1>1, <1>2, StepType, StepFields DEF StepOK, OfPlugin, OfClient, Making
<1>. QED  BY <1>3, <1>4, <1>5

AreCopies(q, ids, cs, n) ==
    /\ q \in Seq(Steps) /\ Len(q) = 2 * n
    /\ \A i \in 1 .. n : /\ q[2 * i - 1] = Step("copy", ids[i], cs[i])
                         /\ q[2 * i] = Step("put", ids[i], cs[i])

LEMMA FlatCopies ==
    ASSUME NEW n \in Nat, NEW ids \in [1 .. n -> Ids], NEW cs \in [1 .. n -> Clients]
    PROVE  AreCopies(FlattenSeq([i \in 1 .. n |-> <<Step("copy", ids[i], cs[i]),
                                                    Step("put", ids[i], cs[i])>>]),
                     ids, cs, n)
<1>. DEFINE a == [i \in 1 .. n |-> Step("copy", ids[i], cs[i])]
            b == [i \in 1 .. n |-> Step("put", ids[i], cs[i])]
<1>1. ASSUME NEW i \in 1 .. n
      PROVE  Step("copy", ids[i], cs[i]) \in Steps /\ Step("put", ids[i], cs[i]) \in Steps
  <2>1. ids[i] \in Maybe(Ids) /\ cs[i] \in Maybe(Clients)
    BY DEF Maybe
  <2>. QED  BY <2>1, StepType DEF OfPlugin, Making
<1>2. a \in [1 .. n -> Steps] /\ b \in [1 .. n -> Steps]
  BY <1>1
<1>3. [i \in 1 .. n |-> <<a[i], b[i]>>]
        = [i \in 1 .. n |-> <<Step("copy", ids[i], cs[i]), Step("put", ids[i], cs[i])>>]
  OBVIOUS
<1>4. \A i \in 1 .. n : /\ a[i] = Step("copy", ids[i], cs[i])
                        /\ b[i] = Step("put", ids[i], cs[i])
  OBVIOUS
<1>. HIDE DEF a, b
<1>5. ArePairs(FlattenSeq([i \in 1 .. n |-> <<a[i], b[i]>>]), Steps, a, b, n)
  BY <1>2, FlatPairs
<1>. QED  BY <1>3, <1>4, <1>5 DEF ArePairs, AreCopies

LEMMA CopyToCopies ==
    ASSUME NEW id \in Ids, NEW clients \in Seq(Clients)
    PROVE  AreCopies(CopyTo(id, clients), [i \in 1 .. Len(clients) |-> id],
                     clients, Len(clients))
<1>. DEFINE n == Len(clients)
            ids == [i \in 1 .. n |-> id]
<1>1. /\ n \in Nat /\ DOMAIN clients = 1 .. n
      /\ ids \in [1 .. n -> Ids] /\ clients \in [1 .. n -> Clients]
  OBVIOUS
<1>2. CopyTo(id, clients)
        = FlattenSeq([i \in 1 .. n |-> <<Step("copy", ids[i], clients[i]),
                                         Step("put", ids[i], clients[i])>>])
  <2>1. [i \in DOMAIN clients |-> <<Step("copy", id, clients[i]), Step("put", id, clients[i])>>]
          = [i \in 1 .. n |-> <<Step("copy", ids[i], clients[i]), Step("put", ids[i], clients[i])>>]
    BY <1>1
  <2>. QED  BY <2>1 DEF CopyTo
<1>. HIDE DEF n, ids
<1>3. AreCopies(FlattenSeq([i \in 1 .. n |-> <<Step("copy", ids[i], clients[i]),
                                               Step("put", ids[i], clients[i])>>]),
                ids, clients, n)
  BY <1>1, FlatCopies
<1>. QED  BY <1>2, <1>3 DEF n, ids

(* Each step of copies is the first or the second of a pair.               *)
LEMMA CopiesIndex ==
    ASSUME NEW n \in Nat, NEW j \in 1 .. 2 * n
    PROVE  \E i \in 1 .. n : j = 2 * i - 1 \/ j = 2 * i
<1>1. CASE j % 2 = 0
  <2>1. j \div 2 \in 1 .. n /\ j = 2 * (j \div 2)
    BY <1>1
  <2>. QED  BY <2>1
<1>2. CASE j % 2 # 0
  <2>1. (j + 1) \div 2 \in 1 .. n /\ j = 2 * ((j + 1) \div 2) - 1
    BY <1>2
  <2>. QED  BY <2>1
<1>. QED  BY <1>1, <1>2

LEMMA CopiesArePart ==
    ASSUME NEW w, NEW n \in Nat, NEW ids \in [1 .. n -> Ids], NEW cs \in [1 .. n -> Clients],
           NEW q, AreCopies(q, ids, cs, n)
    PROVE  Part(w, q) /\ Opens(q) /\ (q # <<>> => q[1].do = "copy")
<1>1. q \in Seq(Steps) /\ Len(q) = 2 * n
  BY DEF AreCopies
<1>2. ASSUME NEW i \in 1 .. n
      PROVE  /\ q[2 * i - 1].do = "copy" /\ StepOK(w, q[2 * i - 1])
             /\ q[2 * i].do = "put" /\ StepOK(w, q[2 * i])
  <2>1. q[2 * i - 1] = Step("copy", ids[i], cs[i]) /\ q[2 * i] = Step("put", ids[i], cs[i])
    BY DEF AreCopies
  <2>2. ids[i] \in Ids /\ cs[i] \in Clients
    OBVIOUS
  <2>. QED  BY <2>1, <2>2, StepsOfTasks, StepFields
<1>3. ASSUME NEW j \in 1 .. 2 * n
      PROVE  /\ StepOK(w, q[j])
             /\ q[j].do \in Making => j < 2 * n /\ q[j + 1].do = "put"
             /\ q[j].do \notin {"load", "compile", "take"}
             /\ j > 1 /\ q[j].do = "put" => q[j - 1].do \in Making
  <2>1. PICK i \in 1 .. n : j = 2 * i - 1 \/ j = 2 * i
    BY CopiesIndex
  <2>2. CASE j = 2 * i - 1
    <3>1. j < 2 * n /\ j + 1 = 2 * i
      BY <2>2
    <3>. QED  BY <3>1, <2>2, <1>2
  <2>3. CASE j = 2 * i
    <3>1. j - 1 = 2 * i - 1
      BY <2>3
    <3>. QED  BY <3>1, <2>3, <1>2 DEF Making
  <2>. QED  BY <2>1, <2>2, <2>3
<1>4. Part(w, q)
  BY <1>1, <1>3 DEF Part
<1>5. q # <<>> => q[1].do = "copy"
  <2>1. q # <<>> => Len(q) > 0
    BY <1>1, NotEmpty
  <2>2. q # <<>> => 1 \in 1 .. n /\ 2 * 1 - 1 = 1
    BY <2>1, <1>1
  <2>. QED  BY <2>2, <1>2
<1>. QED  BY <1>4, <1>5 DEF Opens

----------------------------------------------------------------------------
(* Tasks *)

LEMMA TaskFields ==
    ASSUME NEW t \in Tasks
    PROVE  /\ t.steps \in Seq(Steps) /\ t.for \in {"start", "reload", "others", "client"}
           /\ t.ids \in SUBSET Ids /\ t.module \in Maybe(Versions) /\ t.size \in Maybe(Sizes)
           /\ t = [steps |-> t.steps, for |-> t.for, ids |-> t.ids,
                   module |-> t.module, size |-> t.size]
BY DEF Tasks

LEMMA TaskMade ==
    ASSUME NEW for \in {"start", "reload", "others", "client"}, NEW ids \in SUBSET Ids,
           NEW size \in Maybe(Sizes), NEW q \in Seq(Steps)
    PROVE  LET t == Task(for, ids, size, q)
           IN  /\ t \in Tasks /\ t.steps = q /\ t.for = for /\ t.ids = ids
               /\ t.module = None /\ t.size = size
BY DEF Task, Tasks, Maybe

LEMMA IdleTask ==
    ASSUME NEW w
    PROVE  TaskOK(w, Task("client", {}, None, <<>>))
<1>1. /\ <<>> \in Seq(Steps) /\ None \in Maybe(Sizes) /\ {} \in SUBSET Ids
      /\ "client" \in {"start", "reload", "others", "client"}
  BY DEF Maybe
<1>2. Task("client", {}, None, <<>>) \in Tasks
      /\ Task("client", {}, None, <<>>).steps = <<>>
      /\ Task("client", {}, None, <<>>).module = None
  BY <1>1 DEF Task, Tasks, Maybe
<1>3. Line(w, <<>>)
  BY PartNil DEF Line
<1>. QED  BY <1>2, <1>3 DEF TaskOK

(* A task begins with steps that take no module from another.              *)
LEMMA TaskBegins ==
    ASSUME NEW w, NEW for \in {"start", "reload", "others", "client"}, NEW ids \in SUBSET Ids,
           NEW size \in Maybe(Sizes), NEW q, Line(w, q), q # <<>>, q[1].do # "put",
           q[1].do = "load" => size # None, q[1].do \notin {"compile", "take"}
    PROVE  TaskOK(w, Task(for, ids, size, q)) /\ Task(for, ids, size, q).steps = q
<1>1. q \in Seq(Steps)
  BY DEF Line, Part
<1>2. /\ Task(for, ids, size, q) \in Tasks /\ Task(for, ids, size, q).steps = q
      /\ Task(for, ids, size, q).module = None /\ Task(for, ids, size, q).size = size
  BY <1>1, TaskMade
<1>. QED  BY <1>2 DEF TaskOK

Next1(t) == [t EXCEPT !.steps = Tail(@)]

LEMMA Next1Fields ==
    ASSUME NEW t \in Tasks, t.steps # <<>>
    PROVE  /\ Next1(t) \in Tasks /\ Next1(t).steps = Tail(t.steps)
           /\ Next1(t).module = t.module /\ Next1(t).size = t.size
           /\ Next1(t).ids = t.ids /\ Next1(t).for = t.for
<1>1. Tail(t.steps) \in Seq(Steps)
  BY TaskFields, TailFacts
<1>. QED  BY <1>1 DEF Next1, Tasks

(* A step that neither makes nor puts an instance                          *)
LEMMA TaskGoesOn ==
    ASSUME NEW w, NEW t, TaskOK(w, t), t.steps # <<>>, t.steps[1].do \notin Making \cup {"put"}
    PROVE  TaskOK(w, Next1(t)) /\ Next1(t).module = None
<1>1. t \in Tasks /\ Line(w, t.steps)
  BY DEF TaskOK
<1>2. /\ Next1(t) \in Tasks /\ Next1(t).steps = Tail(t.steps)
      /\ Next1(t).module = t.module /\ Next1(t).size = t.size
  BY <1>1, Next1Fields
<1>3. /\ Line(w, Tail(t.steps))
      /\ Tail(t.steps) # <<>> => Tail(t.steps)[1].do \notin {"load", "compile", "take", "put"}
  BY <1>1, LineTail DEF Making
<1>4. t.module = None
  BY DEF TaskOK
<1>. QED  BY <1>2, <1>3, <1>4 DEF TaskOK

LEMMA TaskMakes ==
    ASSUME NEW w, NEW t, TaskOK(w, t), t.steps # <<>>, t.steps[1].do \in Making,
           NEW size \in Maybe(Sizes), size # None, NEW m \in Versions, NEW u,
           u \in Tasks, u.steps = Tail(t.steps), u.size = size, u.module = m
    PROVE  TaskOK(w, u)
<1>1. t \in Tasks /\ Line(w, t.steps)
  BY DEF TaskOK
<1>2. Line(w, Tail(t.steps)) /\ Tail(t.steps) # <<>> /\ Tail(t.steps)[1].do = "put"
  BY <1>1, LineTail
<1>3. m # None
  BY NoneIsNone DEF Versions
<1>. QED  BY <1>2, <1>3 DEF TaskOK

LEMMA TaskPuts ==
    ASSUME NEW w, NEW t, TaskOK(w, t), t.steps # <<>>, t.steps[1].do = "put"
    PROVE  LET u == [Next1(t) EXCEPT !.module = None]
           IN  TaskOK(w, u) /\ u.steps = Tail(t.steps) /\ u.ids = t.ids /\ u.for = t.for
               /\ u.module = None
<1>1. t \in Tasks /\ Line(w, t.steps)
  BY DEF TaskOK
<1>. DEFINE u == [Next1(t) EXCEPT !.module = None]
<1>2. /\ u \in Tasks /\ u.steps = Tail(t.steps) /\ u.module = None
      /\ u.ids = t.ids /\ u.for = t.for
  <2>1. /\ Next1(t) \in Tasks /\ Next1(t).steps = Tail(t.steps)
        /\ Next1(t).ids = t.ids /\ Next1(t).for = t.for
    BY <1>1, Next1Fields
  <2>. HIDE DEF Next1
  <2>. QED  BY <2>1 DEF Tasks, Maybe
<1>. HIDE DEF u
<1>3. /\ Line(w, Tail(t.steps))
      /\ Tail(t.steps) # <<>> => Tail(t.steps)[1].do \notin {"load", "compile", "take", "put"}
  BY <1>1, LineTail DEF Making
<1>4. TaskOK(w, u)
  BY <1>2, <1>3 DEF TaskOK
<1>. QED  BY <1>2, <1>4 DEF u

(* What a task is left with when it fails.                                 *)
LEMMA TaskGivesUp ==
    ASSUME NEW w, NEW t, TaskOK(w, t), NEW n \in 1 .. Len(t.steps),
           t.steps[n].do \notin Making \cup {"put"}
    PROVE  LET u == [t EXCEPT !.steps = SubSeq(@, n, Len(@)), !.module = None]
           IN  TaskOK(w, u)
<1>. DEFINE r == SubSeq(t.steps, n, Len(t.steps))
            u == [t EXCEPT !.steps = r, !.module = None]
<1>1. t \in Tasks /\ Line(w, t.steps)
  BY DEF TaskOK
<1>2. Line(w, r) /\ r # <<>> /\ r[1] = t.steps[n]
  BY <1>1, LineFrom
<1>3. u \in Tasks /\ u.steps = r /\ u.module = None
  <2>1. r \in Seq(Steps)
    BY <1>2 DEF Line, Part
  <2>. HIDE DEF r
  <2>. QED  BY <2>1, <1>1 DEF Tasks, Maybe
<1>. HIDE DEF u, r
<1>4. TaskOK(w, u)
  BY <1>2, <1>3 DEF TaskOK, Making
<1>. QED  BY <1>4 DEF u, r

----------------------------------------------------------------------------
(* Sizes *)

LEMMA InstanceFields ==
    ASSUME NEW i \in Instances
    PROVE  /\ i.code \in Versions /\ i.size \in Sizes /\ i.resizes \in SUBSET (EventIds \X Sizes)
           /\ i.next \in EventIds /\ i.last \in EventIds /\ i.told \in News
           /\ i.news \in SUBSET News
BY DEF Instances

LEMMA SizesOfType ==
    ASSUME NEW i \in Instances
    PROVE  SizesOf(i) \in SUBSET Sizes
<1>1. /\ i.size \in Sizes /\ i.resizes \in SUBSET (EventIds \X Sizes) /\ i.last \in EventIds
  BY InstanceFields
<1>2. ASSUME \E r \in i.resizes : r[1] >= i.last
      PROVE  Latest(i)[2] \in Sizes
  <2>. DEFINE numbers == {r[1] : r \in i.resizes}
  <2>1. numbers \in SUBSET (0 .. 2 * MaxRequests) /\ numbers # {}
    BY <1>1, <1>2 DEF EventIds
  <2>2. 2 * MaxRequests \in Nat
    BY PluginsAssumption
  <2>3. PICK m \in numbers : \A k \in numbers : k <= m
    BY <2>1, <2>2, GreatestExists
  <2>4. PICK r \in i.resizes : r[1] = m
    BY <2>3
  <2>5. \A s \in i.resizes : s[1] <= r[1]
    BY <2>3, <2>4
  <2>6. Latest(i) \in i.resizes
    BY <2>4, <2>5 DEF Latest
  <2>. QED  BY <2>6, <1>1
<1>. QED  BY <1>1, <1>2 DEF SizesOf

----------------------------------------------------------------------------
(* What tasks begin with, and what steps turn into *)

LEMMA LineOne ==
    ASSUME NEW w, NEW s, StepOK(w, s), s.do = IF w = Main THEN "push" ELSE "done"
    PROVE  Line(w, <<s>>) /\ <<s>> # <<>> /\ <<s>>[1] = s /\ Opens(<<s>>)
<1>1. s.do \notin Making
  BY DEF Making
<1>2. Part(w, <<s>>) /\ <<s>>[1] = s
  BY <1>1, PartOne
<1>3. Len(<<s>>) = 1 /\ <<s>> # <<>>
  OBVIOUS
<1>4. Line(w, <<s>>)
  BY <1>2, <1>3 DEF Line
<1>5. Opens(<<s>>)
  BY <1>2 DEF Opens
<1>. QED  BY <1>2, <1>3, <1>4, <1>5

LEMMA LineCons ==
    ASSUME NEW w, NEW s, NEW q, StepOK(w, s), s.do \notin Making, Line(w, q), q # <<>>, Opens(q)
    PROVE  Line(w, <<s>> \o q) /\ <<s>> \o q # <<>> /\ (<<s>> \o q)[1] = s
<1>1. Part(w, <<s>>) /\ <<s>>[1] = s
  BY PartOne
<1>2. <<s>> # <<>>
  OBVIOUS
<1>. HIDE DEF Line
<1>. QED  BY <1>1, <1>2, LineJoin

LEMMA PartTaken ==
    ASSUME NEW w \in Ids, NEW id \in Ids, NEW c \in Clients, NEW clients \in Seq(Clients),
           NEW how \in {"compile", "take"}
    PROVE  LET a == <<Step(how, id, c), Step("put", id, c)>>
           IN  Part(w, a \o CopyTo(id, clients)) /\ (a \o CopyTo(id, clients))[1] = a[1]
               /\ a \o CopyTo(id, clients) # <<>> /\ a[1] = Step(how, id, c)
<1>1. StepOK(w, Step(how, id, c)) /\ StepOK(w, Step("put", id, c))
  BY StepsOfTasks, NoneIsNone DEF OfPlugin, Making
<1>2. Part(w, <<Step(how, id, c), Step("put", id, c)>>)
      /\ <<Step(how, id, c), Step("put", id, c)>>[1] = Step(how, id, c)
      /\ <<Step(how, id, c), Step("put", id, c)>> # <<>>
  BY <1>1, StepFields, PartTwo DEF Making
<1>3. Len(clients) \in Nat /\ [i \in 1 .. Len(clients) |-> id] \in [1 .. Len(clients) -> Ids]
      /\ clients \in [1 .. Len(clients) -> Clients]
  OBVIOUS
<1>4. Part(w, CopyTo(id, clients)) /\ Opens(CopyTo(id, clients))
  BY <1>3, CopyToCopies, CopiesArePart
<1>. QED  BY <1>2, <1>4, PartJoin

(* The steps that a reload of a plugin turns into                          *)
Remade(how, id, c, clients) ==
    <<Step(how, id, c), Step("put", id, c)>> \o CopyTo(id, clients)
      \o <<Step("loaded", id, None)>>

LEMMA PartRemade ==
    ASSUME NEW w \in Ids, NEW id \in Ids, NEW c \in Clients, NEW clients \in Seq(Clients),
           NEW how, how \in {"compile", "take"}
    PROVE  /\ Part(w, Remade(how, id, c, clients)) /\ Remade(how, id, c, clients) # <<>>
           /\ Remade(how, id, c, clients)[1] = Step(how, id, c)
<1>. DEFINE a == <<Step(how, id, c), Step("put", id, c)>> \o CopyTo(id, clients)
            b == <<Step("loaded", id, None)>>
<1>1. Part(w, a) /\ a # <<>> /\ a[1] = Step(how, id, c)
  BY PartTaken
<1>2. Part(w, b) /\ b[1].do = "loaded"
  <2>1. StepOK(w, Step("loaded", id, None)) /\ Step("loaded", id, None).do = "loaded"
    BY StepsAlone, NoneIsNone
  <2>. QED  BY <2>1, PartOne DEF Making
<1>. HIDE DEF a, b
<1>3. Part(w, a \o b) /\ a \o b # <<>> /\ (a \o b)[1] = a[1]
  BY <1>1, <1>2, PartJoin DEF Opens
<1>4. Remade(how, id, c, clients) = a \o b
  BY DEF Remade, a, b
<1>. QED  BY <1>1, <1>3, <1>4

LEMMA LineCloned ==
    ASSUME NEW w \in Ids, NEW id \in Ids, NEW clients \in Seq(Clients),
           NEW q, Line(w, q), q # <<>>, Opens(q)
    PROVE  LET r == CopyTo(id, clients) \o <<Step("unlock", id, None)>> \o q
           IN  Line(w, r) /\ r # <<>> /\ Opens(r)
<1>. DEFINE a == CopyTo(id, clients)
            b == <<Step("unlock", id, None)>>
<1>1. Len(clients) \in Nat /\ [i \in 1 .. Len(clients) |-> id] \in [1 .. Len(clients) -> Ids]
      /\ clients \in [1 .. Len(clients) -> Clients]
  OBVIOUS
<1>2. Part(w, a) /\ Opens(a)
  BY <1>1, CopyToCopies, CopiesArePart
<1>3. Part(w, b) /\ b # <<>> /\ b[1].do = "unlock"
  <2>1. StepOK(w, Step("unlock", id, None)) /\ Step("unlock", id, None).do = "unlock"
    BY StepsAlone, NoneIsNone
  <2>. QED  BY <2>1, PartOne DEF Making
<1>. HIDE DEF a, b
<1>4. Part(w, a \o b) /\ Opens(a \o b)
  <2>1. CASE a = <<>>
    BY <2>1, <1>2, <1>3, PartJoin DEF Opens
  <2>2. CASE a # <<>>
    BY <2>2, <1>2, <1>3, PartJoin DEF Opens
  <2>. QED  BY <2>1, <2>2
<1>5. Line(w, (a \o b) \o q) /\ (a \o b) \o q # <<>> /\ Opens((a \o b) \o q)
  <2>1. CASE a \o b = <<>>
    BY <2>1, <1>4, LineJoin DEF Opens
  <2>2. CASE a \o b # <<>>
    BY <2>2, <1>4, LineJoin DEF Opens
  <2>. QED  BY <2>1, <2>2
<1>. QED  BY <1>5 DEF a, b

LEMMA StartLine ==
    ASSUME NEW id \in Ids, NEW c \in Clients
    PROVE  LET q == <<Step("load", id, c), Step("put", id, c), Step("clone", id, c),
                      Step("loaded", id, None), Step("done", None, None)>>
           IN  Line(id, q) /\ q # <<>> /\ q[1].do = "load"
<1>. DEFINE q == <<Step("load", id, c), Step("put", id, c), Step("clone", id, c),
                   Step("loaded", id, None), Step("done", None, None)>>
<1>1. /\ StepOK(id, Step("load", id, c)) /\ StepOK(id, Step("put", id, c))
      /\ StepOK(id, Step("clone", id, c)) /\ StepOK(id, Step("loaded", id, None))
      /\ StepOK(id, Step("done", None, None))
  BY StepsOfTasks, StepsAlone, NoneIsNone DEF OfPlugin, Making
<1>2. q \in Seq(Steps) /\ Len(q) = 5 /\ q # <<>>
  BY <1>1 DEF StepOK
<1>3. /\ q[1].do = "load" /\ q[2].do = "put" /\ q[3].do = "clone" /\ q[4].do = "loaded"
      /\ q[5].do = "done"
      /\ \A i \in 1 .. 5 : StepOK(id, q[i])
  BY <1>1, StepFields
<1>. HIDE DEF q
<1>4. \A i \in 1 .. 5 : i = 1 \/ i = 2 \/ i = 3 \/ i = 4 \/ i = 5
  OBVIOUS
<1>5. ASSUME NEW i \in 1 .. 5
      PROVE  q[i].do \in Making => i < 5 /\ q[i + 1].do = "put"
  BY <1>3, <1>4 DEF Making
<1>6. ASSUME NEW i \in 2 .. 5
      PROVE  (q[i].do = "put" => q[i - 1].do \in Making)
             /\ q[i].do \notin {"load", "compile", "take"}
  BY <1>3, <1>4 DEF Making
<1>7. Part(id, q)
  BY <1>2, <1>3, <1>5, <1>6 DEF Part
<1>8. id # Main
  BY NoneIsNone
<1>9. Line(id, q)
  BY <1>2, <1>3, <1>7, <1>8 DEF Line
<1>. QED  BY <1>2, <1>3, <1>9 DEF q

LEMMA ReloadLine ==
    ASSUME NEW w \in Ids, NEW id \in Ids, NEW others \in Seq(Ids)
    PROVE  LET q == <<Step("again", id, None)>>
                      \o [i \in DOMAIN others |-> Step("memory", others[i], None)]
                      \o <<Step("done", None, None)>>
           IN  Line(w, q) /\ q # <<>> /\ q[1].do = "again"
<1>. DEFINE a == <<Step("again", id, None)>>
            m == [i \in DOMAIN others |-> Step("memory", others[i], None)]
            z == <<Step("done", None, None)>>
<1>0. w # Main
  BY NoneIsNone
<1>1. Part(w, a) /\ a # <<>> /\ a[1].do = "again"
  <2>1. StepOK(w, Step("again", id, None)) /\ Step("again", id, None).do = "again"
    BY <1>0, StepsAlone
  <2>. QED  BY <2>1, PartOne DEF Making
<1>2. Part(w, m) /\ Opens(m)
  <2>1. /\ Len(others) \in Nat /\ DOMAIN others = 1 .. Len(others)
        /\ \A i \in 1 .. Len(others) : others[i] \in Ids
    OBVIOUS
  <2>2. ASSUME NEW i \in 1 .. Len(others)
        PROVE  StepOK(w, Step("memory", others[i], None))
               /\ Step("memory", others[i], None).do = "memory"
               /\ Step("memory", others[i], None) \in Steps
    <3>1. others[i] \in Ids
      BY <2>1
    <3>2. StepOK(w, Step("memory", others[i], None))
          /\ Step("memory", others[i], None).do = "memory"
      BY <1>0, <3>1, StepsAlone
    <3>. QED  BY <3>2 DEF StepOK
  <2>3. /\ m \in Seq(Steps) /\ Len(m) = Len(others)
        /\ \A i \in 1 .. Len(m) : StepOK(w, m[i]) /\ m[i].do = "memory"
    BY <2>1, <2>2
  <2>. HIDE DEF m
  <2>4. Part(w, m)
    BY <2>3 DEF Part, Making
  <2>5. m # <<>> => Len(m) > 0
    BY <2>3, NotEmpty
  <2>6. Opens(m)
    BY <2>1, <2>3, <2>5 DEF Opens
  <2>. QED  BY <2>4, <2>6
<1>3. Line(w, z) /\ z # <<>> /\ Opens(z)
  <2>1. StepOK(w, Step("done", None, None)) /\ Step("done", None, None).do = "done"
    BY <1>0, StepsAlone
  <2>. QED  BY <1>0, <2>1, LineOne
<1>. HIDE DEF a, m, z
<1>4. Part(w, a \o m) /\ a \o m # <<>> /\ (a \o m)[1] = a[1]
  BY <1>1, <1>2, PartJoin
<1>5. Line(w, (a \o m) \o z) /\ (a \o m) \o z # <<>> /\ ((a \o m) \o z)[1] = (a \o m)[1]
  BY <1>3, <1>4, LineJoin
<1>. QED  BY <1>1, <1>4, <1>5 DEF a, m, z

LEMMA ClientLine ==
    ASSUME NEW n \in Nat, NEW order \in [1 .. n -> Ids], NEW c \in Clients
    PROVE  LET q == FlattenSeq([i \in DOMAIN order |-> <<Step("copy", order[i], c),
                                                         Step("put", order[i], c)>>])
                      \o <<Step("push", None, c)>>
           IN  /\ Line(Main, q) /\ q # <<>> /\ q[1].do \in {"copy", "push"}
               /\ \A i \in 1 .. Len(q) : q[i].do = "push" => q[i].client = c
<1>. DEFINE cs == [i \in 1 .. n |-> c]
            a == FlattenSeq([i \in 1 .. n |-> <<Step("copy", order[i], cs[i]),
                                                Step("put", order[i], cs[i])>>])
            z == <<Step("push", None, c)>>
<1>1. cs \in [1 .. n -> Clients]
  OBVIOUS
<1>2. [i \in 1 .. n |-> <<Step("copy", order[i], cs[i]), Step("put", order[i], cs[i])>>]
        = [i \in DOMAIN order |-> <<Step("copy", order[i], c), Step("put", order[i], c)>>]
  OBVIOUS
<1>3. AreCopies(a, order, cs, n)
  <2>. HIDE DEF cs
  <2>. QED  BY <1>1, FlatCopies
<1>4. Part(Main, a) /\ (a # <<>> => a[1].do = "copy")
  <2>. HIDE DEF a, cs
  <2>. QED  BY <1>1, <1>3, CopiesArePart
<1>5. Line(Main, z) /\ z # <<>> /\ Opens(z) /\ z[1] = Step("push", None, c)
      /\ z[1].do = "push" /\ Len(z) = 1
  <2>1. StepOK(Main, Step("push", None, c)) /\ Step("push", None, c).do = "push"
    <3>1. None \in Maybe(Ids) /\ c \in Maybe(Clients) /\ c # None
      BY NoneIsNone DEF Maybe
    <3>. QED  BY <3>1, StepType, StepFields DEF StepOK, OfPlugin, OfClient, Making
  <2>. QED  BY <2>1, LineOne
<1>6. a \o z = FlattenSeq([i \in DOMAIN order |-> <<Step("copy", order[i], c),
                                                    Step("put", order[i], c)>>])
                 \o <<Step("push", None, c)>>
  BY <1>2
<1>. HIDE DEF a, z, cs
<1>7. /\ Line(Main, a \o z) /\ a \o z # <<>>
      /\ a # <<>> => (a \o z)[1] = a[1]
      /\ a = <<>> => a \o z = z
      /\ (a \o z)[Len(a \o z)] = z[Len(z)]
  <2>1. Part(Main, a) /\ Line(Main, z) /\ z # <<>> /\ Opens(z)
    BY <1>4, <1>5
  <2>. QED  BY <2>1, LineJoin
<1>8. (a \o z)[1].do \in {"copy", "push"}
  BY <1>4, <1>5, <1>7
<1>9. ASSUME NEW i \in 1 .. Len(a \o z), (a \o z)[i].do = "push"
      PROVE  (a \o z)[i].client = c
  <2>1. a \in Seq(Steps) /\ z \in Seq(Steps)
    BY <1>4, <1>5 DEF Line, Part
  <2>2. /\ \A j \in 1 .. Len(a) : (a \o z)[j] = a[j]
        /\ Len(a \o z) = Len(a) + Len(z) /\ Len(a) \in Nat
        /\ \A j \in 1 .. Len(a) + Len(z) : j > Len(a) => (a \o z)[j] = z[j - Len(a)]
    BY <2>1, ConcatFacts
  <2>3. CASE i \in 1 .. Len(a)
    <3>1. Len(a) = 2 * n
      BY <1>3 DEF AreCopies
    <3>2. PICK j \in 1 .. n : i = 2 * j - 1 \/ i = 2 * j
      BY <2>3, <3>1, CopiesIndex
    <3>3. a[i] = Step("copy", order[j], cs[j]) \/ a[i] = Step("put", order[j], cs[j])
      BY <3>2, <1>3 DEF AreCopies
    <3>4. a[i].do # "push"
      BY <3>3, StepFields
    <3>. QED  BY <3>4, <2>2, <2>3, <1>9
  <2>4. CASE i \notin 1 .. Len(a)
    <3>1. i > Len(a) /\ i - Len(a) = 1 /\ i \in 1 .. Len(a) + Len(z)
      BY <2>2, <2>4, <1>5
    <3>2. (a \o z)[i] = Step("push", None, c)
      BY <3>1, <2>2, <1>5
    <3>. QED  BY <3>2, StepFields
  <2>. QED  BY <2>3, <2>4
<1>. QED  BY <1>6, <1>7, <1>8, <1>9

----------------------------------------------------------------------------
(* The variables *)

LEMMA BridgeFields ==
    ASSUME NEW b \in Bridges
    PROVE  /\ b.connected \in Seq(Clients) /\ b.locked \in Maybe(Ids)
           /\ b.loading \in SUBSET Ids /\ b.pending \in BOOLEAN
           /\ b.events \in [Ids -> Maybe(SUBSET News)]
           /\ b.sizes \in [Ids -> Maybe(Sizes)] /\ b.up \in BOOLEAN
BY DEF Bridges

LEMMA ScreenFields ==
    ASSUME NEW s \in Screens
    PROVE  /\ s.given \in SUBSET Ids /\ s.open \in SUBSET Ids /\ s.size \in [Ids -> Sizes]
           /\ s.failed \in SUBSET Ids /\ s.now \in News /\ s.asked \in BOOLEAN
BY DEF Screens

LEMMA TypesOfInv ==
    ASSUME TypeInv
    PROVE  /\ bridge \in Bridges /\ IsInjective(bridge.connected)
           /\ running \in [Ids -> [Clients -> Maybe(Instances)]]
           /\ cache \in Maybe(Versions) /\ file \in Versions
           /\ tasks \in [Workers -> Tasks] /\ toPlugins \in Seq(SUBSET Ids)
           /\ screen \in Screens /\ requests \in 0 .. MaxRequests
           /\ \A w \in Workers : TaskOK(w, tasks[w])
           /\ Bounds /\ NewcomerIsNotListed
BY DEF TypeInv, TypeOK

LEMMA TaskReplaced ==
    ASSUME TypeInv, NEW w \in Workers, NEW u, TaskOK(w, u), tasks' = [tasks EXCEPT ![w] = u]
    PROVE  tasks' \in [Workers -> Tasks] /\ \A v \in Workers : TaskOK(v, tasks'[v])
<1>1. tasks \in [Workers -> Tasks] /\ \A v \in Workers : TaskOK(v, tasks[v])
  BY TypesOfInv
<1>2. u \in Tasks
  BY DEF TaskOK
<1>. QED  BY <1>1, <1>2

LEMMA NewcomerStays ==
    ASSUME TypeInv, NEW w \in Workers, NEW u, tasks' = [tasks EXCEPT ![w] = u],
           ToSet(bridge'.connected) \subseteq Connected,
           w = Main => \/ u.steps = <<>> \/ u = tasks[Main]
                       \/ Busy(Main) /\ u.steps = Tail(tasks[Main].steps)
    PROVE  NewcomerIsNotListed'
<1>1. tasks \in [Workers -> Tasks] /\ Main \in Workers /\ tasks[Main].steps \in Seq(Steps)
  BY TypesOfInv, TaskFields DEF Workers
<1>2. \A i \in 1 .. Len(tasks[Main].steps) :
         tasks[Main].steps[i].do = "push" => tasks[Main].steps[i].client \notin Connected
  BY TypesOfInv DEF NewcomerIsNotListed
<1>3. Connected' \subseteq Connected
  BY DEF Connected
<1>4. CASE w = Main
  <2>1. tasks'[Main] = u
    BY <1>1, <1>4
  <2>2. CASE u.steps = <<>>
    BY <2>1, <2>2 DEF NewcomerIsNotListed
  <2>3. CASE Busy(Main) /\ u.steps = Tail(tasks[Main].steps)
    <3>1. /\ Len(u.steps) = Len(tasks[Main].steps) - 1 /\ Len(tasks[Main].steps) \in Nat
          /\ \A i \in 1 .. Len(tasks[Main].steps) - 1 : u.steps[i] = tasks[Main].steps[i + 1]
      BY <2>3, <1>1, TailFacts DEF Busy
    <3>2. ASSUME NEW i \in 1 .. Len(u.steps), u.steps[i].do = "push"
          PROVE  u.steps[i].client \notin Connected
      <4>1. i + 1 \in 1 .. Len(tasks[Main].steps) /\ u.steps[i] = tasks[Main].steps[i + 1]
        BY <3>1
      <4>. QED  BY <4>1, <3>2, <1>2
    <3>. QED  BY <3>2, <2>1, <1>3 DEF NewcomerIsNotListed
  <2>4. CASE u = tasks[Main]
    BY <2>1, <2>4, <1>2, <1>3 DEF NewcomerIsNotListed
  <2>. QED  BY <2>2, <2>3, <2>4, <1>4
<1>5. CASE w # Main
  <2>1. tasks'[Main] = tasks[Main]
    BY <1>1, <1>5
  <2>. QED  BY <2>1, <1>2, <1>3 DEF NewcomerIsNotListed
<1>. QED  BY <1>4, <1>5

LEMMA BoundsStay ==
    ASSUME TypeInv, bridge'.sizes = bridge.sizes, bridge'.pending = bridge.pending,
           \A id \in Ids, c \in Clients : running'[id][c] # None =>
              \/ running'[id][c].next = 0
              \/ running[id][c] # None /\ running'[id][c].next = running[id][c].next,
           screen'.now = screen.now, file' = file, requests' = requests
    PROVE  Bounds'
<1>1. Bounds
  BY TypesOfInv
<1>2. \A id \in Ids : Kept(id)' = Kept(id)
  BY DEF Kept
<1>3. PutOff' = PutOff
  BY DEF PutOff
<1>4. \A id \in Ids : Kept(id) \in Nat
  BY DEF Kept
<1>5. PutOff \in Nat
  BY DEF PutOff
<1>. QED  BY <1>1, <1>2, <1>3, <1>4, <1>5 DEF Bounds

(* What a task does as a rule                                              *)
LEMMA TaskStepKeeps ==
    ASSUME TypeInv, NEW w \in Workers, NEW u, TaskOK(w, u), tasks' = [tasks EXCEPT ![w] = u],
           w = Main => \/ u.steps = <<>> \/ u = tasks[Main]
                       \/ Busy(Main) /\ u.steps = Tail(tasks[Main].steps),
           bridge' \in Bridges, bridge'.connected = bridge.connected,
           bridge'.sizes = bridge.sizes, bridge'.pending = bridge.pending,
           running' \in [Ids -> [Clients -> Maybe(Instances)]],
           \A id \in Ids, c \in Clients : running'[id][c] # None =>
              \/ running'[id][c].next = 0
              \/ running[id][c] # None /\ running'[id][c].next = running[id][c].next,
           cache' \in Maybe(Versions), file' = file, toPlugins' \in Seq(SUBSET Ids),
           screen' \in Screens, screen'.now = screen.now, requests' = requests
    PROVE  TypeInv'
<1>1. tasks' \in [Workers -> Tasks] /\ \A v \in Workers : TaskOK(v, tasks'[v])
  BY TaskReplaced
<1>2. NewcomerIsNotListed'
  <2>1. ToSet(bridge'.connected) \subseteq Connected
    BY DEF Connected
  <2>. QED  BY <2>1, NewcomerStays
<1>3. Bounds'
  BY BoundsStay
<1>4. TypeOK'
  BY <1>1, TypesOfInv DEF TypeOK
<1>. QED  BY <1>1, <1>2, <1>3, <1>4 DEF TypeInv

----------------------------------------------------------------------------
(* Each step of a task keeps the invariant                                 *)

LEMMA CurrentFacts ==
    ASSUME TypeInv, NEW w \in Workers, Busy(w)
    PROVE  /\ TaskOK(w, tasks[w]) /\ tasks[w] \in Tasks /\ Line(w, tasks[w].steps)
           /\ tasks[w].steps # <<>> /\ Current(w) = tasks[w].steps[1]
           /\ StepOK(w, Current(w)) /\ Rest(w) = Next1(tasks[w])
           /\ Tail(tasks[w].steps) # <<>> =>
                Tail(tasks[w].steps)[Len(Tail(tasks[w].steps))]
                  = tasks[w].steps[Len(tasks[w].steps)]
<1>1. TaskOK(w, tasks[w])
  BY TypesOfInv
<1>2. tasks[w] \in Tasks /\ Line(w, tasks[w].steps) /\ tasks[w].steps # <<>>
  BY <1>1 DEF TaskOK, Busy
<1>3. Current(w) = tasks[w].steps[1] /\ StepOK(w, Current(w))
  BY <1>2, LineTail DEF Current
<1>4. Rest(w) = Next1(tasks[w])
  BY DEF Rest, Next1
<1>5. Tail(tasks[w].steps) # <<>> =>
        Tail(tasks[w].steps)[Len(Tail(tasks[w].steps))] = tasks[w].steps[Len(tasks[w].steps)]
  BY <1>2, LineTail
<1>. QED  BY <1>1, <1>2, <1>3, <1>4, <1>5

LEMMA StepIds ==
    ASSUME NEW w, NEW s, StepOK(w, s)
    PROVE  /\ s.do \in OfPlugin => s.id \in Ids
           /\ s.do \in OfClient => s.client \in Clients
BY DEF StepOK, Steps, Maybe

LEMMA MadeFields ==
    ASSUME NEW t \in Tasks, t.steps # <<>>, NEW m \in Versions, NEW size \in Maybe(Sizes)
    PROVE  /\ LET u == [Next1(t) EXCEPT !.module = m]
              IN  u \in Tasks /\ u.steps = Tail(t.steps) /\ u.size = t.size /\ u.module = m
                  /\ u.ids = t.ids /\ u.for = t.for
           /\ LET u == [[Next1(t) EXCEPT !.size = size] EXCEPT !.module = m]
              IN  u \in Tasks /\ u.steps = Tail(t.steps) /\ u.size = size /\ u.module = m
                  /\ u.ids = t.ids /\ u.for = t.for
<1>1. Next1(t) \in Tasks /\ Next1(t).steps = Tail(t.steps) /\ Next1(t).size = t.size
      /\ Next1(t).ids = t.ids /\ Next1(t).for = t.for
  BY Next1Fields
<1>. HIDE DEF Next1
<1>. QED  BY <1>1 DEF Tasks, Maybe

LEMMA LoadModuleKeeps ==
    ASSUME TypeInv, NEW w \in Workers, LoadModule(w)
    PROVE  TypeInv'
<1>. DEFINE m == IF cache # None THEN cache ELSE file
            u == [Next1(tasks[w]) EXCEPT !.module = m]
<1>1. Busy(w) /\ Current(w).do = "load" /\ Goes(w, [Rest(w) EXCEPT !.module = m])
      /\ cache' = None /\ UNCHANGED <<bridge, running, file, toPlugins, screen, requests>>
  BY DEF LoadModule, Does
<1>2. /\ TaskOK(w, tasks[w]) /\ tasks[w] \in Tasks /\ tasks[w].steps # <<>>
      /\ tasks[w].steps[1].do = "load" /\ Rest(w) = Next1(tasks[w])
      /\ Tail(tasks[w].steps) # <<>> =>
           Tail(tasks[w].steps)[Len(Tail(tasks[w].steps))]
             = tasks[w].steps[Len(tasks[w].steps)]
  BY <1>1, CurrentFacts
<1>3. m \in Versions
  BY TypesOfInv DEF Maybe
<1>4. tasks[w].size # None /\ tasks[w].size \in Maybe(Sizes)
  BY <1>2, TaskFields DEF TaskOK
<1>5. u \in Tasks /\ u.steps = Tail(tasks[w].steps) /\ u.size = tasks[w].size /\ u.module = m
  <2>. HIDE DEF m
  <2>. QED  BY <1>2, <1>3, <1>4, MadeFields
<1>6. tasks' = [tasks EXCEPT ![w] = u]
  BY <1>1, <1>2 DEF Goes
<1>. HIDE DEF u, m
<1>7. TaskOK(w, u)
  BY <1>2, <1>3, <1>4, <1>5, TaskMakes DEF Making
<1>8. cache' \in Maybe(Versions)
  BY <1>1 DEF Maybe
<1>9. \A id \in Ids, c \in Clients : running'[id][c] # None =>
              \/ running'[id][c].next = 0
              \/ running[id][c] # None /\ running'[id][c].next = running[id][c].next
  BY <1>1
<1>10. bridge' \in Bridges /\ running' \in [Ids -> [Clients -> Maybe(Instances)]]
       /\ toPlugins' \in Seq(SUBSET Ids) /\ screen' \in Screens
  BY <1>1, TypesOfInv
<1>. QED  BY <1>1, <1>2, <1>5, <1>6, <1>7, <1>8, <1>9, <1>10, TaskStepKeeps

(* A task that fails, but the thread itself                                *)
LEMMA FailsKeeps ==
    ASSUME TypeInv, NEW w \in Ids, Busy(w), Current(w).do # "done", Fails(w)
    PROVE  TypeInv'
<1>. DEFINE t == tasks[w]
            After == {i \in DOMAIN t.steps : i > 1 /\ t.steps[i].do \in {"memory", "done"}}
            n == IF t.for = "others" THEN Min(After) ELSE Len(t.steps)
            u == [t EXCEPT !.steps = SubSeq(@, n, Len(@)), !.module = None]
<1>0. w \in Workers /\ w # Main
  BY NoneIsNone DEF Workers
<1>1. /\ TaskOK(w, t) /\ t \in Tasks /\ Line(w, t.steps) /\ t.steps # <<>>
      /\ t.steps[1].do # "done"
  BY <1>0, CurrentFacts
<1>2. t.steps \in Seq(Steps) /\ Len(t.steps) \in Nat /\ Len(t.steps) > 0
      /\ DOMAIN t.steps = 1 .. Len(t.steps)
  BY <1>1, TaskFields, NotEmpty
<1>3. t.steps[Len(t.steps)].do = "done" /\ Len(t.steps) > 1
  BY <1>0, <1>1, <1>2 DEF Line
<1>. HIDE DEF t
<1>4. n \in 1 .. Len(t.steps) /\ t.steps[n].do \in {"memory", "done"}
  <2>1. CASE t.for = "others"
    <3>1. After \in SUBSET Nat /\ Len(t.steps) \in After
      BY <1>2, <1>3
    <3>2. PICK i \in After : \A j \in After : i <= j
      <4>. HIDE DEF After
      <4>. QED  BY <3>1, LeastExists
    <3>3. Min(After) \in After
      <4>. HIDE DEF After
      <4>. QED  BY <3>1, <3>2 DEF Min
    <3>. QED  BY <2>1, <3>3, <1>2
  <2>2. CASE t.for # "others"
    BY <2>2, <1>2, <1>3
  <2>. QED  BY <2>1, <2>2
<1>5. TaskOK(w, u)
  <2>. HIDE DEF n
  <2>1. t.steps[n].do \notin Making \cup {"put"}
    BY <1>4 DEF Making
  <2>. QED  BY <1>1, <1>4, <2>1, TaskGivesUp
<1>6. /\ tasks' = [tasks EXCEPT ![w] = u]
      /\ \E S \in SUBSET Ids : screen' = [screen EXCEPT !.failed = @ \cup S]
      /\ bridge' = [bridge EXCEPT !.locked = IF @ = w THEN None ELSE @]
      /\ UNCHANGED <<running, cache, file, toPlugins, requests>>
  <2>1. StepOK(w, Current(w)) /\ t.ids \in SUBSET Ids
    BY <1>0, <1>1, CurrentFacts, TaskFields
  <2>2. tasks' = [tasks EXCEPT ![w] = u]
    BY DEF Fails, Goes, t
  <2>3. screen' = [screen EXCEPT !.failed =
           @ \cup (IF t.for = "others" THEN {Current(w).id} ELSE t.ids)]
    BY DEF Fails, t
  <2>4. t.for = "others" => Current(w).id \in Ids
    <3>1. Current(w).do \in OfPlugin
      <4>1. Current(w).do \in {"load", "compile", "take", "copy", "put", "clone", "unlock",
                               "again", "memory", "loaded", "done", "push"}
        BY <2>1 DEF StepOK, Steps
      <4>2. Current(w).do # "push"
        BY <1>0, <2>1 DEF StepOK
      <4>. QED  BY <4>1, <4>2 DEF OfPlugin, Making
    <3>. QED  BY <2>1, <3>1, StepIds
  <2>5. (IF t.for = "others" THEN {Current(w).id} ELSE t.ids) \in SUBSET Ids
    BY <2>1, <2>4
  <2>6. /\ bridge' = [bridge EXCEPT !.locked = IF @ = w THEN None ELSE @]
        /\ UNCHANGED <<running, cache, file, toPlugins, requests>>
    BY DEF Fails
  <2>. QED  BY <2>2, <2>3, <2>5, <2>6
<1>. HIDE DEF u
<1>7. /\ bridge' \in Bridges /\ bridge'.connected = bridge.connected
      /\ bridge'.sizes = bridge.sizes /\ bridge'.pending = bridge.pending
  BY <1>6, TypesOfInv DEF Bridges, Maybe
<1>8. screen' \in Screens /\ screen'.now = screen.now
  BY <1>6, TypesOfInv DEF Screens
<1>9. /\ running' \in [Ids -> [Clients -> Maybe(Instances)]]
      /\ cache' \in Maybe(Versions) /\ file' = file /\ toPlugins' \in Seq(SUBSET Ids)
      /\ requests' = requests
  BY <1>6, TypesOfInv
<1>10. \A id \in Ids, c \in Clients : running'[id][c] # None =>
              \/ running'[id][c].next = 0
              \/ running[id][c] # None /\ running'[id][c].next = running[id][c].next
  BY <1>6
<1>11. tasks' = [tasks EXCEPT ![w] = u]
  BY <1>6
<1>. QED  BY <1>0, <1>5, <1>7, <1>8, <1>9, <1>10, <1>11, TaskStepKeeps

LEMMA FailKeeps ==
    ASSUME TypeInv, NEW w \in Workers, Busy(w), Current(w).do # "done", Fail(w)
    PROVE  TypeInv'
<1>1. CASE w # Main
  BY <1>1, FailsKeeps DEF Fail, Workers
<1>2. CASE w = Main
  <2>1. /\ bridge' = [bridge EXCEPT !.up = FALSE]
        /\ UNCHANGED <<running, cache, file, tasks, toPlugins, screen, requests>>
    BY <1>2 DEF Fail, FailsInMain
  <2>2. TaskOK(w, tasks[w]) /\ tasks \in [Workers -> Tasks]
    BY TypesOfInv
  <2>3. tasks' = [tasks EXCEPT ![w] = tasks[w]]
    BY <2>1, <2>2
  <2>4. /\ bridge' \in Bridges /\ bridge'.connected = bridge.connected
        /\ bridge'.sizes = bridge.sizes /\ bridge'.pending = bridge.pending
    BY <2>1, TypesOfInv DEF Bridges
  <2>5. /\ running' \in [Ids -> [Clients -> Maybe(Instances)]]
        /\ cache' \in Maybe(Versions) /\ file' = file /\ toPlugins' \in Seq(SUBSET Ids)
        /\ requests' = requests /\ screen' \in Screens /\ screen'.now = screen.now
    BY <2>1, TypesOfInv
  <2>6. \A id \in Ids, c \in Clients : running'[id][c] # None =>
              \/ running'[id][c].next = 0
              \/ running[id][c] # None /\ running'[id][c].next = running[id][c].next
    BY <2>1
  <2>. QED  BY <1>2, <2>2, <2>3, <2>4, <2>5, <2>6, TaskStepKeeps
<1>. QED  BY <1>1, <1>2

LEMMA CompileModuleKeeps ==
    ASSUME TypeInv, NEW w \in Workers, CompileModule(w)
    PROVE  TypeInv'
<1>1. Busy(w) /\ Current(w).do = "compile"
  BY DEF CompileModule, Does
<1>2. /\ TaskOK(w, tasks[w]) /\ tasks[w] \in Tasks /\ tasks[w].steps # <<>>
      /\ tasks[w].steps[1].do = "compile" /\ Rest(w) = Next1(tasks[w])
      /\ StepOK(w, Current(w))
      /\ Tail(tasks[w].steps) # <<>> =>
           Tail(tasks[w].steps)[Len(Tail(tasks[w].steps))]
             = tasks[w].steps[Len(tasks[w].steps)]
  BY <1>1, CurrentFacts
<1>3. CASE /\ Goes(w, [Rest(w) EXCEPT !.module = file])
           /\ UNCHANGED <<bridge, running, cache, file, toPlugins, screen, requests>>
  <2>. DEFINE u == [Next1(tasks[w]) EXCEPT !.module = file]
  <2>1. file \in Versions
    BY TypesOfInv
  <2>2. tasks[w].size # None /\ tasks[w].size \in Maybe(Sizes)
    BY <1>2, TaskFields DEF TaskOK
  <2>3. u \in Tasks /\ u.steps = Tail(tasks[w].steps) /\ u.size = tasks[w].size /\ u.module = file
    BY <1>2, <2>1, <2>2, MadeFields
  <2>4. tasks' = [tasks EXCEPT ![w] = u]
    BY <1>3, <1>2 DEF Goes
  <2>. HIDE DEF u
  <2>5. TaskOK(w, u)
    BY <1>2, <2>1, <2>2, <2>3, TaskMakes DEF Making
  <2>6. \A id \in Ids, c \in Clients : running'[id][c] # None =>
              \/ running'[id][c].next = 0
              \/ running[id][c] # None /\ running'[id][c].next = running[id][c].next
    BY <1>3
  <2>7. bridge' \in Bridges /\ running' \in [Ids -> [Clients -> Maybe(Instances)]]
         /\ toPlugins' \in Seq(SUBSET Ids) /\ screen' \in Screens /\ cache' \in Maybe(Versions)
    BY <1>3, TypesOfInv
  <2>. QED  BY <1>1, <1>3, <2>3, <2>4, <2>5, <2>6, <2>7, <1>2, TaskStepKeeps
<1>4. CASE Fails(w)
  <2>1. w \in Ids
    BY <1>1, <1>2 DEF StepOK, Workers
  <2>. QED  BY <1>1, <1>4, <2>1, FailsKeeps
<1>. QED  BY <1>3, <1>4 DEF CompileModule

LEMMA LoadModuleFromMemoryKeeps ==
    ASSUME TypeInv, NEW w \in Workers, Busy(w), Current(w).do \in {"take", "copy"},
           NEW task \in Tasks, task.steps = Tail(tasks[w].steps), task.size # None,
           LoadModuleFromMemory(w, task)
    PROVE  TypeInv'
<1>1. CASE cache = None
  <2>1. Fail(w)
    BY <1>1 DEF LoadModuleFromMemory
  <2>. QED  BY <2>1, FailKeeps
<1>2. CASE cache # None
  <2>. DEFINE u == [task EXCEPT !.module = cache]
  <2>1. /\ tasks' = [tasks EXCEPT ![w] = u] /\ cache' = None
        /\ UNCHANGED <<bridge, running, file, toPlugins, screen, requests>>
    BY <1>2 DEF LoadModuleFromMemory, Goes
  <2>2. cache \in Versions
    BY <1>2, TypesOfInv DEF Maybe
  <2>3. u \in Tasks /\ u.steps = Tail(tasks[w].steps) /\ u.size = task.size /\ u.module = cache
        /\ u.size \in Maybe(Sizes)
    BY <2>2 DEF Tasks, Maybe
  <2>4. /\ TaskOK(w, tasks[w]) /\ tasks[w].steps # <<>>
        /\ tasks[w].steps[1].do \in Making
        /\ Tail(tasks[w].steps) # <<>> =>
             Tail(tasks[w].steps)[Len(Tail(tasks[w].steps))]
               = tasks[w].steps[Len(tasks[w].steps)]
    BY CurrentFacts DEF Making
  <2>. HIDE DEF u
  <2>5. TaskOK(w, u)
    BY <2>2, <2>3, <2>4, TaskMakes
  <2>6. \A id \in Ids, c \in Clients : running'[id][c] # None =>
              \/ running'[id][c].next = 0
              \/ running[id][c] # None /\ running'[id][c].next = running[id][c].next
    BY <2>1
  <2>7. bridge' \in Bridges /\ running' \in [Ids -> [Clients -> Maybe(Instances)]]
         /\ toPlugins' \in Seq(SUBSET Ids) /\ screen' \in Screens /\ cache' \in Maybe(Versions)
    BY <2>1, TypesOfInv DEF Maybe
  <2>. QED  BY <2>1, <2>3, <2>4, <2>5, <2>6, <2>7, TaskStepKeeps
<1>. QED  BY <1>1, <1>2

LEMMA TakeKeeps ==
    ASSUME TypeInv, NEW w \in Workers, Take(w)
    PROVE  TypeInv'
<1>1. Busy(w) /\ Current(w).do = "take" /\ LoadModuleFromMemory(w, Rest(w))
  BY DEF Take, Does
<1>2. /\ TaskOK(w, tasks[w]) /\ tasks[w] \in Tasks /\ tasks[w].steps # <<>>
      /\ tasks[w].steps[1].do = "take" /\ Rest(w) = Next1(tasks[w])
  BY <1>1, CurrentFacts
<1>3. Rest(w) \in Tasks /\ Rest(w).steps = Tail(tasks[w].steps) /\ Rest(w).size = tasks[w].size
  BY <1>2, Next1Fields
<1>4. tasks[w].size # None
  BY <1>2 DEF TaskOK
<1>. QED  BY <1>1, <1>3, <1>4, LoadModuleFromMemoryKeeps

LEMMA CopyKeeps ==
    ASSUME TypeInv, NEW w \in Workers, Copy(w)
    PROVE  TypeInv'
<1>. DEFINE instances == {running[Current(w).id][c] : c \in Clients} \ {None}
<1>1. Busy(w) /\ Current(w).do = "copy"
  BY DEF Copy, Does
<1>2. /\ tasks[w] \in Tasks /\ tasks[w].steps # <<>> /\ Rest(w) = Next1(tasks[w])
      /\ StepOK(w, Current(w))
  BY <1>1, CurrentFacts
<1>3. Current(w).id \in Ids
  BY <1>1, <1>2, StepIds DEF OfPlugin, Making
<1>4. CASE instances = {}
  <2>1. Fail(w)
    BY <1>4 DEF Copy
  <2>. QED  BY <1>1, <2>1, FailKeeps
<1>5. CASE instances # {}
  <2>0. PICK i \in instances : \E size \in SizesOf(i) :
           LoadModuleFromMemory(w, [Rest(w) EXCEPT !.size = size])
    BY <1>5 DEF Copy
  <2>1. PICK size \in SizesOf(i) : LoadModuleFromMemory(w, [Rest(w) EXCEPT !.size = size])
    BY <2>0
  <2>2. i \in Instances
    BY <1>3, <2>0, TypesOfInv DEF Maybe
  <2>3. size \in Sizes /\ size # None /\ size \in Maybe(Sizes)
    BY <2>2, SizesOfType, NoneIsNone DEF Maybe
  <2>. DEFINE task == [Next1(tasks[w]) EXCEPT !.size = size]
  <2>4. task \in Tasks /\ task.steps = Tail(tasks[w].steps) /\ task.size = size
    <3>1. Next1(tasks[w]) \in Tasks /\ Next1(tasks[w]).steps = Tail(tasks[w].steps)
      BY <1>2, Next1Fields
    <3>. HIDE DEF Next1
    <3>. QED  BY <3>1, <2>3 DEF Tasks
  <2>5. LoadModuleFromMemory(w, task)
    BY <1>2, <2>1
  <2>. HIDE DEF task
  <2>. QED  BY <1>1, <2>3, <2>4, <2>5, LoadModuleFromMemoryKeeps
<1>. QED  BY <1>4, <1>5

LEMMA NewInstanceType ==
    ASSUME NEW code \in Versions, NEW size \in Sizes
    PROVE  NewInstance(code, size) \in Instances /\ NewInstance(code, size).next = 0
<1>1. 0 \in EventIds /\ 0 \in News
  BY PluginsAssumption DEF EventIds, News
<1>. QED  BY <1>1 DEF NewInstance, Instances

LEMMA PutKeeps ==
    ASSUME TypeInv, NEW w \in Workers, Put(w)
    PROVE  TypeInv'
<1>. DEFINE s == Current(w)
            u == [Next1(tasks[w]) EXCEPT !.module = None]
            i == NewInstance(tasks[w].module, tasks[w].size)
<1>1. Busy(w) /\ Current(w).do = "put"
  BY DEF Put, Does
<1>2. /\ TaskOK(w, tasks[w]) /\ tasks[w] \in Tasks /\ tasks[w].steps # <<>>
      /\ tasks[w].steps[1].do = "put" /\ Rest(w) = Next1(tasks[w])
      /\ StepOK(w, Current(w))
      /\ Tail(tasks[w].steps) # <<>> =>
           Tail(tasks[w].steps)[Len(Tail(tasks[w].steps))]
             = tasks[w].steps[Len(tasks[w].steps)]
  BY <1>1, CurrentFacts
<1>3. s.id \in Ids /\ s.client \in Clients
  BY <1>1, <1>2, StepIds DEF OfPlugin, OfClient
<1>4. tasks[w].module \in Versions /\ tasks[w].size \in Sizes
  <2>1. tasks[w].module # None /\ tasks[w].size # None
    BY <1>2 DEF TaskOK
  <2>. QED  BY <1>2, <2>1, TaskFields DEF Maybe
<1>5. i \in Instances /\ i.next = 0
  BY <1>4, NewInstanceType
<1>6. /\ running' = [running EXCEPT ![s.id][s.client] = i]
      /\ cache' = tasks[w].module
      /\ UNCHANGED <<bridge, file, toPlugins, screen, requests>>
      /\ tasks' = [tasks EXCEPT ![w] = u]
  BY <1>2 DEF Put, Goes
<1>7. TaskOK(w, u) /\ u.steps = Tail(tasks[w].steps)
  BY <1>2, TaskPuts
<1>. HIDE DEF u, i, s
<1>8. running' \in [Ids -> [Clients -> Maybe(Instances)]]
  BY <1>3, <1>5, <1>6, TypesOfInv DEF Maybe
<1>9. \A id \in Ids, c \in Clients : running'[id][c] # None =>
              \/ running'[id][c].next = 0
              \/ running[id][c] # None /\ running'[id][c].next = running[id][c].next
  <2>1. running \in [Ids -> [Clients -> Maybe(Instances)]]
    BY TypesOfInv
  <2>2. ASSUME NEW id \in Ids, NEW c \in Clients
        PROVE  running'[id][c] = i \/ running'[id][c] = running[id][c]
    BY <2>1, <1>3, <1>6
  <2>. QED  BY <2>2, <1>5
<1>10. bridge' \in Bridges /\ toPlugins' \in Seq(SUBSET Ids) /\ screen' \in Screens
       /\ cache' \in Maybe(Versions)
  BY <1>4, <1>6, TypesOfInv DEF Maybe
<1>. QED  BY <1>1, <1>2, <1>6, <1>7, <1>8, <1>9, <1>10, TaskStepKeeps

LEMMA RestOpens ==
    ASSUME NEW w, NEW q, Line(w, q), q # <<>>, q[1].do \notin Making,
           q[1].do # IF w = Main THEN "push" ELSE "done"
    PROVE  Line(w, Tail(q)) /\ Tail(q) # <<>> /\ Opens(Tail(q))
<1>1. /\ Line(w, Tail(q)) /\ Tail(q) # <<>>
      /\ Tail(q)[1].do # "put" /\ Tail(q)[1].do \notin {"load", "compile", "take"}
  BY LineTail
<1>. QED  BY <1>1 DEF Opens

LEMMA CloneKeeps ==
    ASSUME TypeInv, NEW w \in Workers, Clone(w)
    PROVE  TypeInv'
<1>. DEFINE s == Current(w)
            others == Others(bridge.connected, s.client)
            q == CopyTo(s.id, others) \o <<Step("unlock", s.id, None)>> \o Tail(tasks[w].steps)
            u == [Next1(tasks[w]) EXCEPT !.steps = q]
<1>1. Busy(w) /\ Current(w).do = "clone" /\ bridge.locked = None
      /\ bridge' = [bridge EXCEPT !.locked = w]
      /\ UNCHANGED <<running, cache, file, toPlugins, screen, requests>>
  BY DEF Clone, Does
<1>2. /\ TaskOK(w, tasks[w]) /\ tasks[w] \in Tasks /\ tasks[w].steps # <<>>
      /\ Line(w, tasks[w].steps)
      /\ tasks[w].steps[1].do = "clone" /\ Rest(w) = Next1(tasks[w]) /\ StepOK(w, Current(w))
  BY <1>1, CurrentFacts
<1>3. w \in Ids /\ w # Main /\ s.id \in Ids /\ s.client \in Clients
  <2>1. w # Main
    BY <1>1, <1>2 DEF StepOK
  <2>. QED  BY <1>1, <1>2, <2>1, StepIds DEF OfPlugin, OfClient, Workers
<1>4. others \in Seq(Clients)
  BY TypesOfInv, BridgeFields, OthersFacts
<1>5. Line(w, Tail(tasks[w].steps)) /\ Tail(tasks[w].steps) # <<>> /\ Opens(Tail(tasks[w].steps))
  BY <1>2, <1>3, RestOpens DEF Making
<1>6. Line(w, q) /\ q # <<>> /\ Opens(q)
  <2>. HIDE DEF others, s
  <2>. QED  BY <1>3, <1>4, <1>5, LineCloned
<1>7. /\ Next1(tasks[w]) \in Tasks /\ Next1(tasks[w]).steps = Tail(tasks[w].steps)
      /\ Next1(tasks[w]).module = None
  BY <1>2, Next1Fields, TaskGoesOn DEF Making
<1>8. tasks' = [tasks EXCEPT ![w] = u]
  <2>1. tasks' = [tasks EXCEPT ![w] = [Next1(tasks[w]) EXCEPT !.steps =
                       CopyTo(s.id, others) \o <<Step("unlock", s.id, None)>> \o @]]
    BY <1>2 DEF Clone, Goes
  <2>. HIDE DEF s, others, Next1
  <2>. QED  BY <1>7, <2>1
<1>. HIDE DEF q
<1>9. u \in Tasks /\ u.steps = q /\ u.module = None
  <2>1. q \in Seq(Steps)
    BY <1>6 DEF Line, Part
  <2>. HIDE DEF Next1
  <2>. QED  BY <1>7, <2>1 DEF Tasks
<1>. HIDE DEF u
<1>10. TaskOK(w, u)
  BY <1>6, <1>9 DEF TaskOK, Opens
<1>11. /\ bridge' \in Bridges /\ bridge'.connected = bridge.connected
       /\ bridge'.sizes = bridge.sizes /\ bridge'.pending = bridge.pending
  BY <1>1, <1>3, TypesOfInv DEF Bridges, Maybe
<1>12. \A id \in Ids, c \in Clients : running'[id][c] # None =>
              \/ running'[id][c].next = 0
              \/ running[id][c] # None /\ running'[id][c].next = running[id][c].next
  BY <1>1
<1>13. running' \in [Ids -> [Clients -> Maybe(Instances)]] /\ toPlugins' \in Seq(SUBSET Ids)
       /\ screen' \in Screens /\ cache' \in Maybe(Versions)
  BY <1>1, TypesOfInv
<1>. QED  BY <1>1, <1>3, <1>8, <1>10, <1>11, <1>12, <1>13, TaskStepKeeps

LEMMA UnlockKeeps ==
    ASSUME TypeInv, NEW w \in Workers, Unlock(w)
    PROVE  TypeInv'
<1>1. Busy(w) /\ Current(w).do = "unlock"
      /\ bridge' = [bridge EXCEPT !.locked = None] /\ Goes(w, Rest(w))
      /\ UNCHANGED <<running, cache, file, toPlugins, screen, requests>>
  BY DEF Unlock, Does
<1>2. /\ TaskOK(w, tasks[w]) /\ tasks[w] \in Tasks /\ tasks[w].steps # <<>>
      /\ tasks[w].steps[1].do = "unlock" /\ Rest(w) = Next1(tasks[w]) /\ StepOK(w, Current(w))
  BY <1>1, CurrentFacts
<1>3. w # Main
  BY <1>1, <1>2 DEF StepOK
<1>4. TaskOK(w, Next1(tasks[w]))
  BY <1>2, TaskGoesOn DEF Making
<1>5. tasks' = [tasks EXCEPT ![w] = Next1(tasks[w])]
  BY <1>1, <1>2 DEF Goes
<1>6. /\ bridge' \in Bridges /\ bridge'.connected = bridge.connected
      /\ bridge'.sizes = bridge.sizes /\ bridge'.pending = bridge.pending
  BY <1>1, TypesOfInv DEF Bridges, Maybe
<1>7. \A id \in Ids, c \in Clients : running'[id][c] # None =>
              \/ running'[id][c].next = 0
              \/ running[id][c] # None /\ running'[id][c].next = running[id][c].next
  BY <1>1
<1>8. running' \in [Ids -> [Clients -> Maybe(Instances)]] /\ toPlugins' \in Seq(SUBSET Ids)
      /\ screen' \in Screens /\ cache' \in Maybe(Versions)
  BY <1>1, TypesOfInv
<1>. QED  BY <1>1, <1>3, <1>4, <1>5, <1>6, <1>7, <1>8, TaskStepKeeps

(* The task of a plugin whose first instance was taken out                 *)
Retask(t, for, size, how, id, first, clients) ==
    [t EXCEPT !.for = for, !.size = size,
              !.steps = Remade(how, id, first, clients) \o Tail(@)]

LEMMA TakenTask ==
    ASSUME NEW w \in Ids, NEW t, TaskOK(w, t), t.steps # <<>>,
           t.steps[1].do \in {"again", "memory"},
           NEW for \in {"reload", "others"}, NEW size \in Sizes, NEW how \in {"compile", "take"},
           NEW id \in Ids, NEW first \in Clients, NEW clients \in Seq(Clients)
    PROVE  TaskOK(w, Retask(t, for, size, how, id, first, clients))
<1>. DEFINE q == Remade(how, id, first, clients) \o Tail(t.steps)
            u == Retask(t, for, size, how, id, first, clients)
<1>1. t \in Tasks /\ Line(w, t.steps) /\ w # Main
  BY NoneIsNone DEF TaskOK
<1>2. Line(w, Tail(t.steps)) /\ Tail(t.steps) # <<>> /\ Opens(Tail(t.steps))
  BY <1>1, RestOpens DEF Making
<1>3. Line(w, q) /\ q # <<>> /\ q[1] = Step(how, id, first)
  <2>1. /\ Part(w, Remade(how, id, first, clients)) /\ Remade(how, id, first, clients) # <<>>
        /\ Remade(how, id, first, clients)[1] = Step(how, id, first)
    BY PartRemade
  <2>. DEFINE p == Remade(how, id, first, clients)
              r == Tail(t.steps)
  <2>2. Part(w, p) /\ p # <<>> /\ p[1] = Step(how, id, first)
        /\ Line(w, r) /\ r # <<>> /\ Opens(r)
    BY <1>2, <2>1
  <2>. HIDE DEF p, r
  <2>3. Line(w, p \o r) /\ p \o r # <<>> /\ (p \o r)[1] = p[1]
    BY <2>2, LineJoin
  <2>. QED  BY <2>2, <2>3 DEF p, r
<1>. HIDE DEF q
<1>4. u = [t EXCEPT !.for = for, !.size = size, !.steps = q]
  BY <1>1 DEF Retask, q
<1>5. /\ u \in Tasks /\ u.steps = q /\ u.module = t.module /\ u.size = size
      /\ u.for = for /\ u.ids = t.ids
  <2>1. q \in Seq(Steps)
    BY <1>3 DEF Line, Part
  <2>. HIDE DEF u
  <2>. QED  BY <1>1, <1>4, <2>1 DEF Tasks, Maybe
<1>. HIDE DEF u
<1>6. t.module = None
  BY DEF TaskOK
<1>7. q[1].do = how
  BY <1>3, StepFields
<1>8. size # None
  BY NoneIsNone
<1>9. TaskOK(w, u)
  BY <1>3, <1>5, <1>6, <1>7, <1>8 DEF TaskOK
<1>. QED  BY <1>9 DEF u

LEMMA TakeOutKeeps ==
    ASSUME TypeInv, NEW w \in Workers, NEW for \in {"reload", "others"},
           NEW how \in {"compile", "take"}, Busy(w), Current(w).do \in {"again", "memory"},
           TakeOut(w, for, how)
    PROVE  TypeInv'
<1>. DEFINE id == Current(w).id
            first == Head(bridge.connected)
<1>1. /\ TaskOK(w, tasks[w]) /\ tasks[w] \in Tasks /\ tasks[w].steps # <<>>
      /\ Line(w, tasks[w].steps)
      /\ tasks[w].steps[1].do \in {"again", "memory"} /\ StepOK(w, Current(w))
  BY CurrentFacts
<1>2. w \in Ids /\ w # Main /\ id \in Ids
  <2>1. w # Main
    BY <1>1 DEF StepOK
  <2>. QED  BY <1>1, <2>1, StepIds DEF OfPlugin, Workers
<1>3. CASE bridge.connected = <<>> \/ running[id][first] = None
  <2>1. Fails(w)
    BY <1>3 DEF TakeOut
  <2>. QED  BY <1>2, <2>1, FailsKeeps
<1>4. CASE ~(bridge.connected = <<>> \/ running[id][first] = None)
  <2>1. bridge.connected \in Seq(Clients) /\ bridge.connected # <<>>
    BY <1>4, TypesOfInv, BridgeFields
  <2>2. first \in Clients /\ Tail(bridge.connected) \in Seq(Clients)
    BY <2>1, TailFacts
  <2>3. running[id][first] \in Instances
    BY <1>2, <1>4, <2>2, TypesOfInv DEF Maybe
  <2>4. PICK size \in SizesOf(running[id][first]) :
           /\ running' = [running EXCEPT ![id][first] = None]
           /\ Goes(w, [tasks[w] EXCEPT
                 !.for = for, !.size = size,
                 !.steps = <<Step(how, id, first), Step("put", id, first)>>
                             \o CopyTo(id, Tail(bridge.connected))
                             \o <<Step("loaded", id, None)>> \o Tail(@)])
           /\ UNCHANGED <<bridge, cache, file, toPlugins, screen, requests>>
    BY <1>4 DEF TakeOut
  <2>5. size \in Sizes /\ size # None
    BY <2>3, SizesOfType, NoneIsNone
  <2>. DEFINE clients == Tail(bridge.connected)
              u == Retask(tasks[w], for, size, how, id, first, clients)
  <2>6. tasks' = [tasks EXCEPT ![w] = u]
    BY <2>4, <1>1 DEF Goes, Retask, Remade
  <2>. HIDE DEF first
  <2>7. TaskOK(w, u)
    <3>. DEFINE t == tasks[w]
    <3>1. TaskOK(w, t) /\ t.steps # <<>> /\ t.steps[1].do \in {"again", "memory"}
      BY <1>1
    <3>2. id \in Ids /\ clients \in Seq(Clients)
      BY <1>2, <2>2
    <3>. HIDE DEF id, clients, t, u
    <3>3. TaskOK(w, Retask(t, for, size, how, id, first, clients))
      BY <1>2, <2>2, <2>5, <3>1, <3>2, TakenTask
    <3>. QED  BY <3>3 DEF t, u
  <2>. HIDE DEF id, u
  <2>11. running' \in [Ids -> [Clients -> Maybe(Instances)]]
    BY <1>2, <2>2, <2>4, TypesOfInv DEF Maybe
  <2>12. \A i \in Ids, c \in Clients : running'[i][c] # None =>
              \/ running'[i][c].next = 0
              \/ running[i][c] # None /\ running'[i][c].next = running[i][c].next
    <3>1. running \in [Ids -> [Clients -> Maybe(Instances)]]
      BY TypesOfInv
    <3>2. ASSUME NEW i \in Ids, NEW c \in Clients
          PROVE  running'[i][c] = None \/ running'[i][c] = running[i][c]
      BY <3>1, <1>2, <2>2, <2>4
    <3>. QED  BY <3>2
  <2>13. bridge' \in Bridges /\ toPlugins' \in Seq(SUBSET Ids) /\ screen' \in Screens
         /\ cache' \in Maybe(Versions)
    BY <2>4, TypesOfInv
  <2>. QED  BY <1>2, <2>4, <2>6, <2>7, <2>11, <2>12, <2>13, TaskStepKeeps
<1>. QED  BY <1>3, <1>4

LEMMA ReloadFirstKeeps ==
    ASSUME TypeInv, NEW w \in Workers, ReloadFirst(w) \/ ReloadFromMemory(w)
    PROVE  TypeInv'
<1>1. CASE ReloadFirst(w)
  <2>1. Busy(w) /\ Current(w).do \in {"again", "memory"} /\ TakeOut(w, "reload", "compile")
    BY <1>1 DEF ReloadFirst, Does
  <2>. QED  BY <2>1, TakeOutKeeps
<1>2. CASE ReloadFromMemory(w)
  <2>1. Busy(w) /\ Current(w).do \in {"again", "memory"} /\ TakeOut(w, "others", "take")
    BY <1>2 DEF ReloadFromMemory, Does
  <2>. QED  BY <2>1, TakeOutKeeps
<1>. QED  BY <1>1, <1>2

LEMMA LoadedKeeps ==
    ASSUME TypeInv, NEW w \in Workers, Loaded(w)
    PROVE  TypeInv'
<1>1. Busy(w) /\ Current(w).do = "loaded"
      /\ screen' = [screen EXCEPT !.asked = TRUE, !.failed = @ \ {Current(w).id}]
      /\ Goes(w, Rest(w))
      /\ UNCHANGED <<bridge, running, cache, file, toPlugins, requests>>
  BY DEF Loaded, Does
<1>2. /\ TaskOK(w, tasks[w]) /\ tasks[w].steps # <<>>
      /\ tasks[w].steps[1].do = "loaded" /\ Rest(w) = Next1(tasks[w]) /\ StepOK(w, Current(w))
  BY <1>1, CurrentFacts
<1>3. w # Main
  BY <1>1, <1>2 DEF StepOK
<1>4. TaskOK(w, Next1(tasks[w]))
  BY <1>2, TaskGoesOn DEF Making
<1>5. tasks' = [tasks EXCEPT ![w] = Next1(tasks[w])]
  BY <1>1, <1>2 DEF Goes
<1>6. screen' \in Screens /\ screen'.now = screen.now
  BY <1>1, TypesOfInv DEF Screens
<1>7. \A id \in Ids, c \in Clients : running'[id][c] # None =>
              \/ running'[id][c].next = 0
              \/ running[id][c] # None /\ running'[id][c].next = running[id][c].next
  BY <1>1
<1>8. running' \in [Ids -> [Clients -> Maybe(Instances)]] /\ toPlugins' \in Seq(SUBSET Ids)
      /\ bridge' \in Bridges /\ cache' \in Maybe(Versions)
      /\ bridge'.connected = bridge.connected
      /\ bridge'.sizes = bridge.sizes /\ bridge'.pending = bridge.pending
  BY <1>1, TypesOfInv
<1>. QED  BY <1>1, <1>3, <1>4, <1>5, <1>6, <1>7, <1>8, TaskStepKeeps

LEMMA DoneKeeps ==
    ASSUME TypeInv, NEW w \in Workers, Done(w)
    PROVE  TypeInv'
<1>. DEFINE u == Task("client", {}, None, <<>>)
<1>1. toPlugins' = Append(toPlugins, tasks[w].ids)
      /\ tasks' = [tasks EXCEPT ![w] = u]
      /\ UNCHANGED <<bridge, running, cache, file, screen, requests>>
  BY DEF Done, Goes
<1>2. TaskOK(w, u) /\ u.steps = <<>>
  BY IdleTask DEF Task
<1>3. tasks[w].ids \in SUBSET Ids
  BY TypesOfInv, TaskFields
<1>4. toPlugins' \in Seq(SUBSET Ids)
  BY <1>1, <1>3, TypesOfInv
<1>. HIDE DEF u
<1>7. \A id \in Ids, c \in Clients : running'[id][c] # None =>
              \/ running'[id][c].next = 0
              \/ running[id][c] # None /\ running'[id][c].next = running[id][c].next
  BY <1>1
<1>8. running' \in [Ids -> [Clients -> Maybe(Instances)]] /\ screen' \in Screens
      /\ bridge' \in Bridges /\ cache' \in Maybe(Versions)
      /\ bridge'.connected = bridge.connected /\ screen'.now = screen.now
      /\ bridge'.sizes = bridge.sizes /\ bridge'.pending = bridge.pending
  BY <1>1, TypesOfInv
<1>. QED  BY <1>1, <1>2, <1>4, <1>7, <1>8, TaskStepKeeps

LEMMA AppendNew ==
    ASSUME NEW S, NEW q \in Seq(S), IsInjective(q), NEW c \in S, c \notin ToSet(q),
           NEW r, r = Append(q, c)
    PROVE  r \in Seq(S) /\ IsInjective(r) /\ ToSet(r) = ToSet(q) \cup {c}
<1>1. /\ r \in Seq(S) /\ Len(q) \in Nat /\ Len(r) = Len(q) + 1 /\ r[Len(q) + 1] = c
      /\ \A i \in 1 .. Len(q) : r[i] = q[i]
      /\ DOMAIN r = 1 .. Len(q) + 1 /\ DOMAIN q = 1 .. Len(q)
  OBVIOUS
<1>2. \A i \in 1 .. Len(q) : r[i] # c
  BY <1>1 DEF ToSet
<1>3. ASSUME NEW i \in 1 .. Len(q) + 1, NEW j \in 1 .. Len(q) + 1, r[i] = r[j]
      PROVE  i = j
  <2>1. CASE i \in 1 .. Len(q) /\ j \in 1 .. Len(q)
    BY <2>1, <1>1, <1>3 DEF IsInjective
  <2>2. CASE ~(i \in 1 .. Len(q) /\ j \in 1 .. Len(q))
    BY <2>2, <1>1, <1>2, <1>3
  <2>. QED  BY <2>1, <2>2
<1>4. IsInjective(r)
  BY <1>1, <1>3 DEF IsInjective
<1>5. ToSet(r) = ToSet(q) \cup {c}
  <2>1. \A x \in ToSet(r) : x \in ToSet(q) \cup {c}
    BY <1>1 DEF ToSet
  <2>2. \A x \in ToSet(q) : x \in ToSet(r)
    BY <1>1 DEF ToSet
  <2>3. c \in ToSet(r)
    BY <1>1 DEF ToSet
  <2>. QED  BY <2>1, <2>2, <2>3
<1>. QED  BY <1>1, <1>4, <1>5

LEMMA PushKeeps ==
    ASSUME TypeInv, Push
    PROVE  TypeInv'
<1>. DEFINE u == Task("client", {}, None, <<>>)
            c == Current(Main).client
<1>0. Main \in Workers
  BY DEF Workers
<1>1. /\ Busy(Main) /\ Current(Main).do = "push"
      /\ bridge' = [bridge EXCEPT !.connected = Append(@, c)]
      /\ screen' = [screen EXCEPT !.asked = TRUE]
      /\ tasks' = [tasks EXCEPT ![Main] = u]
      /\ UNCHANGED <<running, cache, file, toPlugins, requests>>
  BY DEF Push, Does, Goes
<1>2. /\ tasks[Main].steps # <<>> /\ tasks[Main] \in Tasks
      /\ Current(Main) = tasks[Main].steps[1] /\ StepOK(Main, Current(Main))
  BY <1>0, <1>1, CurrentFacts
<1>3. c \in Clients
  BY <1>1, <1>2, StepIds DEF OfClient
<1>4. c \notin Connected
  <2>1. 1 \in 1 .. Len(tasks[Main].steps)
    BY <1>2, TaskFields, NotEmpty
  <2>. QED  BY <2>1, <1>1, <1>2, TypesOfInv DEF NewcomerIsNotListed
<1>5. bridge.connected \in Seq(Clients) /\ IsInjective(bridge.connected)
  BY TypesOfInv, BridgeFields
<1>. HIDE DEF c
<1>6. Append(bridge.connected, c) \in Seq(Clients) /\ IsInjective(Append(bridge.connected, c))
  <2>. DEFINE p == bridge.connected
              r == Append(p, c)
  <2>1. p \in Seq(Clients) /\ IsInjective(p) /\ c \notin ToSet(p) /\ r = Append(p, c)
    BY <1>4, <1>5 DEF Connected
  <2>. HIDE DEF p, r
  <2>2. r \in Seq(Clients) /\ IsInjective(r)
    BY <1>3, <2>1, AppendNew
  <2>. QED  BY <2>2 DEF p, r
<1>7. /\ bridge' \in Bridges /\ IsInjective(bridge'.connected)
      /\ bridge'.sizes = bridge.sizes /\ bridge'.pending = bridge.pending
  BY <1>1, <1>6, TypesOfInv DEF Bridges
<1>8. screen' \in Screens /\ screen'.now = screen.now
  BY <1>1, TypesOfInv DEF Screens
<1>9. TaskOK(Main, u) /\ u.steps = <<>>
  BY IdleTask DEF Task
<1>. HIDE DEF u
<1>10. tasks' \in [Workers -> Tasks] /\ \A v \in Workers : TaskOK(v, tasks'[v])
  BY <1>0, <1>1, <1>9, TaskReplaced
<1>11. NewcomerIsNotListed'
  <2>1. tasks'[Main].steps = <<>>
    BY <1>0, <1>1, <1>9, TypesOfInv
  <2>. QED  BY <2>1 DEF NewcomerIsNotListed
<1>12. Bounds'
  BY <1>1, <1>7, <1>8, BoundsStay
<1>13. TypeOK'
  BY <1>1, <1>7, <1>8, <1>10, TypesOfInv DEF TypeOK
<1>. QED  BY <1>10, <1>11, <1>12, <1>13 DEF TypeInv

----------------------------------------------------------------------------
(* What else happens                                                       *)

LEMMA TasksStay ==
    ASSUME TypeInv, tasks' = tasks, ToSet(bridge'.connected) \subseteq Connected
    PROVE  /\ tasks' \in [Workers -> Tasks] /\ \A v \in Workers : TaskOK(v, tasks'[v])
           /\ NewcomerIsNotListed'
<1>1. Connected' \subseteq Connected
  BY DEF Connected
<1>. QED  BY <1>1, TypesOfInv DEF NewcomerIsNotListed

KeptIn(b, id) == IF b.sizes[id] = None THEN 0 ELSE 1
PutOffIn(b) == IF b.pending THEN 1 ELSE 0

LEMMA KeptFacts ==
    /\ \A b, id : KeptIn(b, id) \in 0 .. 1
    /\ \A b : PutOffIn(b) \in 0 .. 1
    /\ \A id : Kept(id) = KeptIn(bridge, id) /\ Kept(id)' = KeptIn(bridge', id)
    /\ PutOff = PutOffIn(bridge) /\ PutOff' = PutOffIn(bridge')
BY DEF KeptIn, PutOffIn, Kept, PutOff

(* What is kept, put off and given out grows with the requests.            *)
LEMMA BoundsGrow ==
    ASSUME TypeInv, NEW k \in 0 .. 1, requests' = requests + k,
           \A id \in Ids : KeptIn(bridge', id) + PutOffIn(bridge')
                             <= KeptIn(bridge, id) + PutOffIn(bridge) + k,
           \A id \in Ids, c \in Clients : running'[id][c] # None =>
               /\ running[id][c] # None /\ running'[id][c].next \in Nat
               /\ running'[id][c].next + KeptIn(bridge', id) + PutOffIn(bridge')
                    <= running[id][c].next + KeptIn(bridge, id) + PutOffIn(bridge) + k,
           screen'.now \in Nat, screen'.now <= screen.now + k, file' \in Nat, file' <= file + k
    PROVE  Bounds'
<1>1. /\ requests \in Nat /\ screen.now \in Nat /\ file \in Nat
      /\ \A id \in Ids : KeptIn(bridge, id) + PutOffIn(bridge) <= requests
      /\ \A id \in Ids, c \in Clients : running[id][c] # None =>
            running[id][c].next + KeptIn(bridge, id) + PutOffIn(bridge) <= requests
      /\ screen.now <= requests /\ file <= requests + 1
  <2>1. requests \in Nat /\ screen.now \in Nat /\ file \in Nat
    BY TypesOfInv, ScreenFields, PluginsAssumption DEF News, Versions
  <2>. QED  BY <2>1, KeptFacts, TypesOfInv DEF Bounds
<1>2. \A id \in Ids, c \in Clients : running[id][c] # None => running[id][c].next \in Nat
  <2>1. ASSUME NEW id \in Ids, NEW c \in Clients, running[id][c] # None
        PROVE  running[id][c] \in Instances
    BY <2>1, TypesOfInv DEF Maybe
  <2>. QED  BY <2>1, InstanceFields, PluginsAssumption DEF EventIds
<1>3. ASSUME NEW id \in Ids
      PROVE  KeptIn(bridge', id) + PutOffIn(bridge') <= requests'
  BY <1>1, KeptFacts
<1>4. ASSUME NEW id \in Ids, NEW c \in Clients, running'[id][c] # None
      PROVE  running'[id][c].next + KeptIn(bridge', id) + PutOffIn(bridge') <= requests'
  <2>1. /\ KeptIn(bridge', id) \in Nat /\ KeptIn(bridge, id) \in Nat
        /\ PutOffIn(bridge') \in Nat /\ PutOffIn(bridge) \in Nat
        /\ running[id][c].next \in Nat /\ running'[id][c].next \in Nat
        /\ running[id][c].next + KeptIn(bridge, id) + PutOffIn(bridge) <= requests
    BY <1>1, <1>2, <1>4, KeptFacts
  <2>2. running'[id][c].next + KeptIn(bridge', id) + PutOffIn(bridge')
           <= running[id][c].next + KeptIn(bridge, id) + PutOffIn(bridge) + k
    BY <1>4
  <2>. QED  BY <1>1, <2>1, <2>2
<1>5. screen'.now <= requests' /\ file' <= requests' + 1
  BY <1>1
<1>. QED  BY <1>3, <1>4, <1>5, KeptFacts DEF Bounds

LEMMA OneInstance ==
    ASSUME TypeInv, NEW id \in Ids, NEW c \in Clients, running[id][c] # None,
           NEW i \in Instances, i.next = running[id][c].next,
           running' = [running EXCEPT ![id][c] = i],
           UNCHANGED <<bridge, cache, file, tasks, toPlugins, screen, requests>>
    PROVE  TypeInv'
<1>1. running' \in [Ids -> [Clients -> Maybe(Instances)]]
  BY TypesOfInv DEF Maybe
<1>2. \A d \in Ids, e \in Clients : running'[d][e] # None =>
              \/ running'[d][e].next = 0
              \/ running[d][e] # None /\ running'[d][e].next = running[d][e].next
  <2>1. ASSUME NEW d \in Ids, NEW e \in Clients
        PROVE  running'[d][e] = IF d = id /\ e = c THEN i ELSE running[d][e]
    BY TypesOfInv
  <2>. QED  BY <2>1
<1>3. Bounds'
  BY <1>2, BoundsStay
<1>4. /\ tasks' \in [Workers -> Tasks] /\ \A v \in Workers : TaskOK(v, tasks'[v])
      /\ NewcomerIsNotListed'
  <2>1. ToSet(bridge'.connected) \subseteq Connected
    BY DEF Connected
  <2>. QED  BY <2>1, TasksStay
<1>5. TypeOK'
  BY <1>1, TypesOfInv DEF TypeOK
<1>. QED  BY <1>3, <1>4, <1>5 DEF TypeInv

LEMMA InstanceAt ==
    ASSUME TypeInv, NEW id \in Ids, NEW c \in Clients, running[id][c] # None
    PROVE  running[id][c] \in Instances
BY TypesOfInv DEF Maybe

LEMMA TellsNewsKeeps ==
    ASSUME TypeInv, NEW id \in Ids, NEW c \in Clients, TellsNews(id, c)
    PROVE  TypeInv'
<1>1. PICK news \in running[id][c].news :
         running' = [running EXCEPT ![id][c].news = @ \ {news}, ![id][c].told = news]
  BY DEF TellsNews
<1>2. running[id][c] # None /\ UNCHANGED <<bridge, cache, file, tasks, toPlugins, screen, requests>>
  BY DEF TellsNews
<1>3. running[id][c] \in Instances
  BY <1>2, InstanceAt
<1>. DEFINE i == [running[id][c] EXCEPT !.news = @ \ {news}, !.told = news]
<1>4. i \in Instances /\ i.next = running[id][c].next
  BY <1>3 DEF Instances
<1>5. running' = [running EXCEPT ![id][c] = i]
  BY <1>1, TypesOfInv
<1>. HIDE DEF i
<1>. QED  BY <1>2, <1>4, <1>5, OneInstance

LEMMA TriedType ==
    ASSUME NEW i \in Instances, NEW r \in i.resizes
    PROVE  Tried(i, r) \in Instances /\ Tried(i, r).next = i.next
<1>. DEFINE left == [i EXCEPT !.resizes = i.resizes \ {r}]
            taken == [left EXCEPT !.size = r[2], !.last = r[1]]
<1>1. r[1] \in EventIds /\ r[2] \in Sizes
  BY InstanceFields
<1>2. left \in Instances /\ left.next = i.next
  BY DEF Instances
<1>3. taken \in Instances /\ taken.next = i.next
  <2>. HIDE DEF left
  <2>. QED  BY <1>1, <1>2 DEF Instances
<1>4. Tried(i, r) = taken \/ Tried(i, r) = left
  BY DEF Tried
<1>. HIDE DEF left, taken
<1>. QED  BY <1>2, <1>3, <1>4

LEMMA ResizesKeeps ==
    ASSUME TypeInv, NEW id \in Ids, NEW c \in Clients, Resizes(id, c)
    PROVE  TypeInv'
<1>1. PICK r \in running[id][c].resizes :
         running' = [running EXCEPT ![id][c] = Tried(running[id][c], r)]
  BY DEF Resizes
<1>2. running[id][c] # None /\ UNCHANGED <<bridge, cache, file, tasks, toPlugins, screen, requests>>
  BY DEF Resizes
<1>3. running[id][c] \in Instances
  BY <1>2, InstanceAt
<1>4. Tried(running[id][c], r) \in Instances
      /\ Tried(running[id][c], r).next = running[id][c].next
  BY <1>3, TriedType
<1>. QED  BY <1>1, <1>2, <1>4, OneInstance

LEMMA RemoveClientKeeps ==
    ASSUME TypeInv, NEW c \in Clients, RemoveClient(c)
    PROVE  TypeInv'
<1>1. /\ bridge' = [bridge EXCEPT !.connected = Others(@, c)]
      /\ requests < MaxRequests /\ requests' = requests + 1
      /\ UNCHANGED <<running, cache, file, tasks, toPlugins, screen>>
  BY DEF RemoveClient, Requested
<1>2. bridge.connected \in Seq(Clients) /\ IsInjective(bridge.connected)
  BY TypesOfInv, BridgeFields
<1>. DEFINE left == Others(bridge.connected, c)
<1>3. left \in Seq(Clients) /\ IsInjective(left) /\ ToSet(left) \subseteq Connected
  BY <1>2, OthersFacts DEF Connected
<1>4. bridge' = [bridge EXCEPT !.connected = left]
  BY <1>1
<1>. HIDE DEF left
<1>5. /\ bridge' \in Bridges /\ bridge'.connected = left
      /\ bridge'.sizes = bridge.sizes /\ bridge'.pending = bridge.pending
  BY <1>3, <1>4, TypesOfInv DEF Bridges
<1>6. /\ tasks' \in [Workers -> Tasks] /\ \A v \in Workers : TaskOK(v, tasks'[v])
      /\ NewcomerIsNotListed'
  BY <1>1, <1>3, <1>5, TasksStay
<1>7. Bounds'
  <2>1. requests \in Nat /\ screen.now \in Nat /\ file \in Nat
    BY TypesOfInv, ScreenFields, PluginsAssumption DEF News, Versions
  <2>2. \A id \in Ids : KeptIn(bridge', id) = KeptIn(bridge, id)
    BY <1>5 DEF KeptIn
  <2>3. PutOffIn(bridge') = PutOffIn(bridge)
    BY <1>5 DEF PutOffIn
  <2>4. \A id \in Ids, d \in Clients : running[id][d] # None => running[id][d].next \in Nat
    BY InstanceAt, InstanceFields, PluginsAssumption DEF EventIds
  <2>5. /\ \A id \in Ids : KeptIn(bridge', id) + PutOffIn(bridge')
                             <= KeptIn(bridge, id) + PutOffIn(bridge) + 1
        /\ \A id \in Ids, d \in Clients : running'[id][d] # None =>
               /\ running[id][d] # None /\ running'[id][d].next \in Nat
               /\ running'[id][d].next + KeptIn(bridge', id) + PutOffIn(bridge')
                    <= running[id][d].next + KeptIn(bridge, id) + PutOffIn(bridge) + 1
    BY <1>1, <2>2, <2>3, <2>4, KeptFacts
  <2>6. screen'.now \in Nat /\ screen'.now <= screen.now + 1 /\ file' \in Nat /\ file' <= file + 1
    BY <1>1, <2>1
  <2>. QED  BY <1>1, <2>5, <2>6, BoundsGrow
<1>8. requests' \in 0 .. MaxRequests
  BY <1>1, TypesOfInv, PluginsAssumption
<1>9. TypeOK'
  BY <1>1, <1>3, <1>5, <1>8, TypesOfInv DEF TypeOK
<1>. QED  BY <1>6, <1>7, <1>9 DEF TypeInv

LEMMA NumberFacts ==
    ASSUME TypeInv
    PROVE  /\ requests \in Nat /\ MaxRequests \in Nat /\ requests <= MaxRequests
           /\ screen.now \in Nat /\ screen.now <= requests
           /\ file \in Nat /\ file >= 1 /\ file <= requests + 1
           /\ \A id \in Ids, c \in Clients : running[id][c] # None =>
                 /\ running[id][c].next \in Nat
                 /\ running[id][c].next + KeptIn(bridge, id) + PutOffIn(bridge) <= requests
<1>1. /\ requests \in Nat /\ MaxRequests \in Nat /\ requests <= MaxRequests
      /\ screen.now \in Nat /\ file \in Nat /\ file >= 1
  BY TypesOfInv, ScreenFields, PluginsAssumption DEF News, Versions
<1>2. \A id \in Ids, c \in Clients : running[id][c] # None => running[id][c].next \in Nat
  BY InstanceAt, InstanceFields, PluginsAssumption DEF EventIds
<1>. QED  BY <1>1, <1>2, KeptFacts, TypesOfInv DEF Bounds

LEMMA RequestedFacts ==
    ASSUME TypeInv, Requested
    PROVE  /\ requests' = requests + 1 /\ requests' \in 0 .. MaxRequests
           /\ screen.now + 1 \in News /\ file + 1 \in Versions /\ tasks[Main].steps = <<>>
           /\ \A id \in Ids, c \in Clients :
                 running[id][c] # None => running[id][c].next + 1 \in EventIds
<1>1. requests' = requests + 1 /\ requests < MaxRequests /\ tasks[Main].steps = <<>>
  BY DEF Requested, MainIsIdle, Busy
<1>2. requests' \in 0 .. MaxRequests /\ screen.now + 1 \in News /\ file + 1 \in Versions
  BY <1>1, NumberFacts DEF News, Versions
<1>3. ASSUME NEW id \in Ids, NEW c \in Clients, running[id][c] # None
      PROVE  running[id][c].next + 1 \in EventIds
  <2>1. running[id][c].next \in Nat
        /\ running[id][c].next + KeptIn(bridge, id) + PutOffIn(bridge) <= requests
    BY <1>3, NumberFacts
  <2>. DEFINE n == running[id][c].next
              k == KeptIn(bridge, id)
              p == PutOffIn(bridge)
  <2>2. n \in Nat /\ k \in Nat /\ p \in Nat /\ n + k + p <= requests
    BY <2>1, KeptFacts
  <2>3. requests \in Nat /\ MaxRequests \in Nat /\ requests < MaxRequests
    BY <1>1, NumberFacts
  <2>. HIDE DEF n, k, p
  <2>4. n + 1 \in 0 .. 2 * MaxRequests
    BY <2>2, <2>3
  <2>. QED  BY <2>4 DEF n, EventIds
<1>. QED  BY <1>1, <1>2, <1>3

LEMMA BoundsSlack ==
    ASSUME TypeInv, NEW k \in 0 .. 1, requests' = requests + k,
           bridge'.sizes = bridge.sizes, bridge'.pending = bridge.pending,
           \A id \in Ids, c \in Clients : running'[id][c] # None =>
               running[id][c] # None /\ running'[id][c].next = running[id][c].next,
           screen'.now \in Nat, screen'.now <= screen.now + k, file' \in Nat, file' <= file + k
    PROVE  Bounds'
<1>1. \A id \in Ids : KeptIn(bridge', id) = KeptIn(bridge, id)
  BY DEF KeptIn
<1>2. PutOffIn(bridge') = PutOffIn(bridge)
  BY DEF PutOffIn
<1>3. \A id \in Ids : KeptIn(bridge', id) + PutOffIn(bridge')
                             <= KeptIn(bridge, id) + PutOffIn(bridge) + k
  BY <1>1, <1>2, KeptFacts
<1>4. ASSUME NEW id \in Ids, NEW c \in Clients, running'[id][c] # None
      PROVE  /\ running[id][c] # None /\ running'[id][c].next \in Nat
             /\ running'[id][c].next + KeptIn(bridge', id) + PutOffIn(bridge')
                  <= running[id][c].next + KeptIn(bridge, id) + PutOffIn(bridge) + k
  BY <1>1, <1>2, <1>4, KeptFacts, NumberFacts
<1>. QED  BY <1>3, <1>4, BoundsGrow

LEMMA UnloadKeeps ==
    ASSUME TypeInv, NEW id \in Ids, Unload(id)
    PROVE  TypeInv'
<1>1. /\ running' = [running EXCEPT ![id] = [c \in Clients |-> None]]
      /\ screen' = [screen EXCEPT !.open = @ \ {id}] /\ Requested
      /\ UNCHANGED <<bridge, cache, file, tasks, toPlugins>>
  BY DEF Unload
<1>2. requests' = requests + 1 /\ requests' \in 0 .. MaxRequests
  BY <1>1, RequestedFacts
<1>3. screen' \in Screens /\ screen'.now = screen.now
  BY <1>1, TypesOfInv DEF Screens
<1>4. /\ running' \in [Ids -> [Clients -> Maybe(Instances)]]
      /\ \A d \in Ids, c \in Clients : running'[d][c] # None => running'[d][c] = running[d][c]
  <2>1. [c \in Clients |-> None] \in [Clients -> Maybe(Instances)]
    BY DEF Maybe
  <2>. QED  BY <1>1, <2>1, TypesOfInv
<1>5. /\ tasks' \in [Workers -> Tasks] /\ \A v \in Workers : TaskOK(v, tasks'[v])
      /\ NewcomerIsNotListed'
  <2>1. ToSet(bridge'.connected) \subseteq Connected
    BY <1>1 DEF Connected
  <2>. QED  BY <1>1, <2>1, TasksStay
<1>6. Bounds'
  <2>1. screen'.now \in Nat /\ screen'.now <= screen.now + 1 /\ file' \in Nat /\ file' <= file + 1
    BY <1>1, <1>3, NumberFacts
  <2>2. \A d \in Ids, c \in Clients : running'[d][c] # None =>
           running[d][c] # None /\ running'[d][c].next = running[d][c].next
    BY <1>4
  <2>. QED  BY <1>1, <1>2, <2>1, <2>2, BoundsSlack
<1>7. TypeOK'
  BY <1>1, <1>2, <1>3, <1>4, <1>5, TypesOfInv DEF TypeOK
<1>. QED  BY <1>5, <1>6, <1>7 DEF TypeInv

LEMMA LoadPluginKeeps ==
    ASSUME TypeInv, Requested, NEW id \in Ids, NEW c \in Clients, LoadPlugin(id, c),
           UNCHANGED <<running, cache, toPlugins>>, file' \in {file, file + 1}
    PROVE  TypeInv'
<1>. DEFINE q == <<Step("load", id, c), Step("put", id, c), Step("clone", id, c),
                   Step("loaded", id, None), Step("done", None, None)>>
            u == Task("start", {id}, screen.size[id], q)
            size == screen.size[id]
<1>1. /\ tasks' = [tasks EXCEPT ![id] = u]
      /\ bridge' = [bridge EXCEPT !.loading = @ \cup {id}, !.events[id] = {}, !.sizes[id] = size]
      /\ screen' = [screen EXCEPT !.open = @ \cup {id}, !.given = @ \cup {id}]
  BY DEF LoadPlugin
<1>2. /\ requests' = requests + 1 /\ requests' \in 0 .. MaxRequests
      /\ file + 1 \in Versions /\ tasks[Main].steps = <<>>
  BY RequestedFacts
<1>3. size \in Sizes /\ size # None /\ size \in Maybe(Sizes)
  BY TypesOfInv, ScreenFields, NoneIsNone DEF Maybe
<1>4. Line(id, q) /\ q # <<>> /\ q[1].do = "load"
  BY StartLine
<1>. HIDE DEF q, size
<1>5. TaskOK(id, u)
  <2>1. {id} \in SUBSET Ids /\ "start" \in {"start", "reload", "others", "client"}
    OBVIOUS
  <2>2. /\ q[1].do # "put" /\ q[1].do = "load" => size # None
        /\ q[1].do \notin {"compile", "take"}
    BY <1>3, <1>4
  <2>3. TaskOK(id, Task("start", {id}, size, q))
    BY <1>3, <1>4, <2>1, <2>2, TaskBegins
  <2>. QED  BY <2>3 DEF size
<1>. HIDE DEF u
<1>6. id \in Workers /\ id # Main /\ Main \in Workers
  BY NoneIsNone DEF Workers
<1>7. tasks' \in [Workers -> Tasks] /\ \A v \in Workers : TaskOK(v, tasks'[v])
  BY <1>1, <1>5, <1>6, TaskReplaced
<1>8. NewcomerIsNotListed'
  <2>1. tasks'[Main].steps = <<>>
    BY <1>1, <1>2, <1>6, TypesOfInv
  <2>. QED  BY <2>1 DEF NewcomerIsNotListed
<1>9. /\ bridge' \in Bridges /\ bridge'.connected = bridge.connected
      /\ bridge'.pending = bridge.pending /\ bridge'.sizes = [bridge.sizes EXCEPT ![id] = size]
  <2>1. {} \in Maybe(SUBSET News)
    BY DEF Maybe
  <2>. QED  BY <1>1, <1>3, <2>1, TypesOfInv DEF Bridges
<1>10. screen' \in Screens /\ screen'.now = screen.now
  BY <1>1, TypesOfInv DEF Screens
<1>11. Bounds'
  <2>1. PutOffIn(bridge') = PutOffIn(bridge)
    BY <1>9 DEF PutOffIn
  <2>2. \A d \in Ids : KeptIn(bridge', d) + PutOffIn(bridge')
                         <= KeptIn(bridge, d) + PutOffIn(bridge) + 1
    BY <2>1, KeptFacts
  <2>3. \A d \in Ids, e \in Clients : running'[d][e] # None =>
               /\ running[d][e] # None /\ running'[d][e].next \in Nat
               /\ running'[d][e].next + KeptIn(bridge', d) + PutOffIn(bridge')
                    <= running[d][e].next + KeptIn(bridge, d) + PutOffIn(bridge) + 1
    BY <2>1, <2>2, KeptFacts, NumberFacts
  <2>4. screen'.now \in Nat /\ screen'.now <= screen.now + 1 /\ file' \in Nat /\ file' <= file + 1
    BY <1>10, NumberFacts
  <2>. QED  BY <1>2, <2>2, <2>3, <2>4, BoundsGrow
<1>12. TypeOK'
  <2>1. file' \in Versions
    BY <1>2, TypesOfInv
  <2>. QED  BY <2>1, <1>2, <1>7, <1>9, <1>10, TypesOfInv DEF TypeOK
<1>. QED  BY <1>7, <1>8, <1>11, <1>12 DEF TypeInv

LEMMA InOrder ==
    ASSUME NEW S, IsFiniteSet(S), NEW f \in SetToSeqs(S)
    PROVE  /\ Cardinality(S) \in Nat /\ f \in [1 .. Cardinality(S) -> S] /\ f \in Seq(S)
           /\ Len(f) = Cardinality(S) /\ ToSet(f) = S
           /\ S # {} => f # <<>> /\ Len(f) > 0
<1>. DEFINE n == Cardinality(S)
<1>1. n \in Nat /\ (S # {} => n > 0)
  <2>1. n \in Nat
    BY FS_CardinalityType
  <2>2. n = 0 <=> S = {}
    BY FS_EmptySet
  <2>. QED  BY <2>1, <2>2
<1>2. f \in [1 .. n -> S] /\ \A i, j \in 1 .. n : i # j => f[i] # f[j]
  BY DEF SetToSeqs
<1>3. f \in Seq(S) /\ Len(f) = n /\ DOMAIN f = 1 .. n
  <2>. HIDE DEF n
  <2>. QED  BY <1>1, <1>2
<1>4. f \in Surjection(1 .. n, S)
  <2>1. f \in Injection(1 .. n, S)
    BY <1>2 DEF Injection, IsInjective
  <2>2. Cardinality(1 .. n) = n
    BY <1>1, FS_Interval
  <2>. QED  BY <2>1, <2>2, FS_Injection
<1>5. ToSet(f) = S
  BY <1>2, <1>3, <1>4 DEF ToSet, Surjection
<1>. QED  BY <1>1, <1>2, <1>3, <1>5, NotEmpty

LEMMA AddClientKeeps ==
    ASSUME TypeInv, NEW c \in Clients, AddClient(c)
    PROVE  TypeInv'
<1>. DEFINE q(order) == FlattenSeq([i \in DOMAIN order |-> <<Step("copy", order[i], c),
                                                             Step("put", order[i], c)>>])
                          \o <<Step("push", None, c)>>
<1>1. /\ Requested /\ c \notin Connected
      /\ UNCHANGED <<bridge, running, cache, file, toPlugins, screen>>
  BY DEF AddClient
<1>2. PICK order \in SetToSeqs(RunningIn(running)) :
         tasks' = [tasks EXCEPT ![Main] = Task("client", {}, None, q(order))]
  BY DEF AddClient
<1>3. RunningIn(running) \in SUBSET Ids /\ IsFiniteSet(RunningIn(running))
  <2>1. RunningIn(running) \in SUBSET Ids
    BY DEF RunningIn, InstancesIn
  <2>. QED  BY <2>1, FS_Subset, PluginsAssumption
<1>. DEFINE n == Cardinality(RunningIn(running))
<1>4. n \in Nat /\ order \in [1 .. n -> Ids]
  BY <1>2, <1>3, InOrder
<1>5. /\ Line(Main, q(order)) /\ q(order) # <<>> /\ q(order)[1].do \in {"copy", "push"}
      /\ \A i \in 1 .. Len(q(order)) : q(order)[i].do = "push" => q(order)[i].client = c
  <2>. HIDE DEF n
  <2>. QED  BY <1>4, ClientLine
<1>. DEFINE p == q(order)
            u == Task("client", {}, None, p)
<1>6. /\ Line(Main, p) /\ p # <<>> /\ p[1].do \in {"copy", "push"}
      /\ \A i \in 1 .. Len(p) : p[i].do = "push" => p[i].client = c
      /\ tasks' = [tasks EXCEPT ![Main] = u]
  BY <1>2, <1>5
<1>. HIDE DEF p
<1>7. TaskOK(Main, u) /\ u.steps = p
  <2>. DEFINE for == "client"
              ids == {}
              size == None
  <2>1. Line(Main, p) /\ p # <<>> /\ p[1].do \in {"copy", "push"} /\ p \in Seq(Steps)
    BY <1>6 DEF Line, Part
  <2>2. /\ for \in {"start", "reload", "others", "client"} /\ ids \in SUBSET Ids
        /\ size \in Maybe(Sizes)
    BY DEF Maybe
  <2>3. u = Task(for, ids, size, p)
    OBVIOUS
  <2>. HIDE DEF for, ids, size, u
  <2>4. u \in Tasks /\ u.steps = p /\ u.module = None
    BY <2>1, <2>2, <2>3, TaskMade
  <2>. QED  BY <2>1, <2>4 DEF TaskOK
<1>. HIDE DEF u
<1>8. Main \in Workers
  BY DEF Workers
<1>9. tasks' \in [Workers -> Tasks] /\ \A v \in Workers : TaskOK(v, tasks'[v])
  BY <1>6, <1>7, <1>8, TaskReplaced
<1>10. NewcomerIsNotListed'
  <2>1. tasks'[Main].steps = p
    BY <1>6, <1>7, <1>8, TypesOfInv
  <2>2. c \notin Connected'
    BY <1>1 DEF Connected
  <2>. QED  BY <1>6, <2>1, <2>2 DEF NewcomerIsNotListed
<1>11. requests' = requests + 1 /\ requests' \in 0 .. MaxRequests
  BY <1>1, RequestedFacts
<1>12. Bounds'
  <2>1. screen'.now \in Nat /\ screen'.now <= screen.now + 1 /\ file' \in Nat /\ file' <= file + 1
    BY <1>1, NumberFacts
  <2>2. \A d \in Ids, e \in Clients : running'[d][e] # None =>
           running[d][e] # None /\ running'[d][e].next = running[d][e].next
    BY <1>1
  <2>. QED  BY <1>1, <1>11, <2>1, <2>2, BoundsSlack
<1>13. TypeOK'
  BY <1>1, <1>9, <1>11, TypesOfInv DEF TypeOK
<1>. QED  BY <1>9, <1>10, <1>12, <1>13 DEF TypeInv

LEMMA ToldType ==
    ASSUME NEW f \in [Clients -> Maybe(Instances)], NEW C, NEW news \in SUBSET News
    PROVE  /\ Told(f, C, news) \in [Clients -> Maybe(Instances)]
           /\ \A c \in Clients : Told(f, C, news)[c] # None =>
                f[c] # None /\ Told(f, C, news)[c].next = f[c].next
<1>. DEFINE told(i) == [i EXCEPT !.news = @ \cup news]
<1>1. ASSUME NEW i \in Instances
      PROVE  told(i) \in Instances /\ told(i).next = i.next
  BY DEF Instances
<1>2. Told(f, C, news) = [c \in Clients |-> IF f[c] = None \/ c \notin C THEN f[c] ELSE told(f[c])]
  BY DEF Told
<1>. HIDE DEF told
<1>3. ASSUME NEW c \in Clients, f[c] # None
      PROVE  f[c] \in Instances
  BY <1>3 DEF Maybe
<1>4. ASSUME NEW c \in Clients
      PROVE  /\ Told(f, C, news)[c] \in Maybe(Instances)
             /\ Told(f, C, news)[c] # None =>
                  f[c] # None /\ Told(f, C, news)[c].next = f[c].next
  <2>1. CASE f[c] = None
    BY <2>1, <1>2 DEF Maybe
  <2>2. CASE f[c] # None /\ c \notin C
    BY <2>2, <1>2
  <2>3. CASE f[c] # None /\ c \in C
    BY <2>3, <1>1, <1>2, <1>3 DEF Maybe
  <2>. QED  BY <2>1, <2>2, <2>3
<1>. QED  BY <1>2, <1>4

LEMMA ResizedType ==
    ASSUME NEW f \in [Clients -> Maybe(Instances)], NEW size \in Sizes,
           \A c \in Clients : f[c] # None => f[c].next + 1 \in EventIds
    PROVE  /\ Resized(f, size) \in [Clients -> Maybe(Instances)]
           /\ \A c \in Clients : Resized(f, size)[c] # None =>
                f[c] # None /\ Resized(f, size)[c].next = f[c].next + 1
<1>. DEFINE resized(i) == [i EXCEPT !.resizes = @ \cup {<<i.next, size>>}, !.next = @ + 1]
<1>1. ASSUME NEW i \in Instances, i.next + 1 \in EventIds
      PROVE  resized(i) \in Instances /\ resized(i).next = i.next + 1
  <2>1. i.resizes \cup {<<i.next, size>>} \in SUBSET (EventIds \X Sizes)
    BY InstanceFields
  <2>. QED  BY <1>1, <2>1 DEF Instances
<1>2. Resized(f, size) = [c \in Clients |-> IF f[c] = None THEN None ELSE resized(f[c])]
  BY DEF Resized
<1>. HIDE DEF resized
<1>3. ASSUME NEW c \in Clients, f[c] # None
      PROVE  f[c] \in Instances
  BY <1>3 DEF Maybe
<1>4. ASSUME NEW c \in Clients
      PROVE  /\ Resized(f, size)[c] \in Maybe(Instances)
             /\ Resized(f, size)[c] # None =>
                  f[c] # None /\ Resized(f, size)[c].next = f[c].next + 1
  <2>1. CASE f[c] = None
    BY <2>1, <1>2 DEF Maybe
  <2>2. CASE f[c] # None
    BY <2>2, <1>1, <1>2, <1>3 DEF Maybe
  <2>. QED  BY <2>1, <2>2
<1>. QED  BY <1>2, <1>4

LEMMA ResizePluginKeeps ==
    ASSUME TypeInv, NEW id \in Ids, NEW size \in Sizes, ResizePlugin(id, size)
    PROVE  TypeInv'
<1>1. /\ Requested /\ screen' = [screen EXCEPT !.size[id] = size]
      /\ UNCHANGED <<cache, file, tasks, toPlugins>>
  BY DEF ResizePlugin
<1>2. /\ requests' = requests + 1 /\ requests' \in 0 .. MaxRequests
      /\ \A d \in Ids, c \in Clients : running[d][c] # None => running[d][c].next + 1 \in EventIds
  BY <1>1, RequestedFacts
<1>3. screen' \in Screens /\ screen'.now = screen.now
  BY <1>1, TypesOfInv DEF Screens
<1>4. /\ bridge' \in Bridges /\ bridge'.connected = bridge.connected
      /\ bridge'.pending = bridge.pending
      /\ \A d \in Ids : bridge'.sizes[d] = None <=> bridge.sizes[d] = None
      /\ running' \in [Ids -> [Clients -> Maybe(Instances)]]
      /\ \A d \in Ids, c \in Clients : running'[d][c] # None =>
            /\ running[d][c] # None
            /\ running'[d][c].next \in {running[d][c].next, running[d][c].next + 1}
  <2>1. CASE bridge.sizes[id] = None
    <3>. DEFINE f == Resized(running[id], size)
    <3>1. running' = [running EXCEPT ![id] = f] /\ bridge' = bridge
      BY <2>1 DEF ResizePlugin
    <3>2. /\ f \in [Clients -> Maybe(Instances)]
          /\ \A c \in Clients : f[c] # None =>
               running[id][c] # None /\ f[c].next = running[id][c].next + 1
      BY <1>2, TypesOfInv, ResizedType
    <3>. HIDE DEF f
    <3>. QED  BY <3>1, <3>2, TypesOfInv
  <2>2. CASE bridge.sizes[id] # None
    <3>1. bridge' = [bridge EXCEPT !.sizes[id] = size] /\ running' = running
      BY <2>2 DEF ResizePlugin
    <3>2. size \in Maybe(Sizes) /\ size # None
      BY NoneIsNone DEF Maybe
    <3>3. /\ bridge' \in Bridges /\ bridge'.connected = bridge.connected
          /\ bridge'.pending = bridge.pending /\ bridge'.sizes = [bridge.sizes EXCEPT ![id] = size]
      BY <3>1, <3>2, TypesOfInv DEF Bridges
    <3>4. bridge.sizes \in [Ids -> Maybe(Sizes)]
      BY TypesOfInv, BridgeFields
    <3>5. \A d \in Ids : bridge'.sizes[d] = None <=> bridge.sizes[d] = None
      BY <2>2, <3>2, <3>3, <3>4
    <3>. QED  BY <3>1, <3>3, <3>5, TypesOfInv
  <2>. QED  BY <2>1, <2>2
<1>5. Bounds'
  <2>1. \A d \in Ids : KeptIn(bridge', d) = KeptIn(bridge, d)
    BY <1>4 DEF KeptIn
  <2>2. PutOffIn(bridge') = PutOffIn(bridge)
    BY <1>4 DEF PutOffIn
  <2>3. \A d \in Ids : KeptIn(bridge', d) + PutOffIn(bridge')
                         <= KeptIn(bridge, d) + PutOffIn(bridge) + 1
    BY <2>1, <2>2, KeptFacts
  <2>4. ASSUME NEW d \in Ids, NEW e \in Clients, running'[d][e] # None
        PROVE  /\ running[d][e] # None /\ running'[d][e].next \in Nat
               /\ running'[d][e].next + KeptIn(bridge', d) + PutOffIn(bridge')
                    <= running[d][e].next + KeptIn(bridge, d) + PutOffIn(bridge) + 1
    <3>1. running[d][e] # None /\ running[d][e].next \in Nat
          /\ running'[d][e].next \in {running[d][e].next, running[d][e].next + 1}
      BY <1>4, <2>4, NumberFacts
    <3>2. KeptIn(bridge, d) \in Nat /\ PutOffIn(bridge) \in Nat
      BY KeptFacts
    <3>. QED  BY <2>1, <2>2, <3>1, <3>2
  <2>5. screen'.now \in Nat /\ screen'.now <= screen.now + 1 /\ file' \in Nat /\ file' <= file + 1
    BY <1>1, <1>3, NumberFacts
  <2>. QED  BY <1>2, <2>3, <2>4, <2>5, BoundsGrow
<1>6. /\ tasks' \in [Workers -> Tasks] /\ \A v \in Workers : TaskOK(v, tasks'[v])
      /\ NewcomerIsNotListed'
  <2>1. ToSet(bridge'.connected) \subseteq Connected
    BY <1>4 DEF Connected
  <2>. QED  BY <1>1, <2>1, TasksStay
<1>7. TypeOK'
  BY <1>1, <1>2, <1>3, <1>4, <1>6, TypesOfInv DEF TypeOK
<1>. QED  BY <1>5, <1>6, <1>7 DEF TypeInv

LEMMA UpdatePluginsKeeps ==
    ASSUME TypeInv, NEW k \in 0 .. 1, requests' = requests + k, requests' \in 0 .. MaxRequests,
           NEW news \in News, UpdatePlugins(news),
           screen' \in Screens, screen'.now <= screen.now + k
    PROVE  TypeInv'
<1>. DEFINE events == [id \in Ids |-> IF bridge.events[id] = None THEN None
                                      ELSE bridge.events[id] \cup {news}]
<1>1. /\ running' = [id \in Ids |-> IF bridge.events[id] # None THEN running[id]
                                    ELSE Told(running[id], Clients, {news})]
      /\ bridge' = [bridge EXCEPT !.events = events]
      /\ UNCHANGED <<cache, file, tasks, toPlugins>>
  BY DEF UpdatePlugins
<1>2. events \in [Ids -> Maybe(SUBSET News)]
  <2>1. bridge.events \in [Ids -> Maybe(SUBSET News)]
    BY TypesOfInv, BridgeFields
  <2>. QED  BY <2>1 DEF Maybe
<1>. HIDE DEF events
<1>3. /\ bridge' \in Bridges /\ bridge'.connected = bridge.connected
      /\ bridge'.sizes = bridge.sizes /\ bridge'.pending = bridge.pending
  BY <1>1, <1>2, TypesOfInv DEF Bridges
<1>4. ASSUME NEW id \in Ids
      PROVE  /\ running'[id] \in [Clients -> Maybe(Instances)]
             /\ \A c \in Clients : running'[id][c] # None =>
                  running[id][c] # None /\ running'[id][c].next = running[id][c].next
  <2>1. running[id] \in [Clients -> Maybe(Instances)] /\ {news} \in SUBSET News
    BY TypesOfInv
  <2>2. CASE bridge.events[id] # None
    BY <2>1, <2>2, <1>1
  <2>3. CASE bridge.events[id] = None
    BY <2>1, <2>3, <1>1, ToldType
  <2>. QED  BY <2>2, <2>3
<1>5. running' \in [Ids -> [Clients -> Maybe(Instances)]]
  <2>1. running' = [id \in Ids |-> running'[id]]
    BY <1>1
  <2>. QED  BY <2>1, <1>4
<1>6. /\ tasks' \in [Workers -> Tasks] /\ \A v \in Workers : TaskOK(v, tasks'[v])
      /\ NewcomerIsNotListed'
  <2>1. ToSet(bridge'.connected) \subseteq Connected
    BY <1>3 DEF Connected
  <2>. QED  BY <1>1, <2>1, TasksStay
<1>7. Bounds'
  <2>1. screen'.now \in Nat /\ file' \in Nat /\ file' <= file + k
    BY <1>1, ScreenFields, NumberFacts DEF News
  <2>. QED  BY <1>3, <1>4, <2>1, BoundsSlack
<1>8. TypeOK'
  BY <1>1, <1>3, <1>5, <1>6, TypesOfInv DEF TypeOK
<1>. QED  BY <1>6, <1>7, <1>8 DEF TypeInv

LEMMA UpdateKeeps ==
    ASSUME TypeInv, Update \/ UpdateAgain
    PROVE  TypeInv'
<1>1. CASE Update
  <2>1. Requested /\ UpdatePlugins(screen.now + 1) /\ screen' = [screen EXCEPT !.now = @ + 1]
    BY <1>1 DEF Update
  <2>2. requests' = requests + 1 /\ requests' \in 0 .. MaxRequests /\ screen.now + 1 \in News
    BY <2>1, RequestedFacts
  <2>3. screen' \in Screens /\ screen'.now = screen.now + 1
    BY <2>1, <2>2, TypesOfInv DEF Screens
  <2>4. screen'.now <= screen.now + 1
    BY <2>3, NumberFacts
  <2>. QED  BY <2>1, <2>2, <2>3, <2>4, UpdatePluginsKeeps
<1>2. CASE UpdateAgain
  <2>1. UpdatePlugins(screen.now) /\ screen' = [screen EXCEPT !.asked = FALSE]
        /\ requests' = requests
    BY <1>2 DEF UpdateAgain
  <2>2. screen' \in Screens /\ screen'.now = screen.now /\ screen.now \in News
    BY <2>1, TypesOfInv, ScreenFields DEF Screens
  <2>3. screen'.now <= screen.now + 0 /\ requests' = requests + 0 /\ requests' \in 0 .. MaxRequests
    BY <2>1, <2>2, NumberFacts, TypesOfInv
  <2>4. screen.now \in News /\ UpdatePlugins(screen.now) /\ 0 \in 0 .. 1
    BY <2>1, <2>2
  <2>. QED  BY <2>2, <2>3, <2>4, UpdatePluginsKeeps
<1>. QED  BY <1>1, <1>2

LEMMA ListingFacts ==
    ASSUME NEW r, RunningIn(r) # {}, NEW listed \in Listings(r)
    PROVE  /\ listed \in Seq(Ids) /\ listed # <<>> /\ listed[1] \in RunningIn(r)
           /\ ToSet(listed) = RunningIn(r) /\ RunningIn(r) \in SUBSET Ids
<1>. DEFINE S == InstancesIn(r)
<1>1. S \in SUBSET (Ids \X Clients) /\ S # {}
  BY DEF RunningIn, InstancesIn
<1>2. IsFiniteSet(S)
  <2>1. IsFiniteSet(Ids) /\ IsFiniteSet(Clients)
    BY PluginsAssumption
  <2>2. IsFiniteSet(Ids \X Clients)
    BY <2>1, FS_Product
  <2>. QED  BY <1>1, <2>2, FS_Subset
<1>3. PICK keys \in SetToSeqs(S) : listed = [i \in DOMAIN keys |-> keys[i][1]]
  BY DEF Listings
<1>. DEFINE n == Cardinality(S)
<1>. HIDE DEF S
<1>4. n \in Nat /\ keys \in [1 .. n -> S] /\ Len(keys) = n /\ ToSet(keys) = S /\ Len(keys) > 0
  BY <1>1, <1>2, <1>3, InOrder
<1>. HIDE DEF n
<1>5. \A i \in 1 .. n : keys[i] \in S /\ keys[i][1] \in Ids
  BY <1>1, <1>4
<1>6. listed = [i \in 1 .. n |-> keys[i][1]] /\ n > 0
  BY <1>3, <1>4
<1>7. listed \in Seq(Ids) /\ Len(listed) = n /\ DOMAIN listed = 1 .. n
  BY <1>4, <1>5, <1>6
<1>8. RunningIn(r) = {k[1] : k \in S}
  BY DEF RunningIn, S
<1>9. ToSet(listed) = RunningIn(r)
  <2>1. ASSUME NEW x \in ToSet(listed)
        PROVE  x \in RunningIn(r)
    <3>1. PICK i \in 1 .. n : x = listed[i]
      BY <1>7 DEF ToSet
    <3>. QED  BY <3>1, <1>5, <1>6, <1>8
  <2>2. ASSUME NEW x \in RunningIn(r)
        PROVE  x \in ToSet(listed)
    <3>1. PICK k \in S : x = k[1]
      BY <1>8
    <3>2. PICK i \in 1 .. n : keys[i] = k
      BY <1>4 DEF ToSet
    <3>3. listed[i] = x
      BY <3>1, <3>2, <1>6
    <3>. QED  BY <3>3, <1>7 DEF ToSet
  <2>. QED  BY <2>1, <2>2
<1>10. listed # <<>> /\ listed[1] \in RunningIn(r)
  <2>1. 1 \in 1 .. n
    BY <1>4, <1>6
  <2>2. listed[1] \in ToSet(listed)
    BY <2>1, <1>7 DEF ToSet
  <2>3. listed # <<>>
    BY <1>6, <1>7, <1>4, NotEmpty
  <2>. QED  BY <2>2, <2>3, <1>9
<1>11. RunningIn(r) \in SUBSET Ids
  BY <1>1, <1>8
<1>. QED  BY <1>7, <1>9, <1>10, <1>11

(* The task that reloads the plugins listed                                *)
ReloadTask(listed, ids) ==
    Task("reload", ids, None,
         <<Step("again", listed[1], None)>>
           \o [i \in DOMAIN Others(listed, listed[1]) |->
                  Step("memory", Others(listed, listed[1])[i], None)]
           \o <<Step("done", None, None)>>)

LEMMA ReloadPluginCases ==
    ASSUME NEW b, NEW r, ReloadPlugin(b, r)
    PROVE  \/ b.loading # {} /\ bridge' = [b EXCEPT !.pending = TRUE] /\ UNCHANGED tasks
           \/ /\ b.loading = {}
              /\ \E listed \in Listings(r) : \E size \in [RunningIn(r) -> Sizes] :
                    /\ tasks' = [tasks EXCEPT ![listed[1]] = ReloadTask(listed, RunningIn(r))]
                    /\ bridge' = [b EXCEPT
                          !.loading = {listed[1]},
                          !.events = [id \in Ids |-> IF id \in RunningIn(r) THEN {} ELSE b.events[id]],
                          !.sizes = [id \in Ids |-> IF id \in RunningIn(r) THEN size[id]
                                                    ELSE b.sizes[id]]]
<1>1. CASE b.loading # {}
  BY <1>1 DEF ReloadPlugin
<1>2. CASE b.loading = {}
  BY <1>2 DEF ReloadPlugin, ReloadTask
<1>. QED  BY <1>1, <1>2

LEMMA ReloadTaskOK ==
    ASSUME NEW listed \in Seq(Ids), listed # <<>>, NEW ids \in SUBSET Ids
    PROVE  TaskOK(listed[1], ReloadTask(listed, ids))
<1>. DEFINE w == listed[1]
            others == Others(listed, w)
            q == <<Step("again", w, None)>>
                   \o [i \in DOMAIN others |-> Step("memory", others[i], None)]
                   \o <<Step("done", None, None)>>
<1>1. w \in Ids
  BY NotEmpty
<1>2. others \in Seq(Ids)
  BY OthersFacts
<1>. HIDE DEF others
<1>3. Line(w, q) /\ q # <<>> /\ q[1].do = "again"
  <2>. HIDE DEF w
  <2>. QED  BY <1>1, <1>2, ReloadLine
<1>4. ReloadTask(listed, ids) = Task("reload", ids, None, q)
  BY DEF ReloadTask, others
<1>. HIDE DEF q, w
<1>5. /\ "reload" \in {"start", "reload", "others", "client"} /\ None \in Maybe(Sizes)
      /\ q[1].do # "put" /\ (q[1].do = "load" => None # None)
      /\ q[1].do \notin {"compile", "take"}
  BY <1>3 DEF Maybe
<1>6. TaskOK(w, Task("reload", ids, None, q))
  BY <1>3, <1>5, TaskBegins
<1>. QED  BY <1>4, <1>6 DEF w

LEMMA ReloadPluginFacts ==
    ASSUME TypeInv, NEW b \in Bridges, NEW r, b.loading # {} \/ RunningIn(r) # {},
           ReloadPlugin(b, r)
    PROVE  /\ bridge' \in Bridges /\ bridge'.connected = b.connected
           /\ \A id \in Ids : KeptIn(bridge', id) + PutOffIn(bridge')
                                <= KeptIn(b, id) + PutOffIn(b) + 1
           /\ tasks' \in [Workers -> Tasks] /\ \A v \in Workers : TaskOK(v, tasks'[v])
           /\ tasks'[Main] = tasks[Main]
<1>1. CASE b.loading # {}
  <2>1. bridge' = [b EXCEPT !.pending = TRUE] /\ tasks' = tasks
    BY <1>1, ReloadPluginCases
  <2>2. bridge' \in Bridges /\ bridge'.connected = b.connected /\ bridge'.sizes = b.sizes
    BY <2>1 DEF Bridges
  <2>3. \A id \in Ids : KeptIn(bridge', id) = KeptIn(b, id)
    BY <2>2 DEF KeptIn
  <2>4. ASSUME NEW id \in Ids
        PROVE  KeptIn(bridge', id) + PutOffIn(bridge') <= KeptIn(b, id) + PutOffIn(b) + 1
    <3>. DEFINE k == KeptIn(b, id)
                p == PutOffIn(b)
                q == PutOffIn(bridge')
    <3>1. KeptIn(bridge', id) = k /\ k \in 0 .. 1 /\ p \in 0 .. 1 /\ q \in 0 .. 1
      BY <2>3, KeptFacts
    <3>. HIDE DEF k, p, q
    <3>2. k + q <= k + p + 1
      BY <3>1
    <3>. QED  BY <3>1, <3>2 DEF k, p, q
  <2>5. tasks' \in [Workers -> Tasks] /\ \A v \in Workers : TaskOK(v, tasks'[v])
    BY <2>1, TypesOfInv
  <2>6. tasks'[Main] = tasks[Main]
    BY <2>1
  <2>. QED  BY <2>2, <2>4, <2>5, <2>6
<1>2. CASE b.loading = {}
  <2>. DEFINE ids == RunningIn(r)
              events == [id \in Ids |-> IF id \in ids THEN {} ELSE b.events[id]]
              sizes(size) == [id \in Ids |-> IF id \in ids THEN size[id] ELSE b.sizes[id]]
  <2>0. ids # {}
    BY <1>2
  <2>1. PICK listed \in Listings(r) : \E size \in [ids -> Sizes] :
           /\ tasks' = [tasks EXCEPT ![listed[1]] = ReloadTask(listed, ids)]
           /\ bridge' = [b EXCEPT !.loading = {listed[1]}, !.events = events, !.sizes = sizes(size)]
    BY <1>2, ReloadPluginCases
  <2>2. PICK size \in [ids -> Sizes] :
           /\ tasks' = [tasks EXCEPT ![listed[1]] = ReloadTask(listed, ids)]
           /\ bridge' = [b EXCEPT !.loading = {listed[1]}, !.events = events, !.sizes = sizes(size)]
    BY <2>1
  <2>3. listed \in Seq(Ids) /\ listed # <<>> /\ listed[1] \in Ids /\ ids \in SUBSET Ids
    BY <2>0, ListingFacts
  <2>. HIDE DEF ids
  <2>4. events \in [Ids -> Maybe(SUBSET News)]
    BY BridgeFields DEF Maybe
  <2>5. sizes(size) \in [Ids -> Maybe(Sizes)]
    <3>1. \A id \in Ids : b.sizes[id] \in Maybe(Sizes)
      BY BridgeFields
    <3>2. \A id \in ids : size[id] \in Sizes
      OBVIOUS
    <3>. QED  BY <3>1, <3>2 DEF Maybe
  <2>. HIDE DEF events, sizes
  <2>6. /\ bridge' \in Bridges /\ bridge'.connected = b.connected
        /\ bridge'.pending = b.pending
    BY <2>2, <2>3, <2>4, <2>5 DEF Bridges
  <2>7. PutOffIn(bridge') = PutOffIn(b)
    BY <2>6 DEF PutOffIn
  <2>8. TaskOK(listed[1], ReloadTask(listed, ids)) /\ listed[1] \in Workers
        /\ Main \in Workers /\ listed[1] # Main
    BY <2>3, ReloadTaskOK, NoneIsNone DEF Workers
  <2>9. tasks' \in [Workers -> Tasks] /\ \A v \in Workers : TaskOK(v, tasks'[v])
    BY <2>2, <2>8, TaskReplaced
  <2>10. tasks'[Main] = tasks[Main]
    BY <2>2, <2>8, TypesOfInv
  <2>. QED  BY <2>6, <2>7, <2>9, <2>10, KeptFacts
<1>. QED  BY <1>1, <1>2

LEMMA ReloadKeeps ==
    ASSUME TypeInv, NEW id \in Ids, Reload(id)
    PROVE  TypeInv'
<1>1. Requested /\ UNCHANGED <<running, cache, toPlugins>>
  BY DEF Reload
<1>2. CASE bridge.loading = {} /\ RunningIn(running) = {}
  <2>1. /\ LoadPlugin(id, Head(bridge.connected)) /\ bridge.connected # <<>>
        /\ file' = IF cache = None \/ Happens("edited") THEN file + 1 ELSE file
    BY <1>2 DEF Reload
  <2>2. Head(bridge.connected) \in Clients
    BY <2>1, TypesOfInv, BridgeFields, TailFacts
  <2>3. file' \in {file, file + 1}
    BY <2>1
  <2>. QED  BY <1>1, <2>1, <2>2, <2>3, LoadPluginKeeps
<1>3. CASE ~(bridge.loading = {} /\ RunningIn(running) = {})
  <2>1. ReloadPlugin(bridge, running) /\ file' = file + 1 /\ UNCHANGED screen
    BY <1>3 DEF Reload
  <2>2. bridge \in Bridges /\ (bridge.loading # {} \/ RunningIn(running) # {})
    BY <1>3, TypesOfInv
  <2>3. /\ bridge' \in Bridges /\ bridge'.connected = bridge.connected
        /\ \A d \in Ids : KeptIn(bridge', d) + PutOffIn(bridge')
                                <= KeptIn(bridge, d) + PutOffIn(bridge) + 1
        /\ tasks' \in [Workers -> Tasks] /\ \A v \in Workers : TaskOK(v, tasks'[v])
        /\ tasks'[Main] = tasks[Main]
    BY <2>1, <2>2, ReloadPluginFacts
  <2>4. /\ requests' = requests + 1 /\ requests' \in 0 .. MaxRequests /\ file + 1 \in Versions
        /\ tasks[Main].steps = <<>>
    BY <1>1, RequestedFacts
  <2>5. NewcomerIsNotListed'
    BY <2>3, <2>4 DEF NewcomerIsNotListed
  <2>6. Bounds'
    <3>1. ASSUME NEW d \in Ids, NEW e \in Clients, running'[d][e] # None
          PROVE  /\ running[d][e] # None /\ running'[d][e].next \in Nat
                 /\ running'[d][e].next + KeptIn(bridge', d) + PutOffIn(bridge')
                      <= running[d][e].next + KeptIn(bridge, d) + PutOffIn(bridge) + 1
      <4>1. running'[d][e] = running[d][e] /\ running[d][e] # None /\ running[d][e].next \in Nat
        BY <1>1, <3>1, NumberFacts
      <4>. QED  BY <4>1, <2>3, KeptFacts
    <3>2. screen'.now \in Nat /\ screen'.now <= screen.now + 1 /\ file' \in Nat
          /\ file' <= file + 1
      BY <2>1, NumberFacts
    <3>. QED  BY <2>3, <2>4, <3>1, <3>2, BoundsGrow
  <2>7. TypeOK'
    BY <1>1, <2>1, <2>3, <2>4, TypesOfInv DEF TypeOK
  <2>. QED  BY <2>3, <2>5, <2>6, <2>7 DEF TypeInv
<1>. QED  BY <1>2, <1>3

(* What ApplyCachedEvents gives to the plugins, and what is left of what    *)
(* was kept for them.                                                      *)
TellAll(id) ==
    IF bridge.events[id] = None THEN running[id]
    ELSE Told(running[id], Connected, bridge.events[id])
Give(id) ==
    IF bridge.sizes[id] = None THEN TellAll(id) ELSE Resized(TellAll(id), bridge.sizes[id])
Without(f, ids) == [id \in Ids |-> IF id \in ids THEN None ELSE f[id]]
Given(ids) == [id \in Ids |-> IF id \in ids THEN Give(id) ELSE running[id]]
Emptied(ids) ==
    [bridge EXCEPT !.events = Without(bridge.events, ids), !.sizes = Without(bridge.sizes, ids),
                   !.loading = StillLoading(@, ids)]
Ready(ids, putOff) == [Emptied(ids) EXCEPT !.pending = @ /\ ~putOff]
PutOffEnds(ids) == bridge.pending /\ bridge.loading \cap ids # {}

LEMMA ApplyCases ==
    ASSUME ApplyCachedEvents
    PROVE  /\ toPlugins # <<>> /\ toPlugins' = Tail(toPlugins) /\ MainIsIdle
           /\ bridge.locked = None
           /\ running' = Given(Head(toPlugins))
           /\ LET ids == Head(toPlugins)
                  ready == Ready(ids, PutOffEnds(ids))
              IN  \/ /\ PutOffEnds(ids)
                     /\ ready.loading # {} \/ RunningIn(Given(ids)) # {}
                     /\ ReloadPlugin(ready, Given(ids))
                  \/ /\ PutOffEnds(ids) => ready.loading = {} /\ RunningIn(Given(ids)) = {}
                     /\ bridge' = ready /\ UNCHANGED tasks
           /\ UNCHANGED <<cache, file, screen, requests>>
BY Zenon DEF ApplyCachedEvents, TellAll, Give, Without, Given, Emptied, Ready, PutOffEnds

LEMMA ReadyFacts ==
    ASSUME NEW ids \in SUBSET Ids, bridge \in Bridges, NEW putOff \in BOOLEAN
    PROVE  /\ Ready(ids, putOff) \in Bridges
           /\ Ready(ids, putOff).connected = bridge.connected
           /\ Ready(ids, putOff).locked = bridge.locked
           /\ Ready(ids, putOff).up = bridge.up
           /\ Ready(ids, putOff).loading = bridge.loading \ ids
           /\ Ready(ids, putOff).pending = (bridge.pending /\ ~putOff)
           /\ Ready(ids, putOff).sizes = Without(bridge.sizes, ids)
           /\ Ready(ids, putOff).events = Without(bridge.events, ids)
<1>. DEFINE e == Without(bridge.events, ids)
            s == Without(bridge.sizes, ids)
            l == bridge.loading \ ids
            b == [bridge EXCEPT !.events = e, !.sizes = s, !.loading = l]
<1>1. e \in [Ids -> Maybe(SUBSET News)] /\ s \in [Ids -> Maybe(Sizes)] /\ l \in SUBSET Ids
  BY BridgeFields DEF Without, Maybe
<1>2. Emptied(ids) = b
  BY DEF Emptied, StillLoading, Bridges
<1>. HIDE DEF e, s, l
<1>3. /\ b \in Bridges /\ b.connected = bridge.connected /\ b.locked = bridge.locked
      /\ b.up = bridge.up /\ b.loading = l /\ b.pending = bridge.pending
      /\ b.sizes = s /\ b.events = e
  BY <1>1 DEF Bridges
<1>. DEFINE p == b.pending /\ ~putOff
<1>4. Ready(ids, putOff) = [b EXCEPT !.pending = p]
  BY <1>2, <1>3 DEF Ready, Bridges
<1>5. p \in BOOLEAN /\ p = (bridge.pending /\ ~putOff)
  BY <1>3, BridgeFields
<1>. HIDE DEF b, p
<1>6. /\ Ready(ids, putOff) \in Bridges
      /\ Ready(ids, putOff).connected = b.connected /\ Ready(ids, putOff).locked = b.locked
      /\ Ready(ids, putOff).up = b.up /\ Ready(ids, putOff).loading = b.loading
      /\ Ready(ids, putOff).pending = p /\ Ready(ids, putOff).sizes = b.sizes
      /\ Ready(ids, putOff).events = b.events
  BY <1>3, <1>4, <1>5 DEF Bridges
<1>. QED  BY <1>3, <1>5, <1>6 DEF e, s, l

LEMMA GivenFacts ==
    ASSUME TypeInv, NEW ids \in SUBSET Ids
    PROVE  /\ Given(ids) \in [Ids -> [Clients -> Maybe(Instances)]]
           /\ \A id \in Ids, c \in Clients : Given(ids)[id][c] # None =>
                /\ running[id][c] # None
                /\ Given(ids)[id][c].next =
                     running[id][c].next + IF id \in ids THEN KeptIn(bridge, id) ELSE 0
<1>1. ASSUME NEW id \in Ids
      PROVE  /\ TellAll(id) \in [Clients -> Maybe(Instances)]
             /\ \A c \in Clients : TellAll(id)[c] # None =>
                  running[id][c] # None /\ TellAll(id)[c].next = running[id][c].next
  <2>1. running[id] \in [Clients -> Maybe(Instances)] /\ bridge.events[id] \in Maybe(SUBSET News)
    BY TypesOfInv, BridgeFields
  <2>2. CASE bridge.events[id] = None
    BY <2>1, <2>2 DEF TellAll
  <2>3. CASE bridge.events[id] # None
    <3>1. bridge.events[id] \in SUBSET News
      BY <2>1, <2>3 DEF Maybe
    <3>. QED  BY <2>1, <2>3, <3>1, ToldType DEF TellAll
  <2>. QED  BY <2>2, <2>3
<1>2. ASSUME NEW id \in Ids
      PROVE  /\ Give(id) \in [Clients -> Maybe(Instances)]
             /\ \A c \in Clients : Give(id)[c] # None =>
                  /\ running[id][c] # None
                  /\ Give(id)[c].next = running[id][c].next + KeptIn(bridge, id)
  <2>1. CASE bridge.sizes[id] = None
    <3>1. KeptIn(bridge, id) = 0 /\ Give(id) = TellAll(id)
      BY <2>1 DEF KeptIn, Give
    <3>. QED  BY <3>1, <1>1, NumberFacts
  <2>2. CASE bridge.sizes[id] # None
    <3>. DEFINE size == bridge.sizes[id]
                f == TellAll(id)
    <3>1. KeptIn(bridge, id) = 1 /\ Give(id) = Resized(f, size)
      BY <2>2 DEF KeptIn, Give
    <3>2. size \in Sizes
      BY <2>2, TypesOfInv, BridgeFields DEF Maybe
    <3>3. f \in [Clients -> Maybe(Instances)]
      BY <1>1
    <3>4. ASSUME NEW c \in Clients, f[c] # None
          PROVE  f[c].next + 1 \in EventIds
      <4>1. f[c].next = running[id][c].next /\ running[id][c] # None
        BY <3>4, <1>1
      <4>2. running[id][c].next \in Nat
            /\ running[id][c].next + KeptIn(bridge, id) + PutOffIn(bridge) <= requests
        BY <4>1, NumberFacts
      <4>3. PutOffIn(bridge) \in Nat
        BY KeptFacts
      <4>. QED  BY <3>1, <4>1, <4>2, <4>3, NumberFacts DEF EventIds
    <3>5. \A c \in Clients : f[c] # None =>
             running[id][c] # None /\ f[c].next = running[id][c].next
      BY <1>1
    <3>. HIDE DEF f, size
    <3>6. /\ Resized(f, size) \in [Clients -> Maybe(Instances)]
          /\ \A c \in Clients : Resized(f, size)[c] # None =>
               f[c] # None /\ Resized(f, size)[c].next = f[c].next + 1
      BY <3>2, <3>3, <3>4, ResizedType
    <3>. QED  BY <3>1, <3>5, <3>6
  <2>. QED  BY <2>1, <2>2
<1>3. Given(ids) \in [Ids -> [Clients -> Maybe(Instances)]]
  BY <1>2, TypesOfInv DEF Given
<1>4. ASSUME NEW id \in Ids, NEW c \in Clients, Given(ids)[id][c] # None
      PROVE  /\ running[id][c] # None
             /\ Given(ids)[id][c].next =
                  running[id][c].next + IF id \in ids THEN KeptIn(bridge, id) ELSE 0
  <2>1. CASE id \in ids
    <3>1. Given(ids)[id] = Give(id)
      BY <2>1 DEF Given
    <3>. QED  BY <2>1, <3>1, <1>2, <1>4
  <2>2. CASE id \notin ids
    <3>1. Given(ids)[id] = running[id]
      BY <2>2 DEF Given
    <3>2. running[id][c] # None /\ running[id][c].next \in Nat
      BY <3>1, <1>4, NumberFacts
    <3>. QED  BY <2>2, <3>1, <3>2
  <2>. QED  BY <2>1, <2>2
<1>. QED  BY <1>3, <1>4

LEMMA ApplyCachedEventsKeeps ==
    ASSUME TypeInv, ApplyCachedEvents
    PROVE  TypeInv'
<1>. DEFINE ids == Head(toPlugins)
            putOff == PutOffEnds(ids)
            ready == Ready(ids, putOff)
<1>1. /\ toPlugins # <<>> /\ toPlugins' = Tail(toPlugins) /\ MainIsIdle
      /\ running' = Given(ids)
      /\ \/ /\ putOff
            /\ ready.loading # {} \/ RunningIn(Given(ids)) # {}
            /\ ReloadPlugin(ready, Given(ids))
         \/ bridge' = ready /\ UNCHANGED tasks
      /\ UNCHANGED <<cache, file, screen, requests>>
  BY ApplyCases
<1>2. ids \in SUBSET Ids /\ toPlugins' \in Seq(SUBSET Ids)
  BY <1>1, TypesOfInv, TailFacts
<1>3. putOff \in BOOLEAN /\ (putOff => bridge.pending)
  BY DEF PutOffEnds
<1>4. bridge \in Bridges
  BY TypesOfInv
<1>. HIDE DEF ids, putOff
<1>5. /\ ready \in Bridges /\ ready.connected = bridge.connected
      /\ ready.pending = (bridge.pending /\ ~putOff)
      /\ ready.sizes = Without(bridge.sizes, ids)
  BY <1>2, <1>3, <1>4, ReadyFacts
<1>6. /\ running' \in [Ids -> [Clients -> Maybe(Instances)]]
      /\ \A id \in Ids, c \in Clients : running'[id][c] # None =>
           /\ running[id][c] # None
           /\ running'[id][c].next =
                running[id][c].next + IF id \in ids THEN KeptIn(bridge, id) ELSE 0
  BY <1>1, <1>2, GivenFacts
<1>7. \A id \in Ids : KeptIn(ready, id) = IF id \in ids THEN 0 ELSE KeptIn(bridge, id)
  BY <1>5 DEF KeptIn, Without
<1>8. PutOffIn(ready) = IF putOff THEN 0 ELSE PutOffIn(bridge)
  BY <1>5 DEF PutOffIn
<1>9. putOff => PutOffIn(bridge) = 1
  BY <1>3 DEF PutOffIn
<1>. HIDE DEF ready
<1>10. /\ bridge' \in Bridges /\ bridge'.connected = bridge.connected
       /\ \A id \in Ids : KeptIn(bridge', id) + PutOffIn(bridge')
                            <= KeptIn(ready, id) + PutOffIn(bridge)
       /\ tasks' \in [Workers -> Tasks] /\ \A v \in Workers : TaskOK(v, tasks'[v])
       /\ tasks'[Main] = tasks[Main]
  <2>1. CASE putOff /\ (ready.loading # {} \/ RunningIn(Given(ids)) # {})
             /\ ReloadPlugin(ready, Given(ids))
    <3>1. /\ bridge' \in Bridges /\ bridge'.connected = ready.connected
          /\ \A id \in Ids : KeptIn(bridge', id) + PutOffIn(bridge')
                                <= KeptIn(ready, id) + PutOffIn(ready) + 1
          /\ tasks' \in [Workers -> Tasks] /\ \A v \in Workers : TaskOK(v, tasks'[v])
          /\ tasks'[Main] = tasks[Main]
      BY <2>1, <1>5, ReloadPluginFacts
    <3>. QED  BY <2>1, <3>1, <1>5, <1>8, <1>9, KeptFacts
  <2>2. CASE bridge' = ready /\ UNCHANGED tasks
    BY <2>2, <1>5, <1>8, <1>9, KeptFacts, TypesOfInv
  <2>. QED  BY <2>1, <2>2, <1>1
<1>11. NewcomerIsNotListed'
  <2>1. Connected' = Connected
    BY <1>10 DEF Connected
  <2>. QED  BY <2>1, <1>10, TypesOfInv DEF NewcomerIsNotListed
<1>12. Bounds'
  <2>1. ASSUME NEW id \in Ids
        PROVE  KeptIn(bridge', id) + PutOffIn(bridge')
                 <= KeptIn(bridge, id) + PutOffIn(bridge) + 0
    BY <1>7, <1>10, KeptFacts
  <2>2. ASSUME NEW id \in Ids, NEW c \in Clients, running'[id][c] # None
        PROVE  /\ running[id][c] # None /\ running'[id][c].next \in Nat
               /\ running'[id][c].next + KeptIn(bridge', id) + PutOffIn(bridge')
                    <= running[id][c].next + KeptIn(bridge, id) + PutOffIn(bridge) + 0
    <3>1. /\ running[id][c] # None /\ running[id][c].next \in Nat
          /\ running'[id][c].next =
               running[id][c].next + IF id \in ids THEN KeptIn(bridge, id) ELSE 0
      BY <1>6, <2>2, NumberFacts
    <3>2. KeptIn(bridge', id) + PutOffIn(bridge') <= KeptIn(ready, id) + PutOffIn(bridge)
      BY <1>10
    <3>3. KeptIn(ready, id) = IF id \in ids THEN 0 ELSE KeptIn(bridge, id)
      BY <1>7
    <3>4. KeptIn(bridge', id) \in Nat /\ PutOffIn(bridge') \in Nat
          /\ KeptIn(bridge, id) \in Nat /\ PutOffIn(bridge) \in Nat
      BY KeptFacts
    <3>. QED  BY <3>1, <3>2, <3>3, <3>4
  <2>3. /\ screen'.now \in Nat /\ screen'.now <= screen.now + 0 /\ file' \in Nat
        /\ file' <= file + 0 /\ requests' = requests + 0
    BY <1>1, NumberFacts
  <2>. QED  BY <2>1, <2>2, <2>3, BoundsGrow
<1>13. TypeOK'
  BY <1>1, <1>2, <1>6, <1>10, TypesOfInv DEF TypeOK
<1>. QED  BY <1>10, <1>11, <1>12, <1>13 DEF TypeInv

----------------------------------------------------------------------------
(* The theorem *)

LEMMA InitIsTyped == Init => TypeInv
<1>. SUFFICES ASSUME Init
              PROVE  TypeInv
  OBVIOUS
<1>1. PICK first \in {<<>>} \cup {<<c>> : c \in Clients} :
         bridge = [connected |-> first, locked |-> None, loading |-> {},
                   pending |-> FALSE, events |-> [id \in Ids |-> None],
                   sizes |-> [id \in Ids |-> None], up |-> TRUE]
  BY DEF Init
<1>2. /\ running = [id \in Ids |-> [c \in Clients |-> None]] /\ cache = None /\ file = 1
      /\ tasks = [w \in Workers |-> Task("client", {}, None, <<>>)]
      /\ toPlugins = <<>> /\ requests = 0
  BY DEF Init
<1>3. PICK size \in Sizes :
         screen = [given |-> {}, open |-> {}, size |-> [id \in Ids |-> size],
                   failed |-> {}, now |-> 0, asked |-> FALSE]
  BY DEF Init
<1>4. first \in Seq(Clients) /\ IsInjective(first)
  <2>1. CASE first = <<>>
    BY <2>1 DEF IsInjective
  <2>2. CASE \E c \in Clients : first = <<c>>
    BY <2>2 DEF IsInjective
  <2>. QED  BY <2>1, <2>2
<1>5. bridge \in Bridges /\ bridge.sizes = [id \in Ids |-> None] /\ bridge.pending = FALSE
      /\ bridge.connected = first
  BY <1>1, <1>4 DEF Bridges, Maybe
<1>6. screen \in Screens /\ screen.now = 0
  BY <1>3, PluginsAssumption DEF Screens, News
<1>7. \A w \in Workers : TaskOK(w, tasks[w]) /\ tasks[w].steps = <<>>
  BY <1>2, IdleTask DEF Task
<1>8. tasks \in [Workers -> Tasks]
  BY <1>2, <1>7 DEF TaskOK
<1>9. TypeOK
  BY <1>2, <1>4, <1>5, <1>6, <1>8, PluginsAssumption DEF TypeOK, Versions, Maybe
<1>10. Bounds
  BY <1>2, <1>5, <1>6 DEF Bounds, Kept, PutOff
<1>11. NewcomerIsNotListed
  BY <1>7 DEF NewcomerIsNotListed, Workers
<1>. QED  BY <1>7, <1>9, <1>10, <1>11 DEF TypeInv

LEMMA LoadKeeps ==
    ASSUME TypeInv, NEW id \in Ids, NEW c \in Clients, Load(id, c)
    PROVE  TypeInv'
<1>1. Requested /\ LoadPlugin(id, c) /\ UNCHANGED <<running, cache, file, toPlugins>>
  BY DEF Load
<1>. QED  BY <1>1, LoadPluginKeeps

LEMMA TaskStepsKeepTypes ==
    ASSUME TypeInv, NEW w \in Workers, TaskStep(w)
    PROVE  TypeInv'
BY LoadModuleKeeps, CompileModuleKeeps, TakeKeeps, CopyKeeps, PutKeeps, CloneKeeps,
   UnlockKeeps, ReloadFirstKeeps, LoadedKeeps, DoneKeeps DEF TaskStep

LEMMA RequestsKeepTypes ==
    ASSUME TypeInv, Request
    PROVE  TypeInv'
BY LoadKeeps, UnloadKeeps, ReloadKeeps, ResizePluginKeeps, AddClientKeeps, RemoveClientKeeps,
   UpdateKeeps DEF Request

LEMMA StepsKeepTypes == TypeInv /\ [Next]_vars => TypeInv'
<1>. SUFFICES ASSUME TypeInv, [Next]_vars
              PROVE  TypeInv'
  OBVIOUS
<1>1. CASE UNCHANGED vars
  <2>1. TypeOK' /\ (\A w \in Workers : TaskOK(w, tasks'[w]))
    BY <1>1, TypesOfInv DEF vars, TypeOK
  <2>2. Bounds' /\ NewcomerIsNotListed'
    BY <1>1, TypesOfInv DEF vars, Bounds, Kept, PutOff, NewcomerIsNotListed, Connected
  <2>. QED  BY <2>1, <2>2 DEF TypeInv
<1>2. CASE Request
  BY <1>2, RequestsKeepTypes
<1>3. CASE MainStep
  BY <1>3, PushKeeps, UpdateKeeps, ApplyCachedEventsKeeps DEF MainStep
<1>4. CASE Events
  BY <1>4, TellsNewsKeeps, ResizesKeeps DEF Events
<1>5. CASE \E w \in Workers : TaskStep(w)
  BY <1>5, TaskStepsKeepTypes
<1>. QED  BY <1>1, <1>2, <1>3, <1>4, <1>5 DEF Next

(* The variables of the plugin thread keep their types: in particular no   *)
(* client is listed twice, a task has only steps that such a task can have, *)
(* and the numbers of resizes and of news stay below those of the requests. *)
THEOREM TypeCorrect == Spec => []TypeOK
<1>1. TypeInv => TypeOK
  BY DEF TypeInv
<1>. QED  BY <1>1, InitIsTyped, StepsKeepTypes, PTL DEF Spec

=============================================================================

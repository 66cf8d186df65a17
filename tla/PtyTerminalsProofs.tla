-------------------------- MODULE PtyTerminalsProofs --------------------------
(***************************************************************************)
(* PtyTerminals, for any layout, any commands and any bounds.               *)
(***************************************************************************)
EXTENDS PtyTerminals, TLAPS, FiniteSetTheorems, WellFoundedInduction, SequenceTheorems

----------------------------------------------------------------------------
(* Types *)

Bounded(S) == S \subseteq Nat /\ \E n \in Nat : \A x \in S : x <= n

(* A map from ids to S                                                      *)
Maps(f, S) == f \in [DOMAIN f -> S] /\ Bounded(DOMAIN f)

Sizes  == {<<>>} \cup (Nat \X Nat \X Nat)
States == {"absent", "live", "ended", "reported"}
Reads  == {"none", "yes", "done"}

RunSet ==
    [id : Nat, of : Requests, cmd : AllCommands, fd : Nat \cup {NoFd}, tab : BOOLEAN,
     hup : BOOLEAN, size : Sizes, wrote : BOOLEAN, state : States, listener : Reads]

PaneSet   == [of : Requests, cmd : AllCommands, held : BOOLEAN]
Terminals == [id : Nat, of : Requests, cmd : AllCommands]

Spawns  == [do : {"spawn"}, cmd : AllCommands, of : Requests, split : BOOLEAN]
ReRuns  == [do : {"rerun"}, id : Nat, cmd : AllCommands, of : Requests]
Closings == [do : {"close"}, id : Nat, of : Requests]
PtyMessages == Spawns \cup ReRuns \cup Closings \cup {NewTab}

News    == [do : {"new"}, panes : {<<t>> : t \in Terminals}, split : BOOLEAN]
Layouts == [do : {"layout"}, panes : Seq(Terminals)]
Bytes(rs)   == [do : {"bytes"}, id : Nat, run : DOMAIN rs]
Holds(rs)   == [do : {"hold"}, id : Nat, run : DOMAIN rs, tab : BOOLEAN]
Exits(rs)   == [do : {"exited"}, id : Nat, run : DOMAIN rs]
Keys    == [do : {"key"}, key : {"enter", "escape", "ctrl-c"}]
ScreenMessages(rs) ==
    News \cup Layouts \cup Bytes(rs) \cup Holds(rs) \cup Exits(rs) \cup Keys
      \cup {CloseFocused, TerminalResize}

Tellings(rs)   == [step : {"tell"}, msg : ScreenMessages(rs)]
Listenings(rs) == [step : {"listen"}, run : DOMAIN rs]
Freeings       == [step : {"free"}, id : Nat]
TodoSteps(rs)  == Tellings(rs) \cup Listenings(rs) \cup Freeings

SizeMaps == UNION {[S -> Nat \X Nat \X Nat] : S \in SUBSET Nat}

FdsEnd(rs) == \E n \in Nat : \A r \in DOMAIN rs : rs[r].fd <= n

(* What the pty thread keeps                                                *)
ResourcesType(t, c, rs) ==
    /\ Maps(t, Nat \cup {NoFd})
    /\ Maps(c, DOMAIN rs)
    /\ rs \in Seq(RunSet) /\ FdsEnd(rs)

QueuesType ==
    /\ toPty \in Seq(PtyMessages) /\ todo \in Seq(TodoSteps(runs))
    /\ toScreen \in Seq(ScreenMessages(runs)) /\ toWriter \in Seq(SizeMaps)

TabType ==
    /\ Maps(panes, PaneSet)
    /\ \A id \in DOMAIN panes : panes[id].of \in shown
    /\ shown \subseteq Requests /\ area \in Nat
    /\ pending \in BOOLEAN /\ buffered \in Seq(Holds(runs)) /\ waiting \subseteq Nat

UserType ==
    /\ blocked \in BOOLEAN /\ resumes \in 0 .. MaxResumes
    /\ asked \in 0 .. MaxRequests /\ pressed \in Nat

(* The layout comes first: until the pty thread has taken it, there is      *)
(* nothing else.                                                           *)
Fresh ==
    /\ table = <<>> /\ child = <<>> /\ runs = <<>> /\ todo = <<>>
    /\ panes = <<>> /\ shown = {} /\ pending = TRUE /\ buffered = <<>> /\ waiting = {}
    /\ \A k \in DOMAIN toScreen : toScreen[k].do \in {"close focused", "key", "resize"}

LayoutIsFirst ==
    \/ \A k \in DOMAIN toPty : toPty[k].do # "new tab"
    \/ /\ toPty # <<>> /\ toPty[1].do = "new tab"
       /\ \A k \in DOMAIN toPty : k # 1 => toPty[k].do # "new tab"
       /\ Fresh

TypeInv ==
    /\ ResourcesType(table, child, runs) /\ QueuesType /\ TabType /\ UserType
    /\ LayoutIsFirst

----------------------------------------------------------------------------
(* Numbers *)

LEMMA LeastExists ==
    ASSUME NEW S \in SUBSET Nat, S # {}
    PROVE  \E m \in S : \A n \in S : m <= n
<1>1. PICK m \in S : \A n \in S : ~ (<<n, m>> \in OpToRel(<, Nat))
  BY WFMin, NatLessThanWellFounded, Zenon
<1>2. \A n \in S : ~ (n < m)
  BY <1>1, Zenon DEF OpToRel
<1>. QED  BY <1>2

LEMMA MaxFacts ==
    ASSUME NEW S, Bounded(S), S # {}
    PROVE  Max(S) \in S /\ Max(S) \in Nat /\ \A x \in S : x <= Max(S)
<1>. DEFINE above == {m \in Nat : \A k \in S : k <= m}
<1>0. S \subseteq Nat
  BY DEF Bounded
<1>1. above \in SUBSET Nat /\ above # {}
  BY DEF Bounded
<1>2. PICK m \in above : \A k \in above : m <= k
  BY <1>1, LeastExists
<1>3. m \in Nat /\ \A k \in S : k <= m
  BY <1>2
<1>4. m \in S
  <2>1. SUFFICES ASSUME m \notin S
                 PROVE  FALSE
    OBVIOUS
  <2>2. PICK k \in S : TRUE
    OBVIOUS
  <2>3. m # 0
    BY <1>0, <1>3, <2>1, <2>2
  <2>4. \A j \in S : j <= m - 1
    BY <1>0, <1>3, <2>1
  <2>5. m - 1 \in above
    BY <1>3, <2>3, <2>4
  <2>. QED  BY <1>2, <1>3, <2>5
<1>5. m \in S /\ \A y \in S : m >= y
  BY <1>0, <1>3, <1>4
<1>. HIDE DEF above
<1>6. Max(S) \in S /\ \A y \in S : Max(S) >= y
  BY <1>5 DEF Max
<1>. QED  BY <1>0, <1>6

LEMMA MinFacts ==
    ASSUME NEW S \in SUBSET Nat, S # {}
    PROVE  Min(S) \in S /\ \A x \in S : Min(S) <= x
<1>1. PICK m \in S : \A n \in S : m <= n
  BY LeastExists
<1>. QED  BY <1>1 DEF Min

LEMMA NewIdFacts ==
    ASSUME NEW S, Bounded(S)
    PROVE  /\ NewId(S) \in Nat /\ NewId(S) \notin S
           /\ Bounded(S \cup {NewId(S)})
<1>0. S \subseteq Nat
  BY DEF Bounded
<1>1. CASE S = {}
  <2>1. NewId(S) = 0
    BY <1>1 DEF NewId
  <2>2. Bounded({0})
    <3>1. {0} \subseteq Nat /\ \A x \in {0} : x <= 0
      OBVIOUS
    <3>. QED  BY <3>1 DEF Bounded
  <2>3. S \cup {NewId(S)} = {0}
    BY <1>1, <2>1
  <2>4. NewId(S) \in Nat /\ NewId(S) \notin S
    BY <1>1, <2>1
  <2>5. Bounded(S \cup {NewId(S)})
    BY <2>2, <2>3
  <2>. QED  BY <2>4, <2>5
<1>2. CASE S # {}
  <2>1. Max(S) \in Nat /\ \A x \in S : x <= Max(S)
    BY <1>2, MaxFacts
  <2>2. NewId(S) = Max(S) + 1
    BY <1>2 DEF NewId
  <2>3. NewId(S) \in Nat /\ \A x \in S : x < NewId(S)
    BY <1>0, <2>1, <2>2
  <2>4. \A x \in S \cup {NewId(S)} : x <= NewId(S)
    BY <1>0, <2>3
  <2>5. S \cup {NewId(S)} \subseteq Nat /\ NewId(S) \notin S
    <3>1. NewId(S) \notin S
      <4>1. ~(NewId(S) < NewId(S))
        BY <2>3
      <4>. QED  BY <2>3, <4>1, Zenon
    <3>. QED  BY <1>0, <2>3, <3>1, Zenon
  <2>6. Bounded(S \cup {NewId(S)})
    BY <2>3, <2>4, <2>5 DEF Bounded
  <2>. QED  BY <2>3, <2>5, <2>6
<1>. QED  BY <1>1, <1>2

LEMMA BoundedFacts ==
    ASSUME NEW S, Bounded(S)
    PROVE  /\ \A x \in Nat : Bounded(S \cup {x})
           /\ \A T \in SUBSET S : Bounded(T)
           /\ Cardinality(S) \in Nat
<1>0. S \in SUBSET Nat
  BY DEF Bounded
<1>1. PICK n \in Nat : \A x \in S : x <= n
  BY DEF Bounded
<1>2. ASSUME NEW x \in Nat
      PROVE  Bounded(S \cup {x})
  <2>1. CASE x <= n
    BY <1>0, <1>1, <2>1 DEF Bounded
  <2>2. CASE n < x
    <3>1. \A y \in S \cup {x} : y <= x
      BY <1>0, <1>1, <2>2
    <3>. QED  BY <1>0, <3>1 DEF Bounded
  <2>. QED  BY <2>1, <2>2
<1>3. \A T \in SUBSET S : Bounded(T)
  BY <1>0, <1>1 DEF Bounded
<1>4. IsFiniteSet(S)
  BY <1>0, <1>1, FS_BoundedSetOfNaturals
<1>5. Cardinality(S) \in Nat
  BY <1>4, FS_CardinalityType
<1>. QED  BY <1>2, <1>3, <1>5

LEMMA FreshFdFacts ==
    ASSUME NEW rs \in Seq(RunSet), FdsEnd(rs)
    PROVE  /\ FreshFd(rs) \in Nat /\ FreshFd(rs) > 0
           /\ ~FdsReused => \A r \in DOMAIN rs : rs[r].fd < FreshFd(rs)
<1>. DEFINE used == {rs[r].fd : r \in DOMAIN rs} \cup {0}
            open == {rs[r].fd : r \in {q \in DOMAIN rs : HasMaster(rs[q])}}
            nats == {x \in used : x \in Nat}
<1>0. \A r \in DOMAIN rs : rs[r].fd \in Nat \cup {NoFd}
  <2>1. \A r \in DOMAIN rs : rs[r] \in RunSet
    OBVIOUS
  <2>. QED  BY <2>1 DEF RunSet
<1>1. PICK n \in Nat : \A r \in DOMAIN rs : rs[r].fd <= n
  BY DEF FdsEnd
<1>2. Bounded(nats) /\ nats # {}
  <2>1. \A x \in nats : x <= n
    BY <1>1
  <2>. QED  BY <2>1 DEF Bounded
<1>3. /\ Max(nats) \in nats /\ Max(nats) \in Nat
      /\ \A x \in nats : x <= Max(nats)
  BY <1>2, MaxFacts
<1>4. \A x \in used : x \in Nat \/ x = -1
  BY <1>0 DEF NoFd
<1>5. Max(nats) \in used /\ \A x \in used : Max(nats) >= x
  <2>1. Max(nats) \in used
    BY <1>3
  <2>2. \A x \in used : x \in Nat => x \in nats
    OBVIOUS
  <2>. HIDE DEF used, nats
  <2>. QED  BY <1>3, <1>4, <2>1, <2>2
<1>6. Max(used) \in used /\ \A x \in used : Max(used) >= x
  <2>. HIDE DEF used, nats
  <2>. QED  BY <1>5 DEF Max
<1>7. Max(used) \in Nat
  <2>1. 0 \in used
    OBVIOUS
  <2>. HIDE DEF used
  <2>. QED  BY <1>4, <1>6, <2>1
<1>8. FreshFd(rs) = IF FdsReused THEN Min((1 .. Max(used) + 1) \ open) ELSE Max(used) + 1
  BY DEF FreshFd
<1>9. open \subseteq used
  OBVIOUS
<1>10. \A r \in DOMAIN rs : rs[r].fd \in used
  OBVIOUS
<1>. HIDE DEF used, open, nats
<1>11. CASE FdsReused
  <2>1. Max(used) + 1 \notin used
    BY <1>6, <1>7
  <2>2. (1 .. Max(used) + 1) \ open \in SUBSET Nat /\ Max(used) + 1 \in (1 .. Max(used) + 1) \ open
    BY <1>7, <1>9, <2>1
  <2>3. Min((1 .. Max(used) + 1) \ open) \in (1 .. Max(used) + 1) \ open
    BY <2>2, MinFacts
  <2>. QED  BY <1>8, <1>11, <2>3, <1>7
<1>12. CASE ~FdsReused
  <2>1. \A x \in used : x < Max(used) + 1
    BY <1>4, <1>6, <1>7
  <2>. QED  BY <1>7, <1>8, <1>10, <1>12, <2>1
<1>. QED  BY <1>11, <1>12

----------------------------------------------------------------------------
(* Sequences *)

LEMMA ConcatFacts ==
    ASSUME NEW S, NEW p \in Seq(S), NEW q \in Seq(S)
    PROVE  /\ p \o q \in Seq(S) /\ Len(p) \in Nat /\ Len(q) \in Nat
           /\ Len(p \o q) = Len(p) + Len(q)
           /\ \A i \in 1 .. Len(p) : (p \o q)[i] = p[i]
           /\ \A i \in 1 .. Len(q) : (p \o q)[Len(p) + i] = q[i]
           /\ \A i \in 1 .. Len(p) + Len(q) :
                i > Len(p) => (p \o q)[i] = q[i - Len(p)] /\ i - Len(p) \in 1 .. Len(q)
<1>1. Len(p) \in Nat /\ Len(q) \in Nat
  OBVIOUS
<1>2. /\ p \o q \in Seq(S) /\ Len(p \o q) = Len(p) + Len(q)
      /\ \A i \in 1 .. Len(p) : (p \o q)[i] = p[i]
      /\ \A i \in 1 .. Len(p) + Len(q) : i > Len(p) => (p \o q)[i] = q[i - Len(p)]
  BY <1>1
<1>3. ASSUME NEW i \in 1 .. Len(q)
      PROVE  (p \o q)[Len(p) + i] = q[i]
  <2>1. Len(p) + i \in 1 .. Len(p) + Len(q) /\ Len(p) + i > Len(p) /\ Len(p) + i - Len(p) = i
    BY <1>1
  <2>. QED  BY <1>2, <2>1
<1>4. \A i \in 1 .. Len(p) + Len(q) : i > Len(p) => i - Len(p) \in 1 .. Len(q)
  BY <1>1
<1>. QED  BY <1>1, <1>2, <1>3, <1>4

LEMMA TailFacts ==
    ASSUME NEW S, NEW q \in Seq(S), q # <<>>
    PROVE  /\ Head(q) = q[1] /\ q[1] \in S /\ Tail(q) \in Seq(S)
           /\ Len(q) \in Nat \ {0} /\ Len(Tail(q)) = Len(q) - 1
           /\ \A i \in 1 .. Len(q) - 1 : Tail(q)[i] = q[i + 1]
           /\ \A i \in 2 .. Len(q) : Tail(q)[i - 1] = q[i] /\ i - 1 \in 1 .. Len(q) - 1
           /\ Tail(q) # <<>> <=> Len(q) > 1
<1>1. /\ Head(q) = q[1] /\ q[1] \in S /\ Tail(q) \in Seq(S)
      /\ Len(q) \in Nat \ {0} /\ Len(Tail(q)) = Len(q) - 1
      /\ \A i \in 1 .. Len(q) - 1 : Tail(q)[i] = q[i + 1]
  OBVIOUS
<1>2. ASSUME NEW i \in 2 .. Len(q)
      PROVE  Tail(q)[i - 1] = q[i] /\ i - 1 \in 1 .. Len(q) - 1
  <2>1. i - 1 \in 1 .. Len(q) - 1 /\ i - 1 + 1 = i
    BY <1>1
  <2>. QED  BY <2>1, <1>1
<1>3. Tail(q) # <<>> <=> Len(q) > 1
  <2>1. Tail(q) # <<>> <=> Len(Tail(q)) # 0
    BY <1>1
  <2>. QED  BY <1>1, <2>1
<1>. QED  BY <1>1, <1>2, <1>3

LEMMA AppendFacts ==
    ASSUME NEW S, NEW q \in Seq(S), NEW m \in S
    PROVE  /\ Append(q, m) \in Seq(S) /\ Len(q) \in Nat
           /\ Len(Append(q, m)) = Len(q) + 1
           /\ \A i \in 1 .. Len(q) : Append(q, m)[i] = q[i]
           /\ Append(q, m)[Len(q) + 1] = m
OBVIOUS

LEMMA SeqDomain ==
    ASSUME NEW S, NEW q \in Seq(S)
    PROVE  /\ Len(q) \in Nat /\ DOMAIN q = 1 .. Len(q)
           /\ \A k \in DOMAIN q : q[k] \in S
OBVIOUS

(* u is in one of the first n of qs, and v after it.                        *)
Before(qs, n, u, v) ==
    \E a, b \in 1 .. n :
        \E x \in 1 .. Len(qs[a]), y \in 1 .. Len(qs[b]) :
            /\ u = qs[a][x] /\ v = qs[b][y]
            /\ a < b \/ (a = b /\ x < y)

(* q is the first n of qs, one after the other.                            *)
Joined(q, S, qs, n) ==
    /\ q \in Seq(S)
    /\ \A k \in 1 .. Len(q) :
          \E a \in 1 .. n : \E x \in 1 .. Len(qs[a]) : q[k] = qs[a][x]
    /\ \A j, k \in 1 .. Len(q) : j < k => Before(qs, n, q[j], q[k])

LEMMA JoinedOneMore ==
    ASSUME NEW S, NEW n \in Nat \ {0}, NEW qs, \A i \in 1 .. n : qs[i] \in Seq(S),
           NEW q, Joined(q, S, qs, n - 1)
    PROVE  Joined(q \o qs[n], S, qs, n)
<1>. DEFINE p == qs[n]
            r == q \o p
<1>0. q \in Seq(S) /\ p \in Seq(S) /\ n \in 1 .. n /\ 1 .. n - 1 \subseteq 1 .. n
  BY DEF Joined
<1>1. /\ r \in Seq(S) /\ Len(q) \in Nat /\ Len(p) \in Nat /\ Len(r) = Len(q) + Len(p)
      /\ \A i \in 1 .. Len(q) : r[i] = q[i]
      /\ \A i \in 1 .. Len(r) : i > Len(q) => r[i] = p[i - Len(q)] /\ i - Len(q) \in 1 .. Len(p)
  BY <1>0, ConcatFacts
<1>2. ASSUME NEW k \in 1 .. Len(r)
      PROVE  \E a \in 1 .. n : \E x \in 1 .. Len(qs[a]) : r[k] = qs[a][x]
  <2>1. CASE k > Len(q)
    BY <1>0, <1>1, <2>1
  <2>2. CASE k <= Len(q)
    <3>1. k \in 1 .. Len(q) /\ r[k] = q[k]
      BY <1>1, <2>2
    <3>2. PICK a \in 1 .. n - 1 : \E x \in 1 .. Len(qs[a]) : q[k] = qs[a][x]
      BY <3>1 DEF Joined
    <3>. QED  BY <1>0, <3>1, <3>2
  <2>. QED  BY <1>1, <2>1, <2>2
<1>3. ASSUME NEW j \in 1 .. Len(r), NEW k \in 1 .. Len(r), j < k
      PROVE  Before(qs, n, r[j], r[k])
  <2>1. CASE k <= Len(q)
    <3>1. j \in 1 .. Len(q) /\ k \in 1 .. Len(q) /\ r[j] = q[j] /\ r[k] = q[k]
      BY <1>1, <1>3, <2>1
    <3>a. Before(qs, n - 1, q[j], q[k])
      BY <3>1, <1>3 DEF Joined
    <3>2. PICK a \in 1 .. n - 1, b \in 1 .. n - 1 :
              \E x \in 1 .. Len(qs[a]), y \in 1 .. Len(qs[b]) :
                  /\ q[j] = qs[a][x] /\ q[k] = qs[b][y]
                  /\ a < b \/ (a = b /\ x < y)
      BY <3>a DEF Before
    <3>3. PICK x \in 1 .. Len(qs[a]), y \in 1 .. Len(qs[b]) :
                  /\ q[j] = qs[a][x] /\ q[k] = qs[b][y]
                  /\ a < b \/ (a = b /\ x < y)
      BY <3>2
    <3>4. a \in 1 .. n /\ b \in 1 .. n
      OBVIOUS
    <3>. HIDE DEF r
    <3>. QED  BY <3>1, <3>3, <3>4 DEF Before
  <2>2. CASE k > Len(q) /\ j <= Len(q)
    <3>1. j \in 1 .. Len(q) /\ r[j] = q[j] /\ r[k] = p[k - Len(q)] /\ k - Len(q) \in 1 .. Len(p)
      BY <1>1, <2>2
    <3>2. PICK a \in 1 .. n - 1 : \E x \in 1 .. Len(qs[a]) : q[j] = qs[a][x]
      BY <3>1 DEF Joined
    <3>3. PICK x \in 1 .. Len(qs[a]) : q[j] = qs[a][x]
      BY <3>2
    <3>4. a \in 1 .. n /\ a < n
      OBVIOUS
    <3>5. \E y \in 1 .. Len(qs[n]) : r[k] = qs[n][y]
      BY <3>1
    <3>. HIDE DEF r, p
    <3>. QED  BY <1>0, <3>1, <3>3, <3>4, <3>5 DEF Before
  <2>3. CASE j > Len(q)
    <3>1. /\ r[j] = p[j - Len(q)] /\ j - Len(q) \in 1 .. Len(p)
          /\ r[k] = p[k - Len(q)] /\ k - Len(q) \in 1 .. Len(p)
          /\ j - Len(q) < k - Len(q)
      BY <1>1, <1>3, <2>3
    <3>2. \E x, y \in 1 .. Len(qs[n]) : r[j] = qs[n][x] /\ r[k] = qs[n][y] /\ x < y
      BY <3>1
    <3>. HIDE DEF r, p
    <3>. QED  BY <1>0, <3>2 DEF Before
  <2>4. k <= Len(q) \/ (k > Len(q) /\ j <= Len(q)) \/ j > Len(q)
    BY <1>1
  <2>. QED  BY <2>1, <2>2, <2>3, <2>4, Zenon
<1>. QED  BY <1>1, <1>2, <1>3 DEF Joined

(* FlattenSeq is a function defined by recursion on the length: such a      *)
(* function exists, because otherwise there would be a shortest prefix for  *)
(* which it does not.                                                      *)
FlatOf(qs, f, n) ==
    f = [i \in 1 .. n |-> IF i = 1 THEN qs[i] ELSE f[i - 1] \o qs[i]]

LEMMA FlatExists ==
    ASSUME NEW qs
    PROVE  \A n \in Nat : \E f : FlatOf(qs, f, n)
<1>. DEFINE bad == {n \in Nat : ~ \E f : FlatOf(qs, f, n)}
<1>1. SUFFICES ASSUME bad # {}
               PROVE  FALSE
  OBVIOUS
<1>2. PICK n \in bad : \A m \in bad : n <= m
  BY <1>1, LeastExists
<1>3. n \in Nat /\ ~ \E f : FlatOf(qs, f, n)
  BY <1>2
<1>4. CASE n = 0
  <2>1. FlatOf(qs, [i \in 1 .. 0 |-> <<>>], 0)
    BY DEF FlatOf
  <2>. QED  BY <1>3, <1>4, <2>1
<1>5. CASE n # 0
  <2>1. n - 1 \in Nat /\ ~ (n <= n - 1)
    BY <1>3, <1>5
  <2>2. n - 1 \notin bad
    BY <1>2, <2>1
  <2>3. PICK f : FlatOf(qs, f, n - 1)
    BY <2>1, <2>2
  <2>. DEFINE last == IF n = 1 THEN qs[n] ELSE f[n - 1] \o qs[n]
              g == [i \in 1 .. n |-> IF i = n THEN last ELSE f[i]]
  <2>4. \A i \in 1 .. n - 1 : f[i] = IF i = 1 THEN qs[i] ELSE f[i - 1] \o qs[i]
    BY <2>3 DEF FlatOf
  <2>5. \A i \in 1 .. n : g[i] = IF i = 1 THEN qs[i] ELSE g[i - 1] \o qs[i]
    BY <1>3, <1>5, <2>4
  <2>6. FlatOf(qs, g, n)
    BY <2>5 DEF FlatOf
  <2>. QED  BY <1>3, <2>6
<1>. QED  BY <1>4, <1>5

LEMMA FlatJoins ==
    ASSUME NEW S, NEW n \in Nat, NEW qs \in [1 .. n -> Seq(S)]
    PROVE  Joined(FlattenSeq(qs), S, qs, n)
<1>0. Len(qs) = n /\ \A i \in 1 .. n : qs[i] \in Seq(S)
  OBVIOUS
<1>1. CASE n = 0
  <2>1. FlattenSeq(qs) = qs
    BY <1>0, <1>1 DEF FlattenSeq
  <2>2. qs = <<>>
    BY <1>1
  <2>3. Joined(<<>>, S, qs, n)
    BY <1>1 DEF Joined
  <2>. QED  BY <2>1, <2>2, <2>3
<1>2. CASE n # 0
  <2>. DEFINE f == CHOOSE f : FlatOf(qs, f, Len(qs))
  <2>1. FlatOf(qs, f, Len(qs))
    BY <1>0, FlatExists
  <2>2. FlattenSeq(qs) = f[Len(qs)]
    BY <1>0, <1>2, Zenon DEF FlattenSeq, FlatOf
  <2>. HIDE DEF f
  <2>. DEFINE bad == {i \in 1 .. n : ~ Joined(f[i], S, qs, i)}
  <2>3. bad = {}
    <3>1. SUFFICES ASSUME bad # {}
                   PROVE  FALSE
      OBVIOUS
    <3>2. PICK i \in bad : \A j \in bad : i <= j
      <4>1. bad \in SUBSET Nat
        OBVIOUS
      <4>. QED  BY <3>1, <4>1, LeastExists
    <3>3. i \in 1 .. n /\ ~ Joined(f[i], S, qs, i)
      BY <3>2
    <3>4. f[i] = IF i = 1 THEN qs[i] ELSE f[i - 1] \o qs[i]
      BY <1>0, <2>1, <3>3 DEF FlatOf
    <3>5. i \in Nat \ {0} /\ \A k \in 1 .. i : qs[k] \in Seq(S)
      BY <1>0, <3>3
    <3>6. CASE i = 1
      <4>1. Joined(<<>>, S, qs, i - 1)
        BY <3>6 DEF Joined
      <4>2. Joined(<<>> \o qs[i], S, qs, i)
        BY <4>1, <3>5, JoinedOneMore
      <4>3. <<>> \o qs[i] = qs[i]
        BY <3>5
      <4>. QED  BY <4>2, <4>3, <3>3, <3>4, <3>6
    <3>7. CASE i # 1
      <4>1. i - 1 \in 1 .. n /\ ~ (i <= i - 1)
        BY <3>3, <3>7
      <4>2. Joined(f[i - 1], S, qs, i - 1)
        BY <3>2, <4>1
      <4>3. Joined(f[i - 1] \o qs[i], S, qs, i)
        BY <4>2, <3>5, JoinedOneMore
      <4>. QED  BY <4>3, <3>3, <3>4, <3>7
    <3>. QED  BY <3>6, <3>7
  <2>4. Joined(f[n], S, qs, n)
    BY <1>2, <2>3
  <2>. QED  BY <1>0, <2>2, <2>4
<1>. QED  BY <1>1, <1>2

----------------------------------------------------------------------------
(* Maps *)

Extends(g, f, id, v) ==
    /\ DOMAIN g = DOMAIN f \cup {id} /\ g[id] = v
    /\ \A x \in DOMAIN f : x # id => g[x] = f[x]

Loses(g, f, id) ==
    DOMAIN g = DOMAIN f \ {id} /\ \A x \in DOMAIN f : x # id => g[x] = f[x]

LEMMA WithFacts ==
    ASSUME NEW S, NEW f, Maps(f, S), NEW id \in Nat, NEW v \in S
    PROVE  Maps(With(f, id, v), S) /\ Extends(With(f, id, v), f, id, v)
<1>. DEFINE g == With(f, id, v)
<1>1. /\ DOMAIN g = DOMAIN f \cup {id} /\ g[id] = v
      /\ \A x \in DOMAIN f : x # id => g[x] = f[x]
      /\ g = [y \in DOMAIN f \cup {id} |-> IF y = id THEN v ELSE f[y]]
  BY DEF With
<1>2. \A y \in DOMAIN f : f[y] \in S
  BY DEF Maps
<1>3. g \in [DOMAIN f \cup {id} -> S]
  BY <1>1, <1>2
<1>4. Bounded(DOMAIN f \cup {id})
  BY BoundedFacts DEF Maps
<1>. HIDE DEF g
<1>5. Maps(g, S)
  BY <1>1, <1>3, <1>4 DEF Maps
<1>. QED  BY <1>1, <1>5 DEF g, Extends

LEMMA WithoutFacts ==
    ASSUME NEW S, NEW f, Maps(f, S), NEW id
    PROVE  Maps(Without(f, id), S) /\ Loses(Without(f, id), f, id)
<1>. DEFINE g == Without(f, id)
<1>1. /\ DOMAIN g = DOMAIN f \ {id}
      /\ \A x \in DOMAIN f : x # id => g[x] = f[x]
      /\ g = [x \in DOMAIN f \ {id} |-> f[x]]
  BY DEF Without, Restrict
<1>2. \A y \in DOMAIN f : f[y] \in S
  BY DEF Maps
<1>3. g \in [DOMAIN f \ {id} -> S]
  BY <1>1, <1>2
<1>4. Bounded(DOMAIN f \ {id})
  BY BoundedFacts DEF Maps
<1>. HIDE DEF g
<1>5. Maps(g, S)
  BY <1>1, <1>3, <1>4 DEF Maps
<1>. QED  BY <1>1, <1>5 DEF g, Loses

LEMMA MapsMore ==
    ASSUME NEW S, NEW T, S \subseteq T, NEW f, Maps(f, S)
    PROVE  Maps(f, T)
BY DEF Maps

LEMMA EmptyMap ==
    ASSUME NEW S
    PROVE  Maps(<<>>, S) /\ DOMAIN <<>> = {}
<1>1. DOMAIN <<>> = {} /\ <<>> \in [{} -> S]
  OBVIOUS
<1>2. Bounded({})
  BY DEF Bounded
<1>. QED  BY <1>1, <1>2 DEF Maps

----------------------------------------------------------------------------
(* Messages *)

LEMMA PtyMessageType ==
    ASSUME NEW m \in PtyMessages
    PROVE  /\ m.do \in {"spawn", "rerun", "close", "new tab"}
           /\ m.do = "spawn" => m.cmd \in AllCommands /\ m.of \in Requests /\ m.split \in BOOLEAN
           /\ m.do = "rerun" => m.id \in Nat /\ m.cmd \in AllCommands /\ m.of \in Requests
           /\ m.do = "close" => m.id \in Nat /\ m.of \in Requests
           /\ m.do = "new tab" => m = NewTab
<1>1. CASE m \in Spawns
  BY <1>1 DEF Spawns
<1>2. CASE m \in ReRuns
  BY <1>2 DEF ReRuns
<1>3. CASE m \in Closings
  BY <1>3 DEF Closings
<1>4. CASE m = NewTab
  BY <1>4 DEF NewTab
<1>. QED  BY <1>1, <1>2, <1>3, <1>4, Zenon DEF PtyMessages

LEMMA ScreenMessageType ==
    ASSUME NEW rs, NEW m \in ScreenMessages(rs)
    PROVE  /\ m.do \in {"new", "layout", "bytes", "hold", "exited", "key", "close focused", "resize"}
           /\ m.do = "new" => /\ m.panes = <<m.panes[1]>> /\ m.panes[1] \in Terminals
                              /\ m.split \in BOOLEAN
           /\ m.do \in {"new", "layout"} => m.panes \in Seq(Terminals)
           /\ m.do \in {"bytes", "hold", "exited"} => m.id \in Nat /\ m.run \in DOMAIN rs
           /\ m.do = "hold" => m \in Holds(rs)
           /\ m.do = "key" => m.key \in {"enter", "escape", "ctrl-c"}
<1>1. CASE m \in News
  <2>1. m.do = "new" /\ m.split \in BOOLEAN
    BY <1>1 DEF News
  <2>2. PICK t \in Terminals : m.panes = <<t>>
    BY <1>1 DEF News
  <2>3. <<t>>[1] = t /\ <<t>> \in Seq(Terminals)
    OBVIOUS
  <2>. QED  BY <2>1, <2>2, <2>3
<1>2. CASE m \in Layouts
  BY <1>2 DEF Layouts
<1>3. CASE m \in Bytes(rs)
  BY <1>3 DEF Bytes
<1>4. CASE m \in Holds(rs)
  <2>1. m.do = "hold" /\ m.id \in Nat /\ m.run \in DOMAIN rs
    BY <1>4 DEF Holds
  <2>. QED  BY <1>4, <2>1
<1>5. CASE m \in Exits(rs)
  BY <1>5 DEF Exits
<1>6. CASE m \in Keys
  <2>1. m.do = "key" /\ m.key \in {"enter", "escape", "ctrl-c"}
    BY <1>6 DEF Keys
  <2>. QED  BY <2>1
<1>7. CASE m \in {CloseFocused, TerminalResize}
  <2>0. CloseFocused.do = "close focused" /\ TerminalResize.do = "resize"
    BY DEF CloseFocused, TerminalResize
  <2>1. m.do \in {"close focused", "resize"}
    BY <1>7, <2>0
  <2>. QED  BY <2>1
<1>. QED  BY <1>1, <1>2, <1>3, <1>4, <1>5, <1>6, <1>7, Zenon DEF ScreenMessages

LEMMA TodoType ==
    ASSUME NEW rs, NEW s \in TodoSteps(rs)
    PROVE  /\ s.step \in {"tell", "listen", "free"}
           /\ s.step = "tell" => s.msg \in ScreenMessages(rs)
           /\ s.step = "listen" => s.run \in DOMAIN rs
           /\ s.step = "free" => s.id \in Nat
BY DEF TodoSteps, Tellings, Listenings, Freeings

LEMMA MessagesMore ==
    ASSUME NEW rs, NEW ns, DOMAIN rs \subseteq DOMAIN ns
    PROVE  /\ ScreenMessages(rs) \subseteq ScreenMessages(ns)
           /\ TodoSteps(rs) \subseteq TodoSteps(ns)
           /\ Holds(rs) \subseteq Holds(ns)
<1>1. Bytes(rs) \subseteq Bytes(ns) /\ Holds(rs) \subseteq Holds(ns) /\ Exits(rs) \subseteq Exits(ns)
  BY DEF Bytes, Holds, Exits
<1>2. ScreenMessages(rs) \subseteq ScreenMessages(ns)
  BY <1>1, Zenon DEF ScreenMessages
<1>3. Tellings(rs) \subseteq Tellings(ns) /\ Listenings(rs) \subseteq Listenings(ns)
  BY <1>2 DEF Tellings, Listenings
<1>4. TodoSteps(rs) \subseteq TodoSteps(ns)
  BY <1>3, Zenon DEF TodoSteps
<1>. QED  BY <1>1, <1>2, <1>4

LEMMA MoreQueues ==
    ASSUME NEW S, NEW T, S \subseteq T, NEW q \in Seq(S)
    PROVE  q \in Seq(T)
OBVIOUS

LEMMA MadeMessages ==
    ASSUME NEW rs
    PROVE  /\ \A t \in Terminals, split \in BOOLEAN : NewPane(t, split) \in ScreenMessages(rs)
           /\ \A ts \in Seq(Terminals) : ApplyLayout(ts) \in ScreenMessages(rs)
           /\ \A id \in Nat, r \in DOMAIN rs : /\ PtyBytes(id, r) \in ScreenMessages(rs)
                                               /\ ClosePane(id, r) \in ScreenMessages(rs)
           /\ \A id \in Nat, r \in DOMAIN rs, tab \in BOOLEAN :
                  HoldPane(id, r, tab) \in ScreenMessages(rs)
           /\ \A key \in {"enter", "escape", "ctrl-c"} : Key(key) \in ScreenMessages(rs)
           /\ CloseFocused \in ScreenMessages(rs) /\ TerminalResize \in ScreenMessages(rs)
<1>1. \A t \in Terminals, split \in BOOLEAN : NewPane(t, split) \in News
  BY DEF NewPane, News
<1>2. \A ts \in Seq(Terminals) : ApplyLayout(ts) \in Layouts
  BY DEF ApplyLayout, Layouts
<1>3. \A id \in Nat, r \in DOMAIN rs : PtyBytes(id, r) \in Bytes(rs) /\ ClosePane(id, r) \in Exits(rs)
  BY DEF PtyBytes, ClosePane, Bytes, Exits
<1>4. \A id \in Nat, r \in DOMAIN rs, tab \in BOOLEAN : HoldPane(id, r, tab) \in Holds(rs)
  BY DEF HoldPane, Holds
<1>5. \A key \in {"enter", "escape", "ctrl-c"} : Key(key) \in Keys
  BY DEF Key, Keys
<1>. QED  BY <1>1, <1>2, <1>3, <1>4, <1>5 DEF ScreenMessages

LEMMA MadeRequests ==
    /\ \A cmd \in AllCommands, of \in Requests, split \in BOOLEAN : Spawn(cmd, of, split) \in PtyMessages
    /\ \A id \in Nat, cmd \in AllCommands, of \in Requests : ReRun(id, cmd, of) \in PtyMessages
    /\ \A id \in Nat, of \in Requests : Close(id, of) \in PtyMessages
    /\ NewTab \in PtyMessages
BY DEF Spawn, ReRun, Close, PtyMessages, Spawns, ReRuns, Closings

LEMMA MadeSteps ==
    ASSUME NEW rs
    PROVE  /\ \A m \in ScreenMessages(rs) : Tell(m) \in Seq(TodoSteps(rs))
           /\ \A r \in DOMAIN rs : Listen(r) \in Seq(TodoSteps(rs))
           /\ \A id \in Nat : Free(id) \in Seq(TodoSteps(rs))
           /\ <<>> \in Seq(TodoSteps(rs))
<1>1. \A m \in ScreenMessages(rs) : [step |-> "tell", msg |-> m] \in TodoSteps(rs)
  BY DEF TodoSteps, Tellings
<1>2. \A r \in DOMAIN rs : [step |-> "listen", run |-> r] \in TodoSteps(rs)
  BY DEF TodoSteps, Listenings
<1>3. \A id \in Nat : [step |-> "free", id |-> id] \in TodoSteps(rs)
  BY DEF TodoSteps, Freeings
<1>. QED  BY <1>1, <1>2, <1>3 DEF Tell, Listen, Free

NotFoundTold(q, rs, id, r, tab) ==
    /\ q \in Seq(TodoSteps(rs)) /\ Len(q) = 2
    /\ q[1] = [step |-> "tell", msg |-> PtyBytes(id, r)]
    /\ q[2] = [step |-> "tell", msg |-> HoldPane(id, r, tab)]

LEMMA NotFoundSteps ==
    ASSUME NEW rs, NEW id \in Nat, NEW r \in DOMAIN rs, NEW tab \in BOOLEAN
    PROVE  NotFoundTold(CommandNotFound(id, r, tab), rs, id, r, tab)
<1>. DEFINE a == [step |-> "tell", msg |-> PtyBytes(id, r)]
            b == [step |-> "tell", msg |-> HoldPane(id, r, tab)]
<1>1. PtyBytes(id, r) \in ScreenMessages(rs) /\ HoldPane(id, r, tab) \in ScreenMessages(rs)
  BY MadeMessages
<1>2. a \in TodoSteps(rs) /\ b \in TodoSteps(rs)
  BY <1>1 DEF TodoSteps, Tellings
<1>3. CommandNotFound(id, r, tab) = <<a>> \o <<b>>
  BY DEF CommandNotFound, Tell
<1>. HIDE DEF a, b
<1>4. <<a>> \o <<b>> = <<a, b>>
  <2>1. /\ <<a>> \o <<b>> \in Seq(TodoSteps(rs)) /\ Len(<<a>> \o <<b>>) = 2
        /\ (<<a>> \o <<b>>)[1] = a /\ (<<a>> \o <<b>>)[2] = b
    BY <1>2
  <2>2. <<a, b>> \in Seq(TodoSteps(rs)) /\ Len(<<a, b>>) = 2 /\ <<a, b>>[1] = a /\ <<a, b>>[2] = b
    BY <1>2
  <2>3. \A i \in 1 .. 2 : (<<a>> \o <<b>>)[i] = <<a, b>>[i]
    BY <2>1, <2>2
  <2>. QED  BY <2>1, <2>2, <2>3, SeqEqual
<1>5. <<a, b>> \in Seq(TodoSteps(rs)) /\ Len(<<a, b>>) = 2 /\ <<a, b>>[1] = a /\ <<a, b>>[2] = b
  BY <1>2
<1>. QED  BY <1>3, <1>4, <1>5 DEF a, b, NotFoundTold

----------------------------------------------------------------------------
(* Processes that are started *)

IsNewRun(run, id, of, cmd, fd, tab) ==
    /\ run \in RunSet
    /\ run.id = id /\ run.of = of /\ run.cmd = cmd /\ run.tab = tab
    /\ run.hup = FALSE /\ run.listener = "none" /\ run.size = <<>>
    /\ run.fd = IF Exists(cmd) THEN fd ELSE NoFd
    /\ run.state = IF Exists(cmd) THEN "live" ELSE "absent"

LEMMA NewRunFacts ==
    ASSUME NEW id \in Nat, NEW of \in Requests, NEW cmd \in AllCommands, NEW fd \in Nat,
           NEW tab \in BOOLEAN
    PROVE  IsNewRun(NewRun(id, of, cmd, fd, tab), id, of, cmd, fd, tab)
BY DEF IsNewRun, NewRun, RunSet, Sizes, States, Reads

OneMoreRun(ns, rs, run) ==
    /\ ns \in Seq(RunSet) /\ FdsEnd(ns)
    /\ DOMAIN ns = DOMAIN rs \cup {Len(rs) + 1} /\ Len(rs) \in Nat /\ Len(rs) + 1 \notin DOMAIN rs
    /\ ns[Len(rs) + 1] = run /\ \A q \in DOMAIN rs : ns[q] = rs[q]

LEMMA MoreRuns ==
    ASSUME NEW rs \in Seq(RunSet), FdsEnd(rs), NEW run \in RunSet
    PROVE  OneMoreRun(Append(rs, run), rs, run)
<1>. DEFINE ns == Append(rs, run)
            r  == Len(rs) + 1
<1>1. /\ ns \in Seq(RunSet)
      /\ DOMAIN ns = DOMAIN rs \cup {r} /\ Len(rs) \in Nat /\ r \notin DOMAIN rs
      /\ ns[r] = run /\ \A q \in DOMAIN rs : ns[q] = rs[q]
  OBVIOUS
<1>2. PICK n \in Nat : \A q \in DOMAIN rs : rs[q].fd <= n
  BY DEF FdsEnd
<1>3. run.fd \in Nat \cup {NoFd} /\ \A q \in DOMAIN rs : rs[q].fd \in Nat \cup {NoFd}
  <2>1. \A q \in DOMAIN rs : rs[q] \in RunSet
    OBVIOUS
  <2>. QED  BY <2>1 DEF RunSet
<1>. HIDE DEF ns, r
<1>4. FdsEnd(ns)
  <2>1. CASE run.fd <= n
    <3>1. \A q \in DOMAIN ns : ns[q].fd <= n
      BY <1>1, <1>2, <2>1
    <3>. QED  BY <3>1 DEF FdsEnd
  <2>2. CASE n < run.fd
    <3>0. run.fd \in Nat
      BY <1>3, <2>2 DEF NoFd
    <3>1. \A q \in DOMAIN ns : ns[q].fd <= run.fd
      BY <1>1, <1>2, <1>3, <2>2, <3>0 DEF NoFd
    <3>. QED  BY <3>0, <3>1 DEF FdsEnd
  <2>. QED  BY <1>3, <2>1, <2>2 DEF NoFd
<1>. QED  BY <1>1, <1>4 DEF ns, r, OneMoreRun

(* m is s after one more command                                           *)
OneMoreStarted(m, s, id, cmd, of, tab) ==
    /\ ResourcesType(m.table, m.child, m.runs)
    /\ Terminal(id, of, cmd) \in Terminals
    /\ m.terminals = Append(s.terminals, Terminal(id, of, cmd))
    /\ id \in Nat /\ id \notin DOMAIN s.table
    /\ DOMAIN m.table = DOMAIN s.table \cup {id}
    /\ m.table[id] = IF cmd # "suspended" /\ Exists(cmd) THEN FreshFd(s.runs) ELSE NoFd
    /\ \A x \in DOMAIN s.table : m.table[x] = s.table[x]
    /\ cmd = "suspended" => m.runs = s.runs
    /\ cmd # "suspended" =>
         \E run : /\ IsNewRun(run, id, of, cmd, FreshFd(s.runs), tab)
                  /\ OneMoreRun(m.runs, s.runs, run)
    /\ IF cmd # "suspended" /\ Exists(cmd)
       THEN Extends(m.child, s.child, id, Len(s.runs) + 1)
       ELSE m.child = s.child

LEMMA StartedFacts ==
    ASSUME NEW s, ResourcesType(s.table, s.child, s.runs), s.terminals \in Seq(Terminals),
           NEW cmd \in AllCommands, NEW of \in Requests, NEW tab \in BOOLEAN
    PROVE  OneMoreStarted(Started(s, cmd, of, tab), s, NewId(DOMAIN s.table), cmd, of, tab)
<1>. DEFINE n   == Started(s, cmd, of, tab)
            id  == NewId(DOMAIN s.table)
            fd  == FreshFd(s.runs)
            r   == Len(s.runs) + 1
            t   == Terminal(id, of, cmd)
            run == NewRun(id, of, cmd, fd, tab)
            starts == cmd # "suspended"
<1>0. /\ Maps(s.table, Nat \cup {NoFd}) /\ Maps(s.child, DOMAIN s.runs)
      /\ s.runs \in Seq(RunSet) /\ FdsEnd(s.runs)
  BY DEF ResourcesType
<1>1. id \in Nat /\ id \notin DOMAIN s.table
  BY <1>0, NewIdFacts DEF Maps
<1>2. fd \in Nat
  BY <1>0, FreshFdFacts
<1>3. /\ n.table = With(s.table, id, IF starts /\ Exists(cmd) THEN fd ELSE NoFd)
      /\ n.child = (IF starts /\ Exists(cmd) THEN With(s.child, id, r) ELSE s.child)
      /\ n.runs = (IF starts THEN Append(s.runs, run) ELSE s.runs)
      /\ n.terminals = Append(s.terminals, t)
  BY DEF Started
<1>4. t \in Terminals
  BY <1>1 DEF Terminal, Terminals
<1>5. IsNewRun(run, id, of, cmd, fd, tab)
  BY <1>1, <1>2, NewRunFacts
<1>6. OneMoreRun(Append(s.runs, run), s.runs, run)
  BY <1>0, <1>5, MoreRuns DEF IsNewRun
<1>a. /\ Append(s.runs, run) \in Seq(RunSet) /\ FdsEnd(Append(s.runs, run))
      /\ DOMAIN Append(s.runs, run) = DOMAIN s.runs \cup {r}
  BY <1>6 DEF OneMoreRun
<1>. HIDE DEF n, id, fd, r, t, run
<1>7. /\ Maps(n.table, Nat \cup {NoFd}) /\ DOMAIN n.table = DOMAIN s.table \cup {id}
      /\ n.table[id] = (IF starts /\ Exists(cmd) THEN fd ELSE NoFd)
      /\ \A x \in DOMAIN s.table : n.table[x] = s.table[x]
  <2>. DEFINE v == IF starts /\ Exists(cmd) THEN fd ELSE NoFd
  <2>1. v \in Nat \cup {NoFd} /\ n.table = With(s.table, id, v)
    BY <1>2, <1>3
  <2>. HIDE DEF v
  <2>a. Maps(s.table, Nat \cup {NoFd}) /\ id \in Nat
    BY <1>0, <1>1
  <2>b. Maps(With(s.table, id, v), Nat \cup {NoFd}) /\ Extends(With(s.table, id, v), s.table, id, v)
    BY <2>a, <2>1, WithFacts
  <2>2. Maps(n.table, Nat \cup {NoFd}) /\ Extends(n.table, s.table, id, v)
    BY <2>b, <2>1
  <2>3. \A x \in DOMAIN s.table : x # id
    BY <1>1
  <2>. QED  BY <2>1, <2>2, <2>3 DEF v, Extends
<1>8. CASE starts /\ Exists(cmd)
  <2>1. Maps(s.child, DOMAIN n.runs) /\ r \in DOMAIN n.runs
    BY <1>0, <1>3, <1>a, <1>8, MapsMore
  <2>2. Maps(n.child, DOMAIN n.runs) /\ Extends(n.child, s.child, id, r)
    BY <1>1, <1>3, <1>8, <2>1, WithFacts
  <2>3. ResourcesType(n.table, n.child, n.runs)
    BY <1>3, <1>a, <1>7, <1>8, <2>2 DEF ResourcesType
  <2>. QED  BY <1>1, <1>3, <1>4, <1>5, <1>6, <1>7, <1>8, <2>2, <2>3 DEF OneMoreStarted, n, id, fd, r, t
<1>9. CASE ~(starts /\ Exists(cmd))
  <2>1. Maps(n.child, DOMAIN n.runs)
    <3>1. DOMAIN s.runs \subseteq DOMAIN n.runs
      BY <1>3, <1>a
    <3>. QED  BY <1>0, <1>3, <1>9, <3>1, MapsMore
  <2>2. n.runs \in Seq(RunSet) /\ FdsEnd(n.runs)
    BY <1>0, <1>3, <1>a
  <2>3. ResourcesType(n.table, n.child, n.runs)
    BY <1>7, <2>1, <2>2 DEF ResourcesType
  <2>. QED  BY <1>1, <1>3, <1>4, <1>5, <1>6, <1>7, <1>9, <2>3 DEF OneMoreStarted, n, id, fd, r, t
<1>. QED  BY <1>8, <1>9

----------------------------------------------------------------------------
(* The processes of the layout *)

IsUp(run) == run.state # "absent"

(* What the pty thread keeps when the first n commands of the layout have   *)
(* been started: the i-th has terminal i - 1.                               *)
LaidOut(s, n) ==
    /\ ResourcesType(s.table, s.child, s.runs)
    /\ s.terminals = [i \in 1 .. n |-> Terminal(i - 1, i, Layout[i])]
    /\ DOMAIN s.table = 0 .. n - 1
    /\ \A r \in DOMAIN s.runs :
          LET run == s.runs[r] IN
          /\ run.of \in 1 .. n /\ run.id = run.of - 1
          /\ run.cmd = Layout[run.of] /\ run.cmd # "suspended"
          /\ ~run.hup /\ run.listener = "none"
          /\ run.state = IF Exists(run.cmd) THEN "live" ELSE "absent"
          /\ IsUp(run) => run.id \in DOMAIN s.child /\ s.child[run.id] = r
    /\ \A r, q \in DOMAIN s.runs : s.runs[r].of = s.runs[q].of => r = q
    /\ \A i \in 1 .. n : Layout[i] # "suspended" => \E r \in DOMAIN s.runs : s.runs[r].of = i
    /\ \A id \in DOMAIN s.child : id \in DOMAIN s.table /\ s.runs[s.child[id]].id = id
    /\ \A r \in DOMAIN s.runs : IsUp(s.runs[r]) => s.table[s.runs[r].id] = s.runs[r].fd
    /\ \A id \in DOMAIN s.table : s.table[id] # NoFd =>
          \E r \in DOMAIN s.runs : /\ IsUp(s.runs[r]) /\ s.runs[r].id = id
                                   /\ s.runs[r].fd = s.table[id]
    /\ \A r \in DOMAIN s.runs : IsUp(s.runs[r]) => s.runs[r].fd > 0
    /\ ~FdsReused => \A r, q \in DOMAIN s.runs :
                        IsUp(s.runs[r]) /\ s.runs[r].fd = s.runs[q].fd => r = q

LEMMA NextId ==
    ASSUME NEW n \in Nat
    PROVE  NewId(0 .. n - 1) = n
<1>1. CASE n = 0
  <2>1. 0 .. n - 1 = {}
    BY <1>1
  <2>. QED  BY <1>1, <2>1 DEF NewId
<1>2. CASE n # 0
  <2>1. n - 1 \in 0 .. n - 1 /\ \A x \in 0 .. n - 1 : x <= n - 1
    BY <1>2
  <2>2. Bounded(0 .. n - 1) /\ 0 .. n - 1 # {}
    <3>1. n - 1 \in Nat /\ 0 .. n - 1 \subseteq Nat
      BY <1>2
    <3>. QED  BY <2>1, <3>1 DEF Bounded
  <2>3. /\ Max(0 .. n - 1) \in 0 .. n - 1
        /\ \A x \in 0 .. n - 1 : x <= Max(0 .. n - 1)
    BY <2>2, MaxFacts
  <2>4. Max(0 .. n - 1) = n - 1
    <3>1. Max(0 .. n - 1) <= n - 1 /\ n - 1 <= Max(0 .. n - 1) /\ Max(0 .. n - 1) \in Int
      BY <2>1, <2>3
    <3>. QED  BY <3>1
  <2>5. NewId(0 .. n - 1) = Max(0 .. n - 1) + 1
    BY <2>2 DEF NewId
  <2>. QED  BY <2>4, <2>5
<1>. QED  BY <1>1, <1>2

LEMMA LayoutTypes ==
    /\ First \in Nat /\ DOMAIN Layout = 1 .. First
    /\ \A i \in 1 .. First : Layout[i] \in AllCommands /\ i \in Requests
<1>1. Layout \in Seq(AllCommands) /\ MaxRequests \in Nat
  BY CommandsAssumption, BoundsAssumption
<1>2. First \in Nat /\ DOMAIN Layout = 1 .. First
  BY <1>1 DEF First
<1>3. \A i \in 1 .. First : Layout[i] \in AllCommands
  BY <1>1, <1>2
<1>4. \A i \in 1 .. First : i \in 1 .. First + MaxRequests
  BY <1>1, <1>2
<1>. QED  BY <1>2, <1>3, <1>4 DEF Requests

LEMMA OneMoreLaidOut ==
    ASSUME NEW n \in 1 .. First, NEW s, LaidOut(s, n - 1)
    PROVE  LaidOut(Started(s, Layout[n], n, TRUE), n)
<1>. DEFINE cmd == Layout[n]
            m   == Started(s, cmd, n, TRUE)
            fd  == FreshFd(s.runs)
            new == Len(s.runs) + 1
            up  == cmd # "suspended" /\ Exists(cmd)
<1>0. /\ First \in Nat /\ n - 1 \in Nat /\ n \in Requests /\ cmd \in AllCommands
      /\ ResourcesType(s.table, s.child, s.runs)
      /\ s.terminals = [i \in 1 .. n - 1 |-> Terminal(i - 1, i, Layout[i])]
      /\ DOMAIN s.table = 0 .. n - 2
  <2>1. n - 1 - 1 = n - 2
    BY LayoutTypes
  <2>. QED  BY <2>1, LayoutTypes DEF LaidOut
<1>1. s.terminals \in Seq(Terminals) /\ Len(s.terminals) = n - 1
  <2>1. \A i \in 1 .. n - 1 : Terminal(i - 1, i, Layout[i]) \in Terminals
    <3>1. \A i \in 1 .. n - 1 : i \in 1 .. First /\ i - 1 \in Nat
      BY <1>0
    <3>. QED  BY <3>1, LayoutTypes DEF Terminal, Terminals
  <2>. QED  BY <1>0, <2>1
<1>2. NewId(DOMAIN s.table) = n - 1
  <2>1. n - 2 = (n - 1) - 1
    BY <1>0
  <2>. QED  BY <1>0, <2>1, NextId
<1>b. OneMoreStarted(m, s, n - 1, cmd, n, TRUE)
  <2>1. OneMoreStarted(m, s, NewId(DOMAIN s.table), cmd, n, TRUE)
    BY <1>0, <1>1, StartedFacts
  <2>. QED  BY <1>2, <2>1
<1>4. /\ s.runs \in Seq(RunSet) /\ FdsEnd(s.runs) /\ fd \in Nat /\ fd > 0
      /\ ~FdsReused => \A r \in DOMAIN s.runs : s.runs[r].fd < fd
      /\ Maps(s.child, DOMAIN s.runs)
  BY <1>0, FreshFdFacts DEF ResourcesType
<1>7. /\ \A r \in DOMAIN s.runs :
          /\ s.runs[r].of \in 1 .. n - 1 /\ s.runs[r].id = s.runs[r].of - 1
          /\ s.runs[r].cmd = Layout[s.runs[r].of] /\ s.runs[r].cmd # "suspended"
          /\ ~s.runs[r].hup /\ s.runs[r].listener = "none"
          /\ s.runs[r].state = (IF Exists(s.runs[r].cmd) THEN "live" ELSE "absent")
          /\ IsUp(s.runs[r]) => s.runs[r].id \in DOMAIN s.child /\ s.child[s.runs[r].id] = r
      /\ \A r, q \in DOMAIN s.runs : s.runs[r].of = s.runs[q].of => r = q
      /\ \A i \in 1 .. n - 1 : Layout[i] # "suspended" => \E r \in DOMAIN s.runs : s.runs[r].of = i
      /\ \A id \in DOMAIN s.child : id \in DOMAIN s.table /\ s.runs[s.child[id]].id = id
      /\ \A r \in DOMAIN s.runs : IsUp(s.runs[r]) => s.table[s.runs[r].id] = s.runs[r].fd
      /\ \A id \in DOMAIN s.table : s.table[id] # NoFd =>
            \E r \in DOMAIN s.runs : /\ IsUp(s.runs[r]) /\ s.runs[r].id = id
                                     /\ s.runs[r].fd = s.table[id]
      /\ \A r \in DOMAIN s.runs : IsUp(s.runs[r]) => s.runs[r].fd > 0
      /\ ~FdsReused => \A r, q \in DOMAIN s.runs :
                          IsUp(s.runs[r]) /\ s.runs[r].fd = s.runs[q].fd => r = q
  BY DEF LaidOut
<1>8. \A id \in DOMAIN s.child : s.child[id] \in DOMAIN s.runs
  BY <1>4 DEF Maps
<1>c. \A r \in DOMAIN s.runs : s.runs[r].id \in DOMAIN s.table
  BY <1>0, <1>7
<1>. HIDE DEF m
<1>3. /\ ResourcesType(m.table, m.child, m.runs)
      /\ m.terminals = Append(s.terminals, Terminal(n - 1, n, cmd))
      /\ n - 1 \notin DOMAIN s.table
      /\ DOMAIN m.table = DOMAIN s.table \cup {n - 1}
      /\ m.table[n - 1] = (IF up THEN fd ELSE NoFd)
      /\ \A x \in DOMAIN s.table : m.table[x] = s.table[x]
      /\ cmd = "suspended" => m.runs = s.runs
      /\ up => Extends(m.child, s.child, n - 1, new)
      /\ ~up => m.child = s.child
  BY <1>b DEF OneMoreStarted
<1>. HIDE DEF fd, new, up
<1>9. m.terminals = [i \in 1 .. n |-> Terminal(i - 1, i, Layout[i])]
  <2>. DEFINE ts == [i \in 1 .. n |-> Terminal(i - 1, i, Layout[i])]
              t  == Terminal(n - 1, n, cmd)
  <2>1. t \in Terminals
    BY <1>0 DEF Terminal, Terminals
  <2>2. /\ m.terminals \in Seq(Terminals) /\ Len(m.terminals) = n
        /\ \A i \in 1 .. n - 1 : m.terminals[i] = s.terminals[i]
        /\ m.terminals[n] = t
    <3>1. /\ Append(s.terminals, t) \in Seq(Terminals)
          /\ Len(Append(s.terminals, t)) = Len(s.terminals) + 1
          /\ \A i \in 1 .. Len(s.terminals) : Append(s.terminals, t)[i] = s.terminals[i]
          /\ Append(s.terminals, t)[Len(s.terminals) + 1] = t
      BY <1>1, <2>1, AppendFacts
    <3>2. Len(s.terminals) + 1 = n
      BY <1>0, <1>1
    <3>. HIDE DEF t
    <3>. QED  BY <1>1, <1>3, <3>1, <3>2 DEF t
  <2>3. \A i \in 1 .. n - 1 : s.terminals[i] = Terminal(i - 1, i, Layout[i])
    BY <1>0
  <2>4. \A i \in 1 .. n : m.terminals[i] = Terminal(i - 1, i, Layout[i])
    BY <1>0, <2>2, <2>3
  <2>5. DOMAIN m.terminals = 1 .. n /\ m.terminals = [i \in DOMAIN m.terminals |-> m.terminals[i]]
    BY <2>2
  <2>. QED  BY <2>4, <2>5
<1>10. DOMAIN m.table = 0 .. n - 1
  BY <1>0, <1>3
<1>11. CASE cmd = "suspended"
  <2>1. m.runs = s.runs /\ m.child = s.child /\ ~up
    BY <1>3, <1>11 DEF up
  <2>2. \A r \in DOMAIN m.runs : m.runs[r].of \in 1 .. n
    BY <1>0, <1>7, <2>1
  <2>3. \A i \in 1 .. n : Layout[i] # "suspended" => \E r \in DOMAIN m.runs : m.runs[r].of = i
    BY <1>0, <1>7, <1>11, <2>1
  <2>4. \A id \in DOMAIN m.child : id \in DOMAIN m.table /\ m.runs[m.child[id]].id = id
    BY <1>3, <1>7, <2>1
  <2>5. \A r \in DOMAIN m.runs : IsUp(m.runs[r]) => m.table[m.runs[r].id] = m.runs[r].fd
    BY <1>3, <1>7, <1>c, <2>1
  <2>6. \A id \in DOMAIN m.table : m.table[id] # NoFd =>
            \E r \in DOMAIN m.runs : /\ IsUp(m.runs[r]) /\ m.runs[r].id = id
                                     /\ m.runs[r].fd = m.table[id]
    BY <1>3, <1>7, <2>1
  <2>7. \A r \in DOMAIN m.runs :
          LET x == m.runs[r] IN
          /\ x.of \in 1 .. n /\ x.id = x.of - 1
          /\ x.cmd = Layout[x.of] /\ x.cmd # "suspended"
          /\ ~x.hup /\ x.listener = "none"
          /\ x.state = IF Exists(x.cmd) THEN "live" ELSE "absent"
          /\ IsUp(x) => x.id \in DOMAIN m.child /\ m.child[x.id] = r
    BY <1>7, <2>1, <2>2
  <2>8. /\ \A r, q \in DOMAIN m.runs : m.runs[r].of = m.runs[q].of => r = q
        /\ \A r \in DOMAIN m.runs : IsUp(m.runs[r]) => m.runs[r].fd > 0
        /\ ~FdsReused => \A r, q \in DOMAIN m.runs :
                            IsUp(m.runs[r]) /\ m.runs[r].fd = m.runs[q].fd => r = q
    BY <1>7, <2>1
  <2>. QED  BY <1>3, <1>9, <1>10, <2>3, <2>4, <2>5, <2>6, <2>7, <2>8 DEF LaidOut, m
<1>12. CASE cmd # "suspended"
  <2>0. PICK run : IsNewRun(run, n - 1, n, cmd, fd, TRUE) /\ OneMoreRun(m.runs, s.runs, run)
    BY <1>b, <1>12 DEF OneMoreStarted, fd
  <2>1. /\ DOMAIN m.runs = DOMAIN s.runs \cup {new} /\ m.runs[new] = run
        /\ \A q \in DOMAIN s.runs : m.runs[q] = s.runs[q]
    BY <2>0 DEF OneMoreRun, new
  <2>a. /\ run.id = n - 1 /\ run.of = n /\ run.cmd = cmd
        /\ run.hup = FALSE /\ run.listener = "none"
        /\ run.fd = (IF Exists(cmd) THEN fd ELSE NoFd)
        /\ run.state = (IF Exists(cmd) THEN "live" ELSE "absent")
    BY <2>0 DEF IsNewRun
  <2>2. /\ DOMAIN s.child \subseteq DOMAIN m.child /\ DOMAIN m.child \subseteq DOMAIN s.child \cup {n - 1}
        /\ \A id \in DOMAIN s.child : m.child[id] = s.child[id] /\ id # n - 1
        /\ n - 1 \in DOMAIN m.child <=> up
        /\ up => m.child[n - 1] = new
    <3>1. \A id \in DOMAIN s.child : id # n - 1
      BY <1>3, <1>7
    <3>2. CASE up
      BY <1>3, <3>1, <3>2 DEF Extends
    <3>3. CASE ~up
      BY <1>3, <3>1, <3>3
    <3>. QED  BY <3>2, <3>3
  <2>3. IsUp(run) <=> up
    BY <2>a, <1>12 DEF IsUp, up
  <2>4. \A r \in DOMAIN m.runs :
          LET x == m.runs[r] IN
          /\ x.of \in 1 .. n /\ x.id = x.of - 1
          /\ x.cmd = Layout[x.of] /\ x.cmd # "suspended"
          /\ ~x.hup /\ x.listener = "none"
          /\ x.state = IF Exists(x.cmd) THEN "live" ELSE "absent"
          /\ IsUp(x) => x.id \in DOMAIN m.child /\ m.child[x.id] = r
    <3>1. ASSUME NEW r \in DOMAIN s.runs
          PROVE  LET x == m.runs[r] IN
                 /\ x.of \in 1 .. n /\ x.id = x.of - 1
                 /\ x.cmd = Layout[x.of] /\ x.cmd # "suspended"
                 /\ ~x.hup /\ x.listener = "none"
                 /\ x.state = IF Exists(x.cmd) THEN "live" ELSE "absent"
                 /\ IsUp(x) => x.id \in DOMAIN m.child /\ m.child[x.id] = r
      BY <1>0, <1>7, <2>1, <2>2
    <3>2. LET x == m.runs[new] IN
                 /\ x.of \in 1 .. n /\ x.id = x.of - 1
                 /\ x.cmd = Layout[x.of] /\ x.cmd # "suspended"
                 /\ ~x.hup /\ x.listener = "none"
                 /\ x.state = IF Exists(x.cmd) THEN "live" ELSE "absent"
                 /\ IsUp(x) => x.id \in DOMAIN m.child /\ m.child[x.id] = new
      BY <1>0, <2>a, <1>12, <2>1, <2>2, <2>3
    <3>. QED  BY <2>1, <3>1, <3>2
  <2>5. \A r, q \in DOMAIN m.runs : m.runs[r].of = m.runs[q].of => r = q
    <3>1. \A r \in DOMAIN s.runs : s.runs[r].of # n
      BY <1>0, <1>7
    <3>. QED  BY <2>a, <1>7, <2>1, <3>1
  <2>6. \A i \in 1 .. n : Layout[i] # "suspended" => \E r \in DOMAIN m.runs : m.runs[r].of = i
    <3>1. ASSUME NEW i \in 1 .. n - 1, Layout[i] # "suspended"
          PROVE  \E r \in DOMAIN m.runs : m.runs[r].of = i
      <4>1. PICK r \in DOMAIN s.runs : s.runs[r].of = i
        BY <1>7, <3>1
      <4>. QED  BY <4>1, <2>1
    <3>2. new \in DOMAIN m.runs /\ m.runs[new].of = n
      BY <2>a, <2>1
    <3>3. \A i \in 1 .. n : i = n \/ i \in 1 .. n - 1
      OBVIOUS
    <3>. QED  BY <3>1, <3>2, <3>3
  <2>7. \A id \in DOMAIN m.child : id \in DOMAIN m.table /\ m.runs[m.child[id]].id = id
    BY <1>3, <2>a, <1>7, <1>8, <2>1, <2>2
  <2>8. \A r \in DOMAIN m.runs : IsUp(m.runs[r]) => m.table[m.runs[r].id] = m.runs[r].fd
    <3>1. \A r \in DOMAIN s.runs : IsUp(s.runs[r]) => s.runs[r].id \in DOMAIN s.table
      BY <1>c
    <3>2. up => run.fd = fd
      BY <2>a DEF up
    <3>. QED  BY <1>3, <2>a, <1>7, <2>1, <2>3, <3>1, <3>2
  <2>9. \A id \in DOMAIN m.table : m.table[id] # NoFd =>
            \E r \in DOMAIN m.runs : /\ IsUp(m.runs[r]) /\ m.runs[r].id = id
                                     /\ m.runs[r].fd = m.table[id]
    <3>1. up => run.fd = fd
      BY <2>a DEF up
    <3>. QED  BY <1>3, <2>a, <1>7, <2>1, <2>3, <3>1
  <2>10. \A r \in DOMAIN m.runs : IsUp(m.runs[r]) => m.runs[r].fd > 0
    <3>1. up => run.fd = fd
      BY <2>a DEF up
    <3>. QED  BY <1>4, <1>7, <2>1, <2>3, <3>1
  <2>11. ~FdsReused => \A r, q \in DOMAIN m.runs :
                          IsUp(m.runs[r]) /\ m.runs[r].fd = m.runs[q].fd => r = q
    <3>. SUFFICES ASSUME ~FdsReused, NEW r \in DOMAIN m.runs, NEW q \in DOMAIN m.runs,
                         IsUp(m.runs[r]), m.runs[r].fd = m.runs[q].fd
                  PROVE  r = q
      OBVIOUS
    <3>1. \A x \in DOMAIN s.runs : s.runs[x].fd # fd /\ s.runs[x].fd \in Nat \cup {NoFd}
      <4>1. \A x \in DOMAIN s.runs : s.runs[x] \in RunSet
        BY <1>4
      <4>. QED  BY <1>4, <4>1 DEF RunSet, NoFd
    <3>2. \A x \in DOMAIN s.runs : IsUp(s.runs[x]) => s.runs[x].fd # NoFd
      BY <1>7, <3>1 DEF NoFd
    <3>3. (up /\ run.fd = fd) \/ (~up /\ run.fd = NoFd)
      BY <2>a, <1>12 DEF up
    <3>. QED  BY <1>7, <2>1, <2>3, <3>1, <3>2, <3>3
  <2>. QED  BY <1>3, <1>9, <1>10, <2>4, <2>5, <2>6, <2>7, <2>8, <2>9, <2>10, <2>11 DEF LaidOut, m
<1>. QED  BY <1>11, <1>12

(* The recursive function of StartedForLayout exists.                       *)
StartedOf(s, f, k) ==
    f = [n \in 0 .. k |-> IF n = 0 THEN s ELSE Started(f[n - 1], Layout[n], n, TRUE)]

LEMMA StartedExists ==
    ASSUME NEW s
    PROVE  \A k \in Nat : \E f : StartedOf(s, f, k)
<1>. DEFINE bad == {k \in Nat : ~ \E f : StartedOf(s, f, k)}
<1>1. SUFFICES ASSUME bad # {}
               PROVE  FALSE
  OBVIOUS
<1>2. PICK k \in bad : \A m \in bad : k <= m
  BY <1>1, LeastExists
<1>3. k \in Nat /\ ~ \E f : StartedOf(s, f, k)
  BY <1>2
<1>4. CASE k = 0
  <2>. DEFINE f == [n \in 0 .. 0 |-> s]
  <2>1. f = [n \in 0 .. 0 |-> IF n = 0 THEN s ELSE Started(f[n - 1], Layout[n], n, TRUE)]
    OBVIOUS
  <2>2. StartedOf(s, f, 0)
    BY <2>1 DEF StartedOf
  <2>. QED  BY <1>3, <1>4, <2>2
<1>5. CASE k # 0
  <2>1. k - 1 \in Nat /\ ~ (k <= k - 1)
    BY <1>3, <1>5
  <2>2. k - 1 \notin bad
    BY <1>2, <2>1
  <2>3. PICK f : StartedOf(s, f, k - 1)
    BY <2>1, <2>2
  <2>. DEFINE last == Started(f[k - 1], Layout[k], k, TRUE)
              g == [n \in 0 .. k |-> IF n = k THEN last ELSE f[n]]
  <2>4. \A n \in 0 .. k - 1 : f[n] = IF n = 0 THEN s ELSE Started(f[n - 1], Layout[n], n, TRUE)
    BY <2>3 DEF StartedOf
  <2>a. g = [n \in 0 .. k |-> g[n]] /\ \A n \in 0 .. k : g[n] = IF n = k THEN last ELSE f[n]
    <3>. HIDE DEF last
    <3>. QED  OBVIOUS
  <2>. HIDE DEF g, last
  <2>5. ASSUME NEW n \in 0 .. k
        PROVE  g[n] = IF n = 0 THEN s ELSE Started(g[n - 1], Layout[n], n, TRUE)
    <3>1. CASE n = k
      <4>1. g[n] = last /\ g[n - 1] = f[k - 1] /\ n # 0
        <5>1. n \in 0 .. k /\ n - 1 \in 0 .. k /\ n - 1 # k /\ n # 0
          BY <1>3, <1>5, <3>1
        <5>. QED  BY <2>a, <3>1, <5>1
      <4>. QED  BY <4>1, <3>1 DEF last
    <3>2. CASE n # k
      <4>1. n \in 0 .. k - 1 /\ g[n] = f[n] /\ (n # 0 => g[n - 1] = f[n - 1])
        <5>1. n \in 0 .. k - 1 /\ (n # 0 => n - 1 \in 0 .. k /\ n - 1 # k)
          BY <1>3, <3>2
        <5>. QED  BY <2>a, <3>2, <5>1
      <4>. QED  BY <2>4, <4>1
    <3>. QED  BY <3>1, <3>2
  <2>7. StartedOf(s, g, k)
    BY <2>5, <2>a DEF StartedOf
  <2>. QED  BY <1>3, <2>7
<1>. QED  BY <1>4, <1>5

LEMMA LayoutIsStarted ==
    ASSUME NEW s, LaidOut(s, 0)
    PROVE  LaidOut(StartedForLayout(s), First)
<1>. DEFINE f == CHOOSE f : StartedOf(s, f, First)
<1>0. First \in Nat
  BY LayoutTypes
<1>1. StartedOf(s, f, First)
  BY <1>0, StartedExists
<1>2. StartedForLayout(s) = f[First]
  BY Zenon DEF StartedForLayout, StartedOf
<1>. HIDE DEF f
<1>3. \A n \in 0 .. First : f[n] = IF n = 0 THEN s ELSE Started(f[n - 1], Layout[n], n, TRUE)
  BY <1>1 DEF StartedOf
<1>. DEFINE bad == {n \in 0 .. First : ~ LaidOut(f[n], n)}
<1>4. bad = {}
  <2>1. SUFFICES ASSUME bad # {}
                 PROVE  FALSE
    OBVIOUS
  <2>2. PICK n \in bad : \A m \in bad : n <= m
    <3>1. bad \in SUBSET Nat
      OBVIOUS
    <3>. QED  BY <2>1, <3>1, LeastExists
  <2>3. n \in 0 .. First /\ ~ LaidOut(f[n], n)
    BY <2>2
  <2>4. n # 0
    <3>0. 0 \in 0 .. First
      BY <1>0
    <3>1. f[0] = s
      BY <1>3, <3>0, Zenon
    <3>. QED  BY <2>3, <3>1
  <2>5. n \in 1 .. First /\ n - 1 \in 0 .. First /\ ~ (n <= n - 1)
    BY <1>0, <2>3, <2>4
  <2>6. LaidOut(f[n - 1], n - 1)
    BY <2>2, <2>5
  <2>7. LaidOut(Started(f[n - 1], Layout[n], n, TRUE), n)
    BY <2>5, <2>6, OneMoreLaidOut
  <2>8. f[n] = Started(f[n - 1], Layout[n], n, TRUE)
    BY <1>3, <2>3, <2>4
  <2>. QED  BY <2>3, <2>7, <2>8
<1>5. LaidOut(f[First], First)
  BY <1>0, <1>4
<1>. QED  BY <1>2, <1>5

LEMMA NothingIsLaidOut ==
    LaidOut([table |-> <<>>, child |-> <<>>, runs |-> <<>>, terminals |-> <<>>], 0)
<1>. DEFINE s == [table |-> <<>>, child |-> <<>>, runs |-> <<>>, terminals |-> <<>>]
<1>1. /\ s.table = <<>> /\ s.child = <<>> /\ s.runs = <<>> /\ s.terminals = <<>>
      /\ DOMAIN <<>> = {}
  BY EmptyMap
<1>2. ResourcesType(<<>>, <<>>, <<>>)
  <2>1. <<>> \in Seq(RunSet) /\ FdsEnd(<<>>)
    BY <1>1 DEF FdsEnd
  <2>. QED  BY <2>1, EmptyMap DEF ResourcesType
<1>3. s.terminals = [i \in 1 .. 0 |-> Terminal(i - 1, i, Layout[i])]
  <2>1. 1 .. 0 = {}
    OBVIOUS
  <2>2. <<>> = [i \in {} |-> Terminal(i - 1, i, Layout[i])]
    OBVIOUS
  <2>. QED  BY <1>1, <2>1, <2>2
<1>4. DOMAIN s.table = 0 .. 0 - 1
  BY <1>1
<1>5. \A i \in 1 .. 0 : FALSE
  OBVIOUS
<1>. HIDE DEF s
<1>6. LaidOut(s, 0)
  BY <1>1, <1>2, <1>3, <1>4, <1>5 DEF LaidOut
<1>. QED  BY <1>6 DEF s

(* What the pty thread has to do when the layout's commands are started     *)
RunFor(s, i) == CHOOSE r \in DOMAIN s.runs : s.runs[r].of = i

RestFor(s, i) ==
    LET id == s.terminals[i].id IN
    CASE Layout[i] = "suspended" -> <<>>
      [] Layout[i] \in {"shell", "command"} -> Listen(RunFor(s, i))
      [] Layout[i] = "missing"   -> CommandNotFound(id, RunFor(s, i), TRUE)
      [] Layout[i] = "typo"      -> Free(id)

LayoutTodo(s) ==
    Tell(ApplyLayout(s.terminals)) \o FlattenSeq([i \in DOMAIN Layout |-> RestFor(s, i)])

(* The x-th step for the i-th command                                      *)
StepFor(s, i, x, step) ==
    \/ Layout[i] \in {"shell", "command"} /\ x = 1 /\ step = [step |-> "listen", run |-> RunFor(s, i)]
    \/ Layout[i] = "missing" /\ x = 1
       /\ step = [step |-> "tell", msg |-> PtyBytes(i - 1, RunFor(s, i))]
    \/ Layout[i] = "missing" /\ x = 2
       /\ step = [step |-> "tell", msg |-> HoldPane(i - 1, RunFor(s, i), TRUE)]
    \/ Layout[i] = "typo" /\ x = 1 /\ step = [step |-> "free", id |-> i - 1]

LayoutTodoOK(s, q) ==
    /\ q \in Seq(TodoSteps(s.runs)) /\ Len(q) >= 1
    /\ q[1] = [step |-> "tell", msg |-> ApplyLayout(s.terminals)]
    /\ \A k \in 2 .. Len(q) : \E i \in 1 .. First, x \in 1 .. 2 : StepFor(s, i, x, q[k])
    /\ \A j, k \in 2 .. Len(q) : j < k =>
          \E a, b \in 1 .. First, x, y \in 1 .. 2 :
              /\ StepFor(s, a, x, q[j]) /\ StepFor(s, b, y, q[k])
              /\ a < b \/ (a = b /\ x < y)

LEMMA RunForFacts ==
    ASSUME NEW s, LaidOut(s, First), NEW i \in 1 .. First, Layout[i] # "suspended"
    PROVE  /\ RunFor(s, i) \in DOMAIN s.runs /\ s.runs[RunFor(s, i)].of = i
           /\ s.runs[RunFor(s, i)].id = i - 1 /\ s.runs[RunFor(s, i)].cmd = Layout[i]
<1>1. \E r \in DOMAIN s.runs : s.runs[r].of = i
  BY DEF LaidOut
<1>2. RunFor(s, i) \in DOMAIN s.runs /\ s.runs[RunFor(s, i)].of = i
  BY <1>1 DEF RunFor
<1>3. \A r \in DOMAIN s.runs : s.runs[r].id = s.runs[r].of - 1 /\ s.runs[r].cmd = Layout[s.runs[r].of]
  BY DEF LaidOut
<1>. QED  BY <1>2, <1>3

LEMMA RestForFacts ==
    ASSUME NEW s, LaidOut(s, First), NEW i \in 1 .. First
    PROVE  /\ RestFor(s, i) \in Seq(TodoSteps(s.runs))
           /\ \A x \in 1 .. Len(RestFor(s, i)) : x \in 1 .. 2 /\ StepFor(s, i, x, RestFor(s, i)[x])
<1>. DEFINE S == TodoSteps(s.runs)
            id == s.terminals[i].id
<1>1. id = i - 1 /\ id \in Nat
  <2>1. s.terminals = [j \in 1 .. First |-> Terminal(j - 1, j, Layout[j])]
    BY DEF LaidOut
  <2>2. s.terminals[i] = Terminal(i - 1, i, Layout[i])
    BY <2>1
  <2>3. s.terminals[i].id = i - 1
    BY <2>2 DEF Terminal
  <2>. QED  BY <2>3, LayoutTypes
<1>2. Layout[i] \in {"shell", "command", "suspended", "missing", "typo"}
  BY LayoutTypes DEF AllCommands
<1>3. CASE Layout[i] = "suspended"
  <2>1. RestFor(s, i) = <<>>
    BY <1>3 DEF RestFor
  <2>. QED  BY <2>1
<1>4. CASE Layout[i] \in {"shell", "command"}
  <2>0. RunFor(s, i) \in DOMAIN s.runs
    BY <1>4, RunForFacts
  <2>1. RestFor(s, i) = Listen(RunFor(s, i))
    BY <1>4 DEF RestFor
  <2>2. Listen(RunFor(s, i)) \in Seq(S) /\ Len(Listen(RunFor(s, i))) = 1
        /\ Listen(RunFor(s, i))[1] = [step |-> "listen", run |-> RunFor(s, i)]
    BY <2>0, MadeSteps DEF Listen
  <2>3. \A x \in 1 .. 1 : x = 1
    OBVIOUS
  <2>. QED  BY <1>4, <2>1, <2>2, <2>3 DEF StepFor
<1>5. CASE Layout[i] = "missing"
  <2>0. RunFor(s, i) \in DOMAIN s.runs
    BY <1>5, RunForFacts
  <2>1. RestFor(s, i) = CommandNotFound(i - 1, RunFor(s, i), TRUE)
    BY <1>1, <1>5 DEF RestFor
  <2>2. /\ RestFor(s, i) \in Seq(S) /\ Len(RestFor(s, i)) = 2
        /\ RestFor(s, i)[1] = [step |-> "tell", msg |-> PtyBytes(i - 1, RunFor(s, i))]
        /\ RestFor(s, i)[2] = [step |-> "tell", msg |-> HoldPane(i - 1, RunFor(s, i), TRUE)]
    <3>1. NotFoundTold(CommandNotFound(i - 1, RunFor(s, i), TRUE), s.runs, i - 1, RunFor(s, i), TRUE)
      BY <1>1, <2>0, NotFoundSteps
    <3>. QED  BY <2>1, <3>1 DEF NotFoundTold
  <2>3. \A x \in 1 .. 2 : x = 1 \/ x = 2
    OBVIOUS
  <2>. QED  BY <1>5, <2>2, <2>3 DEF StepFor
<1>6. CASE Layout[i] = "typo"
  <2>1. RestFor(s, i) = Free(i - 1)
    BY <1>1, <1>6 DEF RestFor
  <2>2. Free(i - 1) \in Seq(S) /\ Len(Free(i - 1)) = 1
        /\ Free(i - 1)[1] = [step |-> "free", id |-> i - 1]
    BY <1>1, MadeSteps DEF Free
  <2>3. \A x \in 1 .. 1 : x = 1
    OBVIOUS
  <2>. QED  BY <1>6, <2>1, <2>2, <2>3 DEF StepFor
<1>. QED  BY <1>2, <1>3, <1>4, <1>5, <1>6

LEMMA LayoutTodoFacts ==
    ASSUME NEW s, LaidOut(s, First)
    PROVE  LayoutTodoOK(s, LayoutTodo(s))
<1>. DEFINE S  == TodoSteps(s.runs)
            qs == [i \in 1 .. First |-> RestFor(s, i)]
            f  == FlattenSeq(qs)
            hd == [step |-> "tell", msg |-> ApplyLayout(s.terminals)]
<1>0. First \in Nat /\ DOMAIN Layout = 1 .. First
  BY LayoutTypes
<1>1. qs \in [1 .. First -> Seq(S)]
  BY RestForFacts
<1>2. Joined(f, S, qs, First)
  BY <1>0, <1>1, FlatJoins
<1>3. Tell(ApplyLayout(s.terminals)) = <<hd>> /\ hd \in S
  <2>1. s.terminals \in Seq(Terminals)
    <3>1. s.terminals = [i \in 1 .. First |-> Terminal(i - 1, i, Layout[i])]
      BY DEF LaidOut
    <3>2. \A i \in 1 .. First : Terminal(i - 1, i, Layout[i]) \in Terminals
      <4>1. \A i \in 1 .. First : i - 1 \in Nat
        BY <1>0
      <4>. QED  BY <4>1, LayoutTypes DEF Terminal, Terminals
    <3>. QED  BY <1>0, <3>1, <3>2
  <2>2. ApplyLayout(s.terminals) \in ScreenMessages(s.runs)
    BY <2>1, MadeMessages
  <2>. QED  BY <2>2 DEF Tell, TodoSteps, Tellings
<1>4. LayoutTodo(s) = <<hd>> \o f
  BY <1>0, <1>3 DEF LayoutTodo
<1>5. \A i \in 1 .. First : qs[i] = RestFor(s, i)
  OBVIOUS
<1>. HIDE DEF hd, f, qs, S
<1>. DEFINE q == <<hd>> \o f
<1>6. f \in Seq(S) /\ Len(f) \in Nat
  BY <1>2 DEF Joined
<1>7. /\ q \in Seq(S) /\ Len(q) = Len(f) + 1 /\ q[1] = hd
      /\ \A k \in 2 .. Len(q) : k - 1 \in 1 .. Len(f) /\ q[k] = f[k - 1]
  <2>1. <<hd>> \in Seq(S) /\ Len(<<hd>>) = 1 /\ <<hd>>[1] = hd
    BY <1>3
  <2>2. /\ q \in Seq(S) /\ Len(q) = 1 + Len(f) /\ q[1] = hd
        /\ \A i \in 1 .. 1 + Len(f) : i > 1 => q[i] = f[i - 1] /\ i - 1 \in 1 .. Len(f)
    BY <1>6, <2>1, ConcatFacts
  <2>. QED  BY <1>6, <2>2
<1>. HIDE DEF q
<1>8. ASSUME NEW k \in 2 .. Len(q)
      PROVE  \E i \in 1 .. First, x \in 1 .. 2 : StepFor(s, i, x, q[k])
  <2>1. PICK i \in 1 .. First : \E x \in 1 .. Len(qs[i]) : f[k - 1] = qs[i][x]
    BY <1>2, <1>7 DEF Joined
  <2>2. PICK x \in 1 .. Len(qs[i]) : f[k - 1] = qs[i][x]
    BY <2>1
  <2>3. x \in 1 .. 2 /\ StepFor(s, i, x, qs[i][x])
    BY <1>5, RestForFacts
  <2>. QED  BY <1>7, <2>2, <2>3
<1>9. ASSUME NEW j \in 2 .. Len(q), NEW k \in 2 .. Len(q), j < k
      PROVE  \E a, b \in 1 .. First, x, y \in 1 .. 2 :
                 /\ StepFor(s, a, x, q[j]) /\ StepFor(s, b, y, q[k])
                 /\ a < b \/ (a = b /\ x < y)
  <2>1. j - 1 \in 1 .. Len(f) /\ k - 1 \in 1 .. Len(f) /\ j - 1 < k - 1
    BY <1>7, <1>9
  <2>a. Before(qs, First, f[j - 1], f[k - 1])
    BY <1>2, <2>1 DEF Joined
  <2>2. PICK a \in 1 .. First, b \in 1 .. First :
              \E x \in 1 .. Len(qs[a]), y \in 1 .. Len(qs[b]) :
                  /\ f[j - 1] = qs[a][x] /\ f[k - 1] = qs[b][y]
                  /\ a < b \/ (a = b /\ x < y)
    BY <2>a DEF Before
  <2>3. PICK x \in 1 .. Len(qs[a]), y \in 1 .. Len(qs[b]) :
                  /\ f[j - 1] = qs[a][x] /\ f[k - 1] = qs[b][y]
                  /\ a < b \/ (a = b /\ x < y)
    BY <2>2
  <2>4. x \in 1 .. 2 /\ StepFor(s, a, x, qs[a][x])
    BY <1>5, RestForFacts
  <2>5. y \in 1 .. 2 /\ StepFor(s, b, y, qs[b][y])
    BY <1>5, RestForFacts
  <2>6. StepFor(s, a, x, q[j]) /\ StepFor(s, b, y, q[k])
    BY <1>7, <2>3, <2>4, <2>5
  <2>. QED  BY <2>3, <2>4, <2>5, <2>6
<1>10. Len(q) >= 1
  BY <1>6, <1>7
<1>11. LayoutTodoOK(s, q)
  BY <1>7, <1>8, <1>9, <1>10 DEF LayoutTodoOK, S, hd
<1>. QED  BY <1>4, <1>11 DEF q

----------------------------------------------------------------------------
(* The processes that are there change.                                     *)

RunStays(new, old) ==
    /\ new.id = old.id /\ new.of = old.of /\ new.cmd = old.cmd
    /\ new.fd = old.fd /\ new.tab = old.tab

RunsStay(ns, rs) ==
    /\ ns \in Seq(RunSet) /\ DOMAIN ns = DOMAIN rs
    /\ \A r \in DOMAIN rs : RunStays(ns[r], rs[r])

LEMMA RunsStayType ==
    ASSUME NEW t, NEW c, NEW rs, NEW ns, ResourcesType(t, c, rs), RunsStay(ns, rs)
    PROVE  ResourcesType(t, c, ns)
<1>1. PICK n \in Nat : \A r \in DOMAIN rs : rs[r].fd <= n
  BY DEF ResourcesType, FdsEnd
<1>2. \A r \in DOMAIN ns : ns[r].fd <= n
  BY <1>1 DEF RunsStay, RunStays
<1>3. ns \in Seq(RunSet) /\ FdsEnd(ns)
  BY <1>2 DEF RunsStay, FdsEnd
<1>4. Maps(t, Nat \cup {NoFd}) /\ Maps(c, DOMAIN ns)
  BY DEF ResourcesType, RunsStay
<1>. QED  BY <1>3, <1>4 DEF ResourcesType

LEMMA RunFields ==
    ASSUME NEW rs \in Seq(RunSet), NEW r \in DOMAIN rs
    PROVE  /\ rs[r] \in RunSet
           /\ rs[r].id \in Nat /\ rs[r].of \in Requests /\ rs[r].cmd \in AllCommands
           /\ rs[r].fd \in Nat \cup {NoFd} /\ rs[r].tab \in BOOLEAN /\ rs[r].hup \in BOOLEAN
           /\ rs[r].size \in Sizes /\ rs[r].wrote \in BOOLEAN
           /\ rs[r].state \in States /\ rs[r].listener \in Reads
<1>1. rs[r] \in RunSet
  OBVIOUS
<1>. QED  BY <1>1 DEF RunSet

(* One process becomes run; the others stay as they are.                    *)
OneChanges(ns, rs, r) ==
    /\ RunsStay(ns, rs) /\ \A q \in DOMAIN rs : q # r => ns[q] = rs[q]

LEMMA OneRunChanges ==
    ASSUME NEW rs \in Seq(RunSet), NEW r \in DOMAIN rs, NEW run \in RunSet, RunStays(run, rs[r])
    PROVE  OneChanges([rs EXCEPT ![r] = run], rs, r) /\ [rs EXCEPT ![r] = run][r] = run
<1>. DEFINE ns == [rs EXCEPT ![r] = run]
<1>1. /\ ns \in Seq(RunSet) /\ DOMAIN ns = DOMAIN rs /\ ns[r] = run
      /\ \A q \in DOMAIN rs : q # r => ns[q] = rs[q]
  OBVIOUS
<1>. HIDE DEF ns
<1>2. \A q \in DOMAIN rs : RunStays(ns[q], rs[q])
  BY <1>1 DEF RunStays
<1>3. OneChanges(ns, rs, r) /\ ns[r] = run
  BY <1>1, <1>2 DEF OneChanges, RunsStay
<1>. QED  BY <1>3 DEF ns

LEMMA EndsFacts ==
    ASSUME ResourcesType(table, child, runs), NEW r \in DOMAIN runs, Ends(r)
    PROVE  /\ OneChanges(runs', runs, r)
           /\ runs[r].state = "live" /\ runs'[r].state = "ended" /\ runs'[r].size = <<>>
           /\ runs'[r].hup = runs[r].hup /\ runs'[r].wrote = runs[r].wrote
           /\ runs'[r].listener = IF Prompt /\ runs[r].listener = "yes"
                                  THEN "done" ELSE runs[r].listener
<1>. DEFINE run == [runs[r] EXCEPT !.state = "ended", !.size = <<>>,
                      !.listener = IF Prompt /\ runs[r].listener = "yes"
                                   THEN "done" ELSE runs[r].listener]
<1>1. runs \in Seq(RunSet) /\ runs[r] \in RunSet
  BY RunFields DEF ResourcesType
<1>2. run \in RunSet /\ RunStays(run, runs[r])
  BY <1>1 DEF RunSet, Sizes, States, Reads, RunStays
<1>3. /\ run.state = "ended" /\ run.size = <<>>
      /\ run.hup = runs[r].hup /\ run.wrote = runs[r].wrote
      /\ run.listener = IF Prompt /\ runs[r].listener = "yes" THEN "done" ELSE runs[r].listener
  BY <1>1 DEF RunSet
<1>4. runs' = [runs EXCEPT ![r] = run] /\ runs[r].state = "live"
  BY <1>1 DEF Ends
<1>. HIDE DEF run
<1>5. OneChanges(runs', runs, r) /\ runs'[r] = run
  BY <1>1, <1>2, <1>4, OneRunChanges
<1>. QED  BY <1>3, <1>4, <1>5

LEMMA ReportsFacts ==
    ASSUME ResourcesType(table, child, runs), NEW r \in DOMAIN runs, Reports(r)
    PROVE  /\ OneChanges(runs', runs, r)
           /\ runs[r].state = "ended" /\ runs'[r].state = "reported"
           /\ Prompt => runs[r].listener = "done"
           /\ runs'[r].hup = runs[r].hup /\ runs'[r].size = runs[r].size
           /\ runs'[r].listener = runs[r].listener
<1>. DEFINE run == [runs[r] EXCEPT !.state = "reported"]
<1>1. runs \in Seq(RunSet) /\ runs[r] \in RunSet
  BY RunFields DEF ResourcesType
<1>2. run \in RunSet /\ RunStays(run, runs[r])
  BY <1>1 DEF RunSet, States, RunStays
<1>3. /\ run.state = "reported"
      /\ run.hup = runs[r].hup /\ run.size = runs[r].size /\ run.listener = runs[r].listener
  BY <1>1 DEF RunSet
<1>4. runs' = [runs EXCEPT ![r] = run] /\ runs[r].state = "ended"
      /\ (Prompt => runs[r].listener = "done")
  BY <1>1 DEF Reports
<1>. HIDE DEF run
<1>5. OneChanges(runs', runs, r) /\ runs'[r] = run
  BY <1>1, <1>2, <1>4, OneRunChanges
<1>. QED  BY <1>3, <1>4, <1>5

LEMMA ReadsFacts ==
    ASSUME ResourcesType(table, child, runs), NEW r \in DOMAIN runs, ListenerReads(r)
    PROVE  /\ OneChanges(runs', runs, r)
           /\ runs[r].listener = "yes" /\ runs'[r].listener = "yes"
           /\ runs'[r].state = runs[r].state
           /\ runs'[r].hup = runs[r].hup /\ runs'[r].size = runs[r].size
<1>. DEFINE run == [runs[r] EXCEPT !.wrote = TRUE]
<1>1. runs \in Seq(RunSet) /\ runs[r] \in RunSet
  BY RunFields DEF ResourcesType
<1>2. run \in RunSet /\ RunStays(run, runs[r])
  BY <1>1 DEF RunSet, RunStays
<1>3. /\ run.state = runs[r].state
      /\ run.hup = runs[r].hup /\ run.size = runs[r].size /\ run.listener = runs[r].listener
  BY <1>1 DEF RunSet
<1>4. runs' = [runs EXCEPT ![r] = run] /\ runs[r].listener = "yes"
  BY <1>1 DEF ListenerReads
<1>. HIDE DEF run
<1>5. OneChanges(runs', runs, r) /\ runs'[r] = run
  BY <1>1, <1>2, <1>4, OneRunChanges
<1>. QED  BY <1>3, <1>4, <1>5

LEMMA ListenerEndsFacts ==
    ASSUME ResourcesType(table, child, runs), NEW r \in DOMAIN runs, ListenerEnds(r)
    PROVE  /\ OneChanges(runs', runs, r)
           /\ runs[r].listener = "yes" /\ runs'[r].listener = "done" /\ runs[r].state # "live"
           /\ runs'[r].state = runs[r].state
           /\ runs'[r].hup = runs[r].hup /\ runs'[r].size = runs[r].size
<1>. DEFINE run == [runs[r] EXCEPT !.listener = "done"]
<1>1. runs \in Seq(RunSet) /\ runs[r] \in RunSet
  BY RunFields DEF ResourcesType
<1>2. run \in RunSet /\ RunStays(run, runs[r])
  BY <1>1 DEF RunSet, Reads, RunStays
<1>3. /\ run.state = runs[r].state
      /\ run.hup = runs[r].hup /\ run.size = runs[r].size /\ run.listener = "done"
  BY <1>1 DEF RunSet
<1>4. runs' = [runs EXCEPT ![r] = run] /\ runs[r].listener = "yes" /\ runs[r].state # "live"
  BY <1>1 DEF ListenerEnds
<1>. HIDE DEF run
<1>5. OneChanges(runs', runs, r) /\ runs'[r] = run
  BY <1>1, <1>2, <1>4, OneRunChanges
<1>. QED  BY <1>3, <1>4, <1>5

(* A terminal is closed.                                                    *)
ClosedRuns(ns, rs, c, id) ==
    /\ RunsStay(ns, rs)
    /\ \A r \in DOMAIN rs :
        /\ ns[r].state = rs[r].state /\ ns[r].size = rs[r].size
        /\ ns[r].listener = rs[r].listener
        /\ ns[r].hup <=> rs[r].hup \/ (id \in DOMAIN c /\ c[id] = r)

LEMMA ClosesFacts ==
    ASSUME ResourcesType(table, child, runs), NEW id, Closes(id)
    PROVE  /\ ResourcesType(table', child', runs')
           /\ ClosedRuns(runs', runs, child, id)
           /\ Loses(table', table, id) /\ Loses(child', child, id)
<1>1. /\ runs \in Seq(RunSet) /\ \A r \in DOMAIN runs : runs[r] \in RunSet
      /\ Maps(table, Nat \cup {NoFd}) /\ Maps(child, DOMAIN runs)
  BY RunFields DEF ResourcesType
<1>2. ClosedRuns(runs', runs, child, id)
  <2>1. CASE id \in DOMAIN child
    <3>. DEFINE r   == child[id]
                run == [runs[r] EXCEPT !.hup = TRUE]
    <3>1. r \in DOMAIN runs
      BY <1>1, <2>1 DEF Maps
    <3>2. runs[r] \in RunSet
      BY <1>1, <3>1
    <3>3. run \in RunSet /\ RunStays(run, runs[r])
      BY <3>2 DEF RunSet, RunStays
    <3>4. /\ run.state = runs[r].state /\ run.size = runs[r].size
          /\ run.listener = runs[r].listener /\ run.hup = TRUE
      BY <3>2 DEF RunSet
    <3>5. runs' = [runs EXCEPT ![r] = run]
      BY <2>1 DEF Closes
    <3>. HIDE DEF run
    <3>6. OneChanges(runs', runs, r) /\ runs'[r] = run
      BY <1>1, <3>1, <3>3, <3>5, OneRunChanges
    <3>. QED  BY <1>1, <2>1, <3>4, <3>6 DEF OneChanges, ClosedRuns, RunSet
  <2>2. CASE id \notin DOMAIN child
    <3>1. runs' = runs
      BY <2>2 DEF Closes
    <3>2. RunsStay(runs', runs)
      BY <1>1, <3>1 DEF RunsStay, RunStays
    <3>. QED  BY <1>1, <2>2, <3>1, <3>2 DEF ClosedRuns, RunSet
  <2>. QED  BY <2>1, <2>2
<1>3. /\ Maps(table', Nat \cup {NoFd}) /\ Maps(child', DOMAIN runs)
      /\ Loses(table', table, id) /\ Loses(child', child, id)
  BY <1>1, WithoutFacts DEF Closes
<1>4. ResourcesType(table', child', runs)
  BY <1>3 DEF ResourcesType
<1>5. ResourcesType(table', child', runs')
  BY <1>2, <1>4, RunsStayType DEF ClosedRuns
<1>. QED  BY <1>2, <1>3, <1>5

(* The sizes of a cache are set.                                            *)
SizedRuns(ns, rs) ==
    /\ RunsStay(ns, rs)
    /\ \A r \in DOMAIN rs :
        /\ ns[r].state = rs[r].state /\ ns[r].listener = rs[r].listener
        /\ ns[r].hup = rs[r].hup

LEMMA WriterFacts ==
    ASSUME ResourcesType(table, child, runs), toWriter \in Seq(SizeMaps), WriterApplies
    PROVE  /\ SizedRuns(runs', runs)
           /\ toWriter # <<>> /\ toWriter' = Tail(toWriter) /\ toWriter' \in Seq(SizeMaps)
<1>. DEFINE sizes == Head(toWriter)
            Sizing(run) == {id \in DOMAIN sizes \cap DOMAIN table : table[id] = run.fd}
<1>1. runs \in Seq(RunSet) /\ Bounded(DOMAIN table)
  BY DEF ResourcesType, Maps
<1>2. /\ toWriter # <<>> /\ toWriter' = Tail(toWriter)
      /\ runs' = [r \in DOMAIN runs |->
                       IF runs[r].state = "live" /\ Sizing(runs[r]) # {}
                       THEN [runs[r] EXCEPT !.size = sizes[Max(Sizing(runs[r]))]]
                       ELSE runs[r]]
  BY Zenon DEF WriterApplies
<1>3. sizes \in SizeMaps /\ Tail(toWriter) \in Seq(SizeMaps)
  BY <1>2
<1>4. \A id \in DOMAIN sizes : sizes[id] \in Sizes
  <2>1. PICK S \in SUBSET Nat : sizes \in [S -> Nat \X Nat \X Nat]
    BY <1>3 DEF SizeMaps
  <2>. QED  BY <2>1 DEF Sizes
<1>. HIDE DEF sizes
<1>5. ASSUME NEW r \in DOMAIN runs
      PROVE  /\ runs'[r] \in RunSet /\ RunStays(runs'[r], runs[r])
             /\ runs'[r].state = runs[r].state /\ runs'[r].listener = runs[r].listener
             /\ runs'[r].hup = runs[r].hup
  <2>1. runs[r] \in RunSet
    BY <1>1, RunFields
  <2>2. CASE runs[r].state = "live" /\ Sizing(runs[r]) # {}
    <3>. DEFINE v == sizes[Max(Sizing(runs[r]))]
    <3>1. Bounded(Sizing(runs[r]))
      BY <1>1, BoundedFacts
    <3>2. Max(Sizing(runs[r])) \in Sizing(runs[r])
      <4>. HIDE DEF Sizing
      <4>. QED  BY <2>2, <3>1, MaxFacts
    <3>3. v \in Sizes
      BY <1>4, <3>2
    <3>4. runs'[r] = [runs[r] EXCEPT !.size = v]
      <4>. HIDE DEF Sizing
      <4>. QED  BY <1>2, <2>2
    <3>. HIDE DEF v
    <3>. QED  BY <2>1, <3>3, <3>4 DEF RunSet, RunStays
  <2>3. CASE ~(runs[r].state = "live" /\ Sizing(runs[r]) # {})
    <3>1. runs'[r] = runs[r]
      <4>. HIDE DEF Sizing
      <4>. QED  BY <1>2, <2>3
    <3>. QED  BY <2>1, <3>1 DEF RunStays
  <2>. QED  BY <2>2, <2>3
<1>6. DOMAIN runs' = DOMAIN runs /\ runs' \in Seq(RunSet)
  <2>. HIDE DEF Sizing
  <2>1. DOMAIN runs' = DOMAIN runs /\ runs' = [r \in DOMAIN runs |-> runs'[r]]
    BY <1>2
  <2>2. Len(runs) \in Nat /\ DOMAIN runs = 1 .. Len(runs)
    BY <1>1
  <2>3. runs' \in [1 .. Len(runs) -> RunSet]
    BY <1>5, <2>1, <2>2
  <2>. QED  BY <2>1, <2>2, <2>3
<1>. QED  BY <1>2, <1>3, <1>5, <1>6 DEF SizedRuns, RunsStay

----------------------------------------------------------------------------
(* Queues *)

IsTail(p, q) ==
    /\ q # <<>> /\ Len(q) \in Nat /\ Len(q) >= 1
    /\ DOMAIN q = 1 .. Len(q) /\ DOMAIN p = 1 .. Len(q) - 1 /\ Len(p) = Len(q) - 1
    /\ \A k \in DOMAIN p : k + 1 \in DOMAIN q /\ p[k] = q[k + 1]
    /\ \A k \in DOMAIN q : k # 1 => k - 1 \in DOMAIN p /\ q[k] = p[k - 1]

IsAppend(p, q, m) ==
    /\ Len(q) \in Nat /\ DOMAIN q = 1 .. Len(q) /\ DOMAIN p = DOMAIN q \cup {Len(q) + 1}
    /\ \A k \in DOMAIN q : p[k] = q[k]
    /\ p[Len(q) + 1] = m

LEMMA TakesTail ==
    ASSUME NEW S, NEW q \in Seq(S), q # <<>>
    PROVE  /\ IsTail(Tail(q), q) /\ Tail(q) \in Seq(S)
           /\ Head(q) = q[1] /\ q[1] \in S
<1>1. /\ Head(q) = q[1] /\ q[1] \in S /\ Tail(q) \in Seq(S)
      /\ Len(q) \in Nat \ {0} /\ Len(Tail(q)) = Len(q) - 1
      /\ \A i \in 1 .. Len(q) - 1 : Tail(q)[i] = q[i + 1]
      /\ \A i \in 2 .. Len(q) : Tail(q)[i - 1] = q[i] /\ i - 1 \in 1 .. Len(q) - 1
  BY TailFacts
<1>2. DOMAIN q = 1 .. Len(q) /\ DOMAIN Tail(q) = 1 .. Len(q) - 1
  BY <1>1
<1>3. \A k \in DOMAIN Tail(q) : k + 1 \in DOMAIN q /\ Tail(q)[k] = q[k + 1]
  BY <1>1, <1>2
<1>4. \A k \in DOMAIN q : k # 1 => k - 1 \in DOMAIN Tail(q) /\ q[k] = Tail(q)[k - 1]
  BY <1>1, <1>2
<1>5. IsTail(Tail(q), q)
  BY <1>1, <1>2, <1>3, <1>4 DEF IsTail
<1>. QED  BY <1>1, <1>5

LEMMA Appends ==
    ASSUME NEW S, NEW q \in Seq(S), NEW m \in S
    PROVE  IsAppend(Append(q, m), q, m) /\ Append(q, m) \in Seq(S)
<1>1. /\ Append(q, m) \in Seq(S) /\ Len(q) \in Nat
      /\ Len(Append(q, m)) = Len(q) + 1
      /\ \A i \in 1 .. Len(q) : Append(q, m)[i] = q[i]
      /\ Append(q, m)[Len(q) + 1] = m
  BY AppendFacts
<1>2. DOMAIN q = 1 .. Len(q) /\ DOMAIN Append(q, m) = 1 .. Len(q) + 1
  BY <1>1
<1>3. DOMAIN Append(q, m) = DOMAIN q \cup {Len(q) + 1}
  BY <1>1, <1>2
<1>. QED  BY <1>1, <1>2, <1>3 DEF IsAppend

LEMMA TakesFacts ==
    ASSUME toPty \in Seq(PtyMessages), NEW do, Takes(do)
    PROVE  /\ todo = <<>> /\ toPty # <<>> /\ Head(toPty) = toPty[1] /\ toPty[1] \in PtyMessages
           /\ toPty[1].do = do /\ IsTail(toPty', toPty) /\ toPty' \in Seq(PtyMessages)
BY TakesTail DEF Takes

LEMMA ReceivesFacts ==
    ASSUME toScreen \in Seq(ScreenMessages(runs)), NEW do, Receives(do)
    PROVE  /\ toScreen # <<>> /\ Head(toScreen) = toScreen[1] /\ toScreen[1] \in ScreenMessages(runs)
           /\ toScreen[1].do = do /\ IsTail(toScreen', toScreen)
           /\ toScreen' \in Seq(ScreenMessages(runs))
BY TakesTail DEF Receives

LEMMA FirstIsThere ==
    ASSUME NEW S, NEW q \in Seq(S)
    PROVE  q # <<>> => 1 \in DOMAIN q
OBVIOUS

LEMMA FirstTaken ==
    ASSUME LayoutIsFirst, IsTail(toPty', toPty)
    PROVE  LayoutIsFirst'
<1>1. \A k \in DOMAIN toPty : k # 1 => toPty[k].do # "new tab"
  BY DEF LayoutIsFirst
<1>2. \A k \in DOMAIN toPty' : toPty'[k].do # "new tab"
  <2>. SUFFICES ASSUME NEW k \in DOMAIN toPty'
                PROVE  toPty'[k].do # "new tab"
    OBVIOUS
  <2>1. k + 1 \in DOMAIN toPty /\ toPty'[k] = toPty[k + 1] /\ k + 1 # 1
    BY DEF IsTail
  <2>. QED  BY <1>1, <2>1
<1>. QED  BY <1>2 DEF LayoutIsFirst

LEMMA FirstKept ==
    ASSUME LayoutIsFirst, toPty \in Seq(PtyMessages), Fresh => Fresh',
           \/ toPty' = toPty
           \/ \E m \in PtyMessages : m.do # "new tab" /\ IsAppend(toPty', toPty, m)
    PROVE  LayoutIsFirst'
<1>1. CASE toPty' = toPty
  BY <1>1 DEF LayoutIsFirst
<1>2. CASE \E m \in PtyMessages : m.do # "new tab" /\ IsAppend(toPty', toPty, m)
  <2>1. PICK m \in PtyMessages : m.do # "new tab" /\ IsAppend(toPty', toPty, m)
    BY <1>2
  <2>2. \A k \in DOMAIN toPty' :
            toPty'[k].do # "new tab" \/ (k \in DOMAIN toPty /\ toPty'[k] = toPty[k])
    BY <2>1 DEF IsAppend
  <2>3. toPty # <<>> => 1 \in DOMAIN toPty /\ toPty' # <<>> /\ toPty'[1] = toPty[1]
    <3>1. toPty # <<>> => 1 \in DOMAIN toPty
      BY FirstIsThere
    <3>2. toPty' # <<>>
      <4>1. Len(toPty) + 1 \in DOMAIN toPty'
        BY <2>1 DEF IsAppend
      <4>2. DOMAIN <<>> = {}
        BY EmptyMap
      <4>. QED  BY <4>1, <4>2
    <3>. QED  BY <3>1, <3>2, <2>1 DEF IsAppend
  <2>4. CASE \A k \in DOMAIN toPty : toPty[k].do # "new tab"
    BY <2>2, <2>4 DEF LayoutIsFirst
  <2>5. CASE ~ \A k \in DOMAIN toPty : toPty[k].do # "new tab"
    <3>1. /\ toPty # <<>> /\ toPty[1].do = "new tab"
          /\ \A k \in DOMAIN toPty : k # 1 => toPty[k].do # "new tab"
          /\ Fresh
      BY <2>5 DEF LayoutIsFirst
    <3>2. /\ toPty' # <<>> /\ toPty'[1].do = "new tab" /\ Fresh'
          /\ \A k \in DOMAIN toPty' : k # 1 => toPty'[k].do # "new tab"
      BY <2>2, <2>3, <3>1
    <3>. QED  BY <3>2 DEF LayoutIsFirst
  <2>. QED  BY <2>4, <2>5
<1>. QED  BY <1>1, <1>2

LEMMA QueuesMore ==
    ASSUME NEW rs, NEW ns, DOMAIN rs \subseteq DOMAIN ns
    PROVE  /\ \A q \in Seq(ScreenMessages(rs)) : q \in Seq(ScreenMessages(ns))
           /\ \A q \in Seq(TodoSteps(rs)) : q \in Seq(TodoSteps(ns))
           /\ \A q \in Seq(Holds(rs)) : q \in Seq(Holds(ns))
<1>1. /\ ScreenMessages(rs) \subseteq ScreenMessages(ns)
      /\ TodoSteps(rs) \subseteq TodoSteps(ns) /\ Holds(rs) \subseteq Holds(ns)
  BY MessagesMore
<1>. QED  BY <1>1, MoreQueues

----------------------------------------------------------------------------
(* Panes *)

LEMMA PaneFields ==
    ASSUME NEW ps, Maps(ps, PaneSet), NEW id \in DOMAIN ps
    PROVE  /\ ps[id] \in PaneSet /\ id \in Nat
           /\ ps[id].of \in Requests /\ ps[id].cmd \in AllCommands /\ ps[id].held \in BOOLEAN
<1>1. ps[id] \in PaneSet /\ id \in Nat
  BY DEF Maps, Bounded
<1>. QED  BY <1>1 DEF PaneSet

LEMMA TerminalFields ==
    ASSUME NEW t \in Terminals
    PROVE  /\ t.id \in Nat /\ t.of \in Requests /\ t.cmd \in AllCommands
           /\ Pane(t) \in PaneSet /\ Pane(t).of = t.of /\ Pane(t).cmd = t.cmd
           /\ Pane(t).held = (t.cmd = "suspended")
BY DEF Terminals, Pane, PaneSet

LEMMA ResizesType ==
    ASSUME toWriter \in Seq(SizeMaps), NEW ps, Bounded(DOMAIN ps), NEW a \in Nat,
           NEW ids \in SUBSET Nat, Resizes(ps, a, ids)
    PROVE  toWriter' \in Seq(SizeMaps)
<1>1. Cardinality(DOMAIN ps) \in Nat
  BY BoundedFacts
<1>2. [id \in ids |-> Size(ps, a, id)] \in SizeMaps
  <2>1. \A id \in ids : Size(ps, a, id) \in Nat \X Nat \X Nat
    BY <1>1 DEF Size
  <2>2. [id \in ids |-> Size(ps, a, id)] \in [ids -> Nat \X Nat \X Nat]
    BY <2>1
  <2>. QED  BY <2>2 DEF SizeMaps
<1>3. \A m \in SizeMaps : Append(toWriter, m) \in Seq(SizeMaps)
  BY AppendFacts
<1>. QED  BY <1>2, <1>3 DEF Resizes

LEMMA LayOutType ==
    ASSUME toWriter \in Seq(SizeMaps), NEW ps, Maps(ps, PaneSet), area \in Nat, LayOut(ps)
    PROVE  toWriter' \in Seq(SizeMaps) /\ panes' = ps
<1>1. Bounded(DOMAIN ps) /\ DOMAIN ps \in SUBSET Nat
  BY DEF Maps, Bounded
<1>. QED  BY <1>1, ResizesType DEF LayOut

HeldPanes(new, ps, ids) ==
    /\ Maps(new, PaneSet) /\ DOMAIN new = DOMAIN ps
    /\ \A id \in DOMAIN ps :
        /\ new[id].of = ps[id].of /\ new[id].cmd = ps[id].cmd
        /\ new[id].held <=> ps[id].held \/ id \in ids
        /\ id \notin ids => new[id] = ps[id]

LEMMA HeldFacts ==
    ASSUME NEW ps, Maps(ps, PaneSet), NEW ids
    PROVE  HeldPanes(Held(ps, ids), ps, ids)
<1>. DEFINE new == Held(ps, ids)
<1>1. /\ DOMAIN new = DOMAIN ps /\ new = [id \in DOMAIN ps |-> new[id]]
      /\ \A id \in DOMAIN ps :
            new[id] = IF id \in ids THEN [ps[id] EXCEPT !.held = TRUE] ELSE ps[id]
  BY DEF Held
<1>. HIDE DEF new
<1>2. ASSUME NEW id \in DOMAIN ps
      PROVE  /\ new[id] \in PaneSet
             /\ new[id].of = ps[id].of /\ new[id].cmd = ps[id].cmd
             /\ new[id].held <=> ps[id].held \/ id \in ids
             /\ id \notin ids => new[id] = ps[id]
  <2>1. ps[id] \in PaneSet /\ ps[id].held \in BOOLEAN
    BY PaneFields
  <2>2. CASE id \in ids
    <3>1. new[id] = [ps[id] EXCEPT !.held = TRUE]
      BY <1>1, <2>2
    <3>. QED  BY <2>1, <2>2, <3>1 DEF PaneSet
  <2>3. CASE id \notin ids
    BY <1>1, <2>1, <2>3
  <2>. QED  BY <2>2, <2>3
<1>3. Maps(new, PaneSet)
  <2>1. new \in [DOMAIN new -> PaneSet]
    BY <1>1, <1>2
  <2>2. Bounded(DOMAIN new)
    BY <1>1 DEF Maps
  <2>. QED  BY <2>1, <2>2 DEF Maps
<1>4. HeldPanes(new, ps, ids)
  BY <1>1, <1>2, <1>3 DEF HeldPanes
<1>. QED  BY <1>4 DEF new

LEMMA ValuesAreBounded ==
    ASSUME NEW m \in Nat, NEW f \in [1 .. m -> Nat]
    PROVE  \E b \in Nat : \A i \in 1 .. m : f[i] <= b
<1>. DEFINE bad == {n \in 0 .. m : ~ \E b \in Nat : \A i \in 1 .. n : f[i] <= b}
<1>1. bad = {}
  <2>1. SUFFICES ASSUME bad # {}
                 PROVE  FALSE
    OBVIOUS
  <2>2. PICK n \in bad : \A k \in bad : n <= k
    <3>1. bad \in SUBSET Nat
      OBVIOUS
    <3>. QED  BY <2>1, <3>1, LeastExists
  <2>3. n \in 0 .. m /\ ~ \E b \in Nat : \A i \in 1 .. n : f[i] <= b
    BY <2>2
  <2>4. CASE n = 0
    <3>1. \A i \in 1 .. n : f[i] <= 0
      BY <2>4
    <3>. QED  BY <2>3, <3>1
  <2>5. CASE n # 0
    <3>1. n - 1 \in 0 .. m /\ ~ (n <= n - 1) /\ f[n] \in Nat
      BY <2>3, <2>5
    <3>2. PICK b \in Nat : \A i \in 1 .. n - 1 : f[i] <= b
      BY <2>2, <3>1
    <3>3. \A i \in 1 .. n : i = n \/ i \in 1 .. n - 1
      BY <2>3
    <3>4. \A i \in 1 .. n - 1 : f[i] \in Nat
      BY <2>3
    <3>5. \A i \in 1 .. n : f[i] <= f[n] + b
      BY <3>1, <3>2, <3>3, <3>4
    <3>6. f[n] + b \in Nat
      BY <3>1
    <3>. QED  BY <2>3, <3>5, <3>6
  <2>. QED  BY <2>4, <2>5
<1>2. m \in 0 .. m
  OBVIOUS
<1>. QED  BY <1>1, <1>2

LEMMA IdsAreBounded ==
    ASSUME NEW ts \in Seq(Terminals)
    PROVE  Bounded({ts[i].id : i \in DOMAIN ts})
<1>. DEFINE f == [i \in 1 .. Len(ts) |-> ts[i].id]
<1>0. Len(ts) \in Nat /\ DOMAIN ts = 1 .. Len(ts) /\ \A i \in DOMAIN ts : ts[i] \in Terminals
  OBVIOUS
<1>1. \A i \in DOMAIN ts : ts[i].id \in Nat
  BY <1>0, TerminalFields
<1>2. f \in [1 .. Len(ts) -> Nat] /\ \A i \in 1 .. Len(ts) : f[i] = ts[i].id
  BY <1>0, <1>1
<1>. HIDE DEF f
<1>3. PICK b \in Nat : \A i \in 1 .. Len(ts) : f[i] <= b
  BY <1>0, <1>2, ValuesAreBounded
<1>4. \A x \in {ts[i].id : i \in DOMAIN ts} : x <= b /\ x \in Nat
  BY <1>0, <1>1, <1>2, <1>3
<1>. QED  BY <1>4 DEF Bounded

(* The panes of a layout                                                   *)
Laid(ts) ==
    [id \in {ts[i].id : i \in DOMAIN ts} |->
        Pane(ts[CHOOSE i \in DOMAIN ts : ts[i].id = id])]

LEMMA LaidFacts ==
    ASSUME NEW ts \in Seq(Terminals)
    PROVE  /\ Maps(Laid(ts), PaneSet) /\ DOMAIN Laid(ts) = {ts[i].id : i \in DOMAIN ts}
           /\ \A id \in DOMAIN Laid(ts) :
                 \E i \in DOMAIN ts : ts[i].id = id /\ Laid(ts)[id] = Pane(ts[i])
<1>. DEFINE ids == {ts[i].id : i \in DOMAIN ts}
            of(id) == CHOOSE i \in DOMAIN ts : ts[i].id = id
<1>1. /\ DOMAIN Laid(ts) = ids /\ Laid(ts) = [id \in ids |-> Laid(ts)[id]]
      /\ \A id \in ids : Laid(ts)[id] = Pane(ts[of(id)])
  BY DEF Laid
<1>2. \A id \in ids : of(id) \in DOMAIN ts /\ ts[of(id)].id = id
  OBVIOUS
<1>3. \A i \in DOMAIN ts : Pane(ts[i]) \in PaneSet
  BY TerminalFields
<1>4. Bounded(ids)
  BY IdsAreBounded
<1>. HIDE DEF ids, of
<1>5. Laid(ts) \in [ids -> PaneSet]
  BY <1>1, <1>2, <1>3
<1>6. Maps(Laid(ts), PaneSet)
  BY <1>1, <1>4, <1>5 DEF Maps
<1>7. \A id \in ids : \E i \in DOMAIN ts : ts[i].id = id /\ Laid(ts)[id] = Pane(ts[i])
  BY <1>1, <1>2
<1>. QED  BY <1>1, <1>6, <1>7 DEF ids

LEMMA ResumedType == ASSUME UserType, Resumed PROVE resumes' \in 0 .. MaxResumes
<1>1. MaxResumes \in Nat /\ resumes \in 0 .. MaxResumes
  BY BoundsAssumption DEF UserType
<1>. DEFINE both == {resumes + 1, MaxResumes}
<1>2. both \in SUBSET Nat /\ both # {}
  BY <1>1
<1>3. Min(both) \in both /\ \A x \in both : Min(both) <= x
  BY <1>2, MinFacts
<1>4. Min(both) \in 0 .. MaxResumes
  BY <1>1, <1>3
<1>. QED  BY <1>4 DEF Resumed

----------------------------------------------------------------------------
(* Types, step by step *)

LEMMA TypeParts ==
    ASSUME TypeInv
    PROVE  /\ ResourcesType(table, child, runs)
           /\ Maps(table, Nat \cup {NoFd}) /\ Maps(child, DOMAIN runs)
           /\ runs \in Seq(RunSet) /\ FdsEnd(runs)
           /\ toPty \in Seq(PtyMessages) /\ todo \in Seq(TodoSteps(runs))
           /\ toScreen \in Seq(ScreenMessages(runs)) /\ toWriter \in Seq(SizeMaps)
           /\ Maps(panes, PaneSet) /\ (\A id \in DOMAIN panes : panes[id].of \in shown)
           /\ shown \subseteq Requests /\ area \in Nat
           /\ pending \in BOOLEAN /\ buffered \in Seq(Holds(runs)) /\ waiting \subseteq Nat
           /\ UserType /\ LayoutIsFirst
BY DEF TypeInv, ResourcesType, QueuesType, TabType

LEMMA InitType == Init => TypeInv
<1>. SUFFICES ASSUME Init
              PROVE  TypeInv
  OBVIOUS
<1>0. DOMAIN <<>> = {} /\ \A S : Maps(<<>>, S)
  BY EmptyMap
<1>1. ResourcesType(table, child, runs)
  <2>1. FdsEnd(<<>>)
    BY <1>0 DEF FdsEnd
  <2>2. table = <<>> /\ child = <<>> /\ runs = <<>>
    BY DEF Init
  <2>. QED  BY <1>0, <2>1, <2>2 DEF ResourcesType
<1>2. toPty = <<NewTab>> /\ NewTab \in PtyMessages
  BY MadeRequests DEF Init
<1>3. QueuesType
  <2>1. toPty \in Seq(PtyMessages)
    BY <1>2
  <2>. QED  BY <2>1 DEF QueuesType, Init
<1>4. TabType
  BY <1>0 DEF TabType, Init
<1>5. UserType
  <2>1. MaxRequests \in Nat /\ MaxResumes \in Nat
    BY BoundsAssumption
  <2>2. 0 \in 0 .. MaxResumes /\ 0 \in 0 .. MaxRequests
    BY <2>1
  <2>. QED  BY <2>2 DEF UserType, Init
<1>6. LayoutIsFirst
  <2>1. Fresh
    BY <1>0 DEF Fresh, Init
  <2>2. toPty # <<>> /\ toPty[1] = NewTab /\ DOMAIN toPty = {1}
    BY <1>2
  <2>3. NewTab.do = "new tab"
    BY DEF NewTab
  <2>. QED  BY <2>1, <2>2, <2>3 DEF LayoutIsFirst
<1>. QED  BY <1>1, <1>3, <1>4, <1>5, <1>6 DEF TypeInv

(* What the pty thread does when a command is asked for                     *)
Spawned(s, m) ==
    IF Len(s.runs) > Len(runs) /\ Exists(m.cmd)
    THEN [s.runs EXCEPT ![Len(s.runs)].listener = "yes"] ELSE s.runs

SpawnTodo(s, m) ==
    CASE Exists(m.cmd)      -> Tell(NewPane(Head(s.terminals), m.split))
      [] m.cmd = "missing"  -> Tell(NewPane(Head(s.terminals), m.split))
                                 \o CommandNotFound(Head(s.terminals).id, Len(s.runs), FALSE)
      [] m.cmd = "typo"     -> IF m.split THEN <<>> ELSE Free(Head(s.terminals).id)

(* The terminal of a command that was spawned, and its process             *)
SpawnedOK(m, id, ns) ==
    LET fd == FreshFd(runs)
        r  == Len(runs) + 1
        up == m.cmd # "suspended" /\ Exists(m.cmd)
    IN  /\ ResourcesType(table', child', ns)
        /\ id \in Nat /\ id \notin DOMAIN table /\ DOMAIN table' = DOMAIN table \cup {id}
        /\ table'[id] = IF up THEN fd ELSE NoFd
        /\ \A x \in DOMAIN table : table'[x] = table[x]
        /\ IF up THEN Extends(child', child, id, r) ELSE child' = child
        /\ Len(runs) \in Nat /\ r \notin DOMAIN runs
        /\ \A q \in DOMAIN runs : ns[q] = runs[q]
        /\ IF m.cmd = "suspended" THEN ns = runs
           ELSE /\ DOMAIN ns = DOMAIN runs \cup {r}
                /\ ns[r].id = id /\ ns[r].of = m.of /\ ns[r].cmd = m.cmd
                /\ ns[r].hup = FALSE /\ ns[r].tab = FALSE /\ ns[r].size = <<>>
                /\ ns[r].fd = IF up THEN fd ELSE NoFd
                /\ ns[r].state = IF up THEN "live" ELSE "absent"
                /\ ns[r].listener = IF up THEN "yes" ELSE "none"

(* and what is told of it                                                  *)
SpawnToldOK(m, id, q) ==
    LET t == Terminal(id, m.of, m.cmd)
        r == Len(runs) + 1
        Say(msg) == [step |-> "tell", msg |-> msg]
    IN  \/ Exists(m.cmd) /\ Len(q) = 1 /\ q[1] = Say(NewPane(t, m.split))
        \/ /\ m.cmd = "missing" /\ Len(q) = 3 /\ q[1] = Say(NewPane(t, m.split))
           /\ q[2] = Say(PtyBytes(id, r)) /\ q[3] = Say(HoldPane(id, r, FALSE))
        \/ m.cmd = "typo" /\ q = <<>>
        \/ m.cmd = "typo" /\ Len(q) = 1 /\ q[1] = [step |-> "free", id |-> id]

LEMMA ListenedFacts ==
    ASSUME NEW rs \in Seq(RunSet), FdsEnd(rs), NEW r \in DOMAIN rs
    PROVE  /\ OneChanges([rs EXCEPT ![r].listener = "yes"], rs, r)
           /\ LET run == [rs EXCEPT ![r].listener = "yes"][r]
              IN  /\ run.listener = "yes" /\ run.state = rs[r].state /\ run.hup = rs[r].hup
                  /\ run.size = rs[r].size
<1>. DEFINE run == [rs[r] EXCEPT !.listener = "yes"]
<1>1. rs[r] \in RunSet
  BY RunFields
<1>2. run \in RunSet /\ RunStays(run, rs[r])
  BY <1>1 DEF RunSet, Reads, RunStays
<1>3. run.listener = "yes" /\ run.state = rs[r].state /\ run.hup = rs[r].hup /\ run.size = rs[r].size
  BY <1>1 DEF RunSet
<1>4. [rs EXCEPT ![r].listener = "yes"] = [rs EXCEPT ![r] = run]
  OBVIOUS
<1>. HIDE DEF run
<1>5. OneChanges([rs EXCEPT ![r] = run], rs, r) /\ [rs EXCEPT ![r] = run][r] = run
  BY <1>2, OneRunChanges
<1>. QED  BY <1>3, <1>4, <1>5

LEMMA SpawnsFacts ==
    ASSUME TypeInv, PtySpawns
    PROVE  \E id \in Nat :
              /\ id = NewId(DOMAIN table)
              /\ SpawnedOK(toPty[1], id, runs')
              /\ SpawnToldOK(toPty[1], id, todo') /\ todo' \in Seq(TodoSteps(runs'))
<1>. DEFINE m  == toPty[1]
            s  == Started(Resources, m.cmd, m.of, FALSE)
            id == NewId(DOMAIN table)
            t  == Terminal(id, m.of, m.cmd)
            fd == FreshFd(runs)
            r  == Len(runs) + 1
            up == m.cmd # "suspended" /\ Exists(m.cmd)
<1>0. /\ ResourcesType(table, child, runs) /\ runs \in Seq(RunSet) /\ FdsEnd(runs)
      /\ toPty \in Seq(PtyMessages)
  BY TypeParts
<1>1. /\ Head(toPty) = m /\ m \in PtyMessages /\ m.do = "spawn" /\ todo = <<>>
      /\ m.cmd \in AllCommands /\ m.of \in Requests /\ m.split \in BOOLEAN
  BY <1>0, TakesFacts, PtyMessageType DEF PtySpawns
<1>2. OneMoreStarted(s, Resources, id, m.cmd, m.of, FALSE)
  <2>1. /\ Resources.table = table /\ Resources.child = child /\ Resources.runs = runs
        /\ Resources.terminals = <<>>
    BY DEF Resources
  <2>2. ResourcesType(Resources.table, Resources.child, Resources.runs)
    BY <1>0, <2>1
  <2>3. Resources.terminals \in Seq(Terminals)
    BY <2>1
  <2>4. OneMoreStarted(s, Resources, NewId(DOMAIN Resources.table), m.cmd, m.of, FALSE)
    BY <1>1, <2>2, <2>3, StartedFacts
  <2>. QED  BY <2>1, <2>4
<1>3. /\ table' = s.table /\ child' = s.child /\ runs' = Spawned(s, m) /\ todo' = SpawnTodo(s, m)
  BY <1>1 DEF PtySpawns, Spawned, SpawnTodo
<1>. HIDE DEF m, s, t, r
<1>4. /\ ResourcesType(s.table, s.child, s.runs) /\ t \in Terminals
      /\ s.terminals = <<t>> /\ id \in Nat /\ id \notin DOMAIN table
      /\ DOMAIN s.table = DOMAIN table \cup {id}
      /\ s.table[id] = (IF up THEN fd ELSE NoFd)
      /\ \A x \in DOMAIN table : s.table[x] = table[x]
      /\ m.cmd = "suspended" => s.runs = runs
      /\ m.cmd # "suspended" =>
           \E run : IsNewRun(run, id, m.of, m.cmd, fd, FALSE) /\ OneMoreRun(s.runs, runs, run)
      /\ IF up THEN Extends(s.child, child, id, r) ELSE s.child = child
  <2>1. /\ Resources.table = table /\ Resources.child = child /\ Resources.runs = runs
        /\ Resources.terminals = <<>>
    BY DEF Resources
  <2>2. t \in Terminals => Append(<<>>, t) = <<t>>
    OBVIOUS
  <2>. QED  BY <1>2, <2>1, <2>2 DEF OneMoreStarted, t, r
<1>. HIDE DEF id, fd, up
<1>40. Head(s.terminals) = t
  <2>1. Head(<<t>>) = t
    OBVIOUS
  <2>. QED  BY <1>4, <2>1
<1>41. /\ Exists(m.cmd) => SpawnTodo(s, m) = Tell(NewPane(t, m.split))
       /\ m.cmd = "missing" => SpawnTodo(s, m) = Tell(NewPane(t, m.split))
                                                    \o CommandNotFound(t.id, Len(s.runs), FALSE)
       /\ m.cmd = "typo" => SpawnTodo(s, m) = IF m.split THEN <<>> ELSE Free(t.id)
  <2>1. Exists(m.cmd) => SpawnTodo(s, m) = Tell(NewPane(t, m.split))
    <3>1. Exists(m.cmd) => m.cmd # "missing" /\ m.cmd # "typo"
      BY DEF Exists
    <3>. QED  BY <1>40, <3>1 DEF SpawnTodo
  <2>2. m.cmd \in {"missing", "typo"} => ~Exists(m.cmd)
    BY DEF Exists
  <2>3. m.cmd = "missing" => SpawnTodo(s, m) = Tell(NewPane(t, m.split))
                                                    \o CommandNotFound(t.id, Len(s.runs), FALSE)
    BY <1>40, <2>2 DEF SpawnTodo
  <2>4. m.cmd = "typo" => SpawnTodo(s, m) = IF m.split THEN <<>> ELSE Free(t.id)
    BY <1>40, <2>2 DEF SpawnTodo
  <2>. QED  BY <2>1, <2>3, <2>4
<1>5. Len(runs) \in Nat /\ DOMAIN runs = 1 .. Len(runs) /\ r \notin DOMAIN runs
  BY <1>0 DEF r
<1>6. CASE m.cmd = "suspended"
  <2>1. runs' = runs /\ Exists(m.cmd) /\ ~up
    <3>1. s.runs = runs
      BY <1>4, <1>6
    <3>2. ~(Len(s.runs) > Len(runs))
      BY <1>5, <3>1
    <3>. QED  BY <1>3, <1>6, <3>1, <3>2 DEF Spawned, Exists, up
  <2>2. SpawnedOK(m, id, runs')
    BY <1>3, <1>4, <1>5, <1>6, <2>1 DEF SpawnedOK, r, up, fd
  <2>3. todo' = <<[step |-> "tell", msg |-> NewPane(t, m.split)]>>
    BY <1>3, <1>41, <2>1 DEF Tell
  <2>4. NewPane(t, m.split) \in ScreenMessages(runs')
    BY <1>1, <1>4, MadeMessages
  <2>5. todo' \in Seq(TodoSteps(runs'))
    <3>1. todo' = Tell(NewPane(t, m.split))
      BY <2>3 DEF Tell
    <3>. QED  BY <2>4, <3>1, MadeSteps
  <2>6. SpawnToldOK(m, id, todo')
    BY <2>1, <2>3 DEF SpawnToldOK, t
  <2>. QED  BY <1>4, <2>2, <2>5, <2>6 DEF m, id
<1>7. CASE m.cmd # "suspended"
  <2>0. PICK run : IsNewRun(run, id, m.of, m.cmd, fd, FALSE) /\ OneMoreRun(s.runs, runs, run)
    BY <1>4, <1>7
  <2>1. /\ s.runs \in Seq(RunSet) /\ FdsEnd(s.runs) /\ DOMAIN s.runs = DOMAIN runs \cup {r}
        /\ s.runs[r] = run /\ \A q \in DOMAIN runs : s.runs[q] = runs[q]
    BY <2>0 DEF OneMoreRun, r
  <2>2. Len(s.runs) = r
    <3>1. DOMAIN s.runs = 1 .. Len(s.runs) /\ Len(s.runs) \in Nat
      BY <2>1
    <3>2. DOMAIN s.runs = 1 .. r
      BY <1>5, <2>1 DEF r
    <3>3. r \in Nat
      BY <1>5 DEF r
    <3>. QED  BY <3>1, <3>2, <3>3
  <2>3. Len(s.runs) > Len(runs)
    BY <1>5, <2>2 DEF r
  <2>4. /\ run.id = id /\ run.of = m.of /\ run.cmd = m.cmd /\ run.tab = FALSE
        /\ run.hup = FALSE /\ run.listener = "none" /\ run.size = <<>>
        /\ run.fd = (IF up THEN fd ELSE NoFd)
        /\ run.state = (IF up THEN "live" ELSE "absent")
    BY <1>7, <2>0 DEF IsNewRun, up
  <2>5. CASE up
    <3>1. runs' = [s.runs EXCEPT ![r].listener = "yes"]
      BY <1>3, <2>2, <2>3, <2>5 DEF Spawned, up
    <3>2. /\ OneChanges(runs', s.runs, r)
          /\ runs'[r].listener = "yes" /\ runs'[r].state = run.state /\ runs'[r].hup = run.hup
          /\ runs'[r].size = run.size
      BY <2>1, <3>1, ListenedFacts
    <3>3. /\ runs' \in Seq(RunSet) /\ DOMAIN runs' = DOMAIN runs \cup {r}
          /\ RunStays(runs'[r], run) /\ RunsStay(runs', s.runs)
          /\ \A q \in DOMAIN runs : runs'[q] = runs[q]
      BY <1>5, <2>1, <3>2 DEF OneChanges, RunsStay
    <3>4. ResourcesType(table', child', runs')
      BY <1>3, <1>4, <3>3, RunsStayType
    <3>5. SpawnedOK(m, id, runs')
      BY <1>3, <1>4, <1>5, <1>7, <2>4, <2>5, <3>2, <3>3, <3>4 DEF SpawnedOK, RunStays, r, up, fd
    <3>6. todo' = Tell(NewPane(t, m.split))
      BY <1>3, <1>41, <2>5 DEF up
    <3>7. NewPane(t, m.split) \in ScreenMessages(runs')
      BY <1>1, <1>4, MadeMessages
    <3>8. todo' \in Seq(TodoSteps(runs'))
      BY <3>6, <3>7, MadeSteps
    <3>9. SpawnToldOK(m, id, todo')
      BY <2>5, <3>6 DEF SpawnToldOK, Tell, t, up
    <3>. QED  BY <1>4, <3>5, <3>8, <3>9 DEF m, id
  <2>6. CASE ~up
    <3>1. runs' = s.runs /\ ~Exists(m.cmd)
      BY <1>3, <1>7, <2>6 DEF Spawned, up
    <3>2. SpawnedOK(m, id, runs')
      BY <1>3, <1>4, <1>5, <1>7, <2>1, <2>4, <2>6, <3>1 DEF SpawnedOK, r, up, fd
    <3>3. m.cmd \in {"missing", "typo"}
      BY <3>1 DEF Exists
    <3>4. CASE m.cmd = "missing"
      <4>1. todo' = Tell(NewPane(t, m.split)) \o CommandNotFound(t.id, r, FALSE)
        BY <1>3, <1>41, <2>2, <3>4
      <4>2. t.id = id
        BY DEF t, Terminal
      <4>3. NotFoundTold(CommandNotFound(id, r, FALSE), runs', id, r, FALSE)
        <5>1. r \in DOMAIN runs'
          BY <2>1, <3>1
        <5>. QED  BY <1>4, <5>1, NotFoundSteps
      <4>4. NewPane(t, m.split) \in ScreenMessages(runs')
        BY <1>1, <1>4, MadeMessages
      <4>5. Tell(NewPane(t, m.split)) \in Seq(TodoSteps(runs'))
        BY <4>4, MadeSteps
      <4>6. /\ Len(Tell(NewPane(t, m.split))) = 1
            /\ Tell(NewPane(t, m.split))[1] = [step |-> "tell", msg |-> NewPane(t, m.split)]
        BY DEF Tell
      <4>. DEFINE p == Tell(NewPane(t, m.split))
                  c == CommandNotFound(id, r, FALSE)
      <4>7. p \in Seq(TodoSteps(runs')) /\ c \in Seq(TodoSteps(runs')) /\ Len(p) = 1 /\ Len(c) = 2
        BY <4>3, <4>5, <4>6 DEF NotFoundTold
      <4>. HIDE DEF p, c
      <4>8. /\ p \o c \in Seq(TodoSteps(runs')) /\ Len(p \o c) = 3
            /\ (p \o c)[1] = p[1] /\ (p \o c)[2] = c[1] /\ (p \o c)[3] = c[2]
        <5>1. /\ p \o c \in Seq(TodoSteps(runs')) /\ Len(p \o c) = Len(p) + Len(c)
              /\ \A i \in 1 .. Len(p) : (p \o c)[i] = p[i]
              /\ \A i \in 1 .. Len(c) : (p \o c)[Len(p) + i] = c[i]
          BY <4>7, ConcatFacts
        <5>2. (p \o c)[1] = p[1]
          BY <4>7, <5>1
        <5>3. (p \o c)[1 + 1] = c[1] /\ (p \o c)[1 + 2] = c[2]
          BY <4>7, <5>1
        <5>. QED  BY <4>7, <5>1, <5>2, <5>3
      <4>9. todo' = p \o c
        BY <4>1, <4>2 DEF p, c
      <4>10. SpawnToldOK(m, id, todo')
        BY <3>4, <4>3, <4>6, <4>8, <4>9 DEF SpawnToldOK, NotFoundTold, p, c, r, t
      <4>. QED  BY <1>4, <3>2, <4>8, <4>9, <4>10 DEF m, id
    <3>5. CASE m.cmd = "typo"
      <4>1. todo' = IF m.split THEN <<>> ELSE Free(id)
        <5>1. t.id = id
          BY DEF t, Terminal
        <5>. QED  BY <1>3, <1>41, <3>5, <5>1
      <4>2. todo' \in Seq(TodoSteps(runs'))
        BY <1>4, <4>1, MadeSteps
      <4>3. SpawnToldOK(m, id, todo')
        BY <3>5, <4>1 DEF SpawnToldOK, Free
      <4>. QED  BY <1>4, <3>2, <4>2, <4>3 DEF m, id
    <3>. QED  BY <3>3, <3>4, <3>5
  <2>. QED  BY <2>5, <2>6
<1>. QED  BY <1>6, <1>7

LEMMA QueuesGrow ==
    ASSUME TypeInv, DOMAIN runs \subseteq DOMAIN runs'
    PROVE  /\ toScreen \in Seq(ScreenMessages(runs')) /\ todo \in Seq(TodoSteps(runs'))
           /\ buffered \in Seq(Holds(runs'))
BY TypeParts, QueuesMore

LEMMA SpawnsType == TypeInv /\ PtySpawns => TypeInv'
<1>. SUFFICES ASSUME TypeInv, PtySpawns
              PROVE  TypeInv'
  OBVIOUS
<1>0. /\ toPty \in Seq(PtyMessages) /\ LayoutIsFirst
  BY TypeParts
<1>1. IsTail(toPty', toPty) /\ toPty' \in Seq(PtyMessages)
  BY <1>0, TakesFacts DEF PtySpawns
<1>2. /\ ResourcesType(table', child', runs') /\ todo' \in Seq(TodoSteps(runs'))
      /\ DOMAIN runs \subseteq DOMAIN runs'
  BY SpawnsFacts, Zenon DEF SpawnedOK
<1>3. UNCHANGED <<toScreen, toWriter, screen, user>>
  BY DEF PtySpawns
<1>4. QueuesType'
  BY <1>1, <1>2, <1>3, QueuesGrow, TypeParts DEF QueuesType
<1>5. TabType'
  BY <1>2, <1>3, QueuesGrow, TypeParts DEF TabType, screen
<1>6. UserType'
  BY <1>3, TypeParts DEF UserType, user
<1>7. LayoutIsFirst'
  BY <1>0, <1>1, FirstTaken
<1>. QED  BY <1>2, <1>4, <1>5, <1>6, <1>7 DEF TypeInv

(* The layout's commands                                                   *)
LayoutSpawned(s) ==
    /\ LaidOut(s, First)
    /\ table' = s.table /\ child' = s.child /\ runs' = s.runs
    /\ LayoutTodoOK(s, todo')

LEMMA LayoutFacts ==
    ASSUME TypeInv, PtySpawnsLayout
    PROVE  Fresh /\ LayoutSpawned(StartedForLayout(Resources))
<1>1. /\ toPty # <<>> /\ Head(toPty) = toPty[1] /\ toPty[1].do = "new tab"
  BY TypeParts, TakesFacts DEF PtySpawnsLayout
<1>2. Fresh
  <2>1. 1 \in DOMAIN toPty
    BY <1>1, TypeParts, FirstIsThere
  <2>2. LayoutIsFirst
    BY TypeParts
  <2>. QED  BY <1>1, <2>1, <2>2 DEF LayoutIsFirst
<1>3. LaidOut(Resources, 0)
  BY <1>2, NothingIsLaidOut DEF Resources, Fresh
<1>4. LaidOut(StartedForLayout(Resources), First)
  BY <1>3, LayoutIsStarted
<1>. DEFINE s == StartedForLayout(Resources)
<1>5. /\ table' = s.table /\ child' = s.child /\ runs' = s.runs
      /\ todo' = LayoutTodo(s)
  BY DEF PtySpawnsLayout, LayoutTodo, RestFor, RunFor
<1>6. LayoutTodoOK(s, todo')
  BY <1>4, <1>5, LayoutTodoFacts
<1>. QED  BY <1>2, <1>4, <1>5, <1>6 DEF LayoutSpawned

LEMMA LayoutType == TypeInv /\ PtySpawnsLayout => TypeInv'
<1>. SUFFICES ASSUME TypeInv, PtySpawnsLayout
              PROVE  TypeInv'
  OBVIOUS
<1>0. /\ toPty \in Seq(PtyMessages) /\ LayoutIsFirst
  BY TypeParts
<1>1. IsTail(toPty', toPty) /\ toPty' \in Seq(PtyMessages)
  BY <1>0, TakesFacts DEF PtySpawnsLayout
<1>2. /\ ResourcesType(table', child', runs') /\ todo' \in Seq(TodoSteps(runs'))
      /\ DOMAIN runs \subseteq DOMAIN runs'
  <2>1. Fresh /\ LayoutSpawned(StartedForLayout(Resources))
    BY LayoutFacts
  <2>2. DOMAIN runs = {}
    BY <2>1, EmptyMap DEF Fresh
  <2>3. ResourcesType(table', child', runs') /\ todo' \in Seq(TodoSteps(runs'))
    BY <2>1 DEF LayoutSpawned, LaidOut, LayoutTodoOK
  <2>. QED  BY <2>2, <2>3
<1>3. UNCHANGED <<toScreen, toWriter, screen, user>>
  BY DEF PtySpawnsLayout
<1>4. QueuesType'
  BY <1>1, <1>2, <1>3, QueuesGrow, TypeParts DEF QueuesType
<1>5. TabType'
  BY <1>2, <1>3, QueuesGrow, TypeParts DEF TabType, screen
<1>6. UserType'
  BY <1>3, TypeParts DEF UserType, user
<1>7. LayoutIsFirst'
  BY <1>0, <1>1, FirstTaken
<1>. QED  BY <1>2, <1>4, <1>5, <1>6, <1>7 DEF TypeInv

(* Another process takes the terminal of m.                                *)
RerunOK(m) ==
    LET fd == FreshFd(runs)
        r  == Len(runs) + 1
    IN  /\ ResourcesType(table', child', runs')
        /\ Len(runs) \in Nat /\ r \notin DOMAIN runs
        /\ DOMAIN runs' = DOMAIN runs \cup {r}
        /\ \A q \in DOMAIN runs : runs'[q] = runs[q]
        /\ runs'[r].id = m.id /\ runs'[r].of = m.of /\ runs'[r].cmd = m.cmd
        /\ runs'[r].hup = FALSE /\ runs'[r].tab = FALSE /\ runs'[r].size = <<>>
        /\ runs'[r].fd = (IF Exists(m.cmd) THEN fd ELSE NoFd)
        /\ IF Exists(m.cmd)
           THEN /\ Extends(table', table, m.id, fd) /\ Extends(child', child, m.id, r)
                /\ runs'[r].state = "live" /\ runs'[r].listener = "yes"
                /\ todo' = <<>>
           ELSE /\ table' = table /\ Loses(child', child, m.id)
                /\ runs'[r].state = "absent" /\ runs'[r].listener = "none"
                /\ NotFoundTold(todo', runs', m.id, r, FALSE)

LEMMA RerunsFacts ==
    ASSUME TypeInv, PtyReruns
    PROVE  RerunOK(toPty[1])
<1>. DEFINE m == toPty[1]
            fd == FreshFd(runs)
            r == Len(runs) + 1
            run == NewRun(m.id, m.of, m.cmd, fd, FALSE)
            on  == [run EXCEPT !.listener = "yes"]
<1>0. /\ ResourcesType(table, child, runs) /\ runs \in Seq(RunSet) /\ FdsEnd(runs)
      /\ Maps(table, Nat \cup {NoFd}) /\ Maps(child, DOMAIN runs)
      /\ toPty \in Seq(PtyMessages)
  BY TypeParts
<1>1. /\ Head(toPty) = m /\ todo = <<>>
      /\ m.id \in Nat /\ m.cmd \in AllCommands /\ m.of \in Requests
  BY <1>0, TakesFacts, PtyMessageType DEF PtyReruns
<1>2. /\ RerunsCommand(m.id, m.cmd, m.of)
      /\ todo' = IF Exists(m.cmd) THEN <<>> ELSE CommandNotFound(m.id, Len(runs'), FALSE)
  BY <1>1 DEF PtyReruns
<1>3. fd \in Nat
  BY <1>0, FreshFdFacts
<1>. HIDE DEF m, fd
<1>4. IsNewRun(run, m.id, m.of, m.cmd, fd, FALSE)
  BY <1>1, <1>3, NewRunFacts
<1>5. CASE Exists(m.cmd)
  <2>1. /\ table' = With(table, m.id, fd) /\ child' = With(child, m.id, r)
        /\ runs' = Append(runs, on) /\ todo' = <<>>
    BY <1>2, <1>5 DEF RerunsCommand, fd
  <2>2. /\ on \in RunSet /\ on.listener = "yes"
        /\ on.id = m.id /\ on.of = m.of /\ on.cmd = m.cmd /\ on.hup = FALSE /\ on.tab = FALSE
        /\ on.size = <<>> /\ on.fd = fd /\ on.state = "live"
    <3>. HIDE DEF run
    <3>1. run \in RunSet
      BY <1>4 DEF IsNewRun
    <3>2. on \in RunSet /\ on.listener = "yes" /\ on.id = run.id /\ on.of = run.of /\ on.cmd = run.cmd
          /\ on.hup = run.hup /\ on.tab = run.tab /\ on.size = run.size /\ on.fd = run.fd
          /\ on.state = run.state
      BY <3>1 DEF RunSet, Reads
    <3>. QED  BY <1>4, <1>5, <3>2 DEF IsNewRun
  <2>. HIDE DEF run, on
  <2>3. OneMoreRun(runs', runs, on)
    BY <1>0, <2>1, <2>2, MoreRuns
  <2>4. /\ DOMAIN runs' = DOMAIN runs \cup {r} /\ Len(runs) \in Nat /\ r \notin DOMAIN runs
        /\ runs'[r] = on /\ \A q \in DOMAIN runs : runs'[q] = runs[q]
        /\ runs' \in Seq(RunSet) /\ FdsEnd(runs')
    BY <2>3 DEF OneMoreRun
  <2>5. Maps(table', Nat \cup {NoFd}) /\ Extends(table', table, m.id, fd)
    BY <1>0, <1>1, <1>3, <2>1, WithFacts
  <2>6. Maps(child', DOMAIN runs') /\ Extends(child', child, m.id, r)
    <3>1. Maps(child, DOMAIN runs') /\ r \in DOMAIN runs'
      BY <1>0, <2>4, MapsMore
    <3>. QED  BY <1>1, <2>1, <3>1, WithFacts
  <2>7. ResourcesType(table', child', runs')
    BY <2>4, <2>5, <2>6 DEF ResourcesType
  <2>. QED  BY <1>5, <2>1, <2>2, <2>4, <2>5, <2>6, <2>7 DEF RerunOK, m, fd
<1>6. CASE ~Exists(m.cmd)
  <2>1. /\ table' = table /\ child' = Without(child, m.id)
        /\ runs' = Append(runs, run) /\ todo' = CommandNotFound(m.id, Len(runs'), FALSE)
    BY <1>2, <1>6 DEF RerunsCommand, fd
  <2>2. /\ run \in RunSet /\ run.listener = "none"
        /\ run.id = m.id /\ run.of = m.of /\ run.cmd = m.cmd /\ run.hup = FALSE /\ run.tab = FALSE
        /\ run.size = <<>> /\ run.fd = NoFd /\ run.state = "absent"
    BY <1>4, <1>6 DEF IsNewRun
  <2>. HIDE DEF run, on
  <2>3. OneMoreRun(runs', runs, run)
    BY <1>0, <2>1, <2>2, MoreRuns
  <2>4. /\ DOMAIN runs' = DOMAIN runs \cup {r} /\ Len(runs) \in Nat /\ r \notin DOMAIN runs
        /\ runs'[r] = run /\ \A q \in DOMAIN runs : runs'[q] = runs[q]
        /\ runs' \in Seq(RunSet) /\ FdsEnd(runs')
    BY <2>3 DEF OneMoreRun
  <2>5. Len(runs') = r
    BY <1>0, <2>1, <2>2, AppendFacts
  <2>6. Maps(child', DOMAIN runs') /\ Loses(child', child, m.id)
    <3>1. Maps(child, DOMAIN runs')
      BY <1>0, <2>4, MapsMore
    <3>. QED  BY <2>1, <3>1, WithoutFacts
  <2>7. ResourcesType(table', child', runs')
    BY <1>0, <2>1, <2>4, <2>6 DEF ResourcesType
  <2>8. NotFoundTold(todo', runs', m.id, r, FALSE)
    <3>1. r \in DOMAIN runs'
      BY <2>4
    <3>. QED  BY <1>1, <2>1, <2>5, <3>1, NotFoundSteps
  <2>. QED  BY <1>6, <2>1, <2>2, <2>4, <2>6, <2>7, <2>8 DEF RerunOK, m, fd
<1>. QED  BY <1>5, <1>6

LEMMA RerunsType == TypeInv /\ PtyReruns => TypeInv'
<1>. SUFFICES ASSUME TypeInv, PtyReruns
              PROVE  TypeInv'
  OBVIOUS
<1>0. /\ toPty \in Seq(PtyMessages) /\ LayoutIsFirst
  BY TypeParts
<1>1. IsTail(toPty', toPty) /\ toPty' \in Seq(PtyMessages)
  BY <1>0, TakesFacts DEF PtyReruns
<1>2. /\ ResourcesType(table', child', runs') /\ todo' \in Seq(TodoSteps(runs'))
      /\ DOMAIN runs \subseteq DOMAIN runs'
  <2>0. RerunOK(toPty[1])
    BY RerunsFacts
  <2>1. todo' \in Seq(TodoSteps(runs'))
    <3>1. CASE Exists(toPty[1].cmd)
      BY <2>0, <3>1, MadeSteps DEF RerunOK
    <3>2. CASE ~Exists(toPty[1].cmd)
      BY <2>0, <3>2 DEF RerunOK, NotFoundTold
    <3>. QED  BY <3>1, <3>2
  <2>. QED  BY <2>0, <2>1 DEF RerunOK
<1>3. UNCHANGED <<toScreen, toWriter, screen, user>>
  BY DEF PtyReruns
<1>4. QueuesType'
  BY <1>1, <1>2, <1>3, QueuesGrow, TypeParts DEF QueuesType
<1>5. TabType'
  BY <1>2, <1>3, QueuesGrow, TypeParts DEF TabType, screen
<1>6. UserType'
  BY <1>3, TypeParts DEF UserType, user
<1>7. LayoutIsFirst'
  BY <1>0, <1>1, FirstTaken
<1>. QED  BY <1>2, <1>4, <1>5, <1>6, <1>7 DEF TypeInv

LEMMA ClosesType == TypeInv /\ PtyCloses => TypeInv'
<1>. SUFFICES ASSUME TypeInv, PtyCloses
              PROVE  TypeInv'
  OBVIOUS
<1>0. /\ toPty \in Seq(PtyMessages) /\ LayoutIsFirst
  BY TypeParts
<1>1. IsTail(toPty', toPty) /\ toPty' \in Seq(PtyMessages)
  BY <1>0, TakesFacts DEF PtyCloses
<1>2. /\ ResourcesType(table', child', runs') /\ DOMAIN runs \subseteq DOMAIN runs'
  <2>1. Closes(Head(toPty).id)
    BY DEF PtyCloses
  <2>. QED  BY <2>1, TypeParts, ClosesFacts DEF ClosedRuns, RunsStay
<1>3. UNCHANGED <<todo, toScreen, toWriter, screen, blocked, asked, pressed>>
  BY DEF PtyCloses
<1>4. QueuesType'
  BY <1>1, <1>2, <1>3, QueuesGrow, TypeParts DEF QueuesType
<1>5. TabType'
  BY <1>2, <1>3, QueuesGrow, TypeParts DEF TabType, screen
<1>6. UserType'
  <2>1. resumes' \in 0 .. MaxResumes
    BY TypeParts, ResumedType DEF PtyCloses
  <2>. QED  BY <1>3, <2>1, TypeParts DEF UserType
<1>7. LayoutIsFirst'
  BY <1>0, <1>1, FirstTaken
<1>. QED  BY <1>2, <1>4, <1>5, <1>6, <1>7 DEF TypeInv

(* The pty thread goes on with its handler.                                *)
ContinueOK(s) ==
    /\ IsTail(todo', todo) /\ s \in TodoSteps(runs)
    /\ ResourcesType(table', child', runs')
    /\ \/ /\ s.step = "tell" /\ UNCHANGED <<table, child, runs>>
          /\ IsAppend(toScreen', toScreen, s.msg)
       \/ /\ s.step = "listen" /\ UNCHANGED <<table, child, toScreen>>
          /\ s.run \in DOMAIN runs /\ OneChanges(runs', runs, s.run)
          /\ runs'[s.run].listener = "yes" /\ runs'[s.run].state = runs[s.run].state
          /\ runs'[s.run].hup = runs[s.run].hup /\ runs'[s.run].size = runs[s.run].size
       \/ /\ s.step = "free" /\ toScreen' = toScreen
          /\ ClosedRuns(runs', runs, child, s.id)
          /\ Loses(table', table, s.id) /\ Loses(child', child, s.id)

LEMMA ContinuesFacts ==
    ASSUME TypeInv, PtyContinues
    PROVE  /\ ContinueOK(todo[1]) /\ todo # <<>>
           /\ RunsStay(runs', runs)
           /\ todo' \in Seq(TodoSteps(runs)) /\ toScreen' \in Seq(ScreenMessages(runs))
<1>. DEFINE s == todo[1]
<1>0. /\ ResourcesType(table, child, runs) /\ runs \in Seq(RunSet) /\ FdsEnd(runs)
      /\ todo \in Seq(TodoSteps(runs)) /\ toScreen \in Seq(ScreenMessages(runs))
  BY TypeParts
<1>1. /\ todo # <<>> /\ Head(todo) = s /\ s \in TodoSteps(runs)
      /\ IsTail(todo', todo) /\ todo' \in Seq(TodoSteps(runs))
  BY <1>0, TakesTail DEF PtyContinues
<1>2. /\ s.step \in {"tell", "listen", "free"}
      /\ s.step = "tell" => s.msg \in ScreenMessages(runs)
      /\ s.step = "listen" => s.run \in DOMAIN runs
  BY <1>1, TodoType
<1>3. RunsStay(runs, runs)
  BY <1>0 DEF RunsStay, RunStays
<1>4. CASE s.step = "tell"
  <2>1. toScreen' = Append(toScreen, s.msg) /\ UNCHANGED <<table, child, runs>>
    BY <1>1, <1>4 DEF PtyContinues, system
  <2>2. IsAppend(toScreen', toScreen, s.msg) /\ toScreen' \in Seq(ScreenMessages(runs))
    BY <1>0, <1>2, <1>4, <2>1, Appends
  <2>. QED  BY <1>0, <1>1, <1>3, <1>4, <2>1, <2>2 DEF ContinueOK
<1>5. CASE s.step = "listen"
  <2>1. /\ runs' = [runs EXCEPT ![s.run].listener = "yes"] /\ UNCHANGED <<table, child, toScreen>>
    BY <1>1, <1>5 DEF PtyContinues
  <2>2. /\ OneChanges(runs', runs, s.run)
        /\ runs'[s.run].listener = "yes" /\ runs'[s.run].state = runs[s.run].state
        /\ runs'[s.run].hup = runs[s.run].hup /\ runs'[s.run].size = runs[s.run].size
    BY <1>0, <1>2, <1>5, <2>1, ListenedFacts
  <2>3. ResourcesType(table', child', runs') /\ RunsStay(runs', runs)
    BY <1>0, <2>1, <2>2, RunsStayType DEF OneChanges
  <2>. QED  BY <1>0, <1>1, <1>2, <1>5, <2>1, <2>2, <2>3 DEF ContinueOK
<1>6. CASE s.step = "free"
  <2>1. Closes(s.id) /\ toScreen' = toScreen
    BY <1>1, <1>6 DEF PtyContinues
  <2>2. /\ ResourcesType(table', child', runs')
        /\ ClosedRuns(runs', runs, child, s.id)
        /\ Loses(table', table, s.id) /\ Loses(child', child, s.id)
    BY <1>0, <2>1, ClosesFacts
  <2>3. RunsStay(runs', runs)
    BY <2>2 DEF ClosedRuns
  <2>. QED  BY <1>0, <1>1, <1>6, <2>1, <2>2, <2>3 DEF ContinueOK
<1>. QED  BY <1>2, <1>4, <1>5, <1>6

(* Whoever leaves the channel to the pty thread alone, when it is not the   *)
(* first one to act                                                        *)
LEMMA FirstDone ==
    ASSUME TypeInv, ~Fresh,
           \/ toPty' = toPty
           \/ \E m \in PtyMessages : m.do # "new tab" /\ IsAppend(toPty', toPty, m)
    PROVE  LayoutIsFirst'
<1>1. LayoutIsFirst /\ toPty \in Seq(PtyMessages)
  BY TypeParts
<1>. QED  BY <1>1, FirstKept

LEMMA ContinuesType == TypeInv /\ PtyContinues => TypeInv'
<1>. SUFFICES ASSUME TypeInv, PtyContinues
              PROVE  TypeInv'
  OBVIOUS
<1>1. /\ ResourcesType(table', child', runs') /\ DOMAIN runs' = DOMAIN runs
      /\ todo' \in Seq(TodoSteps(runs)) /\ toScreen' \in Seq(ScreenMessages(runs)) /\ todo # <<>>
  BY ContinuesFacts DEF ContinueOK, RunsStay
<1>2. UNCHANGED <<toPty, toWriter, screen, user>>
  BY DEF PtyContinues
<1>3. todo' \in Seq(TodoSteps(runs')) /\ toScreen' \in Seq(ScreenMessages(runs'))
  BY <1>1, QueuesMore
<1>4. QueuesType'
  BY <1>2, <1>3, TypeParts DEF QueuesType
<1>5. TabType'
  BY <1>1, <1>2, QueuesGrow, TypeParts DEF TabType, screen
<1>6. UserType'
  BY <1>2, TypeParts DEF UserType, user
<1>7. LayoutIsFirst'
  <2>1. ~Fresh
    BY <1>1 DEF Fresh
  <2>. QED  BY <1>2, <2>1, FirstDone
<1>. QED  BY <1>1, <1>4, <1>5, <1>6, <1>7 DEF TypeInv

(* A process                                                               *)
LEMMA ProcessType == TypeInv /\ (\E r \in DOMAIN runs : Process(r)) => TypeInv'
<1>. SUFFICES ASSUME TypeInv, NEW r \in DOMAIN runs, Process(r)
              PROVE  TypeInv'
  OBVIOUS
<1>0. ResourcesType(table, child, runs) /\ runs \in Seq(RunSet)
  BY TypeParts
<1>1. RunsStay(runs', runs) /\ UNCHANGED <<table, child, toPty, todo, toWriter, screen, user>>
  <2>1. CASE Ends(r)
    BY <1>0, <2>1, EndsFacts DEF OneChanges, Ends
  <2>2. CASE Reports(r)
    BY <1>0, <2>2, ReportsFacts DEF OneChanges, Reports
  <2>3. CASE ListenerReads(r)
    BY <1>0, <2>3, ReadsFacts DEF OneChanges, ListenerReads
  <2>4. CASE ListenerEnds(r)
    BY <1>0, <2>4, ListenerEndsFacts DEF OneChanges, ListenerEnds
  <2>. QED  BY <2>1, <2>2, <2>3, <2>4 DEF Process
<1>2. toScreen' = toScreen \/ \E m \in ScreenMessages(runs) : toScreen' = Append(toScreen, m)
  <2>0. /\ r \in DOMAIN runs /\ runs[r].id \in Nat /\ runs[r].tab \in BOOLEAN
    BY <1>0, RunFields
  <2>1. /\ PtyBytes(runs[r].id, r) \in ScreenMessages(runs)
        /\ HoldPane(runs[r].id, r, runs[r].tab) \in ScreenMessages(runs)
        /\ ClosePane(runs[r].id, r) \in ScreenMessages(runs)
    BY <2>0, MadeMessages
  <2>2. CASE Ends(r) \/ ListenerEnds(r)
    BY <2>2 DEF Ends, ListenerEnds
  <2>3. CASE Reports(r)
    <3>1. toScreen' = Append(toScreen,
              IF HoldsOnClose(runs[r].cmd) THEN HoldPane(runs[r].id, r, runs[r].tab)
                                           ELSE ClosePane(runs[r].id, r))
      BY <2>3 DEF Reports
    <3>. QED  BY <2>1, <3>1
  <2>4. CASE ListenerReads(r)
    <3>1. toScreen' = Append(toScreen, PtyBytes(runs[r].id, r))
      BY <2>4 DEF ListenerReads
    <3>. QED  BY <2>1, <3>1
  <2>. QED  BY <2>2, <2>3, <2>4 DEF Process
<1>3. ResourcesType(table', child', runs') /\ DOMAIN runs' = DOMAIN runs
  BY <1>0, <1>1, RunsStayType DEF RunsStay
<1>4. toScreen' \in Seq(ScreenMessages(runs'))
  <2>1. toScreen \in Seq(ScreenMessages(runs))
    BY TypeParts
  <2>2. toScreen' \in Seq(ScreenMessages(runs))
    BY <1>2, <2>1, Appends
  <2>. QED  BY <1>3, <2>2, QueuesMore
<1>5. todo' \in Seq(TodoSteps(runs')) /\ buffered' \in Seq(Holds(runs'))
  BY <1>1, <1>3, QueuesGrow DEF screen
<1>6. QueuesType'
  BY <1>1, <1>4, <1>5, TypeParts DEF QueuesType
<1>7. TabType'
  BY <1>1, <1>5, TypeParts DEF TabType, screen
<1>8. UserType'
  BY <1>1, TypeParts DEF UserType, user
<1>9. LayoutIsFirst'
  <2>1. ~Fresh
    BY EmptyMap DEF Fresh
  <2>. QED  BY <1>1, <2>1, FirstDone
<1>. QED  BY <1>3, <1>6, <1>7, <1>8, <1>9 DEF TypeInv

(* The pty writer                                                          *)
LEMMA WriterType == TypeInv /\ WriterApplies => TypeInv'
<1>. SUFFICES ASSUME TypeInv, WriterApplies
              PROVE  TypeInv'
  OBVIOUS
<1>0. ResourcesType(table, child, runs) /\ toWriter \in Seq(SizeMaps)
  BY TypeParts
<1>1. RunsStay(runs', runs) /\ toWriter' \in Seq(SizeMaps)
  BY <1>0, WriterFacts DEF SizedRuns
<1>2. UNCHANGED <<table, child, toPty, todo, toScreen, screen, user>>
  BY DEF WriterApplies
<1>3. ResourcesType(table', child', runs') /\ DOMAIN runs' = DOMAIN runs
  BY <1>0, <1>1, <1>2, RunsStayType DEF RunsStay
<1>4. QueuesType'
  BY <1>1, <1>2, <1>3, QueuesGrow, TypeParts DEF QueuesType
<1>5. TabType'
  BY <1>2, <1>3, QueuesGrow, TypeParts DEF TabType, screen
<1>6. UserType'
  BY <1>2, TypeParts DEF UserType, user
<1>7. LayoutIsFirst'
  <2>1. Fresh => runs' = <<>>
    <3>1. ASSUME runs = <<>>
          PROVE  runs' = <<>>
      <4>1. DOMAIN runs' = {} /\ runs' \in Seq(RunSet)
        BY <1>1, <1>3, <3>1, EmptyMap DEF RunsStay
      <4>. QED  BY <4>1
    <3>. QED  BY <3>1 DEF Fresh
  <2>2. Fresh => Fresh'
    BY <1>2, <2>1 DEF Fresh, screen
  <2>. QED  BY <1>2, <2>2, TypeParts, FirstKept
<1>. QED  BY <1>3, <1>4, <1>5, <1>6, <1>7 DEF TypeInv

----------------------------------------------------------------------------
(* Types: the screen and the user *)

(* A message that cannot come before the layout                            *)
LEMMA NotFresh ==
    ASSUME TypeInv, NEW do, Receives(do), do \notin {"close focused", "key", "resize"}
    PROVE  ~Fresh
<1>1. toScreen # <<>> /\ toScreen[1].do = do /\ toScreen \in Seq(ScreenMessages(runs))
  BY TypeParts, ReceivesFacts
<1>2. 1 \in DOMAIN toScreen
  BY <1>1, FirstIsThere
<1>. QED  BY <1>1, <1>2 DEF Fresh

LEMMA FreshTail ==
    ASSUME TypeInv, NEW do, Receives(do),
           UNCHANGED <<system, todo, panes, shown, pending, buffered, waiting>>
    PROVE  Fresh => Fresh'
<1>1. IsTail(toScreen', toScreen)
  BY TypeParts, ReceivesFacts
<1>2. (\A k \in DOMAIN toScreen : toScreen[k].do \in {"close focused", "key", "resize"})
        => \A k \in DOMAIN toScreen' : toScreen'[k].do \in {"close focused", "key", "resize"}
  BY <1>1 DEF IsTail
<1>. QED  BY <1>2 DEF Fresh, system

(* What the screen's actions leave alone, and what is then left to show    *)
LEMMA ScreenTypes ==
    ASSUME TypeInv, NEW do, Receives(do), UNCHANGED <<system, todo, blocked, asked, pressed>>,
           resumes' \in 0 .. MaxResumes,
           toPty' \in Seq(PtyMessages), toWriter' \in Seq(SizeMaps), TabType', LayoutIsFirst'
    PROVE  TypeInv'
<1>1. UNCHANGED <<table, child, runs>>
  BY DEF system
<1>2. ResourcesType(table', child', runs')
  BY <1>1, TypeParts
<1>3. toScreen' \in Seq(ScreenMessages(runs'))
  BY <1>1, TypeParts, ReceivesFacts
<1>4. QueuesType'
  BY <1>1, <1>3, TypeParts DEF QueuesType
<1>5. UserType'
  BY TypeParts DEF UserType
<1>. QED  BY <1>2, <1>4, <1>5 DEF TypeInv

LEMMA NewPaneType == TypeInv /\ ScreenNewPane => TypeInv'
<1>. SUFFICES ASSUME TypeInv, ScreenNewPane
              PROVE  TypeInv'
  OBVIOUS
<1>. DEFINE t == toScreen[1].panes[1]
<1>0. Receives("new") /\ UNCHANGED <<system, todo, pending, buffered, waiting, area, blocked, asked, pressed>>
  BY DEF ScreenNewPane
<1>1. /\ toScreen[1] \in ScreenMessages(runs) /\ toScreen[1].do = "new" /\ Head(toScreen) = toScreen[1]
  BY <1>0, TypeParts, ReceivesFacts
<1>2. t \in Terminals /\ t.id \in Nat /\ t.of \in Requests /\ Pane(t) \in PaneSet /\ Pane(t).of = t.of
  BY <1>1, ScreenMessageType, TerminalFields
<1>3. /\ shown' = shown \cup {t.of}
      /\ \/ LayOut(With(panes, t.id, Pane(t))) /\ UNCHANGED toPty
         \/ toPty' = Append(toPty, Close(t.id, t.of)) /\ UNCHANGED <<panes, toWriter>>
  BY <1>1 DEF ScreenNewPane
<1>. HIDE DEF t
<1>4. Maps(panes, PaneSet) /\ toPty \in Seq(PtyMessages) /\ toWriter \in Seq(SizeMaps)
      /\ (\A id \in DOMAIN panes : panes[id].of \in shown) /\ area \in Nat
  BY TypeParts
<1>5. ~Fresh
  BY <1>0, NotFresh
<1>6. /\ Maps(panes', PaneSet) /\ \A id \in DOMAIN panes' : panes'[id].of \in shown'
      /\ toWriter' \in Seq(SizeMaps) /\ toPty' \in Seq(PtyMessages) /\ LayoutIsFirst'
  <2>1. CASE LayOut(With(panes, t.id, Pane(t))) /\ UNCHANGED toPty
    <3>1. Maps(With(panes, t.id, Pane(t)), PaneSet) /\ Extends(With(panes, t.id, Pane(t)), panes, t.id, Pane(t))
      BY <1>2, <1>4, WithFacts
    <3>2. toWriter' \in Seq(SizeMaps) /\ panes' = With(panes, t.id, Pane(t))
      BY <1>4, <2>1, <3>1, LayOutType
    <3>3. \A id \in DOMAIN panes' : panes'[id].of \in shown'
      BY <1>2, <1>3, <1>4, <3>1, <3>2 DEF Extends
    <3>4. LayoutIsFirst'
      BY <1>5, <2>1, FirstDone
    <3>. QED  BY <1>4, <2>1, <3>1, <3>2, <3>3, <3>4
  <2>2. CASE toPty' = Append(toPty, Close(t.id, t.of)) /\ UNCHANGED <<panes, toWriter>>
    <3>1. Close(t.id, t.of) \in PtyMessages /\ Close(t.id, t.of).do # "new tab"
      BY <1>2, MadeRequests DEF Close
    <3>2. IsAppend(toPty', toPty, Close(t.id, t.of)) /\ toPty' \in Seq(PtyMessages)
      BY <1>4, <2>2, <3>1, Appends
    <3>3. LayoutIsFirst'
      BY <1>5, <3>1, <3>2, FirstDone
    <3>. QED  BY <1>3, <1>4, <2>2, <3>2, <3>3
  <2>. QED  BY <1>3, <2>1, <2>2
<1>7. TabType'
  BY <1>0, <1>2, <1>3, <1>6, TypeParts DEF TabType, system
<1>8. resumes' \in 0 .. MaxResumes
  BY TypeParts, ResumedType DEF ScreenNewPane
<1>. QED  BY <1>0, <1>6, <1>7, <1>8, ScreenTypes

LEMMA ApplyLayoutType == TypeInv /\ ScreenApplyLayout => TypeInv'
<1>. SUFFICES ASSUME TypeInv, ScreenApplyLayout
              PROVE  TypeInv'
  OBVIOUS
<1>. DEFINE ts == toScreen[1].panes
            ids == {m.id : m \in Range(buffered)}
<1>0. /\ Receives("layout") /\ pending' = FALSE /\ buffered' = <<>>
      /\ UNCHANGED <<system, toPty, todo, waiting, area, blocked, asked, pressed>>
  BY DEF ScreenApplyLayout
<1>1. /\ toScreen[1] \in ScreenMessages(runs) /\ toScreen[1].do = "layout" /\ Head(toScreen) = toScreen[1]
  BY <1>0, TypeParts, ReceivesFacts
<1>2. ts \in Seq(Terminals)
  BY <1>1, ScreenMessageType
<1>3. /\ LayOut(Held(Laid(ts), ids))
      /\ shown' = shown \cup {ts[i].of : i \in DOMAIN ts}
  <2>1. /\ LayOut(Held(Laid(Head(toScreen).panes), {m.id : m \in Range(buffered)}))
        /\ shown' = shown \cup {Head(toScreen).panes[i].of : i \in DOMAIN Head(toScreen).panes}
    BY Zenon DEF ScreenApplyLayout, Laid
  <2>. QED  BY <1>1, <2>1
<1>. HIDE DEF ts, ids
<1>4. /\ Maps(Laid(ts), PaneSet)
      /\ \A id \in DOMAIN Laid(ts) : \E i \in DOMAIN ts : ts[i].id = id /\ Laid(ts)[id] = Pane(ts[i])
  BY <1>2, LaidFacts
<1>5. HeldPanes(Held(Laid(ts), ids), Laid(ts), ids)
  BY <1>4, HeldFacts
<1>6. toWriter' \in Seq(SizeMaps) /\ panes' = Held(Laid(ts), ids)
  <2>1. Maps(Held(Laid(ts), ids), PaneSet)
    BY <1>5 DEF HeldPanes
  <2>. QED  BY <1>3, <2>1, TypeParts, LayOutType
<1>7. \A i \in DOMAIN ts : ts[i].of \in Requests /\ Pane(ts[i]).of = ts[i].of
  <2>1. \A i \in DOMAIN ts : ts[i] \in Terminals
    BY <1>2
  <2>. QED  BY <2>1, TerminalFields
<1>8. /\ Maps(panes', PaneSet) /\ (\A id \in DOMAIN panes' : panes'[id].of \in shown')
      /\ shown' \subseteq Requests
  <2>1. /\ Maps(panes', PaneSet) /\ DOMAIN panes' = DOMAIN Laid(ts)
        /\ \A id \in DOMAIN Laid(ts) : panes'[id].of = Laid(ts)[id].of
    BY <1>5, <1>6 DEF HeldPanes
  <2>2. \A id \in DOMAIN panes' : panes'[id].of \in shown'
    <3>. SUFFICES ASSUME NEW id \in DOMAIN panes'
                  PROVE  panes'[id].of \in shown'
      OBVIOUS
    <3>1. PICK i \in DOMAIN ts : ts[i].id = id /\ Laid(ts)[id] = Pane(ts[i])
      BY <1>4, <2>1
    <3>2. panes'[id].of = ts[i].of
      BY <1>7, <2>1, <3>1
    <3>. QED  BY <1>3, <3>2
  <2>3. shown \subseteq Requests
    BY TypeParts
  <2>. QED  BY <1>3, <1>7, <2>1, <2>2, <2>3
<1>9. TabType'
  <2>1. buffered' \in Seq(Holds(runs'))
    <3>1. <<>> \in Seq(Holds(runs'))
      OBVIOUS
    <3>. QED  BY <1>0, <3>1
  <2>2. pending' \in BOOLEAN
    BY <1>0, Zenon
  <2>. QED  BY <1>0, <1>8, <2>1, <2>2, TypeParts DEF TabType
<1>10. LayoutIsFirst'
  <2>1. ~Fresh
    BY <1>0, NotFresh
  <2>. QED  BY <1>0, <2>1, FirstDone
<1>11. resumes' \in 0 .. MaxResumes
  BY TypeParts, ResumedType DEF ScreenApplyLayout
<1>. QED  BY <1>0, <1>6, <1>9, <1>10, <1>11, TypeParts, ScreenTypes

LEMMA HoldPaneType == TypeInv /\ ScreenHoldPane => TypeInv'
<1>. SUFFICES ASSUME TypeInv, ScreenHoldPane
              PROVE  TypeInv'
  OBVIOUS
<1>. DEFINE m == toScreen[1]
<1>0. /\ Receives("hold")
      /\ UNCHANGED <<system, toPty, todo, toWriter, pending, waiting, area, shown, blocked, asked, pressed>>
  BY DEF ScreenHoldPane
<1>1. /\ m \in ScreenMessages(runs) /\ m.do = "hold" /\ Head(toScreen) = m
  BY <1>0, TypeParts, ReceivesFacts
<1>2. m \in Holds(runs)
  BY <1>1, ScreenMessageType
<1>3. \/ buffered' \in {buffered, Append(buffered, m)} /\ panes' = panes
      \/ buffered' = buffered /\ panes' = Held(panes, {m.id})
  BY <1>1 DEF ScreenHoldPane
<1>. HIDE DEF m
<1>4. buffered' \in Seq(Holds(runs))
  <2>1. buffered \in Seq(Holds(runs)) /\ Append(buffered, m) \in Seq(Holds(runs))
    BY <1>2, TypeParts, Appends
  <2>. QED  BY <1>3, <2>1
<1>5. HeldPanes(Held(panes, {m.id}), panes, {m.id})
  BY TypeParts, HeldFacts
<1>6. Maps(panes', PaneSet) /\ \A id \in DOMAIN panes' : panes'[id].of \in shown
  BY <1>3, <1>5, TypeParts DEF HeldPanes
<1>7. TabType'
  BY <1>0, <1>4, <1>6, TypeParts DEF TabType, system
<1>8. LayoutIsFirst'
  <2>1. ~Fresh
    BY <1>0, NotFresh
  <2>. QED  BY <1>0, <2>1, FirstDone
<1>9. resumes' \in 0 .. MaxResumes
  BY TypeParts, ResumedType DEF ScreenHoldPane
<1>. QED  BY <1>0, <1>7, <1>8, <1>9, TypeParts, ScreenTypes

(* The panes are laid out without id                                       *)
LEMMA LessPanes ==
    ASSUME TypeInv, NEW id \in DOMAIN panes, LayOut(Without(panes, id))
    PROVE  /\ toWriter' \in Seq(SizeMaps) /\ panes' = Without(panes, id)
           /\ Maps(panes', PaneSet) /\ Loses(panes', panes, id)
           /\ \A x \in DOMAIN panes' : panes'[x].of \in shown
<1>1. Maps(panes, PaneSet) /\ (\A x \in DOMAIN panes : panes[x].of \in shown)
  BY TypeParts
<1>2. Maps(Without(panes, id), PaneSet) /\ Loses(Without(panes, id), panes, id)
  BY <1>1, WithoutFacts
<1>3. toWriter' \in Seq(SizeMaps) /\ panes' = Without(panes, id)
  BY <1>2, TypeParts, LayOutType
<1>. QED  BY <1>1, <1>2, <1>3 DEF Loses

LEMMA ClosePaneType == TypeInv /\ ScreenClosePane => TypeInv'
<1>. SUFFICES ASSUME TypeInv, ScreenClosePane
              PROVE  TypeInv'
  OBVIOUS
<1>0. /\ Receives("exited")
      /\ UNCHANGED <<system, toPty, todo, pending, buffered, waiting, area, shown, blocked, asked, pressed>>
  BY DEF ScreenClosePane
<1>1. /\ toWriter' \in Seq(SizeMaps) /\ Maps(panes', PaneSet)
      /\ \A x \in DOMAIN panes' : panes'[x].of \in shown
  <2>1. CASE Head(toScreen).id \in DOMAIN panes
    <3>1. LayOut(Without(panes, Head(toScreen).id))
      BY <2>1 DEF ScreenClosePane
    <3>. QED  BY <2>1, <3>1, LessPanes
  <2>2. CASE Head(toScreen).id \notin DOMAIN panes
    <3>1. UNCHANGED <<panes, toWriter>>
      BY <2>2 DEF ScreenClosePane
    <3>. QED  BY <3>1, TypeParts
  <2>. QED  BY <2>1, <2>2
<1>2. TabType'
  BY <1>0, <1>1, TypeParts DEF TabType, system
<1>3. LayoutIsFirst'
  <2>1. ~Fresh
    BY <1>0, NotFresh
  <2>. QED  BY <1>0, <2>1, FirstDone
<1>4. resumes' \in 0 .. MaxResumes
  BY TypeParts, ResumedType DEF ScreenClosePane
<1>. QED  BY <1>0, <1>1, <1>2, <1>3, <1>4, TypeParts, ScreenTypes

LEMMA NoPanes ==
    ASSUME Fresh
    PROVE  DOMAIN panes = {}
BY EmptyMap DEF Fresh

LEMMA CloseFocusedType == TypeInv /\ ScreenCloseFocusedPane => TypeInv'
<1>. SUFFICES ASSUME TypeInv, ScreenCloseFocusedPane
              PROVE  TypeInv'
  OBVIOUS
<1>0. /\ Receives("close focused")
      /\ UNCHANGED <<system, todo, pending, buffered, waiting, area, shown, blocked, asked, pressed>>
  BY DEF ScreenCloseFocusedPane
<1>1. \/ UNCHANGED <<panes, toWriter, toPty>>
      \/ \E id \in DOMAIN panes :
            LayOut(Without(panes, id)) /\ toPty' = Append(toPty, Close(id, panes[id].of))
  BY DEF ScreenCloseFocusedPane
<1>2. /\ toWriter' \in Seq(SizeMaps) /\ Maps(panes', PaneSet) /\ toPty' \in Seq(PtyMessages)
      /\ (\A x \in DOMAIN panes' : panes'[x].of \in shown) /\ LayoutIsFirst'
  <2>1. CASE UNCHANGED <<panes, toWriter, toPty>>
    <3>1. Fresh => Fresh'
      BY <1>0, <2>1, FreshTail
    <3>2. LayoutIsFirst'
      BY <2>1, <3>1, TypeParts, FirstKept
    <3>. QED  BY <2>1, <3>2, TypeParts
  <2>2. ASSUME NEW id \in DOMAIN panes,
               LayOut(Without(panes, id)) /\ toPty' = Append(toPty, Close(id, panes[id].of))
        PROVE  /\ toWriter' \in Seq(SizeMaps) /\ Maps(panes', PaneSet) /\ toPty' \in Seq(PtyMessages)
               /\ (\A x \in DOMAIN panes' : panes'[x].of \in shown) /\ LayoutIsFirst'
    <3>1. id \in Nat /\ panes[id].of \in Requests
      BY TypeParts, PaneFields
    <3>2. Close(id, panes[id].of) \in PtyMessages /\ Close(id, panes[id].of).do # "new tab"
      BY <3>1, MadeRequests DEF Close
    <3>3. IsAppend(toPty', toPty, Close(id, panes[id].of)) /\ toPty' \in Seq(PtyMessages)
      BY <2>2, <3>2, TypeParts, Appends
    <3>4. ~Fresh
      BY NoPanes
    <3>5. LayoutIsFirst'
      BY <3>2, <3>3, <3>4, FirstDone
    <3>. QED  BY <2>2, <3>3, <3>5, LessPanes
  <2>. QED  BY <1>1, <2>1, <2>2
<1>3. TabType'
  BY <1>0, <1>2, TypeParts DEF TabType, system
<1>4. resumes' \in 0 .. MaxResumes
  BY TypeParts, ResumedType DEF ScreenCloseFocusedPane
<1>. QED  BY <1>0, <1>2, <1>3, <1>4, TypeParts, ScreenTypes

LEMMA BytesType == TypeInv /\ ScreenPtyBytes => TypeInv'
<1>. SUFFICES ASSUME TypeInv, ScreenPtyBytes
              PROVE  TypeInv'
  OBVIOUS
<1>0. /\ Receives("bytes")
      /\ UNCHANGED <<system, toPty, todo, pending, buffered, panes, area, shown, user>>
  BY DEF ScreenPtyBytes
<1>. DEFINE id == Head(toScreen).id
<1>1. waiting' \subseteq Nat /\ toWriter' \in Seq(SizeMaps)
  <2>1. CASE id \in DOMAIN panes
    <3>1. Resizes(panes, area, {id} \cap waiting) /\ waiting' = waiting \ {id}
      BY <2>1 DEF ScreenPtyBytes
    <3>2. {id} \cap waiting \in SUBSET Nat /\ waiting \subseteq Nat
      BY TypeParts
    <3>3. toWriter' \in Seq(SizeMaps)
      BY <3>1, <3>2, TypeParts, ResizesType DEF Maps
    <3>. QED  BY <3>1, <3>2, <3>3
  <2>2. CASE id \notin DOMAIN panes
    <3>1. UNCHANGED <<waiting, toWriter>>
      BY <2>2 DEF ScreenPtyBytes
    <3>. QED  BY <3>1, TypeParts
  <2>. QED  BY <2>1, <2>2
<1>2. TabType'
  BY <1>0, <1>1, TypeParts DEF TabType, system
<1>3. LayoutIsFirst'
  <2>1. ~Fresh
    BY <1>0, NotFresh
  <2>. QED  BY <1>0, <2>1, FirstDone
<1>4. resumes' \in 0 .. MaxResumes
  BY <1>0, TypeParts DEF UserType, user
<1>. QED  BY <1>0, <1>1, <1>2, <1>3, <1>4, TypeParts, ScreenTypes DEF user

(* A held pane is run again                                                *)
RunsAgain(id, cmd) ==
    /\ panes' = [panes EXCEPT ![id].held = FALSE, ![id].cmd = cmd]
    /\ waiting' = waiting \cup {id}
    /\ toPty' = Append(toPty, ReRun(id, cmd, panes[id].of))
    /\ UNCHANGED toWriter

OpenAgain(new, ps, id, cmd) ==
    /\ Maps(new, PaneSet) /\ DOMAIN new = DOMAIN ps
    /\ new[id].of = ps[id].of /\ new[id].cmd = cmd /\ new[id].held = FALSE
    /\ \A x \in DOMAIN ps : x # id => new[x] = ps[x]

LEMMA OpenAgainFacts ==
    ASSUME NEW ps, Maps(ps, PaneSet), NEW id \in DOMAIN ps, NEW cmd \in AllCommands
    PROVE  OpenAgain([ps EXCEPT ![id].held = FALSE, ![id].cmd = cmd], ps, id, cmd)
<1>. DEFINE new == [ps EXCEPT ![id].held = FALSE, ![id].cmd = cmd]
            p   == [ps[id] EXCEPT !.held = FALSE, !.cmd = cmd]
<1>1. ps[id] \in PaneSet /\ ps \in [DOMAIN ps -> PaneSet] /\ Bounded(DOMAIN ps)
  BY DEF Maps
<1>2. p \in PaneSet /\ p.of = ps[id].of /\ p.cmd = cmd /\ p.held = FALSE
  BY <1>1 DEF PaneSet
<1>3. new = [ps EXCEPT ![id] = p]
  BY <1>1 DEF PaneSet
<1>. HIDE DEF p, new
<1>4. new \in [DOMAIN ps -> PaneSet] /\ new[id] = p /\ \A x \in DOMAIN ps : x # id => new[x] = ps[x]
  BY <1>1, <1>2, <1>3
<1>5. DOMAIN new = DOMAIN ps
  BY <1>4
<1>6. OpenAgain(new, ps, id, cmd)
  BY <1>1, <1>2, <1>4, <1>5 DEF OpenAgain, Maps
<1>. QED  BY <1>6 DEF new

LEMMA KeyType == TypeInv /\ ScreenKey => TypeInv'
<1>. SUFFICES ASSUME TypeInv, ScreenKey
              PROVE  TypeInv'
  OBVIOUS
<1>. DEFINE cmd(id) == IF Head(toScreen).key = "enter" THEN panes[id].cmd ELSE "shell"
<1>0. /\ Receives("key")
      /\ UNCHANGED <<system, todo, pending, buffered, area, shown, user>>
  BY DEF ScreenKey
<1>1. \/ UNCHANGED <<panes, waiting, toPty, toWriter>>
      \/ \E id \in DOMAIN panes :
            \/ LayOut(Without(panes, id)) /\ UNCHANGED <<waiting, toPty>>
            \/ RunsAgain(id, cmd(id))
  BY DEF ScreenKey, RunsAgain
<1>2. /\ toWriter' \in Seq(SizeMaps) /\ Maps(panes', PaneSet) /\ toPty' \in Seq(PtyMessages)
      /\ (\A x \in DOMAIN panes' : panes'[x].of \in shown) /\ waiting' \subseteq Nat /\ LayoutIsFirst'
  <2>1. CASE UNCHANGED <<panes, waiting, toPty, toWriter>>
    <3>1. Fresh => Fresh'
      BY <1>0, <2>1, FreshTail
    <3>2. LayoutIsFirst'
      BY <2>1, <3>1, TypeParts, FirstKept
    <3>. QED  BY <2>1, <3>2, TypeParts
  <2>2. ASSUME NEW id \in DOMAIN panes, LayOut(Without(panes, id)) /\ UNCHANGED <<waiting, toPty>>
        PROVE  /\ toWriter' \in Seq(SizeMaps) /\ Maps(panes', PaneSet) /\ toPty' \in Seq(PtyMessages)
               /\ (\A x \in DOMAIN panes' : panes'[x].of \in shown) /\ waiting' \subseteq Nat /\ LayoutIsFirst'
    <3>1. ~Fresh
      BY NoPanes
    <3>2. LayoutIsFirst'
      BY <2>2, <3>1, FirstDone
    <3>. QED  BY <2>2, <3>2, LessPanes, TypeParts
  <2>3. ASSUME NEW id \in DOMAIN panes, RunsAgain(id, cmd(id))
        PROVE  /\ toWriter' \in Seq(SizeMaps) /\ Maps(panes', PaneSet) /\ toPty' \in Seq(PtyMessages)
               /\ (\A x \in DOMAIN panes' : panes'[x].of \in shown) /\ waiting' \subseteq Nat /\ LayoutIsFirst'
    <3>1. id \in Nat /\ panes[id].of \in Requests /\ panes[id].cmd \in AllCommands
      BY TypeParts, PaneFields
    <3>2. cmd(id) \in AllCommands
      BY <3>1 DEF AllCommands
    <3>. HIDE DEF cmd
    <3>3. OpenAgain(panes', panes, id, cmd(id))
      BY <2>3, <3>2, TypeParts, OpenAgainFacts DEF RunsAgain
    <3>4. \A x \in DOMAIN panes' : panes'[x].of \in shown
      BY <3>3, TypeParts DEF OpenAgain
    <3>5. ReRun(id, cmd(id), panes[id].of) \in PtyMessages /\ ReRun(id, cmd(id), panes[id].of).do # "new tab"
      BY <3>1, <3>2, MadeRequests DEF ReRun
    <3>6. IsAppend(toPty', toPty, ReRun(id, cmd(id), panes[id].of)) /\ toPty' \in Seq(PtyMessages)
      BY <2>3, <3>5, TypeParts, Appends DEF RunsAgain
    <3>7. ~Fresh
      BY NoPanes
    <3>8. LayoutIsFirst'
      BY <3>5, <3>6, <3>7, FirstDone
    <3>. QED  BY <2>3, <3>1, <3>3, <3>4, <3>6, <3>8, TypeParts DEF OpenAgain, RunsAgain
  <2>. QED  BY <1>1, <2>1, <2>2, <2>3
<1>3. TabType'
  BY <1>0, <1>2, TypeParts DEF TabType, system
<1>4. resumes' \in 0 .. MaxResumes
  BY <1>0, TypeParts DEF UserType, user
<1>. QED  BY <1>0, <1>2, <1>3, <1>4, TypeParts, ScreenTypes DEF user

LEMMA TerminalResizeType == TypeInv /\ ScreenTerminalResize => TypeInv'
<1>. SUFFICES ASSUME TypeInv, ScreenTerminalResize
              PROVE  TypeInv'
  OBVIOUS
<1>0. /\ Receives("resize") /\ area' = area + 1 /\ Resizes(panes, area + 1, DOMAIN panes)
      /\ UNCHANGED <<system, toPty, todo, pending, buffered, panes, waiting, shown, user>>
  BY DEF ScreenTerminalResize
<1>1. toWriter' \in Seq(SizeMaps)
  <2>1. area + 1 \in Nat /\ Bounded(DOMAIN panes) /\ DOMAIN panes \in SUBSET Nat
    BY TypeParts DEF Maps, Bounded
  <2>. QED  BY <1>0, <2>1, TypeParts, ResizesType
<1>2. TabType'
  BY <1>0, TypeParts DEF TabType, system
<1>3. LayoutIsFirst'
  <2>1. Fresh => Fresh'
    BY <1>0, FreshTail
  <2>. QED  BY <1>0, <2>1, TypeParts, FirstKept
<1>4. resumes' \in 0 .. MaxResumes
  BY <1>0, TypeParts DEF UserType, user
<1>. QED  BY <1>0, <1>1, <1>2, <1>3, <1>4, TypeParts, ScreenTypes DEF user

(* The user asks for something: one message more                           *)
LEMMA AsksType ==
    ASSUME TypeInv,
           UNCHANGED <<system, todo, toWriter, screen>>, UserType',
           \/ /\ toScreen' = toScreen
              /\ \E m \in PtyMessages : m.do # "new tab" /\ toPty' = Append(toPty, m)
           \/ /\ toPty' = toPty
              /\ \E m \in {CloseFocused, TerminalResize} \cup Keys : toScreen' = Append(toScreen, m)
           \/ UNCHANGED <<toPty, toScreen>>
    PROVE  TypeInv'
<1>0. UNCHANGED <<table, child, runs>>
  BY DEF system
<1>1. ResourcesType(table', child', runs')
  BY <1>0, TypeParts
<1>2. TabType'
  BY <1>0, TypeParts DEF TabType, screen
<1>3. \A m \in {CloseFocused, TerminalResize} \cup Keys :
          m \in ScreenMessages(runs) /\ m.do \in {"close focused", "key", "resize"}
  <2>1. {CloseFocused, TerminalResize} \cup Keys \subseteq ScreenMessages(runs)
    BY DEF ScreenMessages
  <2>2. CloseFocused.do = "close focused" /\ TerminalResize.do = "resize"
    BY DEF CloseFocused, TerminalResize
  <2>3. \A m \in Keys : m.do = "key"
    BY DEF Keys
  <2>. QED  BY <2>1, <2>2, <2>3
<1>4. /\ toScreen' \in Seq(ScreenMessages(runs))
      /\ toScreen' = toScreen
         \/ \E m \in ScreenMessages(runs) :
               m.do \in {"close focused", "key", "resize"} /\ IsAppend(toScreen', toScreen, m)
  <2>1. toScreen \in Seq(ScreenMessages(runs))
    BY TypeParts
  <2>2. CASE toScreen' = toScreen
    BY <2>1, <2>2
  <2>3. CASE \E m \in {CloseFocused, TerminalResize} \cup Keys : toScreen' = Append(toScreen, m)
    <3>1. PICK m \in {CloseFocused, TerminalResize} \cup Keys : toScreen' = Append(toScreen, m)
      BY <2>3
    <3>2. m \in ScreenMessages(runs) /\ m.do \in {"close focused", "key", "resize"}
      BY <1>3
    <3>3. IsAppend(toScreen', toScreen, m) /\ toScreen' \in Seq(ScreenMessages(runs))
      BY <2>1, <3>1, <3>2, Appends
    <3>. QED  BY <3>2, <3>3
  <2>. QED  BY <2>2, <2>3
<1>5. /\ toPty' \in Seq(PtyMessages)
      /\ toPty' = toPty \/ \E m \in PtyMessages : m.do # "new tab" /\ IsAppend(toPty', toPty, m)
  <2>1. toPty \in Seq(PtyMessages)
    BY TypeParts
  <2>2. CASE toPty' = toPty
    BY <2>1, <2>2
  <2>3. CASE \E m \in PtyMessages : m.do # "new tab" /\ toPty' = Append(toPty, m)
    <3>1. PICK m \in PtyMessages : m.do # "new tab" /\ toPty' = Append(toPty, m)
      BY <2>3
    <3>2. IsAppend(toPty', toPty, m) /\ toPty' \in Seq(PtyMessages)
      BY <2>1, <3>1, Appends
    <3>. QED  BY <3>1, <3>2
  <2>. QED  BY <2>2, <2>3
<1>6. QueuesType'
  BY <1>0, <1>4, <1>5, TypeParts DEF QueuesType
<1>7. Fresh => Fresh'
  <2>1. (\A k \in DOMAIN toScreen : toScreen[k].do \in {"close focused", "key", "resize"})
          => \A k \in DOMAIN toScreen' : toScreen'[k].do \in {"close focused", "key", "resize"}
    <3>1. CASE toScreen' = toScreen
      BY <3>1
    <3>2. CASE \E m \in ScreenMessages(runs) :
                  m.do \in {"close focused", "key", "resize"} /\ IsAppend(toScreen', toScreen, m)
      BY <3>2 DEF IsAppend
    <3>. QED  BY <1>4, <3>1, <3>2
  <2>. QED  BY <1>0, <2>1 DEF Fresh, screen
<1>8. LayoutIsFirst'
  BY <1>5, <1>7, TypeParts, FirstKept
<1>. QED  BY <1>1, <1>2, <1>6, <1>8 DEF TypeInv

LEMMA AskedType ==
    ASSUME UserType, Asks, resumes' = resumes, pressed' = pressed
    PROVE  UserType' /\ First + asked' \in Requests
<1>1. /\ asked \in 0 .. MaxRequests /\ asked < MaxRequests /\ asked' = asked + 1 /\ blocked' = TRUE
  BY DEF UserType, Asks
<1>2. MaxRequests \in Nat /\ First \in Nat
  BY BoundsAssumption, LayoutTypes
<1>3. asked' \in 0 .. MaxRequests /\ First + asked' \in 1 .. First + MaxRequests
  BY <1>1, <1>2
<1>4. blocked' \in BOOLEAN
  BY <1>1, Zenon
<1>. QED  BY <1>3, <1>4 DEF UserType, Requests

LEMMA UserStepType == TypeInv /\ User => TypeInv'
<1>. SUFFICES ASSUME TypeInv, User
              PROVE  TypeInv'
  OBVIOUS
<1>0. UserType /\ MaxRequests \in Nat
  BY TypeParts, BoundsAssumption
<1>1. ASSUME NEW cmd \in Commands, NEW split \in Splits, UserOpens(cmd, split)
      PROVE  TypeInv'
  <2>1. /\ Asks /\ toPty' = Append(toPty, Spawn(cmd, First + asked', split))
        /\ UNCHANGED <<system, todo, toScreen, toWriter, screen, resumes, pressed>>
    BY <1>1 DEF UserOpens
  <2>2. UserType' /\ First + asked' \in Requests
    BY <1>0, <2>1, AskedType
  <2>3. cmd \in AllCommands /\ split \in BOOLEAN
    BY CommandsAssumption, FlagsAssumption
  <2>4. Spawn(cmd, First + asked', split) \in PtyMessages /\ Spawn(cmd, First + asked', split).do # "new tab"
    BY <2>2, <2>3, MadeRequests DEF Spawn
  <2>. QED  BY <2>1, <2>2, <2>4, AsksType
<1>2. CASE UserCloses
  <2>1. /\ Asks /\ toScreen' = Append(toScreen, CloseFocused)
        /\ UNCHANGED <<system, toPty, todo, toWriter, screen, resumes, pressed>>
    BY <1>2 DEF UserCloses
  <2>2. UserType'
    BY <1>0, <2>1, AskedType
  <2>. QED  BY <2>1, <2>2, AsksType
<1>3. ASSUME NEW key \in {"enter", "escape", "ctrl-c"}, UserPresses(key)
      PROVE  TypeInv'
  <2>1. /\ pressed' = pressed + 1 /\ toScreen' = Append(toScreen, Key(key))
        /\ UNCHANGED <<system, toPty, todo, toWriter, screen, blocked, resumes, asked>>
    BY <1>3 DEF UserPresses
  <2>2. UserType'
    BY <1>0, <2>1 DEF UserType
  <2>3. Key(key) \in Keys
    BY DEF Key, Keys
  <2>. QED  BY <2>1, <2>2, <2>3, AsksType
<1>4. CASE UserResizes
  <2>1. /\ asked < MaxRequests /\ asked' = asked + 1 /\ toScreen' = Append(toScreen, TerminalResize)
        /\ UNCHANGED <<system, toPty, todo, toWriter, screen, blocked, resumes, pressed>>
    BY <1>4 DEF UserResizes
  <2>2. UserType'
    BY <1>0, <2>1 DEF UserType
  <2>. QED  BY <2>1, <2>2, AsksType
<1>. QED  BY <1>1, <1>2, <1>3, <1>4 DEF User

LEMMA ResumesStepType == TypeInv /\ Resumes => TypeInv'
<1>. SUFFICES ASSUME TypeInv, Resumes
              PROVE  TypeInv'
  OBVIOUS
<1>1. /\ resumes > 0 /\ resumes' = resumes - 1 /\ blocked' = FALSE
      /\ UNCHANGED <<system, toPty, todo, toScreen, toWriter, screen, asked, pressed>>
  BY DEF Resumes
<1>2. UserType /\ MaxResumes \in Nat
  BY TypeParts, BoundsAssumption
<1>3. blocked' \in BOOLEAN
  BY <1>1, Zenon
<1>4. UserType'
  BY <1>1, <1>2, <1>3 DEF UserType
<1>. QED  BY <1>1, <1>4, AsksType

LEMMA StutterType == TypeInv /\ UNCHANGED vars => TypeInv'
<1>. SUFFICES ASSUME TypeInv, UNCHANGED vars
              PROVE  TypeInv'
  OBVIOUS
<1>1. UNCHANGED <<system, todo, toWriter, screen, user, toPty, toScreen>>
  BY DEF vars
<1>2. UserType'
  BY <1>1, TypeParts DEF UserType, user
<1>. QED  BY <1>1, <1>2, AsksType

(* The types are kept by whatever happens.                                 *)
LEMMA NextType == TypeInv /\ [Next]_vars => TypeInv'
<1>. SUFFICES ASSUME TypeInv, [Next]_vars
              PROVE  TypeInv'
  OBVIOUS
<1>1. CASE PtyThread
  BY <1>1, SpawnsType, LayoutType, RerunsType, ClosesType, ContinuesType DEF PtyThread
<1>2. CASE ScreenThread
  BY <1>2, NewPaneType, ApplyLayoutType, HoldPaneType, ClosePaneType, CloseFocusedType,
     BytesType, KeyType, TerminalResizeType DEF ScreenThread
<1>3. CASE WriterApplies
  BY <1>3, WriterType
<1>4. CASE User
  BY <1>4, UserStepType
<1>5. CASE Resumes
  BY <1>5, ResumesStepType
<1>6. CASE \E r \in DOMAIN runs : Process(r)
  BY <1>6, ProcessType
<1>7. CASE UNCHANGED vars
  BY <1>7, StutterType
<1>. QED  BY <1>1, <1>2, <1>3, <1>4, <1>5, <1>6, <1>7 DEF Next

LEMMA TypesFollow == TypeInv => TypeOK
<1>. SUFFICES ASSUME TypeInv
              PROVE  TypeOK
  OBVIOUS
<1>1. DOMAIN table \subseteq Nat /\ DOMAIN child \subseteq Nat
  BY TypeParts DEF Maps, Bounded
<1>2. \A id \in DOMAIN child : child[id] \in DOMAIN runs
  BY TypeParts DEF Maps
<1>3. \A r \in DOMAIN runs :
        /\ runs[r].of \in Requests
        /\ runs[r].state \in {"absent", "live", "ended", "reported"}
        /\ runs[r].listener \in {"none", "yes", "done"}
  BY TypeParts, RunFields DEF States, Reads
<1>4. \A id \in DOMAIN panes : panes[id].of \in shown /\ panes[id].cmd \in AllCommands
  BY TypeParts, PaneFields
<1>5. shown \subseteq Requests /\ pending \in BOOLEAN
  BY TypeParts
<1>6. blocked \in BOOLEAN /\ resumes \in 0 .. MaxResumes
  BY TypeParts DEF UserType
<1>. QED  BY <1>1, <1>2, <1>3, <1>4, <1>5, <1>6 DEF TypeOK

LEMMA TypesHold == Spec => []TypeInv
<1>. QED  BY InitType, NextType, PTL DEF Spec

(* Whatever the layout, the commands and the bounds: the table of terminal  *)
(* ids, the child that each id names, the processes, the panes and the      *)
(* threads' channels stay what they are, also while the layout is awaited;  *)
(* the pid of a terminal is always that of a process that was started.      *)
THEOREM TypeCorrect == Spec => []TypeOK
<1>. QED  BY TypesHold, TypesFollow, PTL

----------------------------------------------------------------------------
(* Who has a terminal id.  A pane on the screen has one, and so has one     *)
(* that is to come, and one that is gone and is still to be closed: each is *)
(* named as <<terminal id, request>>.                                       *)

Named(m) ==
    IF m.do \in {"new", "layout"}
    THEN {<<m.panes[i].id, m.panes[i].of>> : i \in DOMAIN m.panes}
    ELSE IF m.do = "close" THEN {<<m.id, m.of>>} ELSE {}

NamedIn(q)  == UNION {Named(q[k]) : k \in DOMAIN q}
EachOnce(q) == \A j, k \in DOMAIN q : j # k => Named(q[j]) \cap Named(q[k]) = {}

Told(s) == IF s.step = "tell" THEN Named(s.msg) ELSE {}

OnScreen == {<<id, panes[id].of>> : id \in DOMAIN panes}
ToClose  == NamedIn(toPty)
Coming   == NamedIn(toScreen)
Starting == UNION {Told(todo[k]) : k \in DOMAIN todo}
Claims   == OnScreen \cup ToClose \cup Coming \cup Starting

OneToOne(C) == \A a, b \in C : a[1] = b[1] \/ a[2] = b[2] => a = b

(* Each claim is at one place, and its place tells whether the screen has   *)
(* heard of it.                                                             *)
ClaimsFit ==
    /\ OneToOne(Claims)
    /\ \A a \in Claims : a[1] \in DOMAIN table
    /\ OnScreen \cap ToClose = {} /\ Coming \cap Starting = {}
    /\ \A a \in OnScreen \cup ToClose : a[2] \in shown
    /\ \A a \in Coming \cup Starting : a[2] \notin shown

(* The steps of a handler that come after the first start nothing.          *)
FirstTells == \A k \in DOMAIN todo : k # 1 => Told(todo[k]) = {}

(* A terminal id that is given back is nobody's.                            *)
FreesNobodys ==
    \A k \in DOMAIN todo : todo[k].step = "free" =>
        /\ todo[k].id \notin DOMAIN child
        /\ \A a \in Claims : a[1] # todo[k].id

ChildrenHaveIds ==
    DOMAIN child \subseteq DOMAIN table /\ \A id \in DOMAIN child : runs[child[id]].id = id

ClaimsOK ==
    /\ ClaimsFit /\ EachOnce(toPty) /\ EachOnce(toScreen)
    /\ FirstTells /\ FreesNobodys /\ ChildrenHaveIds

(* The requests that are known, and those that are to come                  *)
Used == shown \cup {a[2] : a \in Claims} \cup {runs[r].of : r \in DOMAIN runs}

NumbersOK ==
    /\ \A p \in Used : p \in Int /\ p <= First + asked
    /\ \A k \in DOMAIN toPty : toPty[k].do = "spawn" =>
          /\ toPty[k].of \in First + 1 .. First + asked /\ toPty[k].of \notin Used
          /\ \A j \in DOMAIN toPty :
                j # k /\ toPty[j].do = "spawn" => toPty[j].of # toPty[k].of

LEMMA NamedFacts ==
    /\ \A t, split : Named(NewPane(t, split)) = {<<t.id, t.of>>}
    /\ \A ts : Named(ApplyLayout(ts)) = {<<ts[i].id, ts[i].of>> : i \in DOMAIN ts}
    /\ \A id, of : Named(Close(id, of)) = {<<id, of>>}
    /\ \A m : m.do \notin {"new", "layout", "close"} => Named(m) = {}
    /\ \A m, t : m.do = "new" /\ m.panes = <<t>> => Named(m) = {<<t.id, t.of>>}
<1>1. \A m, t : m.do = "new" /\ m.panes = <<t>> => Named(m) = {<<t.id, t.of>>}
  <2>. SUFFICES ASSUME NEW m, NEW t, m.do = "new", m.panes = <<t>>
                PROVE  Named(m) = {<<t.id, t.of>>}
    OBVIOUS
  <2>1. DOMAIN m.panes = {1} /\ m.panes[1] = t
    OBVIOUS
  <2>2. Named(m) = {<<m.panes[i].id, m.panes[i].of>> : i \in DOMAIN m.panes}
    BY DEF Named
  <2>. QED  BY <2>1, <2>2
<1>2. \A t, split : Named(NewPane(t, split)) = {<<t.id, t.of>>}
  <2>1. \A t, split : NewPane(t, split).do = "new" /\ NewPane(t, split).panes = <<t>>
    BY DEF NewPane
  <2>. QED  BY <1>1, <2>1
<1>3. \A ts : Named(ApplyLayout(ts)) = {<<ts[i].id, ts[i].of>> : i \in DOMAIN ts}
  <2>1. \A ts : ApplyLayout(ts).do = "layout" /\ ApplyLayout(ts).panes = ts
    BY DEF ApplyLayout
  <2>. QED  BY <2>1 DEF Named
<1>4. \A id, of : Named(Close(id, of)) = {<<id, of>>}
  <2>1. \A id, of : Close(id, of).do = "close" /\ Close(id, of).id = id /\ Close(id, of).of = of
    BY DEF Close
  <2>. QED  BY <2>1 DEF Named
<1>5. \A m : m.do \notin {"new", "layout", "close"} => Named(m) = {}
  BY DEF Named
<1>. QED  BY <1>1, <1>2, <1>3, <1>4, <1>5

(* A queue loses its first message, or gets one more.                      *)
Shrinks(p, q) ==
    /\ EachOnce(p)
    /\ NamedIn(p) = NamedIn(q) \ Named(q[1]) /\ Named(q[1]) \subseteq NamedIn(q)

Grows(p, q, m) == EachOnce(p) /\ NamedIn(p) = NamedIn(q) \cup Named(m)

LEMMA NamedTail ==
    ASSUME NEW p, NEW q, IsTail(p, q), EachOnce(q)
    PROVE  Shrinks(p, q)
<1>1. /\ \A k \in DOMAIN p : k + 1 \in DOMAIN q /\ p[k] = q[k + 1]
      /\ \A k \in DOMAIN q : k # 1 => k - 1 \in DOMAIN p /\ q[k] = p[k - 1]
      /\ 1 \in DOMAIN q /\ DOMAIN p \subseteq Nat \ {0} /\ DOMAIN q \subseteq Nat
  BY DEF IsTail
<1>2. EachOnce(p)
  <2>. SUFFICES ASSUME NEW j \in DOMAIN p, NEW k \in DOMAIN p, j # k
                PROVE  Named(p[j]) \cap Named(p[k]) = {}
    BY DEF EachOnce
  <2>1. j + 1 # k + 1
    BY <1>1
  <2>2. Named(q[j + 1]) \cap Named(q[k + 1]) = {}
    BY <1>1, <2>1 DEF EachOnce
  <2>. QED  BY <1>1, <2>2
<1>3. ASSUME NEW a \in NamedIn(p)
      PROVE  a \in NamedIn(q) /\ a \notin Named(q[1])
  <2>1. PICK k \in DOMAIN p : a \in Named(p[k])
    BY DEF NamedIn
  <2>2. k + 1 \in DOMAIN q /\ a \in Named(q[k + 1]) /\ k + 1 # 1
    BY <1>1, <2>1
  <2>3. Named(q[k + 1]) \cap Named(q[1]) = {}
    BY <1>1, <2>2 DEF EachOnce
  <2>. QED  BY <2>2, <2>3 DEF NamedIn
<1>4. ASSUME NEW a \in NamedIn(q), a \notin Named(q[1])
      PROVE  a \in NamedIn(p)
  <2>1. PICK k \in DOMAIN q : a \in Named(q[k])
    BY DEF NamedIn
  <2>2. k # 1
    BY <1>4, <2>1
  <2>. QED  BY <1>1, <2>1, <2>2 DEF NamedIn
<1>5. Named(q[1]) \subseteq NamedIn(q)
  BY <1>1 DEF NamedIn
<1>. QED  BY <1>2, <1>3, <1>4, <1>5 DEF Shrinks

LEMMA NamedAppend ==
    ASSUME NEW p, NEW q, NEW m, IsAppend(p, q, m), EachOnce(q), Named(m) \cap NamedIn(q) = {}
    PROVE  Grows(p, q, m)
<1>1. /\ Len(q) \in Nat /\ DOMAIN q = 1 .. Len(q) /\ DOMAIN p = DOMAIN q \cup {Len(q) + 1}
      /\ (\A k \in DOMAIN q : p[k] = q[k]) /\ p[Len(q) + 1] = m
  BY DEF IsAppend
<1>2. EachOnce(p)
  <2>. SUFFICES ASSUME NEW j \in DOMAIN p, NEW k \in DOMAIN p, j # k
                PROVE  Named(p[j]) \cap Named(p[k]) = {}
    BY DEF EachOnce
  <2>1. \A i \in DOMAIN q : Named(q[i]) \subseteq NamedIn(q)
    BY DEF NamedIn
  <2>2. CASE j \in DOMAIN q /\ k \in DOMAIN q
    BY <1>1, <2>2 DEF EachOnce
  <2>3. CASE j \in DOMAIN q /\ k = Len(q) + 1
    BY <1>1, <2>1, <2>3
  <2>4. CASE k \in DOMAIN q /\ j = Len(q) + 1
    BY <1>1, <2>1, <2>4
  <2>. QED  BY <1>1, <2>2, <2>3, <2>4
<1>3. NamedIn(p) = NamedIn(q) \cup Named(m)
  BY <1>1 DEF NamedIn
<1>. QED  BY <1>2, <1>3 DEF Grows

LEMMA OneToOneLess ==
    ASSUME NEW C, NEW E, OneToOne(C), E \subseteq C
    PROVE  OneToOne(E)
BY DEF OneToOne

(* Of the steps of a handler, only the first starts something.              *)
LEMMA StartsFirst ==
    ASSUME FirstTells, todo # <<>>, todo \in Seq(TodoSteps(runs))
    PROVE  Starting = Told(todo[1])
<1>1. 1 \in DOMAIN todo
  BY FirstIsThere
<1>. QED  BY <1>1 DEF Starting, FirstTells

LEMMA NothingStarts == todo = <<>> => Starting = {}
BY EmptyMap DEF Starting

(* What the actions do to the claims                                       *)
LEMMA PtyTakes ==
    ASSUME TypeInv, ClaimsOK, NEW do, Takes(do)
    PROVE  /\ EachOnce(toPty') /\ Starting = {} /\ IsTail(toPty', toPty)
           /\ Named(toPty[1]) \subseteq ToClose /\ ToClose' = ToClose \ Named(toPty[1])
           /\ do # "close" => Named(toPty[1]) = {} /\ ToClose' = ToClose
           /\ do = "close" => Named(toPty[1]) = {<<toPty[1].id, toPty[1].of>>}
<1>1. /\ todo = <<>> /\ toPty # <<>> /\ Head(toPty) = toPty[1] /\ toPty[1] \in PtyMessages
      /\ toPty[1].do = do /\ IsTail(toPty', toPty)
  BY TypeParts, TakesFacts
<1>2. Shrinks(toPty', toPty)
  BY <1>1, NamedTail DEF ClaimsOK
<1>3. do # "close" => Named(toPty[1]) = {}
  <2>1. do \in {"spawn", "rerun", "close", "new tab"}
    BY <1>1, PtyMessageType
  <2>. QED  BY <1>1, <2>1, NamedFacts
<1>4. do = "close" => Named(toPty[1]) = {<<toPty[1].id, toPty[1].of>>}
  BY <1>1 DEF Named
<1>5. Starting = {}
  BY <1>1, NothingStarts
<1>6. /\ EachOnce(toPty') /\ ToClose' = ToClose \ Named(toPty[1]) /\ Named(toPty[1]) \subseteq ToClose
  BY <1>2 DEF Shrinks, ToClose
<1>. QED  BY <1>1, <1>3, <1>4, <1>5, <1>6

LEMMA PtyIsSent ==
    ASSUME TypeInv, ClaimsOK, NEW m \in PtyMessages, toPty' = Append(toPty, m),
           Named(m) \cap ToClose = {}
    PROVE  EachOnce(toPty') /\ ToClose' = ToClose \cup Named(m) /\ IsAppend(toPty', toPty, m)
<1>1. IsAppend(toPty', toPty, m)
  BY TypeParts, Appends
<1>2. Grows(toPty', toPty, m)
  BY <1>1, NamedAppend DEF ClaimsOK, ToClose
<1>. QED  BY <1>1, <1>2 DEF Grows, ToClose

LEMMA ScreenTakes ==
    ASSUME TypeInv, ClaimsOK, NEW do, Receives(do)
    PROVE  /\ EachOnce(toScreen') /\ IsTail(toScreen', toScreen)
           /\ Named(toScreen[1]) \subseteq Coming /\ Coming' = Coming \ Named(toScreen[1])
           /\ do \notin {"new", "layout"} => Named(toScreen[1]) = {} /\ Coming' = Coming
<1>1. /\ toScreen # <<>> /\ Head(toScreen) = toScreen[1] /\ toScreen[1] \in ScreenMessages(runs)
      /\ toScreen[1].do = do /\ IsTail(toScreen', toScreen)
  BY TypeParts, ReceivesFacts
<1>2. Shrinks(toScreen', toScreen)
  BY <1>1, NamedTail DEF ClaimsOK
<1>3. do \notin {"new", "layout"} => Named(toScreen[1]) = {}
  <2>1. do # "close"
    BY <1>1, ScreenMessageType
  <2>. QED  BY <1>1, <2>1, NamedFacts
<1>4. /\ EachOnce(toScreen') /\ Coming' = Coming \ Named(toScreen[1]) /\ Named(toScreen[1]) \subseteq Coming
  BY <1>2 DEF Shrinks, Coming
<1>. QED  BY <1>1, <1>3, <1>4

LEMMA ScreenIsSent ==
    ASSUME ClaimsOK, NEW m, IsAppend(toScreen', toScreen, m), Named(m) \cap Coming = {}
    PROVE  EachOnce(toScreen') /\ Coming' = Coming \cup Named(m)
<1>1. Grows(toScreen', toScreen, m)
  BY NamedAppend DEF ClaimsOK, Coming
<1>. QED  BY <1>1 DEF Grows, Coming

LEMMA SamePanes ==
    ASSUME DOMAIN panes' = DOMAIN panes, \A id \in DOMAIN panes : panes'[id].of = panes[id].of
    PROVE  OnScreen' = OnScreen
BY DEF OnScreen

LEMMA PaneGone ==
    ASSUME NEW id \in DOMAIN panes, Loses(panes', panes, id)
    PROVE  /\ OnScreen' = OnScreen \ {<<id, panes[id].of>>} /\ <<id, panes[id].of>> \in OnScreen
           /\ DOMAIN panes' = DOMAIN panes \ {id}
BY DEF Loses, OnScreen

LEMMA PaneAdded ==
    ASSUME NEW id, id \notin DOMAIN panes, NEW p, Extends(panes', panes, id, p)
    PROVE  OnScreen' = OnScreen \cup {<<id, p.of>>}
BY DEF Extends, OnScreen

LEMMA FitKept ==
    ASSUME ClaimsFit, OnScreen' \subseteq OnScreen, ToClose' \subseteq ToClose,
           Coming' \subseteq Coming, Starting' \subseteq Starting,
           DOMAIN table \subseteq DOMAIN table', shown' = shown
    PROVE  ClaimsFit' /\ Claims' \subseteq Claims
<1>1. Claims' \subseteq Claims
  BY DEF Claims
<1>2. OneToOne(Claims')
  BY <1>1, OneToOneLess DEF ClaimsFit
<1>. QED  BY <1>1, <1>2 DEF ClaimsFit

LEMMA StepsKept ==
    ASSUME FirstTells, FreesNobodys, todo' = todo \/ IsTail(todo', todo) \/ todo' = <<>>,
           Claims' \subseteq Claims, DOMAIN child' \subseteq DOMAIN child
    PROVE  FirstTells' /\ FreesNobodys'
<1>1. \A k \in DOMAIN todo' : \/ k \in DOMAIN todo /\ todo'[k] = todo[k]
                              \/ k + 1 \in DOMAIN todo /\ k + 1 # 1 /\ todo'[k] = todo[k + 1]
  <2>1. CASE todo' = todo
    BY <2>1
  <2>2. CASE IsTail(todo', todo)
    BY <2>2 DEF IsTail
  <2>3. CASE todo' = <<>>
    BY <2>3, EmptyMap
  <2>. QED  BY <2>1, <2>2, <2>3
<1>2. FirstTells'
  BY <1>1 DEF FirstTells
<1>3. FreesNobodys'
  BY <1>1 DEF FreesNobodys
<1>. QED  BY <1>2, <1>3

LEMMA ChildrenKept ==
    ASSUME TypeInv, ChildrenHaveIds, child' = child, DOMAIN table \subseteq DOMAIN table',
           RunsStay(runs', runs)
    PROVE  ChildrenHaveIds'
<1>1. \A id \in DOMAIN child : child[id] \in DOMAIN runs
  BY TypeParts DEF Maps
<1>. QED  BY <1>1 DEF ChildrenHaveIds, RunsStay, RunStays

LEMMA UsedKept ==
    ASSUME shown' \subseteq Used, \A a \in Claims' : a[2] \in Used, RunsStay(runs', runs)
    PROVE  Used' \subseteq Used
<1>1. {runs'[r].of : r \in DOMAIN runs'} \subseteq Used
  BY DEF Used, RunsStay, RunStays
<1>. QED  BY <1>1 DEF Used

LEMMA NumbersKept ==
    ASSUME TypeInv, NumbersOK, Used' \subseteq Used, asked' \in Nat, asked <= asked',
           \/ toPty' = toPty
           \/ IsTail(toPty', toPty)
           \/ \E m : m.do # "spawn" /\ IsAppend(toPty', toPty, m)
    PROVE  NumbersOK'
<1>0. First \in Nat /\ asked \in Nat
  <2>1. asked \in 0 .. MaxRequests /\ MaxRequests \in Nat
    BY TypeParts, BoundsAssumption DEF UserType
  <2>. QED  BY <2>1, LayoutTypes
<1>1. \A p \in Used' : p \in Int /\ p <= First + asked'
  BY <1>0 DEF NumbersOK
<1>2. \E f : \A k \in DOMAIN toPty' : toPty'[k].do = "spawn" =>
               /\ f[k] \in DOMAIN toPty /\ toPty'[k] = toPty[f[k]]
               /\ \A j \in DOMAIN toPty' : j # k => f[j] # f[k]
  <2>1. CASE toPty' = toPty
    <3>. DEFINE f == [k \in DOMAIN toPty |-> k]
    <3>1. \A k \in DOMAIN toPty' : toPty'[k].do = "spawn" =>
               /\ f[k] \in DOMAIN toPty /\ toPty'[k] = toPty[f[k]]
               /\ \A j \in DOMAIN toPty' : j # k => f[j] # f[k]
      BY <2>1
    <3>. QED  BY <3>1
  <2>2. CASE IsTail(toPty', toPty)
    <3>. DEFINE f == [k \in DOMAIN toPty' |-> k + 1]
    <3>1. \A k \in DOMAIN toPty' : k \in Nat
      BY <2>2 DEF IsTail
    <3>2. \A k \in DOMAIN toPty' : toPty'[k].do = "spawn" =>
               /\ f[k] \in DOMAIN toPty /\ toPty'[k] = toPty[f[k]]
               /\ \A j \in DOMAIN toPty' : j # k => f[j] # f[k]
      BY <2>2, <3>1 DEF IsTail
    <3>. QED  BY <3>2
  <2>3. CASE \E m : m.do # "spawn" /\ IsAppend(toPty', toPty, m)
    <3>. DEFINE f == [k \in DOMAIN toPty' |-> k]
    <3>1. \A k \in DOMAIN toPty' : toPty'[k].do = "spawn" =>
               /\ f[k] \in DOMAIN toPty /\ toPty'[k] = toPty[f[k]]
               /\ \A j \in DOMAIN toPty' : j # k => f[j] # f[k]
      BY <2>3 DEF IsAppend
    <3>. QED  BY <3>1
  <2>. QED  BY <2>1, <2>2, <2>3
<1>3. PICK f : \A k \in DOMAIN toPty' : toPty'[k].do = "spawn" =>
               /\ f[k] \in DOMAIN toPty /\ toPty'[k] = toPty[f[k]]
               /\ \A j \in DOMAIN toPty' : j # k => f[j] # f[k]
  BY <1>2
<1>4. ASSUME NEW k \in DOMAIN toPty', toPty'[k].do = "spawn"
      PROVE  /\ toPty'[k].of \in First + 1 .. First + asked' /\ toPty'[k].of \notin Used'
             /\ \A j \in DOMAIN toPty' :
                    j # k /\ toPty'[j].do = "spawn" => toPty'[j].of # toPty'[k].of
  <2>1. f[k] \in DOMAIN toPty /\ toPty'[k] = toPty[f[k]] /\ toPty[f[k]].do = "spawn"
    BY <1>3, <1>4
  <2>2. /\ toPty'[k].of \in First + 1 .. First + asked /\ toPty'[k].of \notin Used
        /\ \A j \in DOMAIN toPty : j # f[k] /\ toPty[j].do = "spawn" => toPty[j].of # toPty[f[k]].of
    BY <2>1 DEF NumbersOK
  <2>3. ASSUME NEW j \in DOMAIN toPty', j # k, toPty'[j].do = "spawn"
        PROVE  toPty'[j].of # toPty'[k].of
    <3>1. f[j] \in DOMAIN toPty /\ toPty'[j] = toPty[f[j]] /\ f[j] # f[k]
      BY <1>3, <1>4, <2>3
    <3>. QED  BY <2>1, <2>2, <2>3, <3>1
  <2>. QED  BY <1>0, <2>2, <2>3
<1>. QED  BY <1>1, <1>4 DEF NumbersOK

(* Nothing that was claimed goes elsewhere.                                *)
SameClaims ==
    /\ OnScreen' \subseteq OnScreen /\ ToClose' \subseteq ToClose
    /\ Coming' \subseteq Coming /\ Starting' \subseteq Starting

LEMMA ClaimsKept ==
    ASSUME TypeInv, ClaimsOK, NumbersOK, SameClaims, EachOnce(toPty'), EachOnce(toScreen'),
           todo' = todo \/ IsTail(todo', todo) \/ todo' = <<>>,
           UNCHANGED <<table, child, shown>>, RunsStay(runs', runs),
           asked' \in Nat, asked <= asked',
           \/ toPty' = toPty
           \/ IsTail(toPty', toPty)
           \/ \E m : m.do # "spawn" /\ IsAppend(toPty', toPty, m)
    PROVE  ClaimsOK' /\ NumbersOK'
<1>1. ClaimsFit' /\ Claims' \subseteq Claims
  BY FitKept DEF ClaimsOK, SameClaims
<1>2. FirstTells' /\ FreesNobodys'
  BY <1>1, StepsKept DEF ClaimsOK
<1>3. ChildrenHaveIds'
  BY ChildrenKept DEF ClaimsOK
<1>4. Used' \subseteq Used
  <2>1. shown' \subseteq Used /\ \A a \in Claims' : a[2] \in Used
    BY <1>1 DEF Used
  <2>. QED  BY <2>1, UsedKept
<1>5. NumbersOK'
  BY <1>4, NumbersKept
<1>. QED  BY <1>1, <1>2, <1>3, <1>5 DEF ClaimsOK

(* Commands of a layout that do not exist hold on close.                   *)
LayoutHolds == "typo" \notin Range(Layout)

LEMMA NumbersSpawned ==
    ASSUME TypeInv, NumbersOK, IsTail(toPty', toPty), toPty[1].do = "spawn", asked' = asked,
           Used' \subseteq Used \cup {toPty[1].of}
    PROVE  NumbersOK'
<1>0. 1 \in DOMAIN toPty
  BY DEF IsTail
<1>1. /\ First \in Nat /\ asked \in Nat
      /\ toPty[1].of \in First + 1 .. First + asked
      /\ \A j \in DOMAIN toPty : j # 1 /\ toPty[j].do = "spawn" => toPty[j].of # toPty[1].of
  <2>1. First \in Nat /\ asked \in Nat
    <3>1. UserType /\ First \in Nat /\ MaxRequests \in Nat
      BY TypeParts, LayoutTypes, BoundsAssumption
    <3>. QED  BY <3>1 DEF UserType
  <2>2. /\ toPty[1].of \in First + 1 .. First + asked
        /\ \A j \in DOMAIN toPty : j # 1 /\ toPty[j].do = "spawn" => toPty[j].of # toPty[1].of
    BY <1>0 DEF NumbersOK
  <2>. QED  BY <2>1, <2>2
<1>2. \A p \in Used' : p \in Int /\ p <= First + asked'
  BY <1>1 DEF NumbersOK
<1>3. ASSUME NEW k \in DOMAIN toPty', toPty'[k].do = "spawn"
      PROVE  /\ toPty'[k].of \in First + 1 .. First + asked' /\ toPty'[k].of \notin Used'
             /\ \A j \in DOMAIN toPty' :
                    j # k /\ toPty'[j].do = "spawn" => toPty'[j].of # toPty'[k].of
  <2>1. k + 1 \in DOMAIN toPty /\ k + 1 # 1 /\ toPty'[k] = toPty[k + 1] /\ k \in Int
    BY DEF IsTail
  <2>2. /\ toPty'[k].of \in First + 1 .. First + asked' /\ toPty'[k].of \notin Used
        /\ toPty'[k].of # toPty[1].of
        /\ \A j \in DOMAIN toPty : j # k + 1 /\ toPty[j].do = "spawn" => toPty[j].of # toPty[k + 1].of
    BY <1>1, <1>3, <2>1 DEF NumbersOK
  <2>3. ASSUME NEW j \in DOMAIN toPty', j # k, toPty'[j].do = "spawn"
        PROVE  toPty'[j].of # toPty'[k].of
    <3>1. j + 1 \in DOMAIN toPty /\ toPty'[j] = toPty[j + 1] /\ j \in Int
      BY DEF IsTail
    <3>2. j + 1 # k + 1
      BY <2>1, <2>3, <3>1
    <3>. QED  BY <2>1, <2>2, <2>3, <3>1, <3>2
  <2>. QED  BY <2>2, <2>3
<1>. QED  BY <1>2, <1>3 DEF NumbersOK

LEMMA SpawnsMoves ==
    ASSUME TypeInv, ClaimsOK, PtySpawns
    PROVE  /\ OnScreen' = OnScreen /\ ToClose' = ToClose /\ Coming' = Coming /\ Starting = {}
           /\ EachOnce(toPty') /\ EachOnce(toScreen') /\ FirstTells'
           /\ Starting' = IF toPty[1].cmd = "typo" THEN {}
                          ELSE {<<NewId(DOMAIN table), toPty[1].of>>}
<1>. DEFINE m == toPty[1]
            id == NewId(DOMAIN table)
            t == Terminal(id, m.of, m.cmd)
<1>0. Takes("spawn") /\ UNCHANGED <<toScreen, toWriter, screen, user>>
  BY DEF PtySpawns
<1>1. ToClose' = ToClose /\ EachOnce(toPty') /\ Starting = {}
  BY <1>0, PtyTakes
<1>2. UNCHANGED <<panes, toScreen>>
  BY <1>0 DEF screen
<1>3. OnScreen' = OnScreen /\ Coming' = Coming /\ EachOnce(toScreen')
  BY <1>2 DEF OnScreen, Coming, ClaimsOK
<1>4. SpawnToldOK(m, id, todo') /\ todo' \in Seq(TodoSteps(runs'))
  BY SpawnsFacts
<1>5. t.id = id /\ t.of = m.of
  BY DEF Terminal
<1>6. Named(NewPane(t, m.split)) = {<<id, m.of>>}
  BY <1>5, NamedFacts
<1>. HIDE DEF m, id, t
<1>7. /\ \A msg : Told([step |-> "tell", msg |-> msg]) = Named(msg)
      /\ \A x : Told([step |-> "free", id |-> x]) = {}
  BY DEF Told
<1>8. \A x, r, tab : Named(PtyBytes(x, r)) = {} /\ Named(HoldPane(x, r, tab)) = {}
  <2>1. \A x, r, tab : PtyBytes(x, r).do = "bytes" /\ HoldPane(x, r, tab).do = "hold"
    BY DEF PtyBytes, HoldPane
  <2>. QED  BY <2>1, NamedFacts
<1>9. DOMAIN todo' = 1 .. Len(todo') /\ Len(todo') \in Nat
  BY <1>4
<1>10. CASE Exists(m.cmd) /\ Len(todo') = 1
            /\ todo'[1] = [step |-> "tell", msg |-> NewPane(t, m.split)]
  <2>1. m.cmd # "typo"
    BY <1>10 DEF Exists
  <2>2. DOMAIN todo' = {1} /\ Told(todo'[1]) = {<<id, m.of>>}
    BY <1>6, <1>7, <1>9, <1>10
  <2>3. Starting' = {<<id, m.of>>} /\ FirstTells'
    BY <2>2 DEF Starting, FirstTells
  <2>. QED  BY <1>1, <1>3, <2>1, <2>3 DEF m, id
<1>11. CASE /\ m.cmd = "missing" /\ Len(todo') = 3
            /\ todo'[1] = [step |-> "tell", msg |-> NewPane(t, m.split)]
            /\ todo'[2] = [step |-> "tell", msg |-> PtyBytes(id, Len(runs) + 1)]
            /\ todo'[3] = [step |-> "tell", msg |-> HoldPane(id, Len(runs) + 1, FALSE)]
  <2>2. /\ DOMAIN todo' = {1, 2, 3} /\ Told(todo'[1]) = {<<id, m.of>>}
        /\ Told(todo'[2]) = {} /\ Told(todo'[3]) = {}
    <3>1. DOMAIN todo' = {1, 2, 3}
      BY <1>9, <1>11
    <3>2. Told(todo'[1]) = {<<id, m.of>>} /\ Told(todo'[2]) = {} /\ Told(todo'[3]) = {}
      BY <1>6, <1>7, <1>8, <1>11, Zenon
    <3>. QED  BY <3>1, <3>2
  <2>3. Starting' = {<<id, m.of>>} /\ FirstTells'
    BY <2>2 DEF Starting, FirstTells
  <2>. QED  BY <1>1, <1>3, <1>11, <2>3 DEF m, id
<1>12. CASE m.cmd = "typo" /\ todo' = <<>>
  <2>1. DOMAIN todo' = {}
    BY <1>12, EmptyMap
  <2>2. Starting' = {} /\ FirstTells'
    BY <2>1 DEF Starting, FirstTells
  <2>. QED  BY <1>1, <1>3, <1>12, <2>2 DEF m, id
<1>13. CASE m.cmd = "typo" /\ Len(todo') = 1 /\ todo'[1] = [step |-> "free", id |-> id]
  <2>2. DOMAIN todo' = {1} /\ Told(todo'[1]) = {}
    BY <1>7, <1>9, <1>13
  <2>3. Starting' = {} /\ FirstTells'
    BY <2>2 DEF Starting, FirstTells
  <2>. QED  BY <1>1, <1>3, <1>13, <2>3 DEF m, id
<1>. QED  BY <1>4, <1>10, <1>11, <1>12, <1>13, Zenon DEF SpawnToldOK, t, m, id

LEMMA SpawnsClaims ==
    ASSUME TypeInv, ClaimsOK, NumbersOK, PtySpawns
    PROVE  ClaimsOK' /\ NumbersOK'
<1>. DEFINE m == toPty[1]
            id == NewId(DOMAIN table)
            p == m.of
<1>0. /\ UNCHANGED <<toScreen, toWriter, screen, user>> /\ Takes("spawn")
  BY DEF PtySpawns
<1>1. /\ OnScreen' = OnScreen /\ ToClose' = ToClose /\ Coming' = Coming /\ Starting = {}
      /\ EachOnce(toPty') /\ EachOnce(toScreen') /\ FirstTells'
      /\ Starting' = IF m.cmd = "typo" THEN {} ELSE {<<id, p>>}
  BY SpawnsMoves
<1>2. /\ SpawnedOK(m, id, runs') /\ SpawnToldOK(m, id, todo') /\ todo' \in Seq(TodoSteps(runs'))
      /\ id \in Nat
  BY SpawnsFacts
<1>3. /\ id \notin DOMAIN table /\ DOMAIN table' = DOMAIN table \cup {id}
      /\ ResourcesType(table', child', runs')
      /\ \A q \in DOMAIN runs : runs'[q] = runs[q]
      /\ DOMAIN runs' \subseteq DOMAIN runs \cup {Len(runs) + 1}
      /\ Len(runs) + 1 \in DOMAIN runs' =>
            Len(runs) + 1 \in DOMAIN runs \/ (runs'[Len(runs) + 1].id = id /\ runs'[Len(runs) + 1].of = p)
      /\ Len(runs) + 1 \notin DOMAIN runs
      /\ \/ child' = child
         \/ /\ Extends(child', child, id, Len(runs) + 1)
            /\ Len(runs) + 1 \in DOMAIN runs' /\ m.cmd # "suspended" /\ Exists(m.cmd)
  BY <1>2 DEF SpawnedOK
<1>4. 1 \in DOMAIN toPty /\ m.do = "spawn" /\ IsTail(toPty', toPty)
  BY <1>0, TypeParts, TakesFacts, FirstIsThere
<1>5. p \notin Used
  BY <1>4 DEF NumbersOK
<1>6. p \notin shown /\ (\A a \in Claims : a[2] # p) /\ (\A a \in Claims : a[1] # id)
  BY <1>3, <1>5 DEF Used, ClaimsOK, ClaimsFit
<1>. HIDE DEF m, id, p
<1>7. Claims = OnScreen \cup ToClose \cup Coming /\ Claims' = Claims \cup Starting'
  BY <1>1 DEF Claims
<1>8. UNCHANGED <<shown, panes>> /\ asked' = asked
  BY <1>0 DEF screen, user
<1>9. ClaimsFit'
  <2>1. OneToOne(Claims')
    BY <1>1, <1>6, <1>7 DEF ClaimsOK, ClaimsFit, OneToOne
  <2>2. \A a \in Claims' : a[1] \in DOMAIN table'
    BY <1>1, <1>3, <1>7 DEF ClaimsOK, ClaimsFit
  <2>3. Coming' \cap Starting' = {}
    BY <1>1, <1>6, <1>7
  <2>4. \A a \in Coming' \cup Starting' : a[2] \notin shown'
    BY <1>1, <1>6, <1>8 DEF ClaimsOK, ClaimsFit
  <2>. QED  BY <1>1, <1>8, <2>1, <2>2, <2>3, <2>4 DEF ClaimsOK, ClaimsFit
<1>10. FreesNobodys'
  <2>. SUFFICES ASSUME NEW k \in DOMAIN todo', todo'[k].step = "free"
                PROVE  todo'[k].id \notin DOMAIN child' /\ \A a \in Claims' : a[1] # todo'[k].id
    BY DEF FreesNobodys
  <2>1. m.cmd = "typo" /\ todo'[k].id = id
    <3>1. DOMAIN todo' = 1 .. Len(todo') /\ Len(todo') \in Nat
      BY <1>2
    <3>2. \A x : [step |-> "tell", msg |-> x].step # "free"
      OBVIOUS
    <3>. QED  BY <1>2, <3>1, <3>2 DEF SpawnToldOK
  <2>2. child' = child /\ Claims' = Claims
    BY <1>1, <1>3, <1>7, <2>1 DEF Exists
  <2>. QED  BY <1>3, <1>6, <2>1, <2>2 DEF ClaimsOK, ChildrenHaveIds
<1>11. ChildrenHaveIds'
  <2>1. \A x \in DOMAIN child : child[x] \in DOMAIN runs
    BY TypeParts DEF Maps
  <2>2. \A x \in DOMAIN child : x \in DOMAIN table /\ runs[child[x]].id = x
    BY DEF ClaimsOK, ChildrenHaveIds
  <2>3. CASE child' = child
    BY <1>3, <2>1, <2>2, <2>3 DEF ChildrenHaveIds
  <2>4. CASE Extends(child', child, id, Len(runs) + 1) /\ Len(runs) + 1 \in DOMAIN runs'
    BY <1>3, <2>1, <2>2, <2>4 DEF ChildrenHaveIds, Extends
  <2>. QED  BY <1>3, <2>3, <2>4
<1>12. Used' \subseteq Used \cup {p}
  <2>1. \A a \in Claims' : a[2] \in Used \cup {p}
    BY <1>1, <1>7 DEF Used
  <2>2. \A r \in DOMAIN runs' : runs'[r].of \in Used \cup {p}
    BY <1>3 DEF Used
  <2>3. shown' \subseteq Used
    BY <1>8 DEF Used
  <2>. QED  BY <2>1, <2>2, <2>3 DEF Used
<1>13. NumbersOK'
  BY <1>4, <1>8, <1>12, NumbersSpawned DEF m, p
<1>. QED  BY <1>1, <1>9, <1>10, <1>11, <1>13 DEF ClaimsOK

(* Before the layout nothing is claimed.                                   *)
LEMMA FreshClaims ==
    ASSUME TypeInv, ClaimsOK, Fresh
    PROVE  Claims = {} /\ OnScreen = {} /\ ToClose = {} /\ Coming = {} /\ Used = {}
<1>1. DOMAIN table = {} /\ DOMAIN runs = {} /\ shown = {}
  BY EmptyMap DEF Fresh
<1>2. Claims = {}
  BY <1>1 DEF ClaimsOK, ClaimsFit
<1>. QED  BY <1>1, <1>2 DEF Claims, Used

TheLayout == {<<i - 1, i>> : i \in 1 .. First}

LEMMA LayoutMoves ==
    ASSUME TypeInv, ClaimsOK, PtySpawnsLayout, LayoutHolds
    PROVE  /\ Claims = {} /\ Used = {} /\ Claims' = TheLayout /\ Starting' = TheLayout
           /\ OnScreen' = {} /\ ToClose' = {} /\ Coming' = {}
           /\ EachOnce(toPty') /\ EachOnce(toScreen') /\ FirstTells'
           /\ \A k \in DOMAIN todo' : todo'[k].step # "free"
<1>. DEFINE s == StartedForLayout(Resources)
<1>0. Takes("new tab") /\ UNCHANGED <<toScreen, toWriter, screen, user>>
  BY DEF PtySpawnsLayout
<1>1. Fresh /\ LaidOut(s, First) /\ LayoutTodoOK(s, todo')
  BY LayoutFacts DEF LayoutSpawned
<1>2. Claims = {} /\ OnScreen = {} /\ ToClose = {} /\ Coming = {} /\ Used = {}
  BY <1>1, FreshClaims
<1>3. ToClose' = {} /\ EachOnce(toPty')
  BY <1>0, <1>2, PtyTakes
<1>4. UNCHANGED <<panes, toScreen>>
  BY <1>0 DEF screen
<1>5. OnScreen' = {} /\ Coming' = {} /\ EachOnce(toScreen')
  BY <1>2, <1>4 DEF OnScreen, Coming, ClaimsOK
<1>6. /\ DOMAIN todo' = 1 .. Len(todo') /\ Len(todo') \in Nat /\ Len(todo') >= 1
      /\ todo'[1] = [step |-> "tell", msg |-> ApplyLayout(s.terminals)]
  BY <1>1 DEF LayoutTodoOK
<1>7. s.terminals = [i \in 1 .. First |-> Terminal(i - 1, i, Layout[i])]
  BY <1>1 DEF LaidOut
<1>8. Told(todo'[1]) = TheLayout
  <2>1. Told(todo'[1]) = Named(ApplyLayout(s.terminals))
    BY <1>6 DEF Told
  <2>2. Named(ApplyLayout(s.terminals)) = {<<s.terminals[i].id, s.terminals[i].of>> : i \in DOMAIN s.terminals}
    BY NamedFacts
  <2>3. /\ DOMAIN s.terminals = 1 .. First
        /\ \A i \in 1 .. First : s.terminals[i].id = i - 1 /\ s.terminals[i].of = i
    BY <1>7 DEF Terminal
  <2>. QED  BY <2>1, <2>2, <2>3 DEF TheLayout
<1>. HIDE DEF s
<1>9. ASSUME NEW k \in DOMAIN todo', k # 1
      PROVE  Told(todo'[k]) = {} /\ todo'[k].step # "free"
  <2>1. k \in 2 .. Len(todo')
    BY <1>6, <1>9
  <2>2. PICK i \in 1 .. First, x \in 1 .. 2 : StepFor(s, i, x, todo'[k])
    BY <1>1, <2>1 DEF LayoutTodoOK
  <2>3. Layout[i] # "typo"
    BY LayoutTypes DEF LayoutHolds, Range
  <2>4. /\ \A y, r : Named(PtyBytes(y, r)) = {}
        /\ \A y, r, tab : Named(HoldPane(y, r, tab)) = {}
    <3>1. /\ \A y, r : PtyBytes(y, r).do = "bytes"
          /\ \A y, r, tab : HoldPane(y, r, tab).do = "hold"
      BY DEF PtyBytes, HoldPane
    <3>. QED  BY <3>1, NamedFacts
  <2>5. CASE \E r : todo'[k] = [step |-> "listen", run |-> r]
    BY <2>5 DEF Told
  <2>6. CASE \E r : todo'[k] = [step |-> "tell", msg |-> PtyBytes(i - 1, r)]
    BY <2>4, <2>6 DEF Told
  <2>7. CASE \E r : todo'[k] = [step |-> "tell", msg |-> HoldPane(i - 1, r, TRUE)]
    <3>1. PICK r : todo'[k] = [step |-> "tell", msg |-> HoldPane(i - 1, r, TRUE)]
      BY <2>7
    <3>2. todo'[k].step = "tell" /\ todo'[k].msg = HoldPane(i - 1, r, TRUE)
      BY <3>1
    <3>3. Named(HoldPane(i - 1, r, TRUE)) = {}
      BY <2>4, Zenon
    <3>. QED  BY <3>2, <3>3 DEF Told
  <2>8. \/ \E r : todo'[k] = [step |-> "listen", run |-> r]
        \/ \E r : todo'[k] = [step |-> "tell", msg |-> PtyBytes(i - 1, r)]
        \/ \E r : todo'[k] = [step |-> "tell", msg |-> HoldPane(i - 1, r, TRUE)]
    BY <2>2, <2>3, Zenon DEF StepFor
  <2>. QED  BY <2>5, <2>6, <2>7, <2>8, Zenon
<1>10. Starting' = TheLayout
  BY <1>6, <1>8, <1>9 DEF Starting
<1>11. FirstTells' /\ \A k \in DOMAIN todo' : todo'[k].step # "free"
  <2>1. todo'[1].step # "free"
    BY <1>6
  <2>. QED  BY <1>9, <2>1 DEF FirstTells
<1>. QED  BY <1>2, <1>3, <1>5, <1>10, <1>11 DEF Claims

LEMMA LayoutClaims ==
    ASSUME TypeInv, ClaimsOK, NumbersOK, PtySpawnsLayout, LayoutHolds
    PROVE  ClaimsOK' /\ NumbersOK'
<1>. DEFINE s == StartedForLayout(Resources)
<1>0. Takes("new tab") /\ UNCHANGED <<toScreen, toWriter, screen, user>>
  BY DEF PtySpawnsLayout
<1>1. /\ Claims = {} /\ Used = {} /\ Claims' = TheLayout /\ Starting' = TheLayout
      /\ OnScreen' = {} /\ ToClose' = {} /\ Coming' = {}
      /\ EachOnce(toPty') /\ EachOnce(toScreen') /\ FirstTells'
      /\ \A k \in DOMAIN todo' : todo'[k].step # "free"
  BY LayoutMoves
<1>2. /\ LaidOut(s, First) /\ table' = s.table /\ child' = s.child /\ runs' = s.runs
      /\ Fresh
  BY LayoutFacts DEF LayoutSpawned
<1>3. First \in Nat /\ shown' = shown /\ shown = {} /\ asked' = asked /\ asked \in Nat
  <2>1. MaxRequests \in Nat /\ asked \in 0 .. MaxRequests
    BY TypeParts, BoundsAssumption DEF UserType
  <2>2. UNCHANGED <<shown, asked>>
    BY <1>0 DEF screen, user
  <2>3. shown = {}
    BY <1>2 DEF Fresh
  <2>4. asked \in Nat
    BY <2>1
  <2>. QED  BY <2>2, <2>3, <2>4, LayoutTypes
<1>. HIDE DEF s
<1>4. OneToOne(TheLayout) /\ \A a \in TheLayout : a[1] \in 0 .. First - 1 /\ a[2] \in 1 .. First
  BY <1>3 DEF OneToOne, TheLayout
<1>5. DOMAIN table' = 0 .. First - 1
  BY <1>2 DEF LaidOut
<1>6. ClaimsFit'
  BY <1>1, <1>3, <1>4, <1>5 DEF ClaimsFit
<1>7. FreesNobodys'
  BY <1>1 DEF FreesNobodys
<1>8. ChildrenHaveIds'
  BY <1>2 DEF LaidOut, ChildrenHaveIds
<1>9. \A p \in Used' : p \in 1 .. First
  <2>1. \A r \in DOMAIN runs' : runs'[r].of \in 1 .. First
    BY <1>2 DEF LaidOut
  <2>. QED  BY <1>1, <1>3, <1>4, <2>1 DEF Used
<1>10. NumbersOK'
  <2>1. IsTail(toPty', toPty)
    BY <1>0, PtyTakes
  <2>2. ASSUME NEW k \in DOMAIN toPty', toPty'[k].do = "spawn"
        PROVE  /\ toPty'[k].of \in First + 1 .. First + asked' /\ toPty'[k].of \notin Used'
               /\ \A j \in DOMAIN toPty' :
                    j # k /\ toPty'[j].do = "spawn" => toPty'[j].of # toPty'[k].of
    <3>1. k + 1 \in DOMAIN toPty /\ toPty'[k] = toPty[k + 1] /\ k \in Int
      BY <2>1 DEF IsTail
    <3>2. /\ toPty'[k].of \in First + 1 .. First + asked
          /\ \A j \in DOMAIN toPty : j # k + 1 /\ toPty[j].do = "spawn" => toPty[j].of # toPty[k + 1].of
      BY <2>2, <3>1 DEF NumbersOK
    <3>3. ASSUME NEW j \in DOMAIN toPty', j # k, toPty'[j].do = "spawn"
          PROVE  toPty'[j].of # toPty'[k].of
      <4>1. j + 1 \in DOMAIN toPty /\ toPty'[j] = toPty[j + 1] /\ j \in Int
        BY <2>1 DEF IsTail
      <4>2. j + 1 # k + 1
        BY <3>1, <3>3, <4>1
      <4>. QED  BY <3>1, <3>2, <3>3, <4>1, <4>2
    <3>4. toPty'[k].of \notin Used'
      BY <1>3, <1>9, <3>2
    <3>. QED  BY <1>3, <3>2, <3>3, <3>4
  <2>3. \A p \in Used' : p \in Int /\ p <= First + asked'
    BY <1>3, <1>9
  <2>. QED  BY <2>2, <2>3 DEF NumbersOK
<1>. QED  BY <1>1, <1>6, <1>7, <1>8, <1>10 DEF ClaimsOK

LEMMA RerunsMoves ==
    ASSUME TypeInv, ClaimsOK, PtyReruns
    PROVE  /\ OnScreen' = OnScreen /\ ToClose' = ToClose /\ Coming' = Coming
           /\ Starting = {} /\ Starting' = {}
           /\ EachOnce(toPty') /\ EachOnce(toScreen') /\ FirstTells'
           /\ \A k \in DOMAIN todo' : todo'[k].step # "free"
<1>0. Takes("rerun") /\ UNCHANGED <<toScreen, toWriter, screen, user>>
  BY DEF PtyReruns
<1>1. ToClose' = ToClose /\ EachOnce(toPty') /\ Starting = {}
  BY <1>0, PtyTakes
<1>2. UNCHANGED <<panes, toScreen>>
  BY <1>0 DEF screen
<1>3. OnScreen' = OnScreen /\ Coming' = Coming /\ EachOnce(toScreen')
  BY <1>2 DEF OnScreen, Coming, ClaimsOK
<1>4. \A k \in DOMAIN todo' : Told(todo'[k]) = {} /\ todo'[k].step # "free"
  <2>. DEFINE m == toPty[1]
              r == Len(runs) + 1
  <2>1. RerunOK(m)
    BY RerunsFacts
  <2>2. CASE Exists(m.cmd)
    BY <2>1, <2>2, EmptyMap DEF RerunOK
  <2>3. CASE ~Exists(m.cmd)
    <3>1. /\ todo' \in Seq(TodoSteps(runs')) /\ Len(todo') = 2
          /\ todo'[1] = [step |-> "tell", msg |-> PtyBytes(m.id, r)]
          /\ todo'[2] = [step |-> "tell", msg |-> HoldPane(m.id, r, FALSE)]
      BY <2>1, <2>3 DEF RerunOK, NotFoundTold
    <3>2. DOMAIN todo' = {1, 2}
      <4>1. DOMAIN todo' = 1 .. Len(todo')
        BY <3>1
      <4>. QED  BY <3>1, <4>1
    <3>3. Named(PtyBytes(m.id, r)) = {} /\ Named(HoldPane(m.id, r, FALSE)) = {}
      BY DEF Named, PtyBytes, HoldPane
    <3>4. /\ Told(todo'[1]) = {} /\ todo'[1].step # "free"
          /\ Told(todo'[2]) = {} /\ todo'[2].step # "free"
      <4>1. \A msg : Told([step |-> "tell", msg |-> msg]) = Named(msg)
                    /\ [step |-> "tell", msg |-> msg].step # "free"
        BY DEF Told
      <4>. QED  BY <3>1, <3>3, <4>1
    <3>. QED  BY <3>2, <3>4
  <2>. QED  BY <2>2, <2>3
<1>5. Starting' = {} /\ FirstTells'
  BY <1>4 DEF Starting, FirstTells
<1>. QED  BY <1>1, <1>3, <1>4, <1>5

(* What is run again is on the screen, or was.                             *)
RerunsShown == \A k \in DOMAIN toPty : toPty[k].do = "rerun" => toPty[k].of \in shown

LEMMA RerunsClaims ==
    ASSUME TypeInv, ClaimsOK, NumbersOK, RerunsShown, PtyReruns
    PROVE  ClaimsOK' /\ NumbersOK'
<1>. DEFINE m == toPty[1]
            r == Len(runs) + 1
<1>0. /\ Takes("rerun") /\ UNCHANGED <<toScreen, toWriter, screen, user>>
  BY DEF PtyReruns
<1>1. /\ OnScreen' = OnScreen /\ ToClose' = ToClose /\ Coming' = Coming
      /\ Starting = {} /\ Starting' = {}
      /\ EachOnce(toPty') /\ EachOnce(toScreen') /\ FirstTells'
      /\ \A k \in DOMAIN todo' : todo'[k].step # "free"
  BY RerunsMoves
<1>2. /\ 1 \in DOMAIN toPty /\ m.do = "rerun" /\ IsTail(toPty', toPty)
  BY <1>0, TypeParts, TakesFacts, FirstIsThere
<1>3. RerunOK(m)
  BY RerunsFacts
<1>4. m.of \in shown
  BY <1>2 DEF RerunsShown
<1>. HIDE DEF m
<1>5. UNCHANGED <<shown, asked>>
  BY <1>0 DEF screen, user
<1>6. /\ DOMAIN table \subseteq DOMAIN table' /\ DOMAIN runs' = DOMAIN runs \cup {r}
      /\ r \notin DOMAIN runs /\ (\A q \in DOMAIN runs : runs'[q] = runs[q])
      /\ runs'[r].id = m.id /\ runs'[r].of = m.of
      /\ \/ DOMAIN table' = DOMAIN table \cup {m.id} /\ Extends(child', child, m.id, r)
         \/ Loses(child', child, m.id)
  BY <1>3 DEF RerunOK, Extends
<1>7. ClaimsFit' /\ Claims' \subseteq Claims
  BY <1>1, <1>5, <1>6, FitKept DEF ClaimsOK
<1>8. FreesNobodys'
  BY <1>1 DEF FreesNobodys
<1>9. ChildrenHaveIds'
  <2>1. \A x \in DOMAIN child : child[x] \in DOMAIN runs
    BY TypeParts DEF Maps
  <2>2. \A x \in DOMAIN child : x \in DOMAIN table /\ runs[child[x]].id = x
    BY DEF ClaimsOK, ChildrenHaveIds
  <2>3. CASE Loses(child', child, m.id)
    BY <1>6, <2>1, <2>2, <2>3 DEF ChildrenHaveIds, Loses
  <2>4. CASE DOMAIN table' = DOMAIN table \cup {m.id} /\ Extends(child', child, m.id, r)
    BY <1>6, <2>1, <2>2, <2>4 DEF ChildrenHaveIds, Extends
  <2>. QED  BY <1>6, <2>3, <2>4
<1>10. Used' \subseteq Used
  <2>1. \A a \in Claims' : a[2] \in Used
    BY <1>7 DEF Used
  <2>2. \A q \in DOMAIN runs' : runs'[q].of \in Used
    BY <1>4, <1>6 DEF Used
  <2>3. shown' \subseteq Used
    BY <1>5 DEF Used
  <2>. QED  BY <2>1, <2>2, <2>3 DEF Used
<1>11. asked \in Nat
  BY TypeParts, BoundsAssumption DEF UserType
<1>12. NumbersOK'
  BY <1>2, <1>5, <1>10, <1>11, NumbersKept
<1>. QED  BY <1>1, <1>7, <1>8, <1>9, <1>12 DEF ClaimsOK

LEMMA ClosesMoves ==
    ASSUME TypeInv, ClaimsOK, PtyCloses
    PROVE  LET a == <<toPty[1].id, toPty[1].of>>
           IN  /\ OnScreen' = OnScreen /\ ToClose' = ToClose \ {a} /\ Coming' = Coming
               /\ Starting = {} /\ Starting' = {} /\ a \in ToClose
               /\ EachOnce(toPty') /\ EachOnce(toScreen')
               /\ Claims' = Claims \ {a}
<1>0. Takes("close") /\ UNCHANGED <<todo, toScreen, toWriter, screen, blocked, asked, pressed>>
  BY DEF PtyCloses
<1>. DEFINE a == <<toPty[1].id, toPty[1].of>>
<1>1. ToClose' = ToClose \ {a} /\ a \in ToClose /\ EachOnce(toPty') /\ Starting = {}
  BY <1>0, PtyTakes
<1>2. UNCHANGED <<panes, toScreen>>
  BY <1>0 DEF screen
<1>3. OnScreen' = OnScreen /\ Coming' = Coming /\ EachOnce(toScreen') /\ Starting' = Starting
  BY <1>0, <1>2 DEF OnScreen, Coming, ClaimsOK, Starting
<1>4. a \notin OnScreen /\ a \notin Coming
  BY <1>1 DEF ClaimsOK, ClaimsFit
<1>. HIDE DEF a
<1>5. Claims' = Claims \ {a}
  BY <1>1, <1>3, <1>4 DEF Claims
<1>. QED  BY <1>1, <1>3, <1>5 DEF a

LEMMA ClosesClaims ==
    ASSUME TypeInv, ClaimsOK, NumbersOK, PtyCloses
    PROVE  ClaimsOK' /\ NumbersOK'
<1>. DEFINE id == toPty[1].id
            a  == <<id, toPty[1].of>>
<1>0. /\ Takes("close") /\ UNCHANGED <<todo, toScreen, toWriter, screen, blocked, asked, pressed>>
      /\ Closes(Head(toPty).id)
  BY DEF PtyCloses
<1>1. /\ OnScreen' = OnScreen /\ ToClose' = ToClose \ {a} /\ Coming' = Coming
      /\ Starting = {} /\ Starting' = {} /\ a \in ToClose
      /\ EachOnce(toPty') /\ EachOnce(toScreen')
      /\ Claims' = Claims \ {a}
  BY ClosesMoves
<1>2. Head(toPty).id = id /\ IsTail(toPty', toPty)
  BY <1>0, TypeParts, TakesFacts
<1>3. /\ ClosedRuns(runs', runs, child, id) /\ Loses(table', table, id) /\ Loses(child', child, id)
  BY <1>0, <1>2, TypeParts, ClosesFacts
<1>. HIDE DEF id
<1>4. \A b \in Claims' : b[1] # id
  <2>1. a \in Claims /\ a[1] = id
    BY <1>1 DEF Claims
  <2>2. \A b \in Claims : b[1] = id => b = a
    BY <2>1 DEF ClaimsOK, ClaimsFit, OneToOne
  <2>. QED  BY <1>1, <2>2
<1>5. UNCHANGED <<shown, asked>>
  BY <1>0 DEF screen
<1>6. ClaimsFit'
  <2>1. Claims' \subseteq Claims
    BY <1>1
  <2>2. OneToOne(Claims')
    BY <2>1, OneToOneLess DEF ClaimsOK, ClaimsFit
  <2>3. \A b \in Claims' : b[1] \in DOMAIN table'
    BY <1>3, <1>4, <2>1 DEF Loses, ClaimsOK, ClaimsFit
  <2>. QED  BY <1>1, <1>5, <2>2, <2>3 DEF ClaimsOK, ClaimsFit
<1>7. FirstTells' /\ FreesNobodys'
  <2>1. DOMAIN child' \subseteq DOMAIN child /\ Claims' \subseteq Claims /\ todo' = todo
    BY <1>0, <1>1, <1>3 DEF Loses
  <2>. QED  BY <2>1, StepsKept DEF ClaimsOK
<1>8. ChildrenHaveIds'
  <2>1. \A x \in DOMAIN child : child[x] \in DOMAIN runs
    BY TypeParts DEF Maps
  <2>. QED  BY <1>3, <2>1 DEF ClosedRuns, RunsStay, RunStays, Loses, ChildrenHaveIds, ClaimsOK
<1>9. Used' \subseteq Used
  <2>1. shown' \subseteq Used /\ \A b \in Claims' : b[2] \in Used
    BY <1>1, <1>5 DEF Used
  <2>. QED  BY <1>3, <2>1, UsedKept DEF ClosedRuns
<1>10. asked \in Nat
  BY TypeParts, BoundsAssumption DEF UserType
<1>11. NumbersOK'
  BY <1>2, <1>5, <1>9, <1>10, NumbersKept
<1>. QED  BY <1>1, <1>6, <1>7, <1>8, <1>11 DEF ClaimsOK

LEMMA ContinuesMoves ==
    ASSUME TypeInv, ClaimsOK, PtyContinues
    PROVE  /\ OnScreen' = OnScreen /\ ToClose' = ToClose /\ Starting' = {}
           /\ Starting = Told(todo[1]) /\ Coming' = Coming \cup Told(todo[1])
           /\ EachOnce(toPty') /\ EachOnce(toScreen') /\ Claims' = Claims
           /\ todo[1].step # "tell" => Starting = {}
<1>0. UNCHANGED <<toPty, toWriter, screen, user>> /\ todo # <<>>
  BY DEF PtyContinues
<1>1. ContinueOK(todo[1])
  BY ContinuesFacts
<1>2. Starting = Told(todo[1])
  BY <1>0, TypeParts, StartsFirst DEF ClaimsOK
<1>3. IsTail(todo', todo)
  BY <1>1 DEF ContinueOK
<1>4. Starting' = {}
  <2>1. \A k \in DOMAIN todo' : k + 1 \in DOMAIN todo /\ k + 1 # 1 /\ todo'[k] = todo[k + 1]
    BY <1>3 DEF IsTail
  <2>2. \A k \in DOMAIN todo' : Told(todo'[k]) = {}
    BY <2>1 DEF ClaimsOK, FirstTells
  <2>. QED  BY <2>2 DEF Starting
<1>5. OnScreen' = OnScreen /\ ToClose' = ToClose /\ EachOnce(toPty')
  BY <1>0 DEF OnScreen, ToClose, screen, ClaimsOK
<1>6. Coming' = Coming \cup Told(todo[1]) /\ EachOnce(toScreen')
  <2>1. CASE todo[1].step = "tell"
    <3>1. IsAppend(toScreen', toScreen, todo[1].msg) /\ Told(todo[1]) = Named(todo[1].msg)
      BY <1>1, <2>1 DEF ContinueOK, Told
    <3>2. Named(todo[1].msg) \cap Coming = {}
      BY <1>2, <3>1 DEF ClaimsOK, ClaimsFit
    <3>. QED  BY <3>1, <3>2, ScreenIsSent
  <2>2. CASE todo[1].step # "tell"
    <3>1. toScreen' = toScreen /\ Told(todo[1]) = {}
      BY <1>1, <2>2 DEF ContinueOK, Told
    <3>. QED  BY <3>1 DEF Coming, ClaimsOK
  <2>. QED  BY <2>1, <2>2
<1>7. Claims' = Claims
  BY <1>2, <1>4, <1>5, <1>6 DEF Claims
<1>8. todo[1].step # "tell" => Told(todo[1]) = {}
  BY DEF Told
<1>. QED  BY <1>2, <1>4, <1>5, <1>6, <1>7, <1>8

LEMMA ContinuesClaims ==
    ASSUME TypeInv, ClaimsOK, NumbersOK, PtyContinues
    PROVE  ClaimsOK' /\ NumbersOK'
<1>0. UNCHANGED <<toPty, toWriter, screen, user>> /\ todo # <<>>
  BY DEF PtyContinues
<1>1. ContinueOK(todo[1]) /\ RunsStay(runs', runs)
  BY ContinuesFacts
<1>2. /\ OnScreen' = OnScreen /\ ToClose' = ToClose /\ Starting' = {}
      /\ Starting = Told(todo[1]) /\ Coming' = Coming \cup Told(todo[1])
      /\ EachOnce(toPty') /\ EachOnce(toScreen') /\ Claims' = Claims
  BY ContinuesMoves
<1>3. UNCHANGED <<shown, asked>>
  BY <1>0 DEF screen, user
<1>4. 1 \in DOMAIN todo /\ IsTail(todo', todo)
  BY <1>0, <1>1, TypeParts, FirstIsThere DEF ContinueOK
<1>5. /\ DOMAIN child' \subseteq DOMAIN child
      /\ \/ UNCHANGED <<table, child>>
         \/ /\ todo[1].step = "free" /\ Loses(table', table, todo[1].id)
            /\ Loses(child', child, todo[1].id)
  BY <1>1 DEF ContinueOK, Loses
<1>6. \A a \in Claims' : a[1] \in DOMAIN table'
  <2>1. \A a \in Claims' : a[1] \in DOMAIN table
    BY <1>2 DEF ClaimsOK, ClaimsFit
  <2>2. todo[1].step = "free" => \A a \in Claims' : a[1] # todo[1].id
    BY <1>2, <1>4 DEF ClaimsOK, FreesNobodys
  <2>. QED  BY <1>5, <2>1, <2>2 DEF Loses
<1>7. ClaimsFit'
  <2>1. OneToOne(Claims')
    BY <1>2 DEF ClaimsOK, ClaimsFit
  <2>. QED  BY <1>2, <1>3, <1>6, <2>1 DEF ClaimsOK, ClaimsFit
<1>8. FirstTells' /\ FreesNobodys'
  BY <1>2, <1>4, <1>5, StepsKept DEF ClaimsOK
<1>9. ChildrenHaveIds'
  <2>1. \A x \in DOMAIN child : child[x] \in DOMAIN runs
    BY TypeParts DEF Maps
  <2>2. \A x \in DOMAIN child : x \in DOMAIN table /\ runs'[child[x]].id = x
    BY <1>1, <2>1 DEF RunsStay, RunStays, ClaimsOK, ChildrenHaveIds
  <2>. QED  BY <1>5, <2>2 DEF Loses, ChildrenHaveIds
<1>10. Used' \subseteq Used
  <2>1. shown' \subseteq Used /\ \A b \in Claims' : b[2] \in Used
    BY <1>2, <1>3 DEF Used
  <2>. QED  BY <1>1, <2>1, UsedKept
<1>11. asked \in Nat
  BY TypeParts, BoundsAssumption DEF UserType
<1>12. NumbersOK'
  BY <1>0, <1>3, <1>10, <1>11, NumbersKept
<1>. QED  BY <1>2, <1>7, <1>8, <1>9, <1>12 DEF ClaimsOK

(* What a process and its listener say to the screen                       *)
LEMMA ProcessSends ==
    ASSUME TypeInv, NEW r \in DOMAIN runs, Process(r)
    PROVE  /\ RunsStay(runs', runs) /\ UNCHANGED <<table, child, toPty, todo, toWriter, screen, user>>
           /\ \/ /\ Ends(r) \/ ListenerEnds(r)
                 /\ toScreen' = toScreen
              \/ /\ Reports(r)
                 /\ \E m : /\ m.do \in {"hold", "exited"} /\ m.id = runs[r].id /\ m.run = r
                           /\ m.do = "hold" => m.tab = runs[r].tab
                           /\ IsAppend(toScreen', toScreen, m)
              \/ /\ ListenerReads(r)
                 /\ \E m : /\ m.do = "bytes" /\ m.id = runs[r].id /\ m.run = r
                           /\ IsAppend(toScreen', toScreen, m)
<1>0. ResourcesType(table, child, runs) /\ runs \in Seq(RunSet) /\ toScreen \in Seq(ScreenMessages(runs))
  BY TypeParts
<1>1. /\ runs[r].id \in Nat /\ runs[r].tab \in BOOLEAN
  BY <1>0, RunFields
<1>2. /\ PtyBytes(runs[r].id, r) \in ScreenMessages(runs)
      /\ HoldPane(runs[r].id, r, runs[r].tab) \in ScreenMessages(runs)
      /\ ClosePane(runs[r].id, r) \in ScreenMessages(runs)
  BY <1>1, MadeMessages
<1>3. CASE Ends(r)
  BY <1>0, <1>3, EndsFacts DEF OneChanges, Ends
<1>4. CASE ListenerEnds(r)
  BY <1>0, <1>4, ListenerEndsFacts DEF OneChanges, ListenerEnds
<1>5. CASE Reports(r)
  <2>. DEFINE m == IF HoldsOnClose(runs[r].cmd) THEN HoldPane(runs[r].id, r, runs[r].tab)
                                                ELSE ClosePane(runs[r].id, r)
  <2>1. RunsStay(runs', runs) /\ UNCHANGED <<table, child, toPty, todo, toWriter, screen, user>>
    BY <1>0, <1>5, ReportsFacts DEF OneChanges, Reports
  <2>2. toScreen' = Append(toScreen, m) /\ m \in ScreenMessages(runs)
    BY <1>2, <1>5 DEF Reports
  <2>3. IsAppend(toScreen', toScreen, m)
    BY <1>0, <2>2, Appends
  <2>4. /\ m.do \in {"hold", "exited"} /\ m.id = runs[r].id /\ m.run = r
        /\ m.do = "hold" => m.tab = runs[r].tab
    BY DEF HoldPane, ClosePane
  <2>. HIDE DEF m
  <2>. QED  BY <1>5, <2>1, <2>3, <2>4
<1>6. CASE ListenerReads(r)
  <2>. DEFINE m == PtyBytes(runs[r].id, r)
  <2>1. RunsStay(runs', runs) /\ UNCHANGED <<table, child, toPty, todo, toWriter, screen, user>>
    BY <1>0, <1>6, ReadsFacts DEF OneChanges, ListenerReads
  <2>2. toScreen' = Append(toScreen, m) /\ m \in ScreenMessages(runs)
    BY <1>2, <1>6 DEF ListenerReads
  <2>3. IsAppend(toScreen', toScreen, m)
    BY <1>0, <2>2, Appends
  <2>4. m.do = "bytes" /\ m.id = runs[r].id /\ m.run = r
    BY DEF PtyBytes
  <2>. HIDE DEF m
  <2>. QED  BY <1>6, <2>1, <2>3, <2>4
<1>. QED  BY <1>3, <1>4, <1>5, <1>6 DEF Process

LEMMA AskedIsNat ==
    ASSUME TypeInv
    PROVE  asked \in Nat /\ First \in Nat
<1>1. MaxRequests \in Nat /\ asked \in 0 .. MaxRequests
  BY TypeParts, BoundsAssumption DEF UserType
<1>. QED  BY <1>1, LayoutTypes

(* Whoever leaves alone what is claimed                                    *)
LEMMA OthersMove ==
    ASSUME UNCHANGED <<toPty, todo, screen>>
    PROVE  OnScreen' = OnScreen /\ ToClose' = ToClose /\ Starting' = Starting
BY DEF OnScreen, ToClose, Starting, screen

LEMMA ProcessMoves ==
    ASSUME TypeInv, ClaimsOK, NEW r \in DOMAIN runs, Process(r)
    PROVE  /\ OnScreen' = OnScreen /\ ToClose' = ToClose /\ Starting' = Starting /\ Coming' = Coming
           /\ EachOnce(toScreen')
<1>1. /\ UNCHANGED <<table, child, toPty, todo, toWriter, screen, user>>
      /\ \/ toScreen' = toScreen
         \/ \E m : m.do \in {"hold", "exited", "bytes"} /\ IsAppend(toScreen', toScreen, m)
  BY ProcessSends
<1>2. Coming' = Coming /\ EachOnce(toScreen')
  <2>1. CASE toScreen' = toScreen
    BY <2>1 DEF Coming, ClaimsOK
  <2>2. CASE \E m : m.do \in {"hold", "exited", "bytes"} /\ IsAppend(toScreen', toScreen, m)
    <3>1. PICK m : m.do \in {"hold", "exited", "bytes"} /\ IsAppend(toScreen', toScreen, m)
      BY <2>2
    <3>2. Named(m) = {}
      BY <3>1, NamedFacts
    <3>. QED  BY <3>1, <3>2, ScreenIsSent
  <2>. QED  BY <1>1, <2>1, <2>2
<1>. QED  BY <1>1, <1>2, OthersMove

LEMMA ProcessClaims ==
    ASSUME TypeInv, ClaimsOK, NumbersOK, NEW r \in DOMAIN runs, Process(r)
    PROVE  ClaimsOK' /\ NumbersOK'
<1>1. /\ UNCHANGED <<table, child, toPty, todo, toWriter, screen, user>> /\ RunsStay(runs', runs)
  BY ProcessSends
<1>2. SameClaims /\ EachOnce(toScreen')
  BY ProcessMoves DEF SameClaims
<1>3. UNCHANGED <<table, child, shown, asked>> /\ EachOnce(toPty')
  BY <1>1 DEF screen, user, ClaimsOK
<1>. QED  BY <1>1, <1>2, <1>3, AskedIsNat, ClaimsKept

LEMMA WriterClaims ==
    ASSUME TypeInv, ClaimsOK, NumbersOK, WriterApplies
    PROVE  ClaimsOK' /\ NumbersOK'
<1>1. /\ UNCHANGED <<table, child, toPty, todo, toScreen, screen, user>> /\ RunsStay(runs', runs)
  BY TypeParts, WriterFacts DEF WriterApplies, SizedRuns
<1>2. SameClaims /\ EachOnce(toScreen')
  BY <1>1, OthersMove DEF SameClaims, Coming, ClaimsOK
<1>3. UNCHANGED <<table, child, shown, asked>> /\ EachOnce(toPty')
  BY <1>1 DEF screen, user, ClaimsOK
<1>. QED  BY <1>1, <1>2, <1>3, AskedIsNat, ClaimsKept

(* The screen                                                              *)
LEMMA SystemStays ==
    ASSUME TypeInv, UNCHANGED system
    PROVE  RunsStay(runs', runs) /\ UNCHANGED <<table, child, runs>>
BY TypeParts DEF system, RunsStay, RunStays

(* A pane is added, or refused                                             *)
NewPaneGoes(t) ==
    LET a == <<t.id, t.of>> IN
    /\ a \in Coming /\ Coming' = Coming \ {a} /\ Starting' = Starting
    /\ shown' = shown \cup {t.of}
    /\ t.id \notin DOMAIN panes /\ t.of \notin shown
    /\ EachOnce(toPty') /\ EachOnce(toScreen')
    /\ \/ /\ toPty' = toPty /\ Extends(panes', panes, t.id, Pane(t)) /\ LayOut(panes')
          /\ OnScreen' = OnScreen \cup {a} /\ ToClose' = ToClose
       \/ /\ IsAppend(toPty', toPty, Close(t.id, t.of)) /\ panes' = panes /\ toWriter' = toWriter
          /\ OnScreen' = OnScreen /\ ToClose' = ToClose \cup {a}

LEMMA NewPaneMoves ==
    ASSUME TypeInv, ClaimsOK, ScreenNewPane
    PROVE  NewPaneGoes(toScreen[1].panes[1]) /\ toScreen[1].panes[1] \in Terminals
<1>. DEFINE t == toScreen[1].panes[1]
            a == <<t.id, t.of>>
<1>0. Receives("new") /\ UNCHANGED <<system, todo, pending, buffered, waiting, area, blocked, asked, pressed>>
  BY DEF ScreenNewPane
<1>1. /\ toScreen[1] \in ScreenMessages(runs) /\ toScreen[1].do = "new" /\ Head(toScreen) = toScreen[1]
  BY <1>0, TypeParts, ReceivesFacts
<1>2. toScreen[1].panes = <<t>> /\ t \in Terminals /\ t.id \in Nat /\ t.of \in Requests /\ Pane(t) \in PaneSet /\ Pane(t).of = t.of
  BY <1>1, ScreenMessageType, TerminalFields
<1>3. /\ shown' = shown \cup {t.of}
      /\ \/ LayOut(With(panes, t.id, Pane(t))) /\ UNCHANGED toPty
         \/ toPty' = Append(toPty, Close(t.id, t.of)) /\ UNCHANGED <<panes, toWriter>>
  BY <1>1 DEF ScreenNewPane
<1>4. Named(toScreen[1]) = {a}
  BY <1>1, <1>2, NamedFacts
<1>5. a \in Coming /\ Coming' = Coming \ {a} /\ EachOnce(toScreen')
  BY <1>0, <1>4, ScreenTakes
<1>. HIDE DEF t
<1>6. t.of \notin shown
  BY <1>5 DEF ClaimsOK, ClaimsFit
<1>7. t.id \notin DOMAIN panes
  <2>1. SUFFICES ASSUME t.id \in DOMAIN panes
                 PROVE  FALSE
    OBVIOUS
  <2>2. <<t.id, panes[t.id].of>> \in Claims /\ a \in Claims
    BY <1>5, <2>1 DEF Claims, OnScreen
  <2>3. panes[t.id].of = t.of
    BY <2>2 DEF ClaimsOK, ClaimsFit, OneToOne
  <2>. QED  BY <1>6, <2>1, <2>3, TypeParts
<1>8. Starting' = Starting
  BY <1>0 DEF Starting
<1>9. CASE LayOut(With(panes, t.id, Pane(t))) /\ UNCHANGED toPty
  <2>1. Extends(With(panes, t.id, Pane(t)), panes, t.id, Pane(t))
    BY <1>2, TypeParts, WithFacts
  <2>2. panes' = With(panes, t.id, Pane(t))
    BY <1>9 DEF LayOut
  <2>3. OnScreen' = OnScreen \cup {a}
    BY <1>2, <1>7, <2>1, <2>2, PaneAdded
  <2>4. ToClose' = ToClose /\ EachOnce(toPty')
    BY <1>9 DEF ToClose, ClaimsOK
  <2>5. LayOut(panes')
    BY <1>9, <2>2
  <2>. QED  BY <1>2, <1>3, <1>5, <1>6, <1>7, <1>8, <1>9, <2>1, <2>2, <2>3, <2>4, <2>5 DEF NewPaneGoes, t
<1>10. CASE toPty' = Append(toPty, Close(t.id, t.of)) /\ UNCHANGED <<panes, toWriter>>
  <2>1. Close(t.id, t.of) \in PtyMessages /\ Named(Close(t.id, t.of)) = {a}
    BY <1>2, MadeRequests, NamedFacts
  <2>2. a \notin ToClose
    BY <1>6 DEF ClaimsOK, ClaimsFit
  <2>3. /\ EachOnce(toPty') /\ ToClose' = ToClose \cup {a}
        /\ IsAppend(toPty', toPty, Close(t.id, t.of))
    BY <1>10, <2>1, <2>2, PtyIsSent
  <2>4. OnScreen' = OnScreen
    BY <1>10 DEF OnScreen
  <2>. QED  BY <1>2, <1>3, <1>5, <1>6, <1>7, <1>8, <1>10, <2>3, <2>4 DEF NewPaneGoes, t
<1>. QED  BY <1>3, <1>9, <1>10

LEMMA NewPaneClaims ==
    ASSUME TypeInv, ClaimsOK, NumbersOK, ScreenNewPane
    PROVE  ClaimsOK' /\ NumbersOK' /\ Claims' = Claims
<1>. DEFINE t == toScreen[1].panes[1]
            a == <<t.id, t.of>>
<1>0. Receives("new") /\ UNCHANGED <<system, todo, pending, buffered, waiting, area, blocked, asked, pressed>>
  BY DEF ScreenNewPane
<1>1. NewPaneGoes(t)
  BY NewPaneMoves
<1>. HIDE DEF t
<1>2. RunsStay(runs', runs) /\ UNCHANGED <<table, child, runs>>
  BY <1>0, SystemStays
<1>3. /\ a \in Coming /\ Coming' = Coming \ {a} /\ Starting' = Starting
      /\ shown' = shown \cup {t.of} /\ t.of \notin shown
      /\ EachOnce(toPty') /\ EachOnce(toScreen')
      /\ \/ OnScreen' = OnScreen \cup {a} /\ ToClose' = ToClose /\ toPty' = toPty
         \/ /\ OnScreen' = OnScreen /\ ToClose' = ToClose \cup {a}
            /\ IsAppend(toPty', toPty, Close(t.id, t.of))
  BY <1>1 DEF NewPaneGoes
<1>4. Claims' = Claims
  BY <1>3 DEF Claims
<1>5. ClaimsFit'
  <2>1. OneToOne(Claims') /\ \A b \in Claims' : b[1] \in DOMAIN table'
    BY <1>2, <1>4 DEF ClaimsOK, ClaimsFit
  <2>2. a \notin OnScreen /\ a \notin ToClose /\ a \notin Starting
    BY <1>3 DEF ClaimsOK, ClaimsFit
  <2>3. OnScreen' \cap ToClose' = {} /\ Coming' \cap Starting' = {}
    BY <1>3, <2>2 DEF ClaimsOK, ClaimsFit
  <2>4. \A b \in OnScreen' \cup ToClose' : b[2] \in shown'
    BY <1>3 DEF ClaimsOK, ClaimsFit
  <2>5. \A b \in Coming' \cup Starting' : b[2] \notin shown'
    <3>1. \A b \in Coming' \cup Starting' : b \in Claims /\ b # a /\ b[2] \notin shown
      BY <1>3, <2>2 DEF ClaimsOK, ClaimsFit, Claims
    <3>2. a \in Claims
      BY <1>3 DEF Claims
    <3>3. \A b \in Coming' \cup Starting' : b[2] # t.of
      BY <3>1, <3>2 DEF ClaimsOK, ClaimsFit, OneToOne
    <3>. QED  BY <1>3, <3>1, <3>3
  <2>. QED  BY <2>1, <2>3, <2>4, <2>5 DEF ClaimsFit
<1>6. FirstTells' /\ FreesNobodys'
  BY <1>0, <1>2, <1>4, StepsKept DEF ClaimsOK
<1>7. ChildrenHaveIds'
  BY <1>2, ChildrenKept DEF ClaimsOK
<1>8. Used' \subseteq Used
  <2>0. t.of \in Used
    <3>1. a \in Claims /\ a[2] = t.of
      BY <1>3 DEF Claims
    <3>. QED  BY <3>1 DEF Used
  <2>1. shown' \subseteq Used /\ \A b \in Claims' : b[2] \in Used
    BY <1>3, <1>4, <2>0 DEF Used
  <2>. QED  BY <1>2, <2>1, UsedKept
<1>9. NumbersOK'
  <2>1. Close(t.id, t.of).do # "spawn"
    BY DEF Close
  <2>2. toPty' = toPty \/ \E m : m.do # "spawn" /\ IsAppend(toPty', toPty, m)
    BY <1>3, <2>1
  <2>. QED  BY <1>0, <1>8, <2>2, AskedIsNat, NumbersKept
<1>. QED  BY <1>3, <1>4, <1>5, <1>6, <1>7, <1>9 DEF ClaimsOK

(* The layout is applied.                                                  *)
LayoutGoes(ts) ==
    LET L == {<<ts[i].id, ts[i].of>> : i \in DOMAIN ts} IN
    /\ L \subseteq Coming /\ Coming' = Coming \ L /\ Starting' = Starting /\ ToClose' = ToClose
    /\ shown' = shown \cup {a[2] : a \in L}
    /\ OnScreen' = L /\ EachOnce(toScreen')
    /\ DOMAIN panes' = {ts[i].id : i \in DOMAIN ts} /\ LayOut(panes')
    /\ \A id \in DOMAIN panes' : \E i \in DOMAIN ts :
          /\ ts[i].id = id /\ panes'[id].of = ts[i].of /\ panes'[id].cmd = ts[i].cmd
          /\ panes'[id].held <=> ts[i].cmd = "suspended" \/ id \in {m.id : m \in Range(buffered)}

LEMMA ApplyLayoutMoves ==
    ASSUME TypeInv, ClaimsOK, ScreenApplyLayout
    PROVE  LayoutGoes(toScreen[1].panes) /\ toScreen[1].panes \in Seq(Terminals)
<1>. DEFINE ts == toScreen[1].panes
            L == {<<ts[i].id, ts[i].of>> : i \in DOMAIN ts}
            ids == {m.id : m \in Range(buffered)}
<1>0. /\ Receives("layout")
      /\ UNCHANGED <<system, toPty, todo, waiting, area, blocked, asked, pressed>>
  BY DEF ScreenApplyLayout
<1>1. /\ toScreen[1] \in ScreenMessages(runs) /\ toScreen[1].do = "layout" /\ Head(toScreen) = toScreen[1]
  BY <1>0, TypeParts, ReceivesFacts
<1>2. ts \in Seq(Terminals)
  BY <1>1, ScreenMessageType
<1>3. /\ LayOut(Held(Laid(ts), ids))
      /\ shown' = shown \cup {ts[i].of : i \in DOMAIN ts}
  <2>1. /\ LayOut(Held(Laid(Head(toScreen).panes), {m.id : m \in Range(buffered)}))
        /\ shown' = shown \cup {Head(toScreen).panes[i].of : i \in DOMAIN Head(toScreen).panes}
    BY Zenon DEF ScreenApplyLayout, Laid
  <2>. QED  BY <1>1, <2>1
<1>4. Named(toScreen[1]) = L
  BY <1>1 DEF Named
<1>5. L \subseteq Coming /\ Coming' = Coming \ L /\ EachOnce(toScreen')
  BY <1>0, <1>4, ScreenTakes
<1>. HIDE DEF ts, ids
<1>6. /\ Maps(Laid(ts), PaneSet) /\ DOMAIN Laid(ts) = {ts[i].id : i \in DOMAIN ts}
      /\ \A id \in DOMAIN Laid(ts) : \E i \in DOMAIN ts : ts[i].id = id /\ Laid(ts)[id] = Pane(ts[i])
  BY <1>2, LaidFacts
<1>7. HeldPanes(Held(Laid(ts), ids), Laid(ts), ids)
  BY <1>6, HeldFacts
<1>8. panes' = Held(Laid(ts), ids) /\ LayOut(panes')
  BY <1>3 DEF LayOut
<1>9. /\ DOMAIN panes' = {ts[i].id : i \in DOMAIN ts}
      /\ \A id \in DOMAIN Laid(ts) :
           /\ panes'[id].of = Laid(ts)[id].of /\ panes'[id].cmd = Laid(ts)[id].cmd
           /\ panes'[id].held <=> Laid(ts)[id].held \/ id \in ids
  BY <1>6, <1>7, <1>8 DEF HeldPanes
<1>10. \A i \in DOMAIN ts : /\ Pane(ts[i]).of = ts[i].of /\ Pane(ts[i]).cmd = ts[i].cmd
                            /\ Pane(ts[i]).held = (ts[i].cmd = "suspended")
  <2>1. \A i \in DOMAIN ts : ts[i] \in Terminals
    BY <1>2
  <2>. QED  BY <2>1, TerminalFields
<1>11. ASSUME NEW id \in DOMAIN panes'
       PROVE  \E i \in DOMAIN ts :
                 /\ ts[i].id = id /\ panes'[id].of = ts[i].of /\ panes'[id].cmd = ts[i].cmd
                 /\ panes'[id].held <=> ts[i].cmd = "suspended" \/ id \in ids
  <2>1. PICK i \in DOMAIN ts : ts[i].id = id /\ Laid(ts)[id] = Pane(ts[i])
    BY <1>6, <1>9
  <2>2. id \in DOMAIN Laid(ts)
    BY <1>6, <1>9
  <2>3. panes'[id].of = Pane(ts[i]).of /\ panes'[id].cmd = Pane(ts[i]).cmd
    BY <1>9, <2>1, <2>2
  <2>4. panes'[id].of = ts[i].of /\ panes'[id].cmd = ts[i].cmd
    BY <1>10, <2>3
  <2>5. panes'[id].held <=> Pane(ts[i]).held \/ id \in ids
    BY Zenon, <1>9, <2>1, <2>2
  <2>6. Pane(ts[i]).held <=> ts[i].cmd = "suspended"
    BY Zenon, <1>10
  <2>7. panes'[id].held <=> ts[i].cmd = "suspended" \/ id \in ids
    BY Zenon, <2>5, <2>6
  <2>. QED  BY Zenon, <2>1, <2>4, <2>7
<1>12. OnScreen' = L
  <2>1. \A i, j \in DOMAIN ts : ts[i].id = ts[j].id => ts[i].of = ts[j].of
    <3>. SUFFICES ASSUME NEW i \in DOMAIN ts, NEW j \in DOMAIN ts, ts[i].id = ts[j].id
                  PROVE  ts[i].of = ts[j].of
      OBVIOUS
    <3>1. <<ts[i].id, ts[i].of>> \in Claims /\ <<ts[j].id, ts[j].of>> \in Claims
      BY <1>5 DEF Claims
    <3>. QED  BY <3>1 DEF ClaimsOK, ClaimsFit, OneToOne
  <2>2. \A id \in DOMAIN panes' : <<id, panes'[id].of>> \in L
    BY <1>11
  <2>3. \A i \in DOMAIN ts : ts[i].id \in DOMAIN panes' /\ panes'[ts[i].id].of = ts[i].of
    <3>. SUFFICES ASSUME NEW i \in DOMAIN ts
                  PROVE  ts[i].id \in DOMAIN panes' /\ panes'[ts[i].id].of = ts[i].of
      OBVIOUS
    <3>1. ts[i].id \in DOMAIN panes'
      BY <1>9
    <3>2. PICK j \in DOMAIN ts : ts[j].id = ts[i].id /\ panes'[ts[i].id].of = ts[j].of
      BY <1>11, <3>1
    <3>. QED  BY <2>1, <3>1, <3>2
  <2>4. OnScreen' = {<<id, panes'[id].of>> : id \in DOMAIN panes'}
    BY DEF OnScreen
  <2>. QED  BY <2>2, <2>3, <2>4
<1>13. shown' = shown \cup {a[2] : a \in L}
  <2>1. \A x \in {a[2] : a \in L} : x \in {ts[i].of : i \in DOMAIN ts}
    OBVIOUS
  <2>2. ASSUME NEW i \in DOMAIN ts
        PROVE  ts[i].of \in {a[2] : a \in L}
    <3>1. <<ts[i].id, ts[i].of>> \in L /\ <<ts[i].id, ts[i].of>>[2] = ts[i].of
      OBVIOUS
    <3>. QED  BY <3>1
  <2>3. {a[2] : a \in L} = {ts[i].of : i \in DOMAIN ts}
    BY <2>1, <2>2
  <2>. QED  BY <1>3, <2>3
<1>14. Starting' = Starting /\ ToClose' = ToClose
  BY <1>0 DEF Starting, ToClose
<1>. QED  BY <1>2, <1>5, <1>8, <1>9, <1>11, <1>12, <1>13, <1>14 DEF LayoutGoes, ts, ids

LEMMA ApplyLayoutClaims ==
    ASSUME TypeInv, ClaimsOK, NumbersOK, ScreenApplyLayout
    PROVE  ClaimsOK' /\ NumbersOK' /\ Claims' \subseteq Claims
<1>. DEFINE ts == toScreen[1].panes
            L == {<<ts[i].id, ts[i].of>> : i \in DOMAIN ts}
<1>0. /\ Receives("layout")
      /\ UNCHANGED <<system, toPty, todo, waiting, area, blocked, asked, pressed>>
  BY DEF ScreenApplyLayout
<1>1. /\ L \subseteq Coming /\ Coming' = Coming \ L /\ Starting' = Starting /\ ToClose' = ToClose
      /\ shown' = shown \cup {a[2] : a \in L} /\ OnScreen' = L /\ EachOnce(toScreen')
  BY ApplyLayoutMoves DEF LayoutGoes
<1>. HIDE DEF L
<1>2. RunsStay(runs', runs) /\ UNCHANGED <<table, child, runs>>
  BY <1>0, SystemStays
<1>3. Claims' \subseteq Claims
  BY <1>1 DEF Claims
<1>4. ClaimsFit'
  <2>1. OneToOne(Claims')
    BY <1>3, OneToOneLess DEF ClaimsOK, ClaimsFit
  <2>2. \A b \in Claims' : b[1] \in DOMAIN table'
    BY <1>2, <1>3 DEF ClaimsOK, ClaimsFit
  <2>3. \A b \in L : b[2] \notin shown /\ b \in Claims /\ b \notin ToClose /\ b \notin Starting
    BY <1>1 DEF ClaimsOK, ClaimsFit, Claims
  <2>4. OnScreen' \cap ToClose' = {} /\ Coming' \cap Starting' = {}
    BY <1>1, <2>3 DEF ClaimsOK, ClaimsFit
  <2>5. \A b \in OnScreen' \cup ToClose' : b[2] \in shown'
    BY <1>1 DEF ClaimsOK, ClaimsFit
  <2>6. \A b \in Coming' \cup Starting' : b[2] \notin shown'
    <3>1. \A b \in Coming' \cup Starting' : b \in Claims /\ b \notin L /\ b[2] \notin shown
      BY <1>1, <2>3 DEF ClaimsOK, ClaimsFit, Claims
    <3>2. \A b \in Coming' \cup Starting' : \A a \in L : b[2] # a[2]
      BY <2>3, <3>1 DEF ClaimsOK, ClaimsFit, OneToOne
    <3>. QED  BY <1>1, <3>1, <3>2
  <2>. QED  BY <2>1, <2>2, <2>4, <2>5, <2>6 DEF ClaimsFit
<1>5. FirstTells' /\ FreesNobodys'
  BY <1>0, <1>2, <1>3, StepsKept DEF ClaimsOK
<1>6. ChildrenHaveIds'
  BY <1>2, ChildrenKept DEF ClaimsOK
<1>7. Used' \subseteq Used
  <2>1. \A b \in Claims' : b[2] \in Used
    BY <1>3 DEF Used
  <2>2. \A b \in L : b[2] \in Used
    BY <1>1 DEF Used, Claims
  <2>3. shown' \subseteq Used
    BY <1>1, <2>2 DEF Used
  <2>. QED  BY <1>2, <2>1, <2>3, UsedKept
<1>8. NumbersOK'
  BY <1>0, <1>7, AskedIsNat, NumbersKept
<1>9. EachOnce(toPty')
  BY <1>0 DEF ClaimsOK
<1>. QED  BY <1>1, <1>3, <1>4, <1>5, <1>6, <1>8, <1>9 DEF ClaimsOK

(* Messages that only touch the panes that are there                       *)
LEMMA ScreenClaims ==
    ASSUME TypeInv, ClaimsOK, NumbersOK, NEW do, Receives(do), do \notin {"new", "layout"},
           UNCHANGED <<system, todo, shown, asked>>,
           OnScreen' \subseteq OnScreen,
           \/ toPty' = toPty
           \/ \E m : /\ m.do # "spawn" /\ m.do # "close" /\ IsAppend(toPty', toPty, m)
                     /\ m.do \notin {"new", "layout"}
    PROVE  ClaimsOK' /\ NumbersOK'
<1>1. EachOnce(toScreen') /\ Coming' = Coming
  BY ScreenTakes
<1>2. ToClose' = ToClose /\ EachOnce(toPty')
  <2>1. CASE toPty' = toPty
    BY <2>1 DEF ToClose, ClaimsOK
  <2>2. CASE \E m : /\ m.do # "spawn" /\ m.do # "close" /\ IsAppend(toPty', toPty, m)
                    /\ m.do \notin {"new", "layout"}
    <3>1. PICK m : /\ m.do # "spawn" /\ m.do # "close" /\ IsAppend(toPty', toPty, m)
                   /\ m.do \notin {"new", "layout"}
      BY <2>2
    <3>2. Named(m) = {}
      BY <3>1, NamedFacts
    <3>3. Grows(toPty', toPty, m)
      BY <3>1, <3>2, NamedAppend DEF ClaimsOK
    <3>. QED  BY <3>2, <3>3 DEF Grows, ToClose
  <2>. QED  BY <2>1, <2>2
<1>3. SameClaims
  BY <1>1, <1>2 DEF SameClaims, Starting
<1>4. RunsStay(runs', runs) /\ UNCHANGED <<table, child, runs>>
  BY SystemStays
<1>5. toPty' = toPty \/ \E m : m.do # "spawn" /\ IsAppend(toPty', toPty, m)
  OBVIOUS
<1>. QED  BY <1>1, <1>2, <1>3, <1>4, <1>5, AskedIsNat, ClaimsKept

LEMMA HoldPaneMoves ==
    ASSUME TypeInv, ScreenHoldPane
    PROVE  /\ OnScreen' = OnScreen /\ DOMAIN panes' = DOMAIN panes
           /\ IF pending THEN panes' = panes
              ELSE HeldPanes(panes', panes, {toScreen[1].id}) /\ buffered' = buffered
<1>1. Head(toScreen) = toScreen[1]
  BY TypeParts, ReceivesFacts DEF ScreenHoldPane
<1>2. CASE pending
  <2>1. panes' = panes
    BY <1>2 DEF ScreenHoldPane
  <2>. QED  BY <1>2, <2>1, SamePanes
<1>3. CASE ~pending
  <2>1. panes' = Held(panes, {toScreen[1].id}) /\ buffered' = buffered
    BY <1>1, <1>3 DEF ScreenHoldPane
  <2>2. HeldPanes(panes', panes, {toScreen[1].id})
    BY <2>1, TypeParts, HeldFacts
  <2>3. OnScreen' = OnScreen /\ DOMAIN panes' = DOMAIN panes
    BY <2>2, SamePanes DEF HeldPanes
  <2>. QED  BY <1>3, <2>1, <2>2, <2>3
<1>. QED  BY <1>2, <1>3

LEMMA ClosePaneMoves ==
    ASSUME TypeInv, ScreenClosePane
    PROVE  LET id == toScreen[1].id IN
           IF id \in DOMAIN panes
           THEN /\ OnScreen' = OnScreen \ {<<id, panes[id].of>>}
                /\ Loses(panes', panes, id) /\ LayOut(panes')
           ELSE OnScreen' = OnScreen /\ panes' = panes /\ toWriter' = toWriter
<1>. DEFINE id == toScreen[1].id
<1>1. Head(toScreen) = toScreen[1]
  BY TypeParts, ReceivesFacts DEF ScreenClosePane
<1>2. CASE id \in DOMAIN panes
  <2>1. LayOut(Without(panes, id))
    BY <1>1, <1>2 DEF ScreenClosePane
  <2>2. Loses(panes', panes, id) /\ panes' = Without(panes, id)
    BY <1>2, <2>1, LessPanes
  <2>3. LayOut(panes')
    BY <2>1, <2>2
  <2>. QED  BY <1>2, <2>2, <2>3, PaneGone
<1>3. CASE id \notin DOMAIN panes
  <2>1. panes' = panes /\ toWriter' = toWriter
    BY <1>1, <1>3 DEF ScreenClosePane
  <2>. QED  BY <1>3, <2>1, SamePanes
<1>. QED  BY <1>2, <1>3

(* The user's pane is closed, and the pty thread is told.                  *)
FocusedGoes(id) ==
    LET a == <<id, panes[id].of>> IN
    /\ OnScreen' = OnScreen \ {a} /\ a \in OnScreen /\ ToClose' = ToClose \cup {a}
    /\ EachOnce(toPty') /\ IsAppend(toPty', toPty, Close(id, panes[id].of))
    /\ Loses(panes', panes, id) /\ LayOut(panes')

LEMMA CloseFocusedMoves ==
    ASSUME TypeInv, ClaimsOK, ScreenCloseFocusedPane
    PROVE  \/ /\ OnScreen' = OnScreen
              /\ UNCHANGED <<panes, toWriter, toPty>>
           \/ \E id \in DOMAIN panes : FocusedGoes(id)
<1>1. \/ UNCHANGED <<panes, toWriter, toPty>>
      \/ \E id \in DOMAIN panes :
            LayOut(Without(panes, id)) /\ toPty' = Append(toPty, Close(id, panes[id].of))
  BY DEF ScreenCloseFocusedPane
<1>2. CASE UNCHANGED <<panes, toWriter, toPty>>
  BY <1>2, SamePanes
<1>3. ASSUME NEW id \in DOMAIN panes,
             LayOut(Without(panes, id)) /\ toPty' = Append(toPty, Close(id, panes[id].of))
      PROVE  FocusedGoes(id)
  <2>1. Loses(panes', panes, id) /\ panes' = Without(panes, id)
    BY <1>3, LessPanes
  <2>2. /\ OnScreen' = OnScreen \ {<<id, panes[id].of>>} /\ <<id, panes[id].of>> \in OnScreen
    BY <2>1, PaneGone
  <2>3. id \in Nat /\ panes[id].of \in Requests
    BY TypeParts, PaneFields
  <2>4. /\ Close(id, panes[id].of) \in PtyMessages
        /\ Named(Close(id, panes[id].of)) = {<<id, panes[id].of>>}
    BY <2>3, MadeRequests, NamedFacts
  <2>5. Named(Close(id, panes[id].of)) \cap ToClose = {}
    BY <2>2, <2>4 DEF ClaimsOK, ClaimsFit
  <2>6. /\ EachOnce(toPty') /\ ToClose' = ToClose \cup {<<id, panes[id].of>>}
        /\ IsAppend(toPty', toPty, Close(id, panes[id].of))
    BY <1>3, <2>4, <2>5, PtyIsSent
  <2>7. LayOut(panes')
    BY <1>3, <2>1
  <2>. QED  BY <2>1, <2>2, <2>6, <2>7 DEF FocusedGoes
<1>. QED  BY <1>1, <1>2, <1>3

LEMMA CloseFocusedClaims ==
    ASSUME TypeInv, ClaimsOK, NumbersOK, ScreenCloseFocusedPane
    PROVE  ClaimsOK' /\ NumbersOK' /\ Claims' = Claims
<1>0. /\ Receives("close focused")
      /\ UNCHANGED <<system, todo, pending, buffered, waiting, area, shown, blocked, asked, pressed>>
  BY DEF ScreenCloseFocusedPane
<1>1. EachOnce(toScreen') /\ Coming' = Coming
  <2>1. "close focused" \notin {"new", "layout"}
    OBVIOUS
  <2>2. Receives("close focused")
    BY <1>0
  <2>. QED  BY Zenon, <2>1, <2>2, ScreenTakes
<1>2. Starting' = Starting
  BY <1>0 DEF Starting
<1>3. CASE OnScreen' = OnScreen /\ UNCHANGED <<panes, toWriter, toPty>>
  <2>1. ToClose' = ToClose
    BY <1>3 DEF ToClose
  <2>2. Claims' = Claims
    BY <1>1, <1>2, <1>3, <2>1 DEF Claims
  <2>3. ClaimsOK' /\ NumbersOK'
    BY <1>0, <1>3, ScreenClaims
  <2>. QED  BY <2>2, <2>3
<1>4. ASSUME NEW id \in DOMAIN panes, FocusedGoes(id)
      PROVE  ClaimsOK' /\ NumbersOK' /\ Claims' = Claims
  <2>. DEFINE a == <<id, panes[id].of>>
  <2>1. /\ OnScreen' = OnScreen \ {a} /\ a \in OnScreen /\ ToClose' = ToClose \cup {a}
        /\ EachOnce(toPty') /\ IsAppend(toPty', toPty, Close(id, panes[id].of))
    BY <1>4 DEF FocusedGoes
  <2>. HIDE DEF a
  <2>2. Claims' = Claims
    BY <1>1, <1>2, <2>1 DEF Claims
  <2>3. RunsStay(runs', runs) /\ UNCHANGED <<table, child, runs>>
    BY <1>0, SystemStays
  <2>4. ClaimsFit'
    BY <1>0, <1>1, <1>2, <2>1, <2>2, <2>3 DEF ClaimsOK, ClaimsFit
  <2>5. FirstTells' /\ FreesNobodys'
    BY <1>0, <2>2, <2>3, StepsKept DEF ClaimsOK
  <2>6. ChildrenHaveIds'
    BY <2>3, ChildrenKept DEF ClaimsOK
  <2>7. Used' \subseteq Used
    <3>1. shown' \subseteq Used /\ \A b \in Claims' : b[2] \in Used
      BY <1>0, <2>2 DEF Used
    <3>. QED  BY <2>3, <3>1, UsedKept
  <2>8. NumbersOK'
    <3>1. Close(id, panes[id].of).do # "spawn"
      BY DEF Close
    <3>2. \E m : m.do # "spawn" /\ IsAppend(toPty', toPty, m)
      BY <2>1, <3>1
    <3>3. asked' \in Nat /\ asked <= asked'
      <4>1. asked' = asked
        BY Zenon, <1>0
      <4>2. asked \in Nat
        BY AskedIsNat
      <4>. QED  BY <4>1, <4>2
    <3>. QED  BY <2>7, <3>2, <3>3, NumbersKept
  <2>. QED  BY <1>1, <2>1, <2>2, <2>4, <2>5, <2>6, <2>8 DEF ClaimsOK
<1>. QED  BY <1>3, <1>4, CloseFocusedMoves

LEMMA HoldPaneClaims ==
    ASSUME TypeInv, ClaimsOK, NumbersOK, ScreenHoldPane
    PROVE  ClaimsOK' /\ NumbersOK'
<1>1. /\ Receives("hold") /\ UNCHANGED <<system, todo, shown, asked>> /\ toPty' = toPty
  BY DEF ScreenHoldPane
<1>2. OnScreen' \subseteq OnScreen
  BY HoldPaneMoves
<1>. QED  BY <1>1, <1>2, ScreenClaims

LEMMA ClosePaneClaims ==
    ASSUME TypeInv, ClaimsOK, NumbersOK, ScreenClosePane
    PROVE  ClaimsOK' /\ NumbersOK'
<1>1. /\ Receives("exited") /\ UNCHANGED <<system, todo, shown, asked>> /\ toPty' = toPty
  BY DEF ScreenClosePane
<1>2. OnScreen' \subseteq OnScreen
  BY ClosePaneMoves
<1>. QED  BY <1>1, <1>2, ScreenClaims

LEMMA BytesClaims ==
    ASSUME TypeInv, ClaimsOK, NumbersOK, ScreenPtyBytes
    PROVE  ClaimsOK' /\ NumbersOK' /\ OnScreen' = OnScreen
<1>1. /\ Receives("bytes") /\ UNCHANGED <<system, todo, shown, asked>> /\ toPty' = toPty
      /\ panes' = panes
  BY DEF ScreenPtyBytes, user
<1>2. OnScreen' = OnScreen
  BY <1>1, SamePanes
<1>. QED  BY <1>1, <1>2, ScreenClaims

LEMMA TerminalResizeClaims ==
    ASSUME TypeInv, ClaimsOK, NumbersOK, ScreenTerminalResize
    PROVE  ClaimsOK' /\ NumbersOK' /\ OnScreen' = OnScreen
<1>1. /\ Receives("resize") /\ UNCHANGED <<system, todo, shown, asked>> /\ toPty' = toPty
      /\ panes' = panes
  BY DEF ScreenTerminalResize, user
<1>2. OnScreen' = OnScreen
  BY <1>1, SamePanes
<1>. QED  BY <1>1, <1>2, ScreenClaims

(* A key for a held pane: it goes, or its command is run again.             *)
HeldGoes(id) ==
    /\ panes[id].held /\ Loses(panes', panes, id) /\ LayOut(panes')
    /\ OnScreen' = OnScreen \ {<<id, panes[id].of>>} /\ <<id, panes[id].of>> \in OnScreen
    /\ UNCHANGED <<waiting, toPty>>

HeldRuns(id, cmd) ==
    /\ panes[id].held /\ cmd \in {panes[id].cmd, "shell"}
    /\ OpenAgain(panes', panes, id, cmd) /\ OnScreen' = OnScreen
    /\ waiting' = waiting \cup {id} /\ toWriter' = toWriter
    /\ IsAppend(toPty', toPty, ReRun(id, cmd, panes[id].of))

LEMMA KeyMoves ==
    ASSUME TypeInv, ScreenKey
    PROVE  \/ UNCHANGED <<panes, waiting, toPty, toWriter>> /\ OnScreen' = OnScreen
           \/ \E id \in DOMAIN panes : HeldGoes(id) \/ \E cmd \in AllCommands : HeldRuns(id, cmd)
<1>. DEFINE cmd(id) == IF Head(toScreen).key = "enter" THEN panes[id].cmd ELSE "shell"
<1>1. \/ UNCHANGED <<panes, waiting, toPty, toWriter>>
      \/ \E id \in DOMAIN panes :
            /\ panes[id].held
            /\ \/ LayOut(Without(panes, id)) /\ UNCHANGED <<waiting, toPty>>
               \/ RunsAgain(id, cmd(id))
  BY DEF ScreenKey, RunsAgain
<1>2. CASE UNCHANGED <<panes, waiting, toPty, toWriter>>
  BY <1>2, SamePanes
<1>3. ASSUME NEW id \in DOMAIN panes, panes[id].held, LayOut(Without(panes, id)),
             UNCHANGED <<waiting, toPty>>
      PROVE  HeldGoes(id)
  <2>1. Loses(panes', panes, id) /\ panes' = Without(panes, id)
    BY <1>3, LessPanes
  <2>2. OnScreen' = OnScreen \ {<<id, panes[id].of>>} /\ <<id, panes[id].of>> \in OnScreen
    BY <2>1, PaneGone
  <2>3. LayOut(panes')
    BY <1>3, <2>1
  <2>. QED  BY <1>3, <2>1, <2>2, <2>3 DEF HeldGoes
<1>4. ASSUME NEW id \in DOMAIN panes, panes[id].held, RunsAgain(id, cmd(id))
      PROVE  HeldRuns(id, cmd(id)) /\ cmd(id) \in AllCommands
  <2>1. id \in Nat /\ panes[id].of \in Requests /\ panes[id].cmd \in AllCommands
    BY TypeParts, PaneFields
  <2>2. cmd(id) \in AllCommands /\ cmd(id) \in {panes[id].cmd, "shell"}
    BY <2>1 DEF AllCommands
  <2>. HIDE DEF cmd
  <2>3. OpenAgain(panes', panes, id, cmd(id))
    BY <1>4, <2>2, TypeParts, OpenAgainFacts DEF RunsAgain
  <2>4. OnScreen' = OnScreen
    <3>1. DOMAIN panes' = DOMAIN panes /\ \A x \in DOMAIN panes : panes'[x].of = panes[x].of
      BY <2>3 DEF OpenAgain
    <3>. QED  BY <3>1, SamePanes
  <2>5. ReRun(id, cmd(id), panes[id].of) \in PtyMessages
    BY <2>1, <2>2, MadeRequests
  <2>6. IsAppend(toPty', toPty, ReRun(id, cmd(id), panes[id].of))
    BY <1>4, <2>5, TypeParts, Appends DEF RunsAgain
  <2>7. waiting' = waiting \cup {id} /\ toWriter' = toWriter
    BY <1>4 DEF RunsAgain
  <2>. QED  BY <1>4, <2>2, <2>3, <2>4, <2>6, <2>7 DEF HeldRuns
<1>. HIDE DEF cmd
<1>. QED  BY <1>1, <1>2, <1>3, <1>4

LEMMA KeyClaims ==
    ASSUME TypeInv, ClaimsOK, NumbersOK, ScreenKey
    PROVE  ClaimsOK' /\ NumbersOK'
<1>1. Receives("key") /\ UNCHANGED <<system, todo, shown, asked>>
  BY DEF ScreenKey, user
<1>2. CASE UNCHANGED <<panes, waiting, toPty, toWriter>> /\ OnScreen' = OnScreen
  BY <1>1, <1>2, ScreenClaims
<1>3. ASSUME NEW id \in DOMAIN panes, HeldGoes(id)
      PROVE  ClaimsOK' /\ NumbersOK'
  <2>1. toPty' = toPty /\ OnScreen' \subseteq OnScreen
    BY <1>3 DEF HeldGoes
  <2>. QED  BY <1>1, <2>1, ScreenClaims
<1>4. ASSUME NEW id \in DOMAIN panes, NEW cmd \in AllCommands, HeldRuns(id, cmd)
      PROVE  ClaimsOK' /\ NumbersOK'
  <2>. DEFINE m == ReRun(id, cmd, panes[id].of)
  <2>1. IsAppend(toPty', toPty, m) /\ OnScreen' \subseteq OnScreen
    BY <1>4 DEF HeldRuns
  <2>2. m.do # "spawn" /\ m.do # "close" /\ m.do \notin {"new", "layout"}
    BY DEF ReRun
  <2>. HIDE DEF m
  <2>. QED  BY <1>1, <2>1, <2>2, ScreenClaims
<1>. QED  BY <1>2, <1>3, <1>4, KeyMoves

(* The user                                                                *)
LEMMA OpensClaims ==
    ASSUME TypeInv, ClaimsOK, NumbersOK, NEW cmd \in Commands, NEW split \in Splits, UserOpens(cmd, split)
    PROVE  ClaimsOK' /\ NumbersOK'
<1>. DEFINE m == Spawn(cmd, First + asked', split)
<1>1. /\ asked' = asked + 1 /\ toPty' = Append(toPty, m)
      /\ UNCHANGED <<system, todo, toScreen, toWriter, screen, resumes, pressed>>
  BY DEF UserOpens, Asks
<1>2. asked \in Nat /\ First \in Nat
  BY AskedIsNat
<1>3. First + asked' \in Requests
  <2>1. UserType
    BY TypeParts
  <2>2. Asks /\ resumes' = resumes /\ pressed' = pressed
    BY DEF UserOpens
  <2>. QED  BY <2>1, <2>2, AskedType
<1>4. m \in PtyMessages /\ m.do = "spawn" /\ m.of = First + asked'
  <2>1. cmd \in AllCommands /\ split \in BOOLEAN
    BY CommandsAssumption, FlagsAssumption
  <2>. QED  BY <1>3, <2>1, MadeRequests DEF Spawn
<1>. HIDE DEF m
<1>5. Named(m) = {}
  BY <1>4, NamedFacts
<1>6. EachOnce(toPty') /\ ToClose' = ToClose /\ IsAppend(toPty', toPty, m)
  BY <1>1, <1>4, <1>5, PtyIsSent
<1>7. UNCHANGED <<table, child, runs, todo, toScreen, panes, shown>>
  BY <1>1 DEF system, screen
<1>8. OnScreen' = OnScreen /\ Coming' = Coming /\ Starting' = Starting
  BY <1>7 DEF OnScreen, Coming, Starting
<1>9. Claims' = Claims
  BY <1>6, <1>8 DEF Claims
<1>10. ClaimsFit' /\ EachOnce(toScreen') /\ FirstTells' /\ FreesNobodys' /\ ChildrenHaveIds'
  BY <1>6, <1>7, <1>8, <1>9 DEF ClaimsOK, ClaimsFit, FirstTells, FreesNobodys, ChildrenHaveIds
<1>11. Used' = Used
  BY <1>7, <1>9 DEF Used
<1>12. \A p \in Used' : p \in Int /\ p <= First + asked'
  BY <1>1, <1>2, <1>11 DEF NumbersOK
<1>13. ASSUME NEW k \in DOMAIN toPty', toPty'[k].do = "spawn"
       PROVE  /\ toPty'[k].of \in First + 1 .. First + asked' /\ toPty'[k].of \notin Used'
              /\ \A j \in DOMAIN toPty' : j # k /\ toPty'[j].do = "spawn" => toPty'[j].of # toPty'[k].of
  <2>. DEFINE n == Len(toPty) + 1
  <2>1. /\ DOMAIN toPty' = DOMAIN toPty \cup {n} /\ n \notin DOMAIN toPty /\ toPty'[n] = m
        /\ \A j \in DOMAIN toPty : toPty'[j] = toPty[j]
    BY <1>6 DEF IsAppend
  <2>. HIDE DEF n
  <2>2. \A j \in DOMAIN toPty : toPty[j].do = "spawn" =>
           /\ toPty[j].of \in First + 1 .. First + asked /\ toPty[j].of \notin Used
           /\ toPty[j].of # m.of
    BY <1>1, <1>2, <1>4 DEF NumbersOK
  <2>3. m.of \notin Used /\ m.of \in First + 1 .. First + asked'
    BY <1>1, <1>2, <1>4 DEF NumbersOK
  <2>4. CASE k = n
    <3>1. toPty'[k] = m
      BY <2>1, <2>4
    <3>2. \A j \in DOMAIN toPty' : j # k /\ toPty'[j].do = "spawn" => toPty'[j].of # m.of
      BY <2>1, <2>2, <2>4
    <3>. QED  BY <1>11, <2>3, <3>1, <3>2
  <2>5. CASE k \in DOMAIN toPty
    <3>1. toPty'[k] = toPty[k] /\ toPty[k].do = "spawn"
      BY <1>13, <2>1, <2>5
    <3>2. /\ toPty[k].of \in First + 1 .. First + asked' /\ toPty[k].of \notin Used'
      BY <1>1, <1>2, <1>11, <2>2, <2>5, <3>1
    <3>3. ASSUME NEW j \in DOMAIN toPty', j # k, toPty'[j].do = "spawn"
          PROVE  toPty'[j].of # toPty[k].of
      <4>1. CASE j = n
        BY <2>1, <2>2, <2>5, <3>1, <4>1
      <4>2. CASE j \in DOMAIN toPty
        <5>1. toPty'[j] = toPty[j]
          BY <2>1, <4>2
        <5>. QED  BY <2>5, <3>1, <3>3, <4>2, <5>1 DEF NumbersOK
      <4>. QED  BY <2>1, <4>1, <4>2
    <3>. QED  BY <3>1, <3>2, <3>3
  <2>. QED  BY <2>1, <2>4, <2>5
<1>14. NumbersOK'
  BY <1>12, <1>13 DEF NumbersOK
<1>. QED  BY <1>6, <1>10, <1>14 DEF ClaimsOK

LEMMA SaysClaims ==
    ASSUME TypeInv, ClaimsOK, NumbersOK,
           UNCHANGED <<system, toPty, todo, screen>>, asked' \in {asked, asked + 1},
           \/ toScreen' = toScreen
           \/ \E m \in {CloseFocused, TerminalResize} \cup Keys : toScreen' = Append(toScreen, m)
    PROVE  ClaimsOK' /\ NumbersOK'
<1>1. EachOnce(toScreen') /\ Coming' = Coming
  <2>1. CASE toScreen' = toScreen
    BY <2>1 DEF Coming, ClaimsOK
  <2>2. ASSUME NEW m \in {CloseFocused, TerminalResize} \cup Keys, toScreen' = Append(toScreen, m)
        PROVE  EachOnce(toScreen') /\ Coming' = Coming
    <3>1. m \in ScreenMessages(runs) /\ m.do \notin {"new", "layout", "close"}
      <4>1. CASE m \in {CloseFocused, TerminalResize}
        <5>1. m \in ScreenMessages(runs)
          BY <4>1 DEF ScreenMessages
        <5>2. CloseFocused.do = "close focused" /\ TerminalResize.do = "resize"
          BY DEF CloseFocused, TerminalResize
        <5>. QED  BY <4>1, <5>1, <5>2
      <4>2. CASE m \in Keys
        <5>1. m.do = "key"
          BY <4>2 DEF Keys
        <5>. QED  BY <4>2, <5>1 DEF ScreenMessages
      <4>. QED  BY <4>1, <4>2
    <3>2. IsAppend(toScreen', toScreen, m)
      BY <2>2, <3>1, TypeParts, Appends
    <3>3. Named(m) = {}
      BY <3>1, NamedFacts
    <3>. QED  BY <3>2, <3>3, ScreenIsSent
  <2>. QED  BY <2>1, <2>2
<1>2. SameClaims /\ EachOnce(toPty')
  BY <1>1, OthersMove DEF SameClaims, ClaimsOK
<1>3. RunsStay(runs', runs) /\ UNCHANGED <<table, child, runs>>
  BY SystemStays
<1>4. asked' \in Nat /\ asked <= asked' /\ shown' = shown
  BY AskedIsNat DEF screen
<1>. QED  BY <1>1, <1>2, <1>3, <1>4, ClaimsKept

LEMMA UserClaims ==
    ASSUME TypeInv, ClaimsOK, NumbersOK, User
    PROVE  ClaimsOK' /\ NumbersOK'
<1>1. ASSUME NEW cmd \in Commands, NEW split \in Splits, UserOpens(cmd, split)
      PROVE  ClaimsOK' /\ NumbersOK'
  BY <1>1, OpensClaims
<1>2. CASE UserCloses
  <2>1. /\ asked' = asked + 1 /\ toScreen' = Append(toScreen, CloseFocused)
        /\ UNCHANGED <<system, toPty, todo, screen>>
    BY <1>2 DEF UserCloses, Asks
  <2>. QED  BY <2>1, SaysClaims
<1>3. ASSUME NEW key \in {"enter", "escape", "ctrl-c"}, UserPresses(key)
      PROVE  ClaimsOK' /\ NumbersOK'
  <2>1. /\ asked' = asked /\ toScreen' = Append(toScreen, Key(key))
        /\ UNCHANGED <<system, toPty, todo, screen>>
    BY <1>3 DEF UserPresses
  <2>2. Key(key) \in Keys
    BY DEF Key, Keys
  <2>. QED  BY <2>1, <2>2, SaysClaims
<1>4. CASE UserResizes
  <2>1. /\ asked' = asked + 1 /\ toScreen' = Append(toScreen, TerminalResize)
        /\ UNCHANGED <<system, toPty, todo, screen>>
    BY <1>4 DEF UserResizes
  <2>. QED  BY <2>1, SaysClaims
<1>. QED  BY <1>1, <1>2, <1>3, <1>4 DEF User

(* What any step adds to the pty thread's channel                          *)
LEMMA PtyHears ==
    ASSUME TypeInv, ClaimsOK, [Next]_vars
    PROVE  /\ shown \subseteq shown'
           /\ \/ toPty' = toPty \/ IsTail(toPty', toPty)
              \/ \E m : IsAppend(toPty', toPty, m) /\ (m.do = "rerun" => m.of \in shown)
<1>1. CASE PtyThread
  <2>1. CASE PtySpawns \/ PtySpawnsLayout \/ PtyReruns \/ PtyCloses
    <3>1. \E do \in {"spawn", "new tab", "rerun", "close"} : Takes(do)
      BY <2>1 DEF PtySpawns, PtySpawnsLayout, PtyReruns, PtyCloses
    <3>2. IsTail(toPty', toPty)
      BY <3>1, TypeParts, TakesFacts
    <3>3. shown' = shown
      BY <2>1 DEF PtySpawns, PtySpawnsLayout, PtyReruns, PtyCloses, screen
    <3>. QED  BY <3>2, <3>3
  <2>2. CASE PtyContinues
    BY <2>2 DEF PtyContinues, screen
  <2>. QED  BY <1>1, <2>1, <2>2 DEF PtyThread
<1>2. CASE ScreenNewPane
  <2>1. shown \subseteq shown'
    BY <1>2, NewPaneMoves DEF NewPaneGoes
  <2>2. toPty' = toPty \/ \E t : IsAppend(toPty', toPty, Close(t.id, t.of))
    BY <1>2, NewPaneMoves DEF NewPaneGoes
  <2>3. \A t : Close(t.id, t.of).do = "close"
    BY DEF Close
  <2>. QED  BY <2>1, <2>2, <2>3
<1>3. CASE ScreenApplyLayout
  BY <1>3, ApplyLayoutMoves DEF LayoutGoes, ScreenApplyLayout
<1>4. CASE ScreenHoldPane \/ ScreenClosePane \/ ScreenPtyBytes \/ ScreenTerminalResize
  BY <1>4 DEF ScreenHoldPane, ScreenClosePane, ScreenPtyBytes, ScreenTerminalResize
<1>5. CASE ScreenCloseFocusedPane
  <2>1. shown' = shown
    BY <1>5 DEF ScreenCloseFocusedPane
  <2>2. toPty' = toPty \/ \E id : IsAppend(toPty', toPty, Close(id, panes[id].of))
    BY <1>5, CloseFocusedMoves DEF FocusedGoes
  <2>3. \A id : Close(id, panes[id].of).do = "close"
    BY DEF Close
  <2>. QED  BY <2>1, <2>2, <2>3
<1>6. CASE ScreenKey
  <2>1. shown' = shown
    BY <1>6 DEF ScreenKey
  <2>2. CASE toPty' = toPty
    BY <2>1, <2>2
  <2>3. ASSUME NEW id \in DOMAIN panes, NEW cmd \in AllCommands, HeldRuns(id, cmd)
        PROVE  \E m : IsAppend(toPty', toPty, m) /\ (m.do = "rerun" => m.of \in shown)
    <3>1. IsAppend(toPty', toPty, ReRun(id, cmd, panes[id].of))
      BY <2>3 DEF HeldRuns
    <3>2. ReRun(id, cmd, panes[id].of).of = panes[id].of /\ panes[id].of \in shown
      BY TypeParts DEF ReRun
    <3>. QED  BY <3>1, <3>2
  <2>4. \/ toPty' = toPty
        \/ \E id \in DOMAIN panes : \E cmd \in AllCommands : HeldRuns(id, cmd)
    BY <1>6, KeyMoves DEF HeldGoes
  <2>. QED  BY <2>1, <2>2, <2>3, <2>4
<1>7. CASE WriterApplies \/ Resumes
  BY <1>7 DEF WriterApplies, Resumes, screen
<1>8. CASE User
  <2>1. shown' = shown
    BY <1>8 DEF User, UserOpens, UserCloses, UserPresses, UserResizes, screen
  <2>2. CASE UserCloses \/ (\E key \in {"enter", "escape", "ctrl-c"} : UserPresses(key)) \/ UserResizes
    BY <2>1, <2>2 DEF UserCloses, UserPresses, UserResizes
  <2>3. ASSUME NEW cmd \in Commands, NEW split \in Splits, UserOpens(cmd, split)
        PROVE  \E m : IsAppend(toPty', toPty, m) /\ (m.do = "rerun" => m.of \in shown)
    <3>. DEFINE m == Spawn(cmd, First + asked', split)
    <3>1. UserType /\ Asks /\ resumes' = resumes /\ pressed' = pressed /\ toPty' = Append(toPty, m)
      BY <2>3, TypeParts DEF UserOpens
    <3>2. First + asked' \in Requests
      BY <3>1, AskedType
    <3>3. cmd \in AllCommands /\ split \in BOOLEAN
      BY CommandsAssumption, FlagsAssumption
    <3>4. m \in PtyMessages /\ m.do # "rerun"
      BY <3>2, <3>3, MadeRequests DEF Spawn
    <3>5. IsAppend(toPty', toPty, m)
      BY <3>1, <3>4, TypeParts, Appends
    <3>. QED  BY <3>4, <3>5
  <2>. QED  BY <1>8, <2>1, <2>2, <2>3 DEF User
<1>9. ASSUME NEW r \in DOMAIN runs, Process(r)
      PROVE  shown' = shown /\ toPty' = toPty
  BY <1>9, ProcessSends DEF screen
<1>10. CASE UNCHANGED vars
  BY <1>10 DEF vars, screen
<1>. QED  BY <1>1, <1>2, <1>3, <1>4, <1>5, <1>6, <1>7, <1>8, <1>9, <1>10 DEF Next, ScreenThread

LEMMA RerunsStayShown ==
    ASSUME TypeInv, ClaimsOK, RerunsShown, [Next]_vars
    PROVE  RerunsShown'
<1>1. shown \subseteq shown'
  BY PtyHears
<1>2. CASE toPty' = toPty
  BY <1>1, <1>2 DEF RerunsShown
<1>3. CASE IsTail(toPty', toPty)
  <2>1. \A k \in DOMAIN toPty' : k + 1 \in DOMAIN toPty /\ toPty'[k] = toPty[k + 1]
    BY <1>3 DEF IsTail
  <2>. QED  BY <1>1, <2>1 DEF RerunsShown
<1>4. ASSUME NEW m, IsAppend(toPty', toPty, m), m.do = "rerun" => m.of \in shown
      PROVE  RerunsShown'
  <2>1. /\ DOMAIN toPty' = DOMAIN toPty \cup {Len(toPty) + 1} /\ toPty'[Len(toPty) + 1] = m
        /\ \A k \in DOMAIN toPty : toPty'[k] = toPty[k]
    BY <1>4 DEF IsAppend
  <2>. QED  BY <1>1, <1>4, <2>1 DEF RerunsShown
<1>. QED  BY <1>2, <1>3, <1>4, PtyHears

(* The terminal ids are whose they are, at every step.                     *)
ClaimsInv == TypeInv /\ ClaimsOK /\ NumbersOK /\ RerunsShown

LEMMA InitClaims == Init => ClaimsInv
<1>. SUFFICES ASSUME Init
              PROVE  ClaimsInv
  OBVIOUS
<1>1. TypeInv
  BY InitType
<1>2. /\ table = <<>> /\ child = <<>> /\ runs = <<>> /\ todo = <<>> /\ toScreen = <<>>
      /\ toPty = <<NewTab>> /\ panes = <<>> /\ shown = {} /\ asked = 0
  BY DEF Init
<1>3. /\ DOMAIN table = {} /\ DOMAIN child = {} /\ DOMAIN runs = {} /\ DOMAIN todo = {}
      /\ DOMAIN toScreen = {} /\ DOMAIN panes = {}
  BY <1>2
<1>4. DOMAIN toPty = {1} /\ toPty[1].do = "new tab"
  <2>1. DOMAIN toPty = {1} /\ toPty[1] = NewTab
    BY <1>2
  <2>2. NewTab.do = "new tab"
    BY DEF NewTab
  <2>. QED  BY <2>1, <2>2
<1>5. Named(toPty[1]) = {}
  BY <1>4, NamedFacts
<1>6. OnScreen = {} /\ ToClose = {} /\ Coming = {} /\ Starting = {}
  BY <1>3, <1>4, <1>5 DEF OnScreen, ToClose, Coming, Starting, NamedIn
<1>7. Claims = {}
  BY <1>6 DEF Claims
<1>8. ClaimsFit
  BY <1>6, <1>7 DEF ClaimsFit, OneToOne
<1>9. EachOnce(toPty) /\ EachOnce(toScreen)
  BY <1>3, <1>4 DEF EachOnce
<1>10. FirstTells /\ FreesNobodys /\ ChildrenHaveIds
  BY <1>3 DEF FirstTells, FreesNobodys, ChildrenHaveIds
<1>11. Used = {}
  BY <1>2, <1>3, <1>7 DEF Used
<1>12. NumbersOK /\ RerunsShown
  BY <1>4, <1>11 DEF NumbersOK, RerunsShown
<1>. QED  BY <1>1, <1>8, <1>9, <1>10, <1>12 DEF ClaimsInv, ClaimsOK

LEMMA NextClaims ==
    ASSUME LayoutHolds
    PROVE  ClaimsInv /\ [Next]_vars => ClaimsInv'
<1>. SUFFICES ASSUME TypeInv, ClaimsOK, NumbersOK, RerunsShown, [Next]_vars
              PROVE  ClaimsInv'
  BY DEF ClaimsInv
<1>1. TypeInv' /\ RerunsShown'
  BY NextType, RerunsStayShown
<1>2. ClaimsOK' /\ NumbersOK'
  <2>1. CASE PtyThread
    BY <2>1, SpawnsClaims, LayoutClaims, RerunsClaims, ClosesClaims, ContinuesClaims DEF PtyThread
  <2>2. CASE ScreenThread
    BY <2>2, NewPaneClaims, ApplyLayoutClaims, HoldPaneClaims, ClosePaneClaims, CloseFocusedClaims,
       BytesClaims, KeyClaims, TerminalResizeClaims DEF ScreenThread
  <2>3. CASE WriterApplies
    BY <2>3, WriterClaims
  <2>4. CASE User
    BY <2>4, UserClaims
  <2>5. CASE Resumes
    <3>1. UNCHANGED <<system, toPty, todo, screen>> /\ asked' = asked /\ toScreen' = toScreen
      BY <2>5 DEF Resumes
    <3>. QED  BY <3>1, SaysClaims
  <2>6. ASSUME NEW r \in DOMAIN runs, Process(r)
        PROVE  ClaimsOK' /\ NumbersOK'
    BY <2>6, ProcessClaims
  <2>7. CASE UNCHANGED vars
    <3>1. UNCHANGED <<system, toPty, todo, screen>> /\ asked' = asked /\ toScreen' = toScreen
      BY <2>7 DEF vars, user
    <3>. QED  BY <3>1, SaysClaims
  <2>. QED  BY <2>1, <2>2, <2>3, <2>4, <2>5, <2>6, <2>7 DEF Next
<1>. QED  BY <1>1, <1>2 DEF ClaimsInv

LEMMA ClaimsHold ==
    ASSUME LayoutHolds
    PROVE  Spec => []ClaimsInv
<1>1. ClaimsInv /\ [Next]_vars => ClaimsInv'
  BY NextClaims
<1>. QED  BY <1>1, InitClaims, PTL DEF Spec

(* Stated of every layout whose missing commands hold on close, every       *)
(* command the user may run and every bound: a pane that the tab shows has   *)
(* its terminal id in the table, so that no terminal that is spawned later   *)
(* gets the id, however closes, splits without room, layouts and commands    *)
(* run again were interleaved between the screen and the pty thread.  (A     *)
(* layout with a command that closes at once gives the id back of a pane     *)
(* that the screen has yet to lay out.)                                      *)
PanesKeepTheirIds == \A id \in DOMAIN panes : id \in DOMAIN table

THEOREM PanesHaveTheirIds ==
    ASSUME LayoutHolds
    PROVE  Spec => []PanesKeepTheirIds
<1>1. ClaimsInv => PanesKeepTheirIds
  <2>. SUFFICES ASSUME ClaimsInv, NEW id \in DOMAIN panes
                PROVE  id \in DOMAIN table
    BY DEF PanesKeepTheirIds
  <2>1. <<id, panes[id].of>> \in Claims
    BY DEF Claims, OnScreen
  <2>2. \A a \in Claims : a[1] \in DOMAIN table
    BY DEF ClaimsInv, ClaimsOK, ClaimsFit
  <2>. QED  BY <2>1, <2>2
<1>. QED  BY <1>1, ClaimsHold, PTL

----------------------------------------------------------------------------
(* Whose process a message is about.  Mild: a process that was hung up is   *)
(* done with before the next is spawned, and none ends before the screen    *)
(* has heard of its pane.                                                  *)
Mild == Prompt /\ ~Quick /\ LayoutHolds

Unsettled(r) == runs[r].state \in {"live", "ended"}

(* The message that a process has ended, or is not there                   *)
Final(m, r)     == m.do \in {"hold", "exited"} /\ m.run = r
ToldFinal(s, r) == s.step = "tell" /\ Final(s.msg, r)

Mailed(r)   == \E k \in DOMAIN toScreen : Final(toScreen[k], r)
Promised(r) == \E k \in DOMAIN todo : ToldFinal(todo[k], r)
AtWork(r)   == Unsettled(r) \/ Mailed(r) \/ Promised(r)
Idle(p)     == \A r \in DOMAIN runs : runs[r].of = p => ~AtWork(r)

(* Of those in C, only the process's own have its terminal id.              *)
Fits(r, C) == \A a \in C : a[1] = runs[r].id => a[2] = runs[r].of

(* A process that has not been reported is the child of its terminal, or   *)
(* was hung up when the terminal was closed.                               *)
RunOK(r) ==
    Unsettled(r) =>
        IF runs[r].hup THEN runs[r].id \notin DOMAIN table
        ELSE /\ <<runs[r].id, runs[r].of>> \in Claims
             /\ runs[r].id \in DOMAIN child /\ child[runs[r].id] = r

RunsOK == \A r \in DOMAIN runs : RunOK(r)

(* When the screen gets the message, no other pane has the terminal id.     *)
MessageFits(k, r) ==
    /\ toScreen[k].id = runs[r].id /\ ~Unsettled(r)
    /\ Fits(r, OnScreen)
    /\ \A j \in DOMAIN toScreen : j < k => Fits(r, Named(toScreen[j]))
    /\ \A j \in DOMAIN toScreen : j # k => ~Final(toScreen[j], r)
    /\ ~Promised(r)

StepFits(k, r) ==
    /\ todo[k].msg.id = runs[r].id /\ runs[r].state = "absent"
    /\ Fits(r, Claims)
    /\ \A j \in DOMAIN todo : j # k => ~ToldFinal(todo[j], r)

MailOK ==
    \A r \in DOMAIN runs :
        /\ \A k \in DOMAIN toScreen : Final(toScreen[k], r) => MessageFits(k, r)
        /\ \A k \in DOMAIN todo : ToldFinal(todo[k], r) => StepFits(k, r)

IsRerun(m, p) == m.do = "rerun" /\ m.of = p
NoRerun(p)    == \A k \in DOMAIN toPty : ~IsRerun(toPty[k], p)

(* A command is run again when nothing is left of its process before, and   *)
(* before its terminal is closed.                                          *)
RerunFits(k) ==
    LET p == toPty[k].of
        a == <<toPty[k].id, p>>
    IN  /\ Idle(p) /\ a \in OnScreen \cup ToClose
        /\ \A j \in DOMAIN toPty : j # k => ~IsRerun(toPty[j], p)
        /\ \A j \in DOMAIN toPty : j < k => a \notin Named(toPty[j])

RerunsOK == \A k \in DOMAIN toPty : toPty[k].do = "rerun" => RerunFits(k)

HeldOK == \A id \in DOMAIN panes : panes[id].held => Idle(panes[id].of) /\ NoRerun(panes[id].of)

OneAtATime ==
    \A r, q \in DOMAIN runs : AtWork(r) /\ AtWork(q) /\ runs[r].of = runs[q].of => r = q

(* The layout is applied once, before anything else is heard of.            *)
Beforehand == {"close focused", "key", "resize", "bytes"}

TellsLayout(s) == s.step = "tell" /\ s.msg.do = "layout"
LayoutIsAsked == toPty # <<>> /\ toPty[1].do = "new tab"
LayoutIsTold == todo # <<>> /\ TellsLayout(todo[1])
LayoutIsSent == \E k \in DOMAIN toScreen : toScreen[k].do = "layout"

LayoutOnce ==
    /\ buffered = <<>>
    /\ pending =>
          /\ shown = {}
          /\ LayoutIsAsked \/ LayoutIsTold \/ LayoutIsSent
          /\ \A r \in DOMAIN runs : ~runs[r].hup /\ runs[r].state \in {"live", "absent"}
    /\ \A k \in DOMAIN todo : TellsLayout(todo[k]) =>
          /\ k = 1 /\ pending
          /\ \A j \in DOMAIN toScreen : toScreen[j].do \in Beforehand
    /\ \A k \in DOMAIN toScreen : toScreen[k].do = "layout" =>
          /\ pending
          /\ \A j \in DOMAIN toScreen : j < k => toScreen[j].do \in Beforehand
          /\ \A j \in DOMAIN toScreen : j > k => toScreen[j].do # "layout"

(* A command that waits for the user has no process when its pane comes.    *)
Shows(m) == m.do \in {"new", "layout"}
NotStarted(m) ==
    \A i \in DOMAIN m.panes : m.panes[i].cmd = "suspended" =>
        \A r \in DOMAIN runs : runs[r].of # m.panes[i].of

WaitsForUser ==
    /\ \A k \in DOMAIN toScreen : Shows(toScreen[k]) => NotStarted(toScreen[k])
    /\ \A k \in DOMAIN todo : todo[k].step = "tell" /\ Shows(todo[k].msg) => NotStarted(todo[k].msg)

LifeOK ==
    RunsOK /\ MailOK /\ OneAtATime /\ HeldOK /\ RerunsOK /\ LayoutOnce /\ WaitsForUser

LifeInv == ClaimsInv /\ LifeOK

LEMMA LayoutAskedFirst ==
    ASSUME TypeInv, LayoutIsAsked
    PROVE  Fresh
<1>1. 1 \in DOMAIN toPty
  BY TypeParts, FirstIsThere DEF LayoutIsAsked
<1> QED
  BY <1>1 DEF TypeInv, LayoutIsFirst, LayoutIsAsked

(* Until the layout is applied, the screen hears of nothing but the user.   *)
LEMMA HeardBefore ==
    ASSUME TypeInv, LayoutOnce, pending, NEW do, Receives(do)
    PROVE  do \in Beforehand \cup {"layout"}
<1>1. toScreen[1].do = do /\ 1 \in DOMAIN toScreen /\ toScreen \in Seq(ScreenMessages(runs))
  BY ReceivesFacts, TypeParts, FirstIsThere
<1>2. CASE LayoutIsAsked
  <2>1. do \in {"close focused", "key", "resize"}
    BY <1>1, <1>2, LayoutAskedFirst DEF Fresh
  <2> QED
    BY <2>1 DEF Beforehand
<1>3. CASE LayoutIsTold
  <2>1. 1 \in DOMAIN todo
    BY <1>3, TypeParts, FirstIsThere DEF LayoutIsTold
  <2> QED
    BY <1>1, <1>3, <2>1 DEF LayoutIsTold, LayoutOnce
<1>4. CASE LayoutIsSent
  <2>1. PICK k \in DOMAIN toScreen : toScreen[k].do = "layout"
    BY <1>4 DEF LayoutIsSent
  <2>2. k = 1 \/ 1 < k
    BY <2>1, <1>1, SeqDomain
  <2> QED
    BY <1>1, <2>1, <2>2 DEF LayoutOnce
<1>5. LayoutIsAsked \/ LayoutIsTold \/ LayoutIsSent
  BY DEF LayoutOnce
<1> QED
  BY <1>2, <1>3, <1>4, <1>5

LEMMA NothingPends ==
    ASSUME TypeInv, LayoutOnce, NEW do, Receives(do), do \in {"new", "hold", "exited"}
    PROVE  pending = FALSE
<1>1. do \notin Beforehand \cup {"layout"}
  BY DEF Beforehand
<1>2. ~pending
  BY <1>1, HeardBefore
<1>3. pending \in BOOLEAN
  BY TypeParts
<1> QED
  BY <1>2, <1>3, Zenon

(* What leaves the layout alone                                            *)
NotTheLayout ==
    \/ toScreen' = toScreen
    \/ \E m : /\ m.do # "layout" /\ IsAppend(toScreen', toScreen, m)
              /\ LayoutIsTold => m.do \in Beforehand
    \/ IsTail(toScreen', toScreen) /\ toScreen[1].do # "layout"

StartsAsBefore == \A r \in DOMAIN runs' : ~runs'[r].hup /\ runs'[r].state \in {"live", "absent"}

LEMMA LayoutOnceKept ==
    ASSUME TypeInv, LayoutOnce, pending' = pending, buffered' = buffered,
           pending => shown' = shown /\ StartsAsBefore,
           \/ toPty' = toPty
           \/ \E m : IsAppend(toPty', toPty, m)
           \/ IsTail(toPty', toPty) /\ ~LayoutIsAsked,
           todo' = todo, NotTheLayout
    PROVE  LayoutOnce'
<1>1. buffered' = <<>>
  BY DEF LayoutOnce
<1>2. ASSUME pending'
      PROVE  shown' = {} /\ StartsAsBefore
  BY <1>2 DEF LayoutOnce
<1>3. ASSUME LayoutIsAsked
      PROVE  LayoutIsAsked'
  <2>1. 1 \in DOMAIN toPty
    BY <1>3, TypeParts, FirstIsThere DEF LayoutIsAsked
  <2>2. 1 \in DOMAIN toPty' /\ toPty'[1] = toPty[1]
    BY <1>3, <2>1 DEF IsAppend
  <2>3. toPty' # <<>>
    BY <2>2
  <2> QED
    BY <1>3, <2>2, <2>3 DEF LayoutIsAsked
<1>4. ASSUME NEW k \in DOMAIN toScreen, toScreen[k].do = "layout"
      PROVE  LayoutIsSent'
  <2>1. CASE toScreen' = toScreen
    BY <1>4, <2>1 DEF LayoutIsSent
  <2>2. CASE \E m : IsAppend(toScreen', toScreen, m)
    BY <1>4, <2>2 DEF LayoutIsSent, IsAppend
  <2>3. CASE IsTail(toScreen', toScreen) /\ toScreen[1].do # "layout"
    BY <1>4, <2>3 DEF LayoutIsSent, IsTail
  <2> QED
    BY <2>1, <2>2, <2>3 DEF NotTheLayout
<1>5. pending' => LayoutIsAsked' \/ LayoutIsTold' \/ LayoutIsSent'
  BY <1>3, <1>4 DEF LayoutOnce, LayoutIsTold, LayoutIsSent
<1>6. ASSUME NEW k \in DOMAIN todo', TellsLayout(todo'[k])
      PROVE  k = 1 /\ pending' /\ \A j \in DOMAIN toScreen' : toScreen'[j].do \in Beforehand
  <2>1. k = 1 /\ pending /\ \A j \in DOMAIN toScreen : toScreen[j].do \in Beforehand
    BY <1>6 DEF LayoutOnce
  <2>2. LayoutIsTold
    BY <1>6, <2>1 DEF LayoutIsTold
  <2>3. \A j \in DOMAIN toScreen' : toScreen'[j].do \in Beforehand
    BY <2>1, <2>2 DEF NotTheLayout, IsAppend, IsTail
  <2> QED
    BY <2>1, <2>3
<1>7. ASSUME NEW k \in DOMAIN toScreen', toScreen'[k].do = "layout"
      PROVE  /\ pending'
             /\ \A j \in DOMAIN toScreen' : j < k => toScreen'[j].do \in Beforehand
             /\ \A j \in DOMAIN toScreen' : j > k => toScreen'[j].do # "layout"
  <2>1. CASE toScreen' = toScreen
    BY <1>7, <2>1 DEF LayoutOnce
  <2>2. ASSUME NEW m, m.do # "layout", IsAppend(toScreen', toScreen, m)
        PROVE  /\ pending'
               /\ \A j \in DOMAIN toScreen' : j < k => toScreen'[j].do \in Beforehand
               /\ \A j \in DOMAIN toScreen' : j > k => toScreen'[j].do # "layout"
    <3>1. k \in DOMAIN toScreen /\ toScreen[k].do = "layout"
      BY <1>7, <2>2 DEF IsAppend
    <3>2. /\ pending
          /\ \A j \in DOMAIN toScreen : j < k => toScreen[j].do \in Beforehand
          /\ \A j \in DOMAIN toScreen : j > k => toScreen[j].do # "layout"
      BY <3>1 DEF LayoutOnce
    <3>3. \A j \in DOMAIN toScreen' : j < k => j \in DOMAIN toScreen /\ toScreen'[j] = toScreen[j]
      BY <2>2, <3>1 DEF IsAppend
    <3> QED
      BY <3>2, <3>3, <2>2 DEF IsAppend
  <2>3. CASE IsTail(toScreen', toScreen)
    <3>1. k + 1 \in DOMAIN toScreen /\ toScreen[k + 1].do = "layout" /\ k \in Int
      BY <1>7, <2>3 DEF IsTail
    <3>2. /\ pending
          /\ \A j \in DOMAIN toScreen : j < k + 1 => toScreen[j].do \in Beforehand
          /\ \A j \in DOMAIN toScreen : j > k + 1 => toScreen[j].do # "layout"
      BY <3>1 DEF LayoutOnce
    <3>3. \A j \in DOMAIN toScreen' : j \in Int /\ j + 1 \in DOMAIN toScreen /\ toScreen'[j] = toScreen[j + 1]
      BY <2>3 DEF IsTail
    <3> QED
      BY <3>1, <3>2, <3>3
  <2> QED
    BY <2>1, <2>2, <2>3 DEF NotTheLayout
<1> QED
  BY <1>1, <1>2, <1>5, <1>6, <1>7 DEF LayoutOnce, StartsAsBefore

(* What is told of panes and processes is not the layout.                  *)
LEMMA StepKinds ==
    /\ \A t, split : ~TellsLayout([step |-> "tell", msg |-> NewPane(t, split)])
    /\ \A id, r : ~TellsLayout([step |-> "tell", msg |-> PtyBytes(id, r)])
    /\ \A id, r, tab : ~TellsLayout([step |-> "tell", msg |-> HoldPane(id, r, tab)])
    /\ \A r : ~TellsLayout([step |-> "listen", run |-> r])
    /\ \A id : ~TellsLayout([step |-> "free", id |-> id])
BY DEF TellsLayout, NewPane, PtyBytes, HoldPane

LEMMA SpawnsLayoutOnce == TypeInv /\ ClaimsOK /\ LayoutOnce /\ PtySpawns => LayoutOnce'
<1> SUFFICES ASSUME TypeInv, ClaimsOK, LayoutOnce, PtySpawns
             PROVE  LayoutOnce'
  OBVIOUS
<1>1. Takes("spawn")
  BY DEF PtySpawns
<1>2. todo = <<>> /\ toPty[1].do = "spawn"
  BY <1>1, TakesFacts, TypeParts
<1>3. toScreen' = toScreen /\ pending' = pending /\ buffered' = buffered /\ shown' = shown
  BY DEF PtySpawns, screen
<1>4. PICK id \in Nat : SpawnedOK(toPty[1], id, runs') /\ SpawnToldOK(toPty[1], id, todo')
                        /\ todo' \in Seq(TodoSteps(runs'))
  BY SpawnsFacts
<1>5. pending => LayoutIsSent
  BY <1>2 DEF LayoutOnce, LayoutIsTold, LayoutIsAsked
<1>6. ASSUME NEW k \in DOMAIN todo'
      PROVE  ~TellsLayout(todo'[k])
  <2>1. DOMAIN todo' = 1 .. Len(todo')
    BY <1>4, SeqDomain
  <2> DEFINE m == toPty[1]
             t == Terminal(id, m.of, m.cmd)
             r == Len(runs) + 1
  <2>2. \/ k = 1 /\ todo'[k] = [step |-> "tell", msg |-> NewPane(t, m.split)]
        \/ k = 2 /\ todo'[k] = [step |-> "tell", msg |-> PtyBytes(id, r)]
        \/ k = 3 /\ todo'[k] = [step |-> "tell", msg |-> HoldPane(id, r, FALSE)]
        \/ k = 1 /\ todo'[k] = [step |-> "free", id |-> id]
    <3> HIDE DEF m, t, r
    <3>1. \/ Len(todo') = 1 /\ todo'[1] = [step |-> "tell", msg |-> NewPane(t, m.split)]
          \/ /\ Len(todo') = 3 /\ todo'[1] = [step |-> "tell", msg |-> NewPane(t, m.split)]
             /\ todo'[2] = [step |-> "tell", msg |-> PtyBytes(id, r)]
             /\ todo'[3] = [step |-> "tell", msg |-> HoldPane(id, r, FALSE)]
          \/ todo' = <<>>
          \/ Len(todo') = 1 /\ todo'[1] = [step |-> "free", id |-> id]
      BY <1>4, Zenon DEF SpawnToldOK, m, t, r
    <3>2. todo' # <<>> /\ k \in 1 .. Len(todo')
      BY <1>6, <2>1
    <3>3. CASE Len(todo') = 1
      BY <3>1, <3>2, <3>3
    <3>4. CASE Len(todo') = 3
      <4>1. k = 1 \/ k = 2 \/ k = 3
        BY <3>2, <3>4
      <4>2. Len(todo') # 1
        BY <3>4
      <4>3. /\ todo'[1] = [step |-> "tell", msg |-> NewPane(t, m.split)]
            /\ todo'[2] = [step |-> "tell", msg |-> PtyBytes(id, r)]
            /\ todo'[3] = [step |-> "tell", msg |-> HoldPane(id, r, FALSE)]
        BY <3>1, <3>2, <4>2, Zenon
      <4> QED
        BY <4>1, <4>3, Zenon
    <3> QED
      BY <3>1, <3>2, <3>3, <3>4
  <2> HIDE DEF m, t, r
  <2> QED
    BY <2>2, StepKinds
<1>7. ASSUME pending, NEW r \in DOMAIN runs'
      PROVE  ~runs'[r].hup /\ runs'[r].state \in {"live", "absent"}
  <2>1. \A q \in DOMAIN runs : ~runs[q].hup /\ runs[q].state \in {"live", "absent"}
    BY <1>7 DEF LayoutOnce
  <2> QED
    BY <1>4, <2>1 DEF SpawnedOK
<1> QED
  BY <1>3, <1>5, <1>6, <1>7 DEF LayoutOnce, LayoutIsSent

LEMMA LayoutLayoutOnce == TypeInv /\ ClaimsOK /\ LayoutOnce /\ PtySpawnsLayout => LayoutOnce'
<1> SUFFICES ASSUME TypeInv, ClaimsOK, LayoutOnce, PtySpawnsLayout
             PROVE  LayoutOnce'
  OBVIOUS
<1> DEFINE s == StartedForLayout(Resources)
<1>1. Fresh /\ LayoutSpawned(s)
  BY LayoutFacts
<1>2. toScreen' = toScreen /\ pending' = pending /\ buffered' = buffered /\ shown' = shown
  BY DEF PtySpawnsLayout, screen
<1> HIDE DEF s
<1>3. LaidOut(s, First) /\ LayoutTodoOK(s, todo') /\ runs' = s.runs
  BY <1>1 DEF LayoutSpawned
<1>4. DOMAIN todo' = 1 .. Len(todo') /\ Len(todo') \in Nat /\ Len(todo') >= 1
  BY <1>3, SeqDomain DEF LayoutTodoOK
<1>5. todo'[1] = [step |-> "tell", msg |-> ApplyLayout(s.terminals)] /\ todo' # <<>>
  BY <1>3, <1>4 DEF LayoutTodoOK
<1>6. LayoutIsTold'
  BY <1>5 DEF LayoutIsTold, TellsLayout, ApplyLayout
<1>7. ASSUME NEW k \in DOMAIN todo', k # 1
      PROVE  ~TellsLayout(todo'[k])
  <2>1. PICK i \in 1 .. First, x \in 1 .. 2 : StepFor(s, i, x, todo'[k])
    BY <1>3, <1>4, <1>7 DEF LayoutTodoOK
  <2> QED
    BY <2>1, StepKinds DEF StepFor
<1>8. \A k \in DOMAIN toScreen : toScreen[k].do \in Beforehand /\ toScreen[k].do # "layout"
  BY <1>1 DEF Fresh, Beforehand
<1>9. pending = TRUE /\ shown = {} /\ buffered = <<>>
  BY <1>1 DEF Fresh
<1>10. \A r \in DOMAIN runs' : ~runs'[r].hup /\ runs'[r].state \in {"live", "absent"}
  BY <1>3 DEF LaidOut
<1> QED
  BY <1>2, <1>6, <1>7, <1>8, <1>9, <1>10 DEF LayoutOnce

(* A tab that is not laid out yet has no pane and no process to close.      *)
LEMMA PendingFacts ==
    ASSUME TypeInv, ClaimsOK, LayoutOnce, pending
    PROVE  /\ shown = {} /\ OnScreen = {} /\ ToClose = {}
           /\ \A k \in DOMAIN toPty : toPty[k].do # "close"
           /\ \A r \in DOMAIN runs : ~runs[r].hup /\ runs[r].state \in {"live", "absent"}
<1>1. shown = {} /\ \A r \in DOMAIN runs : ~runs[r].hup /\ runs[r].state \in {"live", "absent"}
  BY DEF LayoutOnce
<1>2. OnScreen = {} /\ ToClose = {}
  BY <1>1 DEF ClaimsOK, ClaimsFit
<1>3. ASSUME NEW k \in DOMAIN toPty, toPty[k].do = "close"
      PROVE  FALSE
  <2>1. Named(toPty[k]) = {<<toPty[k].id, toPty[k].of>>}
    BY <1>3 DEF Named
  <2> QED
    BY <1>2, <2>1 DEF ToClose, NamedIn
<1> QED
  BY <1>1, <1>2, <1>3

LEMMA NoLayoutTold ==
    ASSUME TypeInv, LayoutOnce, ~pending
    PROVE  /\ \A k \in DOMAIN todo : ~TellsLayout(todo[k])
           /\ \A k \in DOMAIN toScreen : toScreen[k].do # "layout"
BY DEF LayoutOnce

LEMMA RerunsLayoutOnce ==
    TypeInv /\ ClaimsOK /\ RerunsShown /\ LayoutOnce /\ PtyReruns => LayoutOnce'
<1> SUFFICES ASSUME TypeInv, ClaimsOK, RerunsShown, LayoutOnce, PtyReruns
             PROVE  LayoutOnce'
  OBVIOUS
<1>1. Takes("rerun")
  BY DEF PtyReruns
<1>2. toPty[1].do = "rerun" /\ 1 \in DOMAIN toPty
  BY <1>1, TakesFacts, TypeParts, FirstIsThere
<1>3. toScreen' = toScreen /\ pending' = pending /\ buffered' = buffered
  BY DEF PtyReruns, screen
<1>4. ~pending
  BY <1>2, PendingFacts DEF RerunsShown
<1>5. ~pending'
  BY <1>3, <1>4, Zenon
<1>6. RerunOK(toPty[1])
  BY RerunsFacts
<1>7. ASSUME NEW k \in DOMAIN todo'
      PROVE  ~TellsLayout(todo'[k])
  <2>2. CASE todo' = <<>>
    BY <2>2
  <2>3. CASE NotFoundTold(todo', runs', toPty[1].id, Len(runs) + 1, FALSE)
    <3>1. DOMAIN todo' = 1 .. 2
      BY <2>3, SeqDomain DEF NotFoundTold
    <3>2. CASE k = 1
      BY <2>3, <3>2, StepKinds DEF NotFoundTold
    <3>3. CASE k = 2
      BY <2>3, <3>3, StepKinds DEF NotFoundTold
    <3> QED
      BY <3>1, <3>2, <3>3
  <2> QED
    BY <1>6, <2>2, <2>3 DEF RerunOK
<1>8. buffered' = <<>>
  BY <1>3 DEF LayoutOnce
<1> QED
  BY <1>3, <1>4, <1>5, <1>7, <1>8, NoLayoutTold DEF LayoutOnce

LEMMA ClosesLayoutOnce == TypeInv /\ ClaimsOK /\ LayoutOnce /\ PtyCloses => LayoutOnce'
<1> SUFFICES ASSUME TypeInv, ClaimsOK, LayoutOnce, PtyCloses
             PROVE  LayoutOnce'
  OBVIOUS
<1>1. Takes("close")
  BY DEF PtyCloses
<1>2. toPty[1].do = "close" /\ 1 \in DOMAIN toPty /\ IsTail(toPty', toPty)
  BY <1>1, TakesFacts, TypeParts, FirstIsThere
<1>3. UNCHANGED <<todo, toScreen, screen>>
  BY DEF PtyCloses
<1>4. UNCHANGED <<todo, toScreen, pending, buffered, shown>>
  BY <1>3 DEF screen
<1>5. ~pending
  BY <1>2, PendingFacts
<1>6. ~LayoutIsAsked
  BY <1>2 DEF LayoutIsAsked
<1> QED
  BY <1>2, <1>4, <1>5, <1>6, LayoutOnceKept DEF NotTheLayout

(* No process is started, and none comes back.                              *)
WorkGoesOn ==
    /\ RunsStay(runs', runs)
    /\ \A r \in DOMAIN runs :
        /\ runs'[r].state \in {"live", "ended"} => runs[r].state \in {"live", "ended"}
        /\ runs[r].state = "absent" => runs'[r].state = "absent"

SameSignals == \A r \in DOMAIN runs : runs'[r].hup = runs[r].hup

(* Nothing new is told of a pane or a process.                              *)
HearsLess ==
    \/ toScreen' = toScreen
    \/ \E m : m.do \in Beforehand /\ IsAppend(toScreen', toScreen, m)
    \/ IsTail(toScreen', toScreen)

NoMoreReruns ==
    \/ toPty' = toPty
    \/ \E m : m.do # "rerun" /\ IsAppend(toPty', toPty, m)

(* A step that has to do with no pane's life                                *)
QuietStep ==
    /\ UNCHANGED <<table, child, todo, shown, pending, buffered>>
    /\ WorkGoesOn /\ SameSignals
    /\ pending => StartsAsBefore
    /\ OnScreen' = OnScreen /\ ToClose' = ToClose /\ Coming' = Coming
    /\ \A id \in DOMAIN panes' :
          id \in DOMAIN panes /\ panes'[id].of = panes[id].of /\ panes'[id].held = panes[id].held
    /\ HearsLess /\ (IsTail(toScreen', toScreen) => toScreen[1].do \in Beforehand)
    /\ NoMoreReruns

LEMMA QuietScreen ==
    ASSUME TypeInv, ClaimsOK, LayoutOnce, UNCHANGED <<panes, todo, toPty, shown, pending, buffered>>,
           UNCHANGED <<table, child, runs>>, NEW do \in Beforehand, Receives(do)
    PROVE  QuietStep
<1>1. /\ IsTail(toScreen', toScreen) /\ toScreen[1].do \in Beforehand /\ do \notin {"new", "layout"}
  BY ReceivesFacts, TypeParts DEF Beforehand
<1>2. Coming' = Coming
  BY <1>1, ScreenTakes
<1>3. OnScreen' = OnScreen /\ ToClose' = ToClose
  BY DEF OnScreen, ToClose
<1>4. RunsStay(runs', runs) /\ DOMAIN runs' = DOMAIN runs
  <2>1. UNCHANGED system
    BY DEF system
  <2> QED
    BY <2>1, SystemStays
<1>5. pending => StartsAsBefore
  BY <1>4 DEF LayoutOnce, StartsAsBefore
<1>6. WorkGoesOn /\ SameSignals
  BY <1>4 DEF WorkGoesOn, SameSignals
<1> QED
  BY <1>1, <1>2, <1>3, <1>5, <1>6 DEF QuietStep, HearsLess, NoMoreReruns

LEMMA QuietBytes == TypeInv /\ ClaimsOK /\ LayoutOnce /\ ScreenPtyBytes => QuietStep
<1> SUFFICES ASSUME TypeInv, ClaimsOK, LayoutOnce, ScreenPtyBytes
             PROVE  QuietStep
  OBVIOUS
<1>1. /\ Receives("bytes") /\ UNCHANGED <<panes, todo, toPty, shown, pending, buffered>>
      /\ UNCHANGED system
  BY DEF ScreenPtyBytes
<1>2. UNCHANGED <<table, child, runs>>
  BY <1>1 DEF system
<1>3. "bytes" \in Beforehand
  BY DEF Beforehand
<1> QED
  BY <1>1, <1>2, <1>3, QuietScreen

LEMMA QuietResize == TypeInv /\ ClaimsOK /\ LayoutOnce /\ ScreenTerminalResize => QuietStep
<1> SUFFICES ASSUME TypeInv, ClaimsOK, LayoutOnce, ScreenTerminalResize
             PROVE  QuietStep
  OBVIOUS
<1>1. /\ Receives("resize") /\ UNCHANGED <<panes, todo, toPty, shown, pending, buffered>>
      /\ UNCHANGED system
  BY DEF ScreenTerminalResize
<1>2. UNCHANGED <<table, child, runs>>
  BY <1>1 DEF system
<1>3. "resize" \in Beforehand
  BY DEF Beforehand
<1> QED
  BY <1>1, <1>2, <1>3, QuietScreen

(* What the user says                                                      *)
UserSays ==
    \/ /\ toScreen' = toScreen
       /\ \E m \in PtyMessages : m.do = "spawn" /\ IsAppend(toPty', toPty, m)
    \/ /\ toPty' = toPty
       /\ \E m \in ScreenMessages(runs) :
             m.do \in {"close focused", "key", "resize"} /\ IsAppend(toScreen', toScreen, m)

LEMMA UserFacts ==
    ASSUME TypeInv, User
    PROVE  UserSays /\ UNCHANGED <<system, todo, toWriter, screen>>
<1>1. toPty \in Seq(PtyMessages) /\ toScreen \in Seq(ScreenMessages(runs)) /\ UserType
  BY TypeParts
<1>2. ASSUME NEW m \in {CloseFocused, TerminalResize} \cup Keys, toScreen' = Append(toScreen, m),
             toPty' = toPty
      PROVE  UserSays
  <2>1. CloseFocused.do = "close focused" /\ TerminalResize.do = "resize" /\ \A k \in Keys : k.do = "key"
    BY DEF CloseFocused, TerminalResize, Keys
  <2>2. m \in ScreenMessages(runs)
    BY DEF ScreenMessages
  <2>3. IsAppend(toScreen', toScreen, m)
    BY <1>1, <1>2, <2>2, Appends
  <2> QED
    BY <1>2, <2>1, <2>2, <2>3 DEF UserSays
<1>3. ASSUME NEW cmd \in Commands, NEW split \in Splits, UserOpens(cmd, split)
      PROVE  UserSays /\ UNCHANGED <<system, todo, toWriter, screen>>
  <2> DEFINE m == Spawn(cmd, First + asked', split)
  <2>1. /\ Asks /\ resumes' = resumes /\ pressed' = pressed /\ toPty' = Append(toPty, m)
        /\ toScreen' = toScreen /\ UNCHANGED <<system, todo, toWriter, screen>>
    BY <1>3 DEF UserOpens
  <2>2. First + asked' \in Requests
    BY <1>1, <2>1, AskedType
  <2>3. cmd \in AllCommands /\ split \in BOOLEAN
    BY CommandsAssumption, FlagsAssumption
  <2>4. m \in PtyMessages /\ m.do = "spawn"
    BY <2>2, <2>3, MadeRequests DEF Spawn
  <2>5. IsAppend(toPty', toPty, m)
    BY <1>1, <2>1, <2>4, Appends
  <2> QED
    BY <2>1, <2>4, <2>5 DEF UserSays
<1>4. CASE UserCloses
  <2>1. toScreen' = Append(toScreen, CloseFocused) /\ toPty' = toPty
        /\ UNCHANGED <<system, todo, toWriter, screen>>
    BY <1>4 DEF UserCloses
  <2> QED
    BY <1>2, <2>1
<1>5. ASSUME NEW key \in {"enter", "escape", "ctrl-c"}, UserPresses(key)
      PROVE  UserSays /\ UNCHANGED <<system, todo, toWriter, screen>>
  <2>1. toScreen' = Append(toScreen, Key(key)) /\ toPty' = toPty
        /\ UNCHANGED <<system, todo, toWriter, screen>>
    BY <1>5 DEF UserPresses
  <2>2. Key(key) \in Keys
    BY DEF Key, Keys
  <2> QED
    BY <1>2, <2>1, <2>2
<1>6. CASE UserResizes
  <2>1. toScreen' = Append(toScreen, TerminalResize) /\ toPty' = toPty
        /\ UNCHANGED <<system, todo, toWriter, screen>>
    BY <1>6 DEF UserResizes
  <2> QED
    BY <1>2, <2>1
<1> QED
  BY <1>3, <1>4, <1>5, <1>6 DEF User

(* The panes and the pty thread's handler are left alone.                   *)
LEMMA QuietOthers ==
    ASSUME TypeInv, ClaimsOK, LayoutOnce, UNCHANGED <<todo, screen, table, child>>,
           WorkGoesOn, SameSignals, pending => StartsAsBefore,
           \/ toScreen' = toScreen
           \/ \E m : m.do \in Beforehand /\ IsAppend(toScreen', toScreen, m),
           \/ toPty' = toPty
           \/ \E m \in PtyMessages : m.do = "spawn" /\ IsAppend(toPty', toPty, m)
    PROVE  QuietStep
<1>1. UNCHANGED <<panes, shown, pending, buffered>>
  BY DEF screen
<1>2. OnScreen' = OnScreen
  BY <1>1 DEF OnScreen
<1>3. Coming' = Coming
  <2>1. CASE toScreen' = toScreen
    BY <2>1 DEF Coming
  <2>2. ASSUME NEW m, m.do \in Beforehand, IsAppend(toScreen', toScreen, m)
        PROVE  Coming' = Coming
    <3>1. Named(m) = {}
      BY <2>2 DEF Named, Beforehand
    <3> QED
      BY <2>2, <3>1, ScreenIsSent
  <2> QED
    BY <2>1, <2>2
<1>4. ToClose' = ToClose
  <2>1. CASE toPty' = toPty
    BY <2>1 DEF ToClose
  <2>2. ASSUME NEW m, m.do = "spawn", IsAppend(toPty', toPty, m)
        PROVE  ToClose' = ToClose
    <3>1. Named(m) = {}
      BY <2>2 DEF Named
    <3>2. Grows(toPty', toPty, m)
      BY <2>2, <3>1, NamedAppend DEF ClaimsOK
    <3> QED
      BY <3>1, <3>2 DEF Grows, ToClose
  <2> QED
    BY <2>1, <2>2
<1>5. HearsLess
  BY DEF HearsLess
<1>6. NoMoreReruns
  BY DEF NoMoreReruns
<1>7. ~IsTail(toScreen', toScreen)
  <2>1. CASE toScreen' = toScreen
    <3>1. ASSUME NEW n \in Nat
          PROVE  n # n - 1
      OBVIOUS
    <3>2. ASSUME IsTail(toScreen, toScreen)
          PROVE  FALSE
      BY <3>1, <3>2 DEF IsTail
    <3> QED
      BY <2>1, <3>2
  <2>2. CASE \E m : IsAppend(toScreen', toScreen, m)
    <3>1. Len(toScreen) \in Nat /\ Len(toScreen) + 1 \in DOMAIN toScreen'
      BY <2>2 DEF IsAppend
    <3>2. ASSUME DOMAIN toScreen' = 1 .. Len(toScreen) - 1
          PROVE  FALSE
      BY <3>1, <3>2
    <3> QED
      BY <3>2 DEF IsTail
  <2> QED
    BY <2>1, <2>2
<1> QED
  BY <1>1, <1>2, <1>3, <1>4, <1>5, <1>6, <1>7 DEF QuietStep

LEMMA SameRunsGoOn ==
    ASSUME TypeInv, LayoutOnce, UNCHANGED system
    PROVE  WorkGoesOn /\ SameSignals /\ (pending => StartsAsBefore) /\ UNCHANGED <<table, child>>
<1>1. RunsStay(runs', runs) /\ UNCHANGED <<table, child, runs>>
  BY SystemStays
<1> QED
  BY <1>1 DEF WorkGoesOn, SameSignals, StartsAsBefore, LayoutOnce

LEMMA QuietUser == TypeInv /\ ClaimsOK /\ LayoutOnce /\ User => QuietStep
<1> SUFFICES ASSUME TypeInv, ClaimsOK, LayoutOnce, User
             PROVE  QuietStep
  OBVIOUS
<1>1. UserSays /\ UNCHANGED <<system, todo, toWriter, screen>>
  BY UserFacts
<1>2. WorkGoesOn /\ SameSignals /\ (pending => StartsAsBefore) /\ UNCHANGED <<table, child>>
  BY <1>1, SameRunsGoOn
<1>3. \/ toScreen' = toScreen
      \/ \E m : m.do \in Beforehand /\ IsAppend(toScreen', toScreen, m)
  <2>1. {"close focused", "key", "resize"} \subseteq Beforehand
    BY DEF Beforehand
  <2>2. CASE toPty' = toPty /\ \E m \in ScreenMessages(runs) :
                m.do \in {"close focused", "key", "resize"} /\ IsAppend(toScreen', toScreen, m)
    BY <2>1, <2>2
  <2> QED
    BY <1>1, <2>2 DEF UserSays
<1>4. \/ toPty' = toPty
      \/ \E m \in PtyMessages : m.do = "spawn" /\ IsAppend(toPty', toPty, m)
  BY <1>1 DEF UserSays
<1> QED
  BY <1>1, <1>2, <1>3, <1>4, QuietOthers

LEMMA QuietRest ==
    TypeInv /\ ClaimsOK /\ LayoutOnce /\ (Resumes \/ UNCHANGED vars) => QuietStep
<1> SUFFICES ASSUME TypeInv, ClaimsOK, LayoutOnce, Resumes \/ UNCHANGED vars
             PROVE  QuietStep
  OBVIOUS
<1>1. UNCHANGED <<system, todo, toPty, toScreen, screen>>
  BY DEF Resumes, vars
<1>2. WorkGoesOn /\ SameSignals /\ (pending => StartsAsBefore) /\ UNCHANGED <<table, child>>
  BY <1>1, SameRunsGoOn
<1> QED
  BY <1>1, <1>2, QuietOthers

LEMMA QuietWriter == TypeInv /\ ClaimsOK /\ LayoutOnce /\ WriterApplies => QuietStep
<1> SUFFICES ASSUME TypeInv, ClaimsOK, LayoutOnce, WriterApplies
             PROVE  QuietStep
  OBVIOUS
<1>1. UNCHANGED <<table, child, todo, toPty, toScreen, screen>>
  BY DEF WriterApplies
<1>2. SizedRuns(runs', runs)
  BY WriterFacts, TypeParts
<1>3. WorkGoesOn /\ SameSignals /\ (pending => StartsAsBefore)
  BY <1>2 DEF SizedRuns, RunsStay, WorkGoesOn, SameSignals, StartsAsBefore, LayoutOnce
<1> QED
  BY <1>1, <1>3, QuietOthers

(* One process goes on, and reports nothing.                               *)
LEMMA QuietProcess ==
    ASSUME TypeInv, ClaimsOK, LayoutOnce, ~Quick, NEW r \in DOMAIN runs,
           Ends(r) \/ ListenerReads(r) \/ ListenerEnds(r)
    PROVE  QuietStep
<1>1. /\ UNCHANGED <<table, child, toPty, todo, screen>>
      /\ \/ toScreen' = toScreen
         \/ \E m : m.do \in Beforehand /\ IsAppend(toScreen', toScreen, m)
  <2>1. CASE Ends(r) \/ ListenerEnds(r)
    BY <2>1 DEF Ends, ListenerEnds
  <2>2. CASE ListenerReads(r)
    <3>1. /\ toScreen' = Append(toScreen, PtyBytes(runs[r].id, r))
          /\ UNCHANGED <<table, child, toPty, todo, screen>>
      BY <2>2 DEF ListenerReads
    <3>2. PtyBytes(runs[r].id, r) \in ScreenMessages(runs) /\ PtyBytes(runs[r].id, r).do \in Beforehand
      BY TypeParts, RunFields, MadeMessages DEF PtyBytes, Beforehand
    <3>3. IsAppend(toScreen', toScreen, PtyBytes(runs[r].id, r))
      BY <3>1, <3>2, TypeParts, Appends
    <3> QED
      BY <3>1, <3>2, <3>3
  <2> QED
    BY <2>1, <2>2
<1>2. /\ OneChanges(runs', runs, r) /\ runs'[r].hup = runs[r].hup
      /\ \/ runs'[r].state = runs[r].state
         \/ Ends(r) /\ runs[r].state = "live" /\ runs'[r].state = "ended"
  BY TypeParts, EndsFacts, ReadsFacts, ListenerEndsFacts
<1>3. WorkGoesOn /\ SameSignals
  BY <1>2 DEF OneChanges, WorkGoesOn, SameSignals
<1>4. ASSUME pending
      PROVE  StartsAsBefore
  <2>1. shown = {} /\ \A q \in DOMAIN runs : ~runs[q].hup /\ runs[q].state \in {"live", "absent"}
    BY <1>4, PendingFacts
  <2>2. ~Ends(r)
    BY <2>1 DEF Ends
  <2>3. \A q \in DOMAIN runs' : /\ q \in DOMAIN runs /\ runs'[q].hup = runs[q].hup
                                 /\ runs'[q].state = runs[q].state
    BY <1>2, <2>2 DEF OneChanges, RunsStay
  <2> QED
    BY <2>1, <2>3 DEF StartsAsBefore
<1> QED
  BY <1>1, <1>3, <1>4, QuietOthers

(* Nobody goes to work.                                                    *)
LessWork == \A r \in DOMAIN runs : AtWork(r)' => AtWork(r)

LEMMA FitsLess ==
    ASSUME RunsStay(runs', runs), NEW r \in DOMAIN runs, NEW C, NEW E, E \subseteq C, Fits(r, C)
    PROVE  \A a \in E : a[1] = runs'[r].id => a[2] = runs'[r].of
BY DEF RunsStay, RunStays, Fits

LEMMA HeardLess ==
    ASSUME HearsLess, NEW r
    PROVE  Mailed(r)' => Mailed(r)
<1>1. CASE toScreen' = toScreen
  BY <1>1 DEF Mailed
<1>2. ASSUME NEW m, m.do \in Beforehand, IsAppend(toScreen', toScreen, m)
      PROVE  Mailed(r)' => Mailed(r)
  <2>1. ~Final(m, r)
    BY <1>2 DEF Final, Beforehand
  <2> QED
    BY <1>2, <2>1 DEF Mailed, IsAppend
<1>3. CASE IsTail(toScreen', toScreen)
  BY <1>3 DEF Mailed, IsTail
<1> QED
  BY <1>1, <1>2, <1>3 DEF HearsLess

(* What comes before the k-th message, and who may have its terminal id     *)
LEMMA MessageKept ==
    ASSUME TypeInv, WorkGoesOn, HearsLess,
           \/ OnScreen' \subseteq OnScreen
           \/ IsTail(toScreen', toScreen) /\ OnScreen' \subseteq OnScreen \cup Named(toScreen[1]),
           NEW r \in DOMAIN runs, ~Promised(r)',
           \A k \in DOMAIN toScreen : Final(toScreen[k], r) => MessageFits(k, r),
           NEW k \in DOMAIN toScreen', Final(toScreen'[k], r)
    PROVE  MessageFits(k, r)'
<1>0. /\ RunsStay(runs', runs) /\ runs'[r].id = runs[r].id /\ runs'[r].of = runs[r].of
      /\ Unsettled(r)' => Unsettled(r)
  BY DEF WorkGoesOn, RunsStay, RunStays, Unsettled
<1>1. CASE toScreen' = toScreen /\ OnScreen' \subseteq OnScreen
  <2>1. MessageFits(k, r)
    BY <1>1
  <2>2. Fits(r, OnScreen)'
    BY <1>0, <1>1, <2>1, FitsLess DEF MessageFits, Fits
  <2>3. \A j \in DOMAIN toScreen' : j < k => Fits(r, Named(toScreen[j]))'
    BY <1>0, <1>1, <2>1 DEF MessageFits, Fits
  <2> QED
    BY <1>0, <1>1, <2>1, <2>2, <2>3 DEF MessageFits
<1>2. ASSUME NEW m, m.do \in Beforehand, IsAppend(toScreen', toScreen, m), OnScreen' \subseteq OnScreen
      PROVE  MessageFits(k, r)'
  <2>1. ~Final(m, r)
    BY <1>2 DEF Final, Beforehand
  <2>2. k \in DOMAIN toScreen /\ toScreen'[k] = toScreen[k]
    BY <1>2, <2>1 DEF IsAppend
  <2>3. MessageFits(k, r)
    BY <2>2
  <2>4. Fits(r, OnScreen)'
    BY <1>0, <1>2, <2>3, FitsLess DEF MessageFits, Fits
  <2>5. ASSUME NEW j \in DOMAIN toScreen', j < k
        PROVE  Fits(r, Named(toScreen[j]))'
    <3>1. j \in DOMAIN toScreen /\ toScreen'[j] = toScreen[j]
      BY <1>2, <2>2, <2>5 DEF IsAppend
    <3>2. Fits(r, Named(toScreen[j]))
      BY <2>3, <2>5, <3>1 DEF MessageFits
    <3> QED
      BY <1>0, <3>1, <3>2 DEF Fits
  <2>6. ASSUME NEW j \in DOMAIN toScreen', j # k
        PROVE  ~Final(toScreen'[j], r)
    BY <1>2, <2>1, <2>3, <2>6 DEF IsAppend, MessageFits
  <2> QED
    BY <1>0, <2>2, <2>3, <2>4, <2>5, <2>6 DEF MessageFits
<1>3. CASE IsTail(toScreen', toScreen) /\ OnScreen' \subseteq OnScreen \cup Named(toScreen[1])
  <2>1. /\ k + 1 \in DOMAIN toScreen /\ toScreen'[k] = toScreen[k + 1] /\ k \in Int
        /\ 1 \in DOMAIN toScreen /\ 1 < k + 1
    BY <1>3 DEF IsTail
  <2>2. MessageFits(k + 1, r)
    BY <2>1
  <2>3. Fits(r, OnScreen \cup Named(toScreen[1]))
    BY <2>1, <2>2 DEF MessageFits, Fits
  <2>4. Fits(r, OnScreen)'
    BY <1>0, <1>3, <2>3, FitsLess DEF Fits
  <2>5. ASSUME NEW j \in DOMAIN toScreen', j < k
        PROVE  Fits(r, Named(toScreen[j]))'
    <3>1. j + 1 \in DOMAIN toScreen /\ toScreen'[j] = toScreen[j + 1] /\ j + 1 < k + 1
      BY <1>3, <2>1, <2>5 DEF IsTail
    <3>2. Fits(r, Named(toScreen[j + 1]))
      BY <2>2, <3>1 DEF MessageFits
    <3> QED
      BY <1>0, <3>1, <3>2 DEF Fits
  <2>6. ASSUME NEW j \in DOMAIN toScreen', j # k
        PROVE  ~Final(toScreen'[j], r)
    <3>1. j + 1 \in DOMAIN toScreen /\ toScreen'[j] = toScreen[j + 1] /\ j + 1 # k + 1
      BY <1>3, <2>1, <2>6 DEF IsTail
    <3> QED
      BY <2>2, <3>1 DEF MessageFits
  <2> QED
    BY <1>0, <2>1, <2>2, <2>4, <2>5, <2>6 DEF MessageFits
<1> QED
  BY <1>1, <1>2, <1>3 DEF HearsLess

LEMMA StepKept ==
    ASSUME WorkGoesOn, Claims' \subseteq Claims, todo' = todo, NEW r \in DOMAIN runs,
           NEW k \in DOMAIN todo, StepFits(k, r)
    PROVE  StepFits(k, r)'
<1>1. RunsStay(runs', runs) /\ runs'[r].id = runs[r].id /\ runs'[r].state = "absent"
  BY DEF WorkGoesOn, RunsStay, RunStays, StepFits
<1>2. Fits(r, Claims)'
  <2>1. Fits(r, Claims)
    BY DEF StepFits
  <2>2. \A a \in Claims' : a[1] = runs'[r].id => a[2] = runs'[r].of
    BY <1>1, <2>1, FitsLess
  <2> QED
    BY <2>2 DEF Fits
<1> QED
  BY <1>1, <1>2 DEF StepFits

LEMMA MailKept ==
    ASSUME TypeInv, MailOK, WorkGoesOn, HearsLess, Claims' \subseteq Claims, todo' = todo,
           \/ OnScreen' \subseteq OnScreen
           \/ IsTail(toScreen', toScreen) /\ OnScreen' \subseteq OnScreen \cup Named(toScreen[1])
    PROVE  MailOK' /\ LessWork
<1>1. DOMAIN runs' = DOMAIN runs
  BY DEF WorkGoesOn, RunsStay
<1>2. \A r \in DOMAIN runs : Promised(r)' => Promised(r)
  BY DEF Promised
<1>3. LessWork
  <2>1. \A r \in DOMAIN runs : Unsettled(r)' => Unsettled(r)
    BY DEF WorkGoesOn, Unsettled
  <2> QED
    BY <1>2, <2>1, HeardLess DEF LessWork, AtWork
<1>4. ASSUME NEW r \in DOMAIN runs, NEW k \in DOMAIN toScreen', Final(toScreen'[k], r)
      PROVE  MessageFits(k, r)'
  <2>1. \A j \in DOMAIN toScreen : Final(toScreen[j], r) => MessageFits(j, r)
    BY DEF MailOK
  <2>2. Mailed(r)
    BY <1>4, HeardLess DEF Mailed
  <2>3. ~Promised(r)'
    BY <1>2, <2>1, <2>2 DEF Mailed, MessageFits
  <2> QED
    BY <1>4, <2>1, <2>3, MessageKept
<1>5. ASSUME NEW r \in DOMAIN runs, NEW k \in DOMAIN todo', ToldFinal(todo'[k], r)
      PROVE  StepFits(k, r)'
  <2>1. k \in DOMAIN todo /\ StepFits(k, r)
    BY <1>5 DEF MailOK
  <2> QED
    BY <2>1, StepKept
<1> QED
  BY <1>1, <1>3, <1>4, <1>5 DEF MailOK

(* A pane whose process was done with has none still.                      *)
LEMMA IdleKept ==
    ASSUME RunsStay(runs', runs), LessWork
    PROVE  /\ OneAtATime => OneAtATime'
           /\ \A p : Idle(p) => Idle(p)'
<1>1. DOMAIN runs' = DOMAIN runs /\ \A r \in DOMAIN runs : runs'[r].of = runs[r].of
  BY DEF RunsStay, RunStays
<1>2. ASSUME OneAtATime
      PROVE  OneAtATime'
  BY <1>1, <1>2 DEF OneAtATime, LessWork
<1>3. ASSUME NEW p, Idle(p)
      PROVE  Idle(p)'
  BY <1>1, <1>3 DEF Idle, LessWork
<1> QED
  BY <1>2, <1>3

LEMMA RunsKept ==
    ASSUME RunsOK, WorkGoesOn, SameSignals, UNCHANGED <<table, child>>,
           \A r \in DOMAIN runs : Unsettled(r) /\ <<runs[r].id, runs[r].of>> \in Claims
                                     => <<runs[r].id, runs[r].of>> \in Claims'
    PROVE  RunsOK'
<1>1. ASSUME NEW r \in DOMAIN runs'
      PROVE  RunOK(r)'
  <2>1. /\ r \in DOMAIN runs /\ runs'[r].id = runs[r].id /\ runs'[r].of = runs[r].of
        /\ runs'[r].hup = runs[r].hup
    BY DEF WorkGoesOn, SameSignals, RunsStay, RunStays
  <2>2. Unsettled(r)' => Unsettled(r)
    BY <2>1 DEF Unsettled, WorkGoesOn
  <2> QED
    BY <2>1, <2>2 DEF RunsOK, RunOK
<1> QED
  BY <1>1 DEF RunsOK

LEMMA NoRerunKept ==
    ASSUME NoMoreReruns \/ IsTail(toPty', toPty)
    PROVE  \A p : NoRerun(p) => NoRerun(p)'
<1>1. CASE toPty' = toPty
  BY <1>1 DEF NoRerun
<1>2. ASSUME NEW m, m.do # "rerun", IsAppend(toPty', toPty, m)
      PROVE  \A p : NoRerun(p) => NoRerun(p)'
  BY <1>2 DEF NoRerun, IsAppend, IsRerun
<1>3. CASE IsTail(toPty', toPty)
  BY <1>3 DEF NoRerun, IsTail
<1> QED
  BY <1>1, <1>2, <1>3 DEF NoMoreReruns

(* A pane that was held, and is, or one whose command waits                *)
StaysHeld(id) ==
    panes'[id].held =>
        \A p : p = panes'[id].of =>
            \/ /\ id \in DOMAIN panes /\ panes[id].of = p /\ panes[id].held
               /\ Idle(p) => Idle(p)'
               /\ NoRerun(p) => NoRerun(p)'
            \/ Idle(p)' /\ NoRerun(p)'

LEMMA HeldKept ==
    ASSUME HeldOK, \A id \in DOMAIN panes' : StaysHeld(id)
    PROVE  HeldOK'
<1>1. ASSUME NEW id \in DOMAIN panes', panes'[id].held, NEW p, p = panes'[id].of
      PROVE  Idle(p)' /\ NoRerun(p)'
  BY <1>1 DEF StaysHeld, HeldOK
<1>2. ASSUME NEW id \in DOMAIN panes', panes'[id].held
      PROVE  Idle(panes[id].of)' /\ NoRerun(panes[id].of)'
  <2>1. PICK p : p = panes'[id].of
    OBVIOUS
  <2>2. Idle(p)' /\ NoRerun(p)'
    BY <1>1, <1>2, <2>1
  <2> QED
    BY <2>1, <2>2
<1> QED
  BY <1>2 DEF HeldOK

(* The k-th request is a command to run again, and stays one.              *)
StaysRerun(k) ==
    toPty[k].do = "rerun" =>
        /\ \A p : p = toPty[k].of => Idle(p)'
        /\ <<toPty[k].id, toPty[k].of>> \in OnScreen' \cup ToClose'

LEMMA RerunsKept ==
    ASSUME RerunsOK, NoMoreReruns, \A k \in DOMAIN toPty : StaysRerun(k)
    PROVE  RerunsOK'
<1>1. ASSUME NEW k \in DOMAIN toPty', toPty'[k].do = "rerun"
      PROVE  RerunFits(k)'
  <2>1. k \in DOMAIN toPty /\ toPty'[k] = toPty[k]
    BY <1>1 DEF NoMoreReruns, IsAppend
  <2>2. RerunFits(k) /\ StaysRerun(k) /\ toPty[k].do = "rerun"
    BY <1>1, <2>1 DEF RerunsOK
  <2>3. PICK p, a : /\ p = toPty[k].of /\ p = toPty'[k].of
                    /\ a = <<toPty[k].id, toPty[k].of>> /\ a = <<toPty'[k].id, toPty'[k].of>>
    BY <2>1
  <2>4. Idle(p)' /\ a \in OnScreen' \cup ToClose'
    BY <2>2, <2>3 DEF StaysRerun
  <2>5. /\ \A j \in DOMAIN toPty : j # k => ~IsRerun(toPty[j], p)
        /\ \A j \in DOMAIN toPty : j < k => a \notin Named(toPty[j])
    BY <2>2, <2>3 DEF RerunFits
  <2>6. ASSUME NEW j \in DOMAIN toPty', j # k
        PROVE  ~IsRerun(toPty'[j], p)
    BY <2>5, <2>6 DEF NoMoreReruns, IsAppend, IsRerun
  <2>7. ASSUME NEW j \in DOMAIN toPty', j < k
        PROVE  a \notin Named(toPty'[j])
    <3>1. j \in DOMAIN toPty /\ toPty'[j] = toPty[j]
      BY <2>1, <2>7 DEF NoMoreReruns, IsAppend
    <3> QED
      BY <2>5, <2>7, <3>1
  <2> QED
    BY <2>3, <2>4, <2>6, <2>7 DEF RerunFits
<1> QED
  BY <1>1 DEF RerunsOK

LEMMA RerunsTaken ==
    ASSUME RerunsOK, IsTail(toPty', toPty), \A k \in DOMAIN toPty : k # 1 => StaysRerun(k)
    PROVE  RerunsOK'
<1>1. ASSUME NEW k \in DOMAIN toPty', toPty'[k].do = "rerun"
      PROVE  RerunFits(k)'
  <2>1. k + 1 \in DOMAIN toPty /\ toPty'[k] = toPty[k + 1] /\ k + 1 # 1 /\ k \in Int
    BY DEF IsTail
  <2>2. RerunFits(k + 1) /\ StaysRerun(k + 1) /\ toPty[k + 1].do = "rerun"
    BY <1>1, <2>1 DEF RerunsOK
  <2>3. PICK p, a : /\ p = toPty[k + 1].of /\ p = toPty'[k].of
                    /\ a = <<toPty[k + 1].id, toPty[k + 1].of>> /\ a = <<toPty'[k].id, toPty'[k].of>>
    BY <2>1
  <2>4. Idle(p)' /\ a \in OnScreen' \cup ToClose'
    BY <2>2, <2>3 DEF StaysRerun
  <2>5. /\ \A j \in DOMAIN toPty : j # k + 1 => ~IsRerun(toPty[j], p)
        /\ \A j \in DOMAIN toPty : j < k + 1 => a \notin Named(toPty[j])
    BY <2>2, <2>3 DEF RerunFits
  <2>6. ASSUME NEW j \in DOMAIN toPty'
        PROVE  /\ j # k => ~IsRerun(toPty'[j], p)
               /\ j < k => a \notin Named(toPty'[j])
    <3>1. j \in Int /\ j + 1 \in DOMAIN toPty /\ toPty'[j] = toPty[j + 1]
      BY DEF IsTail
    <3>2. (j # k => j + 1 # k + 1) /\ (j < k => j + 1 < k + 1)
      BY <2>1, <3>1
    <3> QED
      BY <2>5, <3>1, <3>2
  <2> QED
    BY <2>3, <2>4, <2>6 DEF RerunFits
<1> QED
  BY <1>1 DEF RerunsOK

LEMMA WaitsKept ==
    ASSUME WaitsForUser, RunsStay(runs', runs), HearsLess,
           \A k \in DOMAIN todo' : \E j \in DOMAIN todo : todo'[k] = todo[j]
    PROVE  WaitsForUser'
<1>1. \A m : NotStarted(m) => NotStarted(m)'
  BY DEF NotStarted, RunsStay, RunStays
<1>2. ASSUME NEW k \in DOMAIN toScreen', Shows(toScreen'[k])
      PROVE  \E j \in DOMAIN toScreen : toScreen'[k] = toScreen[j]
  <2>1. CASE toScreen' = toScreen
    BY <2>1
  <2>2. ASSUME NEW m, m.do \in Beforehand, IsAppend(toScreen', toScreen, m)
        PROVE  \E j \in DOMAIN toScreen : toScreen'[k] = toScreen[j]
    <3>1. ~Shows(m)
      BY <2>2 DEF Shows, Beforehand
    <3> QED
      BY <1>2, <2>2, <3>1 DEF IsAppend
  <2>3. CASE IsTail(toScreen', toScreen)
    BY <2>3 DEF IsTail
  <2> QED
    BY <2>1, <2>2, <2>3 DEF HearsLess
<1>3. ASSUME NEW k \in DOMAIN toScreen', Shows(toScreen'[k]), NEW m, m = toScreen'[k]
      PROVE  NotStarted(m)'
  BY <1>1, <1>2, <1>3 DEF WaitsForUser
<1>4. ASSUME NEW k \in DOMAIN todo', todo'[k].step = "tell", Shows(todo'[k].msg),
             NEW m, m = todo'[k].msg
      PROVE  NotStarted(m)'
  BY <1>1, <1>4 DEF WaitsForUser
<1>5. \A k \in DOMAIN toScreen' : Shows(toScreen'[k]) => NotStarted(toScreen[k])'
  <2> SUFFICES ASSUME NEW k \in DOMAIN toScreen', Shows(toScreen'[k])
               PROVE  NotStarted(toScreen[k])'
    OBVIOUS
  <2>1. \A m : m = toScreen'[k] => NotStarted(m)'
    BY <1>3
  <2> QED
    BY <2>1 DEF NotStarted
<1>6. \A k \in DOMAIN todo' : todo'[k].step = "tell" /\ Shows(todo'[k].msg) => NotStarted(todo[k].msg)'
  <2> SUFFICES ASSUME NEW k \in DOMAIN todo', todo'[k].step = "tell", Shows(todo'[k].msg)
               PROVE  NotStarted(todo[k].msg)'
    OBVIOUS
  <2>1. \A m : m = todo'[k].msg => NotStarted(m)'
    BY <1>4
  <2> QED
    BY <2>1 DEF NotStarted
<1> QED
  BY <1>5, <1>6 DEF WaitsForUser, Shows

LEMMA LifeParts ==
    ASSUME LifeInv
    PROVE  /\ TypeInv /\ ClaimsOK /\ ClaimsFit /\ NumbersOK /\ RerunsShown
           /\ RunsOK /\ MailOK /\ OneAtATime /\ HeldOK /\ RerunsOK /\ LayoutOnce /\ WaitsForUser
BY DEF LifeInv, ClaimsInv, ClaimsOK, LifeOK

(* The requests to run a command again are still what they were.           *)
LEMMA StayReruns ==
    ASSUME RerunsOK, RunsStay(runs', runs), LessWork, NEW k \in DOMAIN toPty,
           toPty[k].do = "rerun" => <<toPty[k].id, toPty[k].of>> \in OnScreen' \cup ToClose'
    PROVE  StaysRerun(k)
BY IdleKept DEF StaysRerun, RerunsOK, RerunFits

LEMMA QuietLife == LifeInv /\ QuietStep => LifeOK'
<1> SUFFICES ASSUME LifeInv, QuietStep
             PROVE  LifeOK'
  OBVIOUS
<1>1. /\ TypeInv /\ ClaimsOK /\ RunsOK /\ MailOK /\ OneAtATime /\ HeldOK /\ RerunsOK /\ LayoutOnce
      /\ WaitsForUser
  BY LifeParts
<1>2. /\ UNCHANGED <<table, child, todo, shown, pending, buffered>>
      /\ WorkGoesOn /\ SameSignals /\ HearsLess /\ NoMoreReruns /\ RunsStay(runs', runs)
      /\ OnScreen' = OnScreen /\ ToClose' = ToClose
  BY DEF QuietStep, WorkGoesOn
<1>3. Claims' = Claims
  <2>1. Starting' = Starting
    BY <1>2 DEF Starting
  <2> QED
    BY <2>1 DEF QuietStep, Claims
<1>4. LayoutOnce'
  <2>1. NotTheLayout
    <3>1. \A m : m.do \in Beforehand => m.do # "layout"
      BY DEF Beforehand
    <3> QED
      BY <3>1 DEF QuietStep, HearsLess, NotTheLayout
  <2>2. toPty' = toPty \/ \E m : IsAppend(toPty', toPty, m)
    BY <1>2 DEF NoMoreReruns
  <2> QED
    BY <1>1, <1>2, <2>1, <2>2, LayoutOnceKept DEF QuietStep
<1>5. MailOK' /\ LessWork
  BY <1>1, <1>2, <1>3, MailKept
<1>6. OneAtATime' /\ \A p : Idle(p) => Idle(p)'
  BY <1>1, <1>2, <1>5, IdleKept
<1>7. RunsOK'
  BY <1>1, <1>2, <1>3, RunsKept
<1>8. HeldOK'
  <2>1. \A p : NoRerun(p) => NoRerun(p)'
    BY <1>2, NoRerunKept
  <2>2. \A id \in DOMAIN panes' : StaysHeld(id)
    BY <1>6, <2>1 DEF QuietStep, StaysHeld
  <2> QED
    BY <1>1, <2>2, HeldKept
<1>9. RerunsOK'
  <2>1. \A k \in DOMAIN toPty : toPty[k].do = "rerun" =>
            <<toPty[k].id, toPty[k].of>> \in OnScreen' \cup ToClose'
    BY <1>1, <1>2 DEF RerunsOK, RerunFits
  <2> QED
    BY <1>1, <1>2, <1>5, <2>1, StayReruns, RerunsKept
<1>10. WaitsForUser'
  BY <1>1, <1>2, WaitsKept
<1> QED
  BY <1>4, <1>5, <1>6, <1>7, <1>8, <1>9, <1>10 DEF LifeOK

(* A request that is on its way to the screen has had no process but its    *)
(* own, and its pane is to come.                                           *)
LEMMA UsedFacts ==
    ASSUME TypeInv, ClaimsOK, NumbersOK, NEW k \in DOMAIN toPty, toPty[k].do = "spawn"
    PROVE  /\ \A a \in Claims : a[2] # toPty[k].of
           /\ \A r \in DOMAIN runs : runs[r].of # toPty[k].of
           /\ toPty[k].of \notin shown
BY DEF NumbersOK, Used

(* Whose process a final message is about                                  *)
LEMMA FinalRun ==
    ASSUME TypeInv, NEW r
    PROVE  (Mailed(r) \/ Promised(r)) => r \in DOMAIN runs
<1>1. ASSUME NEW k \in DOMAIN toScreen, Final(toScreen[k], r)
      PROVE  r \in DOMAIN runs
  <2>1. toScreen[k] \in ScreenMessages(runs)
    BY TypeParts, SeqDomain
  <2> QED
    BY <1>1, <2>1, ScreenMessageType DEF Final
<1>2. ASSUME NEW k \in DOMAIN todo, ToldFinal(todo[k], r)
      PROVE  r \in DOMAIN runs
  <2>1. todo[k] \in TodoSteps(runs)
    BY TypeParts, SeqDomain
  <2>2. todo[k].msg \in ScreenMessages(runs)
    BY <1>2, <2>1, TodoType DEF ToldFinal
  <2> QED
    BY <1>2, <2>2, ScreenMessageType DEF ToldFinal, Final
<1> QED
  BY <1>1, <1>2 DEF Mailed, Promised

(* There may be one process more, q.                                       *)
OneProcessMore(q) ==
    /\ q \notin DOMAIN runs /\ DOMAIN runs \subseteq DOMAIN runs'
    /\ DOMAIN runs' \subseteq DOMAIN runs \cup {q}
    /\ \A r \in DOMAIN runs : runs'[r] = runs[r]

LEMMA MailSpawned ==
    ASSUME TypeInv, MailOK, todo = <<>>, toScreen' = toScreen, OnScreen' = OnScreen,
           NEW q, OneProcessMore(q),
           \A k \in DOMAIN todo' : \A r : ToldFinal(todo'[k], r) => r = q /\ StepFits(k, q)'
    PROVE  MailOK' /\ LessWork
<1>1. \A r : Mailed(r)' = Mailed(r)
  BY DEF Mailed
<1>2. \A r \in DOMAIN runs : ~Promised(r)'
  BY DEF Promised, OneProcessMore
<1>3. \A r \in DOMAIN runs : Unsettled(r)' <=> Unsettled(r)
  BY DEF Unsettled, OneProcessMore
<1>4. LessWork
  BY <1>1, <1>2, <1>3 DEF LessWork, AtWork
<1>5. ASSUME NEW r \in DOMAIN runs', NEW k \in DOMAIN toScreen', Final(toScreen'[k], r)
      PROVE  MessageFits(k, r)'
  <2>1. r \in DOMAIN runs
    BY <1>5, FinalRun DEF Mailed
  <2>2. MessageFits(k, r)
    BY <1>5, <2>1 DEF MailOK
  <2>3. runs'[r] = runs[r]
    BY <2>1 DEF OneProcessMore
  <2>4. Fits(r, OnScreen)'
    BY <2>2, <2>3 DEF MessageFits, Fits
  <2>5. \A j \in DOMAIN toScreen' : j < k => Fits(r, Named(toScreen[j]))'
    BY <2>2, <2>3 DEF MessageFits, Fits
  <2> QED
    BY <1>2, <2>1, <2>2, <2>3, <2>4, <2>5 DEF MessageFits, Unsettled
<1>6. ASSUME NEW r \in DOMAIN runs', NEW k \in DOMAIN todo', ToldFinal(todo'[k], r)
      PROVE  StepFits(k, r)'
  BY <1>6
<1> QED
  BY <1>4, <1>5, <1>6 DEF MailOK

LEMMA IdleSpawned ==
    ASSUME LessWork, NEW q, OneProcessMore(q), NEW p, Idle(p),
           q \in DOMAIN runs' => runs'[q].of # p
    PROVE  Idle(p)'
<1>1. ASSUME NEW r \in DOMAIN runs', runs'[r].of = p
      PROVE  ~AtWork(r)'
  <2>1. r \in DOMAIN runs /\ runs'[r] = runs[r]
    BY <1>1 DEF OneProcessMore
  <2> QED
    BY <1>1, <2>1 DEF Idle, LessWork
<1> QED
  BY <1>1 DEF Idle

LEMMA AloneSpawned ==
    ASSUME LessWork, OneAtATime, NEW q, OneProcessMore(q),
           q \in DOMAIN runs' =>
               \A r \in DOMAIN runs : runs[r].of = runs'[q].of => ~AtWork(r)
    PROVE  OneAtATime'
<1>1. ASSUME NEW r \in DOMAIN runs', NEW x \in DOMAIN runs', AtWork(r)', AtWork(x)',
             runs'[r].of = runs'[x].of
      PROVE  r = x
  <2>1. \A y \in DOMAIN runs : runs'[y] = runs[y]
    BY DEF OneProcessMore
  <2>2. CASE r \in DOMAIN runs /\ x \in DOMAIN runs
    BY <1>1, <2>1, <2>2 DEF LessWork, OneAtATime
  <2>3. CASE r \notin DOMAIN runs
    BY <1>1, <2>1, <2>3 DEF LessWork, OneProcessMore
  <2>4. CASE x \notin DOMAIN runs
    BY <1>1, <2>1, <2>4 DEF LessWork, OneProcessMore
  <2> QED
    BY <2>2, <2>3, <2>4
<1> QED
  BY <1>1 DEF OneAtATime

LEMMA ComingShows ==
    ASSUME TypeInv, NEW k \in DOMAIN toScreen, Shows(toScreen[k]), NEW i \in DOMAIN toScreen[k].panes
    PROVE  <<toScreen[k].panes[i].id, toScreen[k].panes[i].of>> \in Coming
BY DEF Coming, NamedIn, Named, Shows

(* What is on its way to the screen waits for the user still.              *)
LEMMA WaitsSpawned ==
    ASSUME TypeInv, WaitsForUser, toScreen' = toScreen, NEW q, OneProcessMore(q),
           q \in DOMAIN runs' => \A a \in Coming : a[2] # runs'[q].of,
           \A k \in DOMAIN todo' : \A m : todo'[k].step = "tell" /\ m = todo'[k].msg /\ Shows(m) => NotStarted(m)'
    PROVE  WaitsForUser'
<1>1. ASSUME NEW k \in DOMAIN toScreen, Shows(toScreen[k])
      PROVE  NotStarted(toScreen[k])'
  <2>1. ASSUME NEW i \in DOMAIN toScreen[k].panes, toScreen[k].panes[i].cmd = "suspended",
               NEW r \in DOMAIN runs'
        PROVE  runs'[r].of # toScreen[k].panes[i].of
    <3>1. CASE r \in DOMAIN runs
      <4>1. NotStarted(toScreen[k])
        BY <1>1 DEF WaitsForUser
      <4> QED
        BY <2>1, <3>1, <4>1 DEF NotStarted, OneProcessMore
    <3>2. CASE r = q
      BY <1>1, <2>1, <3>2, ComingShows
    <3> QED
      BY <3>1, <3>2 DEF OneProcessMore
  <2> QED
    BY <2>1 DEF NotStarted
<1>2. ASSUME NEW k \in DOMAIN todo', todo'[k].step = "tell", Shows(todo'[k].msg)
      PROVE  NotStarted(todo[k].msg)'
  <2>1. \A m : m = todo'[k].msg => NotStarted(m)'
    BY <1>2
  <2> QED
    BY <2>1 DEF NotStarted
<1> QED
  BY <1>1, <1>2 DEF WaitsForUser, Shows

(* What SpawnToldOK tells, step by step                                    *)
IsSpawnStep(m, id, q, k) ==
    \/ k = 1 /\ q[k] = [step |-> "tell", msg |-> NewPane(Terminal(id, m.of, m.cmd), m.split)]
    \/ m.cmd = "missing" /\ k = 2 /\ q[k] = [step |-> "tell", msg |-> PtyBytes(id, Len(runs) + 1)]
    \/ /\ m.cmd = "missing" /\ k = 3
       /\ q[k] = [step |-> "tell", msg |-> HoldPane(id, Len(runs) + 1, FALSE)]
    \/ k = 1 /\ q[k] = [step |-> "free", id |-> id]

LEMMA SpawnSteps ==
    ASSUME NEW m, NEW id, NEW q \in Seq(TodoSteps(runs')), SpawnToldOK(m, id, q), NEW k \in DOMAIN q
    PROVE  IsSpawnStep(m, id, q, k)
<1> DEFINE t == Terminal(id, m.of, m.cmd)
           r == Len(runs) + 1
<1>1. k \in 1 .. Len(q) /\ Len(q) \in Nat /\ q # <<>>
  BY SeqDomain
<1>2. \/ Len(q) = 1 /\ q[1] = [step |-> "tell", msg |-> NewPane(t, m.split)]
      \/ /\ Len(q) = 3 /\ q[1] = [step |-> "tell", msg |-> NewPane(t, m.split)]
         /\ q[2] = [step |-> "tell", msg |-> PtyBytes(id, r)]
         /\ q[3] = [step |-> "tell", msg |-> HoldPane(id, r, FALSE)]
         /\ m.cmd = "missing"
      \/ q = <<>>
      \/ Len(q) = 1 /\ q[1] = [step |-> "free", id |-> id]
  BY Zenon DEF SpawnToldOK
<1> HIDE DEF t, r
<1>3. CASE Len(q) = 1
  BY <1>1, <1>2, <1>3 DEF t, r, IsSpawnStep
<1>4. CASE Len(q) = 3
  <2>1. k = 1 \/ k = 2 \/ k = 3
    BY <1>1, <1>4
  <2>2. Len(q) # 1
    BY <1>4
  <2>3. /\ q[1] = [step |-> "tell", msg |-> NewPane(t, m.split)]
        /\ q[2] = [step |-> "tell", msg |-> PtyBytes(id, r)]
        /\ q[3] = [step |-> "tell", msg |-> HoldPane(id, r, FALSE)]
        /\ m.cmd = "missing"
    BY <1>1, <1>2, <2>2, Zenon
  <2> QED
    BY <2>1, <2>3, Zenon DEF t, r, IsSpawnStep
<1> QED
  BY <1>1, <1>2, <1>3, <1>4

(* Which messages are final, and which show a pane                         *)
LEMMA MessageKinds ==
    /\ \A t, split, r : ~Final(NewPane(t, split), r)
    /\ \A ts, r : ~Final(ApplyLayout(ts), r)
    /\ \A id, q, r : ~Final(PtyBytes(id, q), r) /\ ~Shows(PtyBytes(id, q))
    /\ \A id, q, tab : /\ \A r : Final(HoldPane(id, q, tab), r) <=> r = q
                       /\ ~Shows(HoldPane(id, q, tab)) /\ HoldPane(id, q, tab).id = id
    /\ \A t, split : NewPane(t, split).panes = <<t>>
    /\ \A ts : ApplyLayout(ts).panes = ts
BY DEF Final, Shows, NewPane, ApplyLayout, PtyBytes, HoldPane

SpawnMeaning(m, id, q, k) ==
    /\ \A r : ToldFinal(q[k], r) =>
          /\ k = 3 /\ r = Len(runs) + 1 /\ m.cmd = "missing"
          /\ q[k].msg = HoldPane(id, Len(runs) + 1, FALSE)
    /\ q[k].step = "tell" /\ Shows(q[k].msg) =>
          q[k].msg = NewPane(Terminal(id, m.of, m.cmd), m.split)

LEMMA SpawnMeans ==
    ASSUME NEW m, NEW id, NEW q \in Seq(TodoSteps(runs')), SpawnToldOK(m, id, q), NEW k \in DOMAIN q
    PROVE  SpawnMeaning(m, id, q, k)
<1> DEFINE n == NewPane(Terminal(id, m.of, m.cmd), m.split)
           b == PtyBytes(id, Len(runs) + 1)
           h == HoldPane(id, Len(runs) + 1, FALSE)
<1>1. CASE k = 1 /\ q[k] = [step |-> "tell", msg |-> n]
  <2>1. q[k].msg = n /\ \A r : ~Final(n, r)
    BY <1>1, MessageKinds
  <2> QED
    BY <2>1 DEF ToldFinal, SpawnMeaning
<1>2. CASE q[k] = [step |-> "tell", msg |-> b]
  <2>1. q[k].msg = b /\ (\A r : ~Final(b, r)) /\ ~Shows(b)
    BY <1>2, MessageKinds
  <2> QED
    BY <2>1 DEF ToldFinal, SpawnMeaning
<1>3. CASE m.cmd = "missing" /\ k = 3 /\ q[k] = [step |-> "tell", msg |-> h]
  <2>1. q[k].msg = h /\ ~Shows(h) /\ \A r : Final(h, r) => r = Len(runs) + 1
    BY <1>3 DEF HoldPane, Final, Shows
  <2> QED
    BY <1>3, <2>1 DEF ToldFinal, SpawnMeaning
<1>4. CASE q[k] = [step |-> "free", id |-> id]
  <2>1. q[k].step # "tell"
    BY <1>4
  <2> QED
    BY <2>1 DEF ToldFinal, SpawnMeaning
<1>5. \/ k = 1 /\ q[k] = [step |-> "tell", msg |-> n]
      \/ q[k] = [step |-> "tell", msg |-> b]
      \/ m.cmd = "missing" /\ k = 3 /\ q[k] = [step |-> "tell", msg |-> h]
      \/ q[k] = [step |-> "free", id |-> id]
  <2>1. IsSpawnStep(m, id, q, k)
    BY SpawnSteps
  <2> QED
    BY <2>1, Zenon DEF IsSpawnStep
<1> QED
  BY <1>1, <1>2, <1>3, <1>4, <1>5, Zenon

LEMMA SpawnsLife == LifeInv /\ Mild /\ PtySpawns => LifeOK'
<1> SUFFICES ASSUME LifeInv, Mild, PtySpawns
             PROVE  LifeOK'
  OBVIOUS
<1>1. /\ TypeInv /\ ClaimsOK /\ ClaimsFit /\ NumbersOK /\ RunsOK /\ MailOK /\ OneAtATime /\ HeldOK
      /\ RerunsOK /\ LayoutOnce /\ WaitsForUser
  BY LifeParts
<1>2. Takes("spawn") /\ (Prompt => Quiet) /\ UNCHANGED <<toScreen, screen>>
  BY DEF PtySpawns
<1>3. /\ todo = <<>> /\ toPty[1].do = "spawn" /\ 1 \in DOMAIN toPty /\ IsTail(toPty', toPty)
  BY <1>1, <1>2, TakesFacts, TypeParts, FirstIsThere
<1>4. PICK m, id, q :
                   /\ q = Len(runs) + 1 /\ m = toPty[1] /\ id = NewId(DOMAIN table) /\ SpawnedOK(m, id, runs')
                   /\ SpawnToldOK(m, id, todo') /\ todo' \in Seq(TodoSteps(runs'))
  BY <1>1, SpawnsFacts
<1>5. OneProcessMore(q)
  BY <1>4 DEF SpawnedOK, OneProcessMore
<1>6. /\ \A a \in Claims : a[2] # m.of
      /\ \A r \in DOMAIN runs : runs[r].of # m.of
      /\ m.of \notin shown
  BY <1>1, <1>3, <1>4, UsedFacts
<1>7. /\ OnScreen' = OnScreen /\ ToClose' = ToClose /\ Coming' = Coming /\ Starting = {}
      /\ Starting' = IF m.cmd = "typo" THEN {} ELSE {<<id, m.of>>}
  BY <1>1, <1>4, SpawnsMoves
<1>8. q \in DOMAIN runs' => /\ runs'[q].id = id /\ runs'[q].of = m.of /\ runs'[q].hup = FALSE
                             /\ m.cmd # "suspended"
                             /\ runs'[q].state = IF Exists(m.cmd) THEN "live" ELSE "absent"
  BY <1>4 DEF SpawnedOK
<1>9. \A a \in Claims : a[1] # id
  BY <1>1, <1>4 DEF ClaimsFit, SpawnedOK
<1>10. Claims' = Claims \cup Starting'
  BY <1>7 DEF Claims
<1>11. MailOK' /\ LessWork
  <2>1. ASSUME NEW k \in DOMAIN todo', NEW r, ToldFinal(todo'[k], r)
        PROVE  k = 3 /\ r = q /\ m.cmd = "missing" /\ todo'[k].msg = HoldPane(id, q, FALSE)
    <3>1. /\ k = 3 /\ r = Len(runs) + 1 /\ m.cmd = "missing"
          /\ todo'[k].msg = HoldPane(id, Len(runs) + 1, FALSE)
      <4>1. SpawnMeaning(m, id, todo', k)
        BY <1>4, SpawnMeans
      <4> QED
        BY <2>1, <4>1, Zenon DEF SpawnMeaning
    <3> QED
      BY <1>4, <3>1, Zenon
  <2>2. ASSUME NEW k \in DOMAIN todo', ToldFinal(todo'[k], q)
        PROVE  StepFits(k, q)'
    <3>1. k = 3 /\ m.cmd = "missing" /\ todo'[k].msg.id = id
      <4>1. k = 3 /\ m.cmd = "missing" /\ todo'[k].msg = HoldPane(id, q, FALSE)
        BY <2>1, <2>2
      <4>2. HoldPane(id, q, FALSE).id = id
        BY DEF HoldPane
      <4> QED
        BY <4>1, <4>2
    <3>2. q \in DOMAIN runs' /\ runs'[q].state = "absent"
      <4>1. ~Exists(m.cmd) /\ m.cmd # "suspended"
        BY <3>1 DEF Exists
      <4>2. q \in DOMAIN runs'
        BY <1>4, <4>1 DEF SpawnedOK
      <4> QED
        BY <1>8, <4>1, <4>2
    <3>3. Fits(q, Claims)'
      BY <1>7, <1>8, <1>9, <1>10, <3>1, <3>2 DEF Fits
    <3>4. \A j \in DOMAIN todo' : j # k => ~ToldFinal(todo'[j], q)
      BY <2>1, <3>1
    <3> QED
      BY <1>8, <3>1, <3>2, <3>3, <3>4 DEF StepFits
  <2>3. OnScreen' = OnScreen /\ toScreen' = toScreen
    BY <1>2, <1>7
  <2> QED
    BY <1>1, <1>3, <1>5, <2>1, <2>2, <2>3, MailSpawned
<1>12. OneAtATime'
  BY <1>1, <1>5, <1>6, <1>8, <1>11, AloneSpawned
<1>13. RunsOK'
  <2>1. ASSUME NEW r \in DOMAIN runs, Unsettled(r)
        PROVE  RunOK(r)'
    <3>1. runs'[r] = runs[r] /\ RunOK(r)
      BY <1>1, <1>5 DEF OneProcessMore, RunsOK
    <3>2. ~runs[r].hup
      BY <1>2, <2>1 DEF Mild, Quiet, Unsettled
    <3>3. /\ <<runs[r].id, runs[r].of>> \in Claims
          /\ runs[r].id \in DOMAIN child /\ child[runs[r].id] = r
      BY <2>1, <3>1, <3>2 DEF RunOK
    <3>4. runs[r].id # id
      BY <1>9, <3>3
    <3>5. runs[r].id \in DOMAIN child' /\ child'[runs[r].id] = r
      BY <1>4, <3>3, <3>4 DEF SpawnedOK, Extends
    <3> QED
      BY <1>10, <3>1, <3>2, <3>3, <3>5 DEF RunOK
  <2>2. ASSUME q \in DOMAIN runs', Unsettled(q)'
        PROVE  RunOK(q)'
    <3>1. Exists(m.cmd) /\ m.cmd # "suspended" /\ m.cmd # "typo"
      BY <1>8, <2>2 DEF Unsettled, Exists
    <3>2. <<id, m.of>> \in Claims'
      BY <1>7, <1>10, <3>1
    <3>3. id \in DOMAIN child' /\ child'[id] = q
      BY <1>4, <3>1 DEF SpawnedOK, Extends
    <3> QED
      BY <1>8, <2>2, <3>2, <3>3 DEF RunOK
  <2>3. \A r \in DOMAIN runs : Unsettled(r)' => Unsettled(r)
    BY <1>5 DEF OneProcessMore, Unsettled
  <2> QED
    BY <1>5, <2>1, <2>2, <2>3 DEF RunsOK, RunOK, OneProcessMore
<1>14. \A p : Idle(p) /\ (\E a \in Claims : a[2] = p) => Idle(p)'
  BY <1>5, <1>6, <1>8, <1>11, IdleSpawned
<1>15. HeldOK'
  <2>1. \A p : NoRerun(p) => NoRerun(p)'
    BY <1>3, NoRerunKept
  <2>2. \A x \in DOMAIN panes : <<x, panes[x].of>> \in Claims /\ panes' = panes
    BY <1>2 DEF Claims, OnScreen, screen
  <2>3. \A x \in DOMAIN panes' : StaysHeld(x)
    BY <1>2, <1>14, <2>1, <2>2 DEF StaysHeld, screen
  <2> QED
    BY <1>1, <2>3, HeldKept
<1>16. RerunsOK'
  <2>1. ASSUME NEW k \in DOMAIN toPty, k # 1
        PROVE  StaysRerun(k)
    <3>1. toPty[k].do = "rerun" => /\ <<toPty[k].id, toPty[k].of>> \in OnScreen \cup ToClose
                                   /\ Idle(toPty[k].of)
      BY <1>1 DEF RerunsOK, RerunFits
    <3> QED
      BY <1>7, <1>14, <3>1 DEF StaysRerun, Claims
  <2> QED
    BY <1>1, <1>3, <2>1, RerunsTaken
<1>17. LayoutOnce'
  BY <1>1, SpawnsLayoutOnce
<1>18. WaitsForUser'
  <2>1. q \in DOMAIN runs' => \A a \in Coming : a[2] # runs'[q].of
    BY <1>6, <1>8 DEF Claims
  <2>2. ASSUME NEW k \in DOMAIN todo', NEW x, todo'[k].step = "tell", x = todo'[k].msg, Shows(x)
        PROVE  NotStarted(x)'
    <3>1. x = NewPane(Terminal(id, m.of, m.cmd), m.split)
      <4>1. SpawnMeaning(m, id, todo', k)
        BY <1>4, SpawnMeans
      <4> QED
        BY <2>2, <4>1, Zenon DEF SpawnMeaning
    <3>2. x.panes = <<Terminal(id, m.of, m.cmd)>>
      BY <3>1, MessageKinds
    <3>3. ASSUME m.cmd = "suspended", NEW r \in DOMAIN runs'
          PROVE  runs'[r].of # m.of
      BY <1>4, <1>6, <3>3 DEF SpawnedOK
    <3>4. DOMAIN x.panes = {1} /\ x.panes[1].of = m.of /\ x.panes[1].cmd = m.cmd
      BY <3>2 DEF Terminal
    <3> QED
      BY <3>3, <3>4 DEF NotStarted
  <2> QED
    BY <1>1, <1>2, <1>5, <2>1, <2>2, WaitsSpawned
<1> QED
  BY <1>11, <1>12, <1>13, <1>15, <1>16, <1>17, <1>18 DEF LifeOK

FinalStepFor(s, i, x, step, r) ==
    x = 2 /\ Layout[i] = "missing" /\ r = RunFor(s, i) /\ step.msg = HoldPane(i - 1, r, TRUE)

LEMMA StepForMeans ==
    ASSUME NEW s, NEW i, NEW x, NEW step, StepFor(s, i, x, step)
    PROVE  /\ \A r : ToldFinal(step, r) => FinalStepFor(s, i, x, step, r)
           /\ step.step = "tell" => ~Shows(step.msg)
<1>1. CASE step = [step |-> "listen", run |-> RunFor(s, i)]
  <2>1. step.step # "tell"
    BY <1>1
  <2> QED
    BY <2>1 DEF ToldFinal
<1>2. CASE step = [step |-> "tell", msg |-> PtyBytes(i - 1, RunFor(s, i))]
  <2> DEFINE b == PtyBytes(i - 1, RunFor(s, i))
  <2>1. step.msg = b /\ (\A r : ~Final(b, r)) /\ ~Shows(b)
    BY <1>2 DEF PtyBytes, Final, Shows
  <2> QED
    BY <2>1 DEF ToldFinal
<1>3. CASE Layout[i] = "missing" /\ x = 2
           /\ step = [step |-> "tell", msg |-> HoldPane(i - 1, RunFor(s, i), TRUE)]
  <2> DEFINE h == HoldPane(i - 1, RunFor(s, i), TRUE)
  <2>1. step.msg = h /\ (\A r : Final(h, r) => r = RunFor(s, i)) /\ ~Shows(h)
    BY <1>3 DEF HoldPane, Final, Shows
  <2> QED
    BY <1>3, <2>1 DEF ToldFinal, FinalStepFor
<1>4. CASE step = [step |-> "free", id |-> i - 1]
  <2>1. step.step # "tell"
    BY <1>4
  <2> QED
    BY <2>1 DEF ToldFinal
<1>5. \/ step = [step |-> "listen", run |-> RunFor(s, i)]
      \/ step = [step |-> "tell", msg |-> PtyBytes(i - 1, RunFor(s, i))]
      \/ Layout[i] = "missing" /\ x = 2
         /\ step = [step |-> "tell", msg |-> HoldPane(i - 1, RunFor(s, i), TRUE)]
      \/ step = [step |-> "free", id |-> i - 1]
  BY Zenon DEF StepFor
<1> QED
  BY <1>1, <1>2, <1>3, <1>4, <1>5, Zenon

LEMMA LayoutLife == LifeInv /\ LayoutHolds /\ PtySpawnsLayout => LifeOK'
<1> SUFFICES ASSUME LifeInv, LayoutHolds, PtySpawnsLayout
             PROVE  LifeOK'
  OBVIOUS
<1>1. TypeInv /\ ClaimsOK /\ LayoutOnce /\ RerunsShown
  BY LifeParts
<1>2. PICK s : Fresh /\ LayoutSpawned(s)
  BY <1>1, LayoutFacts
<1>3. LaidOut(s, First) /\ LayoutTodoOK(s, todo') /\ table' = s.table /\ child' = s.child /\ runs' = s.runs
  BY <1>2 DEF LayoutSpawned
<1>4. Claims' = TheLayout /\ OnScreen' = {} /\ ToClose' = {}
  BY <1>1, LayoutMoves
<1>5. /\ toScreen' = toScreen /\ panes' = panes /\ shown = {} /\ panes = <<>>
      /\ \A k \in DOMAIN toScreen : toScreen[k].do \in {"close focused", "key", "resize"}
  BY <1>2 DEF Fresh, PtySpawnsLayout, screen
<1>6. ASSUME NEW r \in DOMAIN runs'
      PROVE  /\ runs'[r].of \in 1 .. First /\ runs'[r].id = runs'[r].of - 1
             /\ ~runs'[r].hup /\ runs'[r].cmd = Layout[runs'[r].of]
             /\ runs'[r].cmd # "suspended"
             /\ runs'[r].cmd = "missing" => runs'[r].state = "absent"
             /\ runs'[r].state # "absent" =>
                   runs'[r].id \in DOMAIN child' /\ child'[runs'[r].id] = r
  <2>1. r \in DOMAIN s.runs
    BY <1>3
  <2>2. /\ s.runs[r].of \in 1 .. First /\ s.runs[r].id = s.runs[r].of - 1
        /\ ~s.runs[r].hup /\ s.runs[r].cmd = Layout[s.runs[r].of]
        /\ s.runs[r].cmd # "suspended"
    BY <1>3, <2>1, Zenon DEF LaidOut
  <2>3. s.runs[r].state = IF Exists(s.runs[r].cmd) THEN "live" ELSE "absent"
    BY <1>3, <2>1, Zenon DEF LaidOut
  <2>4. s.runs[r].state # "absent" =>
             s.runs[r].id \in DOMAIN s.child /\ s.child[s.runs[r].id] = r
    BY <1>3, <2>1, Zenon DEF LaidOut, IsUp
  <2>5. s.runs[r].cmd = "missing" => ~Exists(s.runs[r].cmd)
    BY DEF Exists
  <2> QED
    BY <1>3, <2>2, <2>3, <2>4, <2>5, Zenon
<1>7. \A r, q \in DOMAIN runs' : runs'[r].of = runs'[q].of => r = q
  BY <1>3 DEF LaidOut
<1>8. DOMAIN todo' = 1 .. Len(todo') /\ Len(todo') \in Nat
  BY <1>3, SeqDomain DEF LayoutTodoOK
<1>9. First \in Nat
  BY LayoutTypes
<1>10. todo'[1] = [step |-> "tell", msg |-> ApplyLayout(s.terminals)]
  BY <1>3 DEF LayoutTodoOK
<1>11. \A r : ~ToldFinal(todo'[1], r)
  BY <1>10 DEF ToldFinal, Final, ApplyLayout
<1>12. RunsOK'
  <2>1. ASSUME NEW r \in DOMAIN runs', Unsettled(r)'
        PROVE  RunOK(r)'
    <3>1. runs'[r].state # "absent"
      BY <2>1 DEF Unsettled
    <3>2. <<runs'[r].id, runs'[r].of>> \in TheLayout
      <4>1. PICK i \in 1 .. First : i = runs'[r].of /\ runs'[r].id = i - 1
        BY <1>6
      <4>2. <<i - 1, i>> \in TheLayout
        BY DEF TheLayout
      <4> QED
        BY <4>1, <4>2
    <3> QED
      <4>1. ~runs'[r].hup /\ runs'[r].id \in DOMAIN child' /\ child'[runs'[r].id] = r
        BY <1>6, <3>1
      <4>2. <<runs'[r].id, runs'[r].of>> \in Claims'
        BY <1>4, <3>2
      <4> QED
        BY <4>1, <4>2 DEF RunOK
  <2> QED
    BY <2>1 DEF RunsOK, RunOK
<1>13. MailOK'
  <2>1. \A k \in DOMAIN toScreen' : \A r : ~Final(toScreen'[k], r)
    BY <1>5 DEF Final
  <2>2. ASSUME NEW r, NEW k \in DOMAIN todo', ToldFinal(todo'[k], r)
        PROVE  k \in 2 .. Len(todo')
    BY <1>8, <1>11, <2>2
  <2>3. ASSUME NEW r \in DOMAIN runs', NEW k \in DOMAIN todo', ToldFinal(todo'[k], r)
        PROVE  StepFits(k, r)'
    <3>1. PICK i \in 1 .. First, x \in 1 .. 2 : StepFor(s, i, x, todo'[k])
      BY <1>3, <2>2, <2>3 DEF LayoutTodoOK
    <3>2. FinalStepFor(s, i, x, todo'[k], r)
      BY <2>3, <3>1, StepForMeans
    <3>3. Layout[i] = "missing" /\ r = RunFor(s, i) /\ todo'[k].msg.id = i - 1
      BY <3>2 DEF FinalStepFor, HoldPane
    <3>4. runs'[r].of = i /\ runs'[r].id = i - 1 /\ runs'[r].cmd = "missing"
      BY <1>3, <3>3, RunForFacts
    <3>5. runs'[r].state = "absent"
      BY <1>6, <2>3, <3>4, Zenon
    <3>6. Fits(r, Claims)'
      BY <1>4, <3>4 DEF Fits, TheLayout
    <3>7. ASSUME NEW j \in DOMAIN todo', j # k, ToldFinal(todo'[j], r)
          PROVE  FALSE
      <4>1. j \in 2 .. Len(todo') /\ k \in 2 .. Len(todo') /\ (j < k \/ k < j)
        BY <1>8, <2>2, <2>3, <3>7
      <4>2. PICK a \in 1 .. First, b \in 1 .. First, y \in 1 .. 2, z \in 1 .. 2 :
                /\ StepFor(s, a, y, todo'[j]) /\ StepFor(s, b, z, todo'[k])
                /\ a # b \/ y # z
        <5>1. CASE j < k
          <6>1. PICK a \in 1 .. First, b \in 1 .. First, y \in 1 .. 2, z \in 1 .. 2 :
                    /\ StepFor(s, a, y, todo'[j]) /\ StepFor(s, b, z, todo'[k])
                    /\ a < b \/ (a = b /\ y < z)
            BY <1>3, <4>1, <5>1 DEF LayoutTodoOK
          <6>2. a # b \/ y # z
            BY <1>9, <6>1
          <6> QED
            BY <6>1, <6>2
        <5>2. CASE k < j
          <6>1. PICK a \in 1 .. First, b \in 1 .. First, y \in 1 .. 2, z \in 1 .. 2 :
                    /\ StepFor(s, a, y, todo'[k]) /\ StepFor(s, b, z, todo'[j])
                    /\ a < b \/ (a = b /\ y < z)
            BY <1>3, <4>1, <5>2 DEF LayoutTodoOK
          <6>2. a # b \/ y # z
            BY <1>9, <6>1
          <6> QED
            BY <6>1, <6>2
        <5> QED
          BY <4>1, <5>1, <5>2
      <4>3. /\ FinalStepFor(s, a, y, todo'[j], r) /\ FinalStepFor(s, b, z, todo'[k], r)
        BY <2>3, <3>7, <4>2, StepForMeans
      <4>4. y = 2 /\ z = 2 /\ runs'[r].of = a /\ runs'[r].of = b
        <5>1. y = 2 /\ Layout[a] = "missing" /\ r = RunFor(s, a)
          BY <4>3, Zenon DEF FinalStepFor
        <5>2. z = 2 /\ Layout[b] = "missing" /\ r = RunFor(s, b)
          BY <4>3, Zenon DEF FinalStepFor
        <5>3. runs'[RunFor(s, a)].of = a
          BY <1>3, <5>1, RunForFacts
        <5>4. runs'[RunFor(s, b)].of = b
          BY <1>3, <5>2, RunForFacts
        <5> QED
          BY <5>1, <5>2, <5>3, <5>4, Zenon
      <4> QED
        BY <4>2, <4>4
    <3> QED
      BY <3>3, <3>4, <3>5, <3>6, <3>7 DEF StepFits
  <2> QED
    BY <2>1, <2>3 DEF MailOK
<1>14. OneAtATime'
  BY <1>7 DEF OneAtATime
<1>15. HeldOK'
  <2>1. DOMAIN panes' = {}
    BY <1>2, <1>5, NoPanes
  <2> QED
    BY <2>1 DEF HeldOK
<1>16. RerunsOK'
  <2>1. toPty \in Seq(PtyMessages) /\ IsTail(toPty', toPty)
    BY <1>1, TypeParts, TakesFacts DEF PtySpawnsLayout
  <2>2. \A k \in DOMAIN toPty' : toPty'[k].do # "rerun"
    BY <1>1, <1>5, <2>1 DEF RerunsShown, IsTail
  <2> QED
    BY <2>2 DEF RerunsOK
<1>17. LayoutOnce'
  BY <1>1, LayoutLayoutOnce
<1>18. WaitsForUser'
  <2>1. \A k \in DOMAIN toScreen' : ~Shows(toScreen'[k])
    BY <1>5 DEF Shows
  <2>2. ASSUME NEW k \in DOMAIN todo', todo'[k].step = "tell", Shows(todo'[k].msg)
        PROVE  NotStarted(todo[k].msg)'
    <3>1. CASE k = 1
      <4>1. todo'[k].msg.panes = s.terminals
        BY <1>10, <3>1 DEF ApplyLayout
      <4>2. s.terminals = [i \in 1 .. First |-> Terminal(i - 1, i, Layout[i])]
        BY <1>3 DEF LaidOut
      <4>3. \A i \in DOMAIN s.terminals : s.terminals[i].cmd = Layout[i] /\ s.terminals[i].of = i
        BY <4>2 DEF Terminal
      <4>4. ASSUME NEW i \in DOMAIN s.terminals, s.terminals[i].cmd = "suspended",
                   NEW r \in DOMAIN runs'
            PROVE  runs'[r].of # s.terminals[i].of
        BY <1>6, <4>3, <4>4
      <4> QED
        BY <4>1, <4>4 DEF NotStarted
    <3>2. CASE k # 1
      <4>1. PICK i \in 1 .. First, x \in 1 .. 2 : StepFor(s, i, x, todo'[k])
        BY <1>3, <1>8, <3>2 DEF LayoutTodoOK
      <4> QED
        BY <2>2, <4>1, StepForMeans
    <3> QED
      BY <3>1, <3>2
  <2> QED
    BY <2>1, <2>2 DEF WaitsForUser, Shows
<1> QED
  BY <1>12, <1>13, <1>14, <1>15, <1>16, <1>17, <1>18 DEF LifeOK

LEMMA RerunsLife == LifeInv /\ Mild /\ PtyReruns => LifeOK'
<1> SUFFICES ASSUME LifeInv, Mild, PtyReruns
             PROVE  LifeOK'
  OBVIOUS
<1>1. /\ TypeInv /\ ClaimsOK /\ ClaimsFit /\ RerunsShown /\ RunsOK /\ MailOK /\ OneAtATime /\ HeldOK
      /\ RerunsOK /\ LayoutOnce /\ WaitsForUser /\ OneToOne(Claims)
  BY LifeParts DEF ClaimsFit
<1>2. Takes("rerun") /\ (Prompt => Quiet) /\ UNCHANGED <<toScreen, screen>>
  BY DEF PtyReruns
<1>3. /\ todo = <<>> /\ toPty[1].do = "rerun" /\ 1 \in DOMAIN toPty /\ IsTail(toPty', toPty)
  BY <1>1, <1>2, TakesFacts, TypeParts, FirstIsThere
<1>4. PICK m, p, q : q = Len(runs) + 1 /\ m = toPty[1] /\ p = m.of /\ RerunOK(m)
  BY <1>1, RerunsFacts
<1>5. OneProcessMore(q) /\ q \in DOMAIN runs'
  BY <1>4 DEF RerunOK, OneProcessMore
<1>6. /\ runs'[q].id = m.id /\ runs'[q].of = p /\ runs'[q].hup = FALSE
      /\ runs'[q].state = (IF Exists(m.cmd) THEN "live" ELSE "absent")
  BY <1>4 DEF RerunOK
<1>7. /\ Idle(p) /\ <<m.id, p>> \in OnScreen \cup ToClose /\ p \in shown
      /\ \A j \in DOMAIN toPty : j # 1 => ~IsRerun(toPty[j], p)
      /\ IsRerun(toPty[1], p)
  BY <1>1, <1>3, <1>4 DEF RerunsOK, RerunFits, RerunsShown, IsRerun
<1>8. OnScreen' = OnScreen /\ ToClose' = ToClose /\ Claims' = Claims
  <2>1. /\ OnScreen' = OnScreen /\ ToClose' = ToClose /\ Coming' = Coming /\ Starting' = Starting
    BY <1>1, RerunsMoves
  <2> QED
    BY <2>1 DEF Claims
<1>9. <<m.id, p>> \in Claims
  BY <1>7 DEF Claims
<1>10. MailOK' /\ LessWork
  <2>1. ASSUME NEW k \in DOMAIN todo', NEW r, ToldFinal(todo'[k], r)
        PROVE  k = 2 /\ r = q /\ todo'[k].msg.id = m.id /\ ~Exists(m.cmd)
    <3>1. ~Exists(m.cmd) /\ NotFoundTold(todo', runs', m.id, q, FALSE)
      <4>1. todo' # <<>>
        BY <2>1
      <4> QED
        BY <1>4, <4>1 DEF RerunOK
    <3>2. /\ k \in 1 .. 2
          /\ todo'[1] = [step |-> "tell", msg |-> PtyBytes(m.id, q)]
          /\ todo'[2] = [step |-> "tell", msg |-> HoldPane(m.id, q, FALSE)]
      BY <2>1, <3>1, SeqDomain DEF NotFoundTold
    <3>3. CASE k = 1
      <4>1. ~Final(PtyBytes(m.id, q), r)
        BY MessageKinds
      <4>2. todo'[k].msg = PtyBytes(m.id, q)
        BY <3>2, <3>3
      <4> QED
        BY <2>1, <4>1, <4>2 DEF ToldFinal
    <3>4. CASE k = 2
      <4>1. todo'[k].msg = HoldPane(m.id, q, FALSE)
        <5>1. todo'[k] = [step |-> "tell", msg |-> HoldPane(m.id, q, FALSE)]
          BY <3>2, <3>4, Zenon
        <5> QED
          BY <5>1
      <4>2. HoldPane(m.id, q, FALSE).id = m.id /\ HoldPane(m.id, q, FALSE).run = q
        BY DEF HoldPane
      <4> QED
        BY <2>1, <3>1, <3>4, <4>1, <4>2 DEF ToldFinal, Final
    <3> QED
      BY <3>2, <3>3, <3>4
  <2>2. ASSUME NEW k \in DOMAIN todo', ToldFinal(todo'[k], q)
        PROVE  StepFits(k, q)'
    <3>1. k = 2 /\ todo'[k].msg.id = m.id /\ ~Exists(m.cmd)
      BY <2>1, <2>2
    <3>2. \A j \in DOMAIN todo' : j # k => ~ToldFinal(todo'[j], q)
      BY <2>1, <3>1
    <3>3. Fits(q, Claims)'
      BY <1>1, <1>6, <1>8, <1>9 DEF Fits, OneToOne
    <3> QED
      BY <1>6, <3>1, <3>2, <3>3 DEF StepFits
  <2>3. toScreen' = toScreen
    BY <1>2
  <2>4. \A k \in DOMAIN todo' : \A r : ToldFinal(todo'[k], r) => r = q /\ StepFits(k, q)'
    BY <2>1, <2>2
  <2> QED
    BY <1>1, <1>3, <1>5, <1>8, <2>3, <2>4, MailSpawned
<1>11. OneAtATime'
  BY <1>1, <1>5, <1>6, <1>7, <1>10, AloneSpawned DEF Idle
<1>12. RunsOK'
  <2>1. ASSUME NEW r \in DOMAIN runs, Unsettled(r)
        PROVE  RunOK(r)'
    <3>1. runs'[r] = runs[r] /\ RunOK(r)
      BY <1>1, <1>5 DEF OneProcessMore, RunsOK
    <3>2. ~runs[r].hup
      BY <1>2, <2>1 DEF Mild, Quiet, Unsettled
    <3>3. /\ <<runs[r].id, runs[r].of>> \in Claims
          /\ runs[r].id \in DOMAIN child /\ child[runs[r].id] = r
      BY <2>1, <3>1, <3>2 DEF RunOK
    <3>4. runs[r].id # m.id
      <4>1. runs[r].of # p
        BY <1>7, <2>1 DEF Idle, AtWork
      <4> QED
        BY <1>1, <1>9, <3>3, <4>1 DEF OneToOne
    <3>5. runs[r].id \in DOMAIN child' /\ child'[runs[r].id] = r
      BY <1>4, <3>3, <3>4 DEF RerunOK, Extends, Loses
    <3> QED
      BY <1>8, <3>1, <3>2, <3>3, <3>5 DEF RunOK
  <2>2. ASSUME Unsettled(q)'
        PROVE  RunOK(q)'
    <3>1. Exists(m.cmd)
      BY <1>6, <2>2 DEF Unsettled
    <3>2. m.id \in DOMAIN child' /\ child'[m.id] = q
      BY <1>4, <3>1 DEF RerunOK, Extends
    <3> QED
      BY <1>6, <1>8, <1>9, <3>2 DEF RunOK
  <2>3. \A r \in DOMAIN runs : Unsettled(r)' => Unsettled(r)
    BY <1>5 DEF OneProcessMore, Unsettled
  <2> QED
    BY <1>5, <2>1, <2>2, <2>3 DEF RunsOK, RunOK, OneProcessMore
<1>13. \A x : Idle(x) /\ x # p => Idle(x)'
  BY <1>5, <1>6, <1>10, IdleSpawned
<1>14. HeldOK'
  <2>1. \A x : NoRerun(x) => NoRerun(x)'
    BY <1>3, NoRerunKept
  <2>2. ASSUME NEW x \in DOMAIN panes', panes'[x].held
        PROVE  panes'[x].of # p /\ panes' = panes
    <3>1. panes' = panes
      BY <1>2 DEF screen
    <3>2. NoRerun(panes[x].of)
      BY <1>1, <2>2, <3>1 DEF HeldOK
    <3> QED
      BY <1>3, <1>7, <3>1, <3>2 DEF NoRerun
  <2>3. \A x \in DOMAIN panes' : StaysHeld(x)
    BY <1>13, <2>1, <2>2 DEF StaysHeld
  <2> QED
    BY <1>1, <2>3, HeldKept
<1>15. RerunsOK'
  <2>1. ASSUME NEW k \in DOMAIN toPty, k # 1
        PROVE  StaysRerun(k)
    <3>1. toPty[k].do = "rerun" => /\ <<toPty[k].id, toPty[k].of>> \in OnScreen \cup ToClose
                                   /\ Idle(toPty[k].of)
      BY <1>1 DEF RerunsOK, RerunFits
    <3>2. toPty[k].do = "rerun" => toPty[k].of # p
      BY <1>7, <2>1 DEF IsRerun
    <3> QED
      BY <1>8, <1>13, <3>1, <3>2 DEF StaysRerun
  <2> QED
    BY <1>1, <1>3, <2>1, RerunsTaken
<1>16. LayoutOnce'
  BY <1>1, RerunsLayoutOnce
<1>17. WaitsForUser'
  <2>1. \A a \in Coming : a[2] # runs'[q].of
    BY <1>1, <1>6, <1>7 DEF ClaimsFit
  <2>2. ASSUME NEW k \in DOMAIN todo', todo'[k].step = "tell"
        PROVE  ~Shows(todo'[k].msg)
    <3>1. NotFoundTold(todo', runs', m.id, q, FALSE)
      <4>1. todo' # <<>>
        BY <2>2
      <4> QED
        BY <1>4, <4>1 DEF RerunOK
    <3>2. /\ k \in 1 .. 2
          /\ todo'[1] = [step |-> "tell", msg |-> PtyBytes(m.id, q)]
          /\ todo'[2] = [step |-> "tell", msg |-> HoldPane(m.id, q, FALSE)]
      BY <2>2, <3>1, SeqDomain DEF NotFoundTold
    <3>3. CASE k = 1
      BY <3>2, <3>3 DEF PtyBytes, Shows
    <3>4. CASE k = 2
      BY <3>2, <3>4 DEF HoldPane, Shows
    <3> QED
      BY <3>2, <3>3, <3>4
  <2>3. toScreen' = toScreen
    BY <1>2
  <2> QED
    BY <1>1, <1>5, <2>1, <2>2, <2>3, WaitsSpawned
<1> QED
  BY <1>10, <1>11, <1>12, <1>14, <1>15, <1>16, <1>17 DEF LifeOK

LEMMA ClosesLife == LifeInv /\ PtyCloses => LifeOK'
<1> SUFFICES ASSUME LifeInv, PtyCloses
             PROVE  LifeOK'
  OBVIOUS
<1>1. /\ TypeInv /\ ClaimsOK /\ ClaimsFit /\ ChildrenHaveIds /\ RunsOK /\ MailOK /\ OneAtATime /\ HeldOK
      /\ RerunsOK /\ LayoutOnce /\ WaitsForUser
  BY LifeParts DEF ClaimsOK
<1>2. PICK id, a : id = toPty[1].id /\ a = <<toPty[1].id, toPty[1].of>>
  OBVIOUS
<1>3. /\ Takes("close") /\ Closes(Head(toPty).id) /\ UNCHANGED <<todo, toScreen, screen>>
  BY DEF PtyCloses, screen
<1>4. /\ IsTail(toPty', toPty) /\ Head(toPty) = toPty[1] /\ Named(toPty[1]) = {a}
      /\ 1 \in DOMAIN toPty
  BY <1>1, <1>2, <1>3, TakesFacts, PtyTakes, TypeParts, FirstIsThere
<1>5. /\ ClosedRuns(runs', runs, child, id) /\ Loses(table', table, id) /\ Loses(child', child, id)
  BY <1>1, <1>2, <1>3, <1>4, ClosesFacts, TypeParts
<1>6. OnScreen' = OnScreen /\ ToClose' = ToClose \ {a} /\ Claims' = Claims \ {a}
  BY <1>1, <1>2, ClosesMoves
<1>7. WorkGoesOn /\ RunsStay(runs', runs)
  BY <1>5 DEF ClosedRuns, WorkGoesOn
<1>8. HearsLess
  BY <1>3 DEF HearsLess
<1>9. MailOK' /\ LessWork
  BY <1>1, <1>3, <1>6, <1>7, <1>8, MailKept
<1>10. OneAtATime' /\ \A p : Idle(p) => Idle(p)'
  BY <1>1, <1>7, <1>9, IdleKept
<1>11. RunsOK'
  <2>1. ASSUME NEW r \in DOMAIN runs, Unsettled(r)'
        PROVE  RunOK(r)'
    <3>1. /\ runs'[r].id = runs[r].id /\ runs'[r].of = runs[r].of
          /\ runs'[r].hup <=> runs[r].hup \/ (id \in DOMAIN child /\ child[id] = r)
      BY <1>5 DEF ClosedRuns, RunsStay, RunStays
    <3>2. Unsettled(r) /\ RunOK(r)
      BY <1>1, <1>7, <2>1 DEF WorkGoesOn, Unsettled, RunsOK
    <3>3. CASE runs[r].hup
      BY <1>5, <3>1, <3>2, <3>3 DEF RunOK, Loses
    <3>4. CASE ~runs[r].hup
      <4>1. /\ <<runs[r].id, runs[r].of>> \in Claims
            /\ runs[r].id \in DOMAIN child /\ child[runs[r].id] = r
        BY <3>2, <3>4 DEF RunOK
      <4>2. CASE runs[r].id = id
        BY <1>5, <3>1, <4>1, <4>2 DEF RunOK, Loses
      <4>3. CASE runs[r].id # id
        <5>1. ~runs'[r].hup
          BY <1>1, <3>1, <3>4, <4>3 DEF ChildrenHaveIds
        <5>2. <<runs[r].id, runs[r].of>> \in Claims'
          BY <1>2, <1>6, <4>1, <4>3
        <5>3. runs[r].id \in DOMAIN child' /\ child'[runs[r].id] = r
          BY <1>5, <4>1, <4>3 DEF Loses
        <5> QED
          BY <3>1, <5>1, <5>2, <5>3 DEF RunOK
      <4> QED
        BY <4>2, <4>3
    <3> QED
      BY <3>3, <3>4
  <2>2. DOMAIN runs' = DOMAIN runs
    BY <1>7 DEF RunsStay
  <2> QED
    BY <2>1, <2>2 DEF RunsOK, RunOK
<1>12. HeldOK'
  <2>1. \A p : NoRerun(p) => NoRerun(p)'
    BY <1>4, NoRerunKept
  <2>2. \A x \in DOMAIN panes' : StaysHeld(x)
    BY <1>3, <1>10, <2>1 DEF StaysHeld, screen
  <2> QED
    BY <1>1, <2>2, HeldKept
<1>13. RerunsOK'
  <2>1. ASSUME NEW k \in DOMAIN toPty, k # 1
        PROVE  StaysRerun(k)
    <3>1. toPty[k].do = "rerun" => RerunFits(k)
      BY <1>1 DEF RerunsOK
    <3>2. 1 < k
      BY <1>4, <2>1 DEF IsTail
    <3>3. toPty[k].do = "rerun" => /\ <<toPty[k].id, toPty[k].of>> \in OnScreen \cup ToClose
                                   /\ <<toPty[k].id, toPty[k].of>> # a
      BY <1>4, <3>1, <3>2 DEF RerunFits
    <3> QED
      BY <1>1, <1>6, <1>7, <1>9, <3>3, StayReruns
  <2> QED
    BY <1>1, <1>4, <2>1, RerunsTaken
<1>14. LayoutOnce'
  BY <1>1, ClosesLayoutOnce
<1>15. WaitsForUser'
  BY <1>1, <1>3, <1>7, <1>8, WaitsKept
<1> QED
  BY <1>9, <1>10, <1>11, <1>12, <1>13, <1>14, <1>15 DEF LifeOK

(* The steps that are left of a handler                                    *)
LEMMA StepsLeft ==
    ASSUME MailOK, WorkGoesOn, Claims' \subseteq Claims, todo' = todo \/ IsTail(todo', todo),
           NEW r \in DOMAIN runs
    PROVE  /\ Promised(r)' => Promised(r)
           /\ \A k \in DOMAIN todo' : ToldFinal(todo'[k], r) => StepFits(k, r)'
<1>1. CASE todo' = todo
  BY <1>1, StepKept DEF MailOK, Promised
<1>2. CASE IsTail(todo', todo)
  <2>1. Promised(r)' => Promised(r)
    BY <1>2 DEF Promised, IsTail
  <2>2. ASSUME NEW k \in DOMAIN todo', ToldFinal(todo'[k], r)
        PROVE  StepFits(k, r)'
    <3>1. k \in Int /\ k + 1 \in DOMAIN todo /\ todo'[k] = todo[k + 1]
      BY <1>2 DEF IsTail
    <3>2. StepFits(k + 1, r)
      BY <2>2, <3>1 DEF MailOK
    <3>3. RunsStay(runs', runs) /\ runs'[r].id = runs[r].id /\ runs'[r].state = "absent"
      BY <3>2 DEF WorkGoesOn, RunsStay, RunStays, StepFits
    <3>4. Fits(r, Claims)'
      <4>1. Fits(r, Claims)
        BY <3>2 DEF StepFits
      <4>2. \A a \in Claims' : a[1] = runs'[r].id => a[2] = runs'[r].of
        BY <3>3, <4>1, FitsLess
      <4> QED
        BY <4>2 DEF Fits
    <3>5. ASSUME NEW j \in DOMAIN todo', j # k
          PROVE  ~ToldFinal(todo'[j], r)
      <4>1. j \in Int /\ j + 1 \in DOMAIN todo /\ todo'[j] = todo[j + 1] /\ j + 1 # k + 1
        BY <1>2, <3>1, <3>5 DEF IsTail
      <4> QED
        BY <3>2, <4>1 DEF StepFits
    <3> QED
      BY <3>1, <3>2, <3>3, <3>4, <3>5 DEF StepFits
  <2> QED
    BY <2>1, <2>2
<1> QED
  BY <1>1, <1>2

(* The screen is told that r has ended, or is not there.                    *)
FinalFits(m, r) ==
    /\ m.id = runs[r].id /\ AtWork(r) /\ Fits(r, Claims)
    /\ ~Mailed(r) /\ ~Unsettled(r)' /\ ~Promised(r)'

LEMMA MailTold ==
    ASSUME TypeInv, MailOK, WorkGoesOn, Claims' \subseteq Claims, OnScreen' \subseteq OnScreen,
           todo' = todo \/ IsTail(todo', todo), NEW m, IsAppend(toScreen', toScreen, m),
           \A r \in DOMAIN runs : Final(m, r) => FinalFits(m, r)
    PROVE  MailOK' /\ LessWork
<1>1. RunsStay(runs', runs) /\ DOMAIN runs' = DOMAIN runs
      /\ \A r \in DOMAIN runs : /\ runs'[r].id = runs[r].id /\ runs'[r].of = runs[r].of
                                /\ Unsettled(r)' => Unsettled(r)
  BY DEF WorkGoesOn, RunsStay, RunStays, Unsettled
<1>2. \A r \in DOMAIN runs : /\ Promised(r)' => Promised(r)
                             /\ \A k \in DOMAIN todo' : ToldFinal(todo'[k], r) => StepFits(k, r)'
  BY StepsLeft
<1>3. \A r \in DOMAIN runs : Mailed(r)' => Mailed(r) \/ Final(m, r)
  BY DEF Mailed, IsAppend
<1>4. LessWork
  BY <1>1, <1>2, <1>3 DEF LessWork, AtWork, FinalFits
<1>5. ASSUME NEW r \in DOMAIN runs, NEW k \in DOMAIN toScreen', Final(toScreen'[k], r)
      PROVE  MessageFits(k, r)'
  <2>1. CASE Final(m, r)
    <3>1. FinalFits(m, r)
      BY <2>1
    <3>2. \A j \in DOMAIN toScreen : ~Final(toScreen[j], r)
      BY <3>1 DEF FinalFits, Mailed
    <3>3. k = Len(toScreen) + 1 /\ toScreen'[k] = m
      BY <1>5, <3>2 DEF IsAppend
    <3>4. Fits(r, OnScreen)'
      BY <1>1, <3>1 DEF FinalFits, Fits, Claims
    <3>5. ASSUME NEW j \in DOMAIN toScreen', j < k
          PROVE  Fits(r, Named(toScreen[j]))'
      <4>1. j \in DOMAIN toScreen /\ toScreen'[j] = toScreen[j]
        BY <3>3, <3>5 DEF IsAppend
      <4>2. Named(toScreen[j]) \subseteq Claims
        BY <4>1 DEF Claims, Coming, NamedIn
      <4> QED
        BY <1>1, <3>1, <4>1, <4>2 DEF FinalFits, Fits
    <3>6. \A j \in DOMAIN toScreen' : j # k => ~Final(toScreen'[j], r)
      BY <3>2, <3>3 DEF IsAppend
    <3> QED
      BY <1>1, <3>1, <3>3, <3>4, <3>5, <3>6 DEF FinalFits, MessageFits
  <2>2. CASE ~Final(m, r)
    <3>1. k \in DOMAIN toScreen /\ toScreen'[k] = toScreen[k]
      BY <1>5, <2>2 DEF IsAppend
    <3>2. MessageFits(k, r)
      BY <1>5, <3>1 DEF MailOK
    <3>3. Fits(r, OnScreen)'
      BY <1>1, <3>2 DEF MessageFits, Fits
    <3>4. ASSUME NEW j \in DOMAIN toScreen', j < k
          PROVE  Fits(r, Named(toScreen[j]))'
      <4>1. j \in DOMAIN toScreen /\ toScreen'[j] = toScreen[j]
        BY <3>1, <3>4 DEF IsAppend
      <4>2. Fits(r, Named(toScreen[j]))
        BY <3>2, <3>4, <4>1 DEF MessageFits
      <4> QED
        BY <1>1, <4>1, <4>2 DEF Fits
    <3>5. \A j \in DOMAIN toScreen' : j # k => ~Final(toScreen'[j], r)
      BY <2>2, <3>1, <3>2 DEF IsAppend, MessageFits
    <3>6. ~Promised(r)'
      BY <1>2, <3>2 DEF MessageFits
    <3> QED
      BY <1>1, <3>1, <3>2, <3>3, <3>4, <3>5, <3>6 DEF MessageFits
  <2> QED
    BY <2>1, <2>2
<1> QED
  BY <1>1, <1>2, <1>4, <1>5 DEF MailOK

(* Nothing is told: a handler goes on.                                      *)
LEMMA MailWaits ==
    ASSUME TypeInv, MailOK, WorkGoesOn, Claims' \subseteq Claims, OnScreen' \subseteq OnScreen,
           todo' = todo \/ IsTail(todo', todo), toScreen' = toScreen
    PROVE  MailOK' /\ LessWork
<1>1. RunsStay(runs', runs) /\ DOMAIN runs' = DOMAIN runs
      /\ \A r \in DOMAIN runs : Unsettled(r)' => Unsettled(r)
  BY DEF WorkGoesOn, RunsStay, Unsettled
<1>2. \A r \in DOMAIN runs : /\ Promised(r)' => Promised(r)
                             /\ \A k \in DOMAIN todo' : ToldFinal(todo'[k], r) => StepFits(k, r)'
  BY StepsLeft
<1>3. \A r : Mailed(r)' = Mailed(r)
  BY DEF Mailed
<1>4. LessWork
  BY <1>1, <1>2, <1>3 DEF LessWork, AtWork
<1>5. ASSUME NEW r \in DOMAIN runs, NEW k \in DOMAIN toScreen', Final(toScreen'[k], r)
      PROVE  MessageFits(k, r)'
  <2>1. ~Promised(r)' /\ \A j \in DOMAIN toScreen : Final(toScreen[j], r) => MessageFits(j, r)
    BY <1>2, <1>5 DEF MailOK, MessageFits
  <2>2. HearsLess
    BY DEF HearsLess
  <2> QED
    BY <1>5, <2>1, <2>2, MessageKept
<1> QED
  BY <1>1, <1>2, <1>4, <1>5 DEF MailOK

LEMMA WaitsTold ==
    ASSUME WaitsForUser, RunsStay(runs', runs), todo' = todo \/ IsTail(todo', todo),
           NEW m, IsAppend(toScreen', toScreen, m), Shows(m) => NotStarted(m)
    PROVE  WaitsForUser'
<1>1. \A x : NotStarted(x) => NotStarted(x)'
  BY DEF NotStarted, RunsStay, RunStays
<1>2. \A k \in DOMAIN todo' : \A x : todo'[k].step = "tell" /\ x = todo'[k].msg /\ Shows(x) => NotStarted(x)'
  BY <1>1 DEF WaitsForUser, IsTail
<1>3. \A k \in DOMAIN toScreen' : \A x : x = toScreen'[k] /\ Shows(x) => NotStarted(x)'
  BY <1>1 DEF WaitsForUser, IsAppend
<1>4. ASSUME NEW k \in DOMAIN toScreen', Shows(toScreen'[k])
      PROVE  NotStarted(toScreen[k])'
  <2>1. \A x : x = toScreen'[k] => NotStarted(x)'
    BY <1>3, <1>4
  <2> QED
    BY <2>1 DEF NotStarted
<1>5. ASSUME NEW k \in DOMAIN todo', todo'[k].step = "tell", Shows(todo'[k].msg)
      PROVE  NotStarted(todo[k].msg)'
  <2>1. \A x : x = todo'[k].msg => NotStarted(x)'
    BY <1>2, <1>5
  <2> QED
    BY <2>1 DEF NotStarted
<1> QED
  BY <1>4, <1>5 DEF WaitsForUser, Shows

(* What the pty thread's handler does to the processes as it goes on        *)
LEMMA ContinuesWork ==
    ASSUME TypeInv, ClaimsOK, PtyContinues
    PROVE  /\ WorkGoesOn /\ SameSignals
           /\ \A r \in DOMAIN runs : runs'[r].state = runs[r].state
           /\ \/ UNCHANGED <<table, child>>
              \/ \E id : /\ id \notin DOMAIN child
                         /\ Loses(table', table, id) /\ Loses(child', child, id)
<1>1. ContinueOK(todo[1]) /\ RunsStay(runs', runs) /\ 1 \in DOMAIN todo
  BY ContinuesFacts, TypeParts, FirstIsThere
<1>2. CASE todo[1].step = "tell" /\ UNCHANGED <<table, child, runs>>
  BY <1>1, <1>2 DEF WorkGoesOn, SameSignals
<1>3. CASE /\ todo[1].step = "listen" /\ UNCHANGED <<table, child, toScreen>>
           /\ OneChanges(runs', runs, todo[1].run)
           /\ runs'[todo[1].run].state = runs[todo[1].run].state
           /\ runs'[todo[1].run].hup = runs[todo[1].run].hup
  <2>1. \A r \in DOMAIN runs : runs'[r].state = runs[r].state /\ runs'[r].hup = runs[r].hup
    BY <1>3 DEF OneChanges
  <2> QED
    BY <1>1, <1>3, <2>1 DEF WorkGoesOn, SameSignals
<1>4. CASE /\ todo[1].step = "free" /\ ClosedRuns(runs', runs, child, todo[1].id)
           /\ Loses(table', table, todo[1].id) /\ Loses(child', child, todo[1].id)
  <2>1. todo[1].id \notin DOMAIN child
    BY <1>1, <1>4 DEF ClaimsOK, FreesNobodys
  <2>2. \A r \in DOMAIN runs : runs'[r].state = runs[r].state /\ (runs'[r].hup <=> runs[r].hup)
    BY <1>4, <2>1 DEF ClosedRuns
  <2>3. \A r \in DOMAIN runs : runs'[r].hup \in BOOLEAN /\ runs[r].hup \in BOOLEAN
    BY <1>1, TypeParts, RunFields DEF RunsStay
  <2>4. \A r \in DOMAIN runs : runs'[r].hup = runs[r].hup
    BY <2>2, <2>3, Zenon
  <2> QED
    BY <1>1, <1>4, <2>1, <2>2, <2>4 DEF WorkGoesOn, SameSignals
<1> QED
  BY <1>1, <1>2, <1>3, <1>4 DEF ContinueOK

LEMMA ContinuesLayoutOnce == TypeInv /\ ClaimsOK /\ LayoutOnce /\ PtyContinues => LayoutOnce'
<1> SUFFICES ASSUME TypeInv, ClaimsOK, LayoutOnce, PtyContinues
             PROVE  LayoutOnce'
  OBVIOUS
<1>1. /\ ContinueOK(todo[1]) /\ RunsStay(runs', runs) /\ 1 \in DOMAIN todo /\ todo # <<>>
      /\ IsTail(todo', todo)
  BY ContinuesFacts, TypeParts, FirstIsThere DEF ContinueOK
<1>2. UNCHANGED <<toPty, pending, buffered, shown>>
  BY DEF PtyContinues, screen
<1>3. \/ toScreen' = toScreen /\ todo[1].step # "tell"
      \/ todo[1].step = "tell" /\ IsAppend(toScreen', toScreen, todo[1].msg)
  BY <1>1 DEF ContinueOK
<1>4. ASSUME pending, NEW r \in DOMAIN runs'
      PROVE  ~runs'[r].hup /\ runs'[r].state \in {"live", "absent"}
  BY <1>4, ContinuesWork DEF SameSignals, LayoutOnce, WorkGoesOn, RunsStay
<1>5. \A k \in DOMAIN todo' : ~TellsLayout(todo'[k])
  <2>1. \A k \in DOMAIN todo' : k + 1 \in DOMAIN todo /\ k + 1 # 1 /\ todo'[k] = todo[k + 1]
    BY <1>1 DEF IsTail
  <2> QED
    BY <2>1 DEF LayoutOnce
<1>6. pending => LayoutIsSent'
  <2>1. ~LayoutIsAsked
    BY <1>1, LayoutAskedFirst DEF Fresh
  <2>2. CASE LayoutIsTold
    <3>1. todo[1].step = "tell" /\ todo[1].msg.do = "layout"
      BY <2>2 DEF LayoutIsTold, TellsLayout
    <3>2. Len(toScreen) + 1 \in DOMAIN toScreen' /\ toScreen'[Len(toScreen) + 1].do = "layout"
      BY <1>3, <3>1 DEF IsAppend
    <3> QED
      BY <3>2 DEF LayoutIsSent
  <2>3. CASE LayoutIsSent
    BY <1>3, <2>3 DEF LayoutIsSent, IsAppend
  <2> QED
    BY <2>1, <2>2, <2>3 DEF LayoutOnce
<1>7. ASSUME NEW k \in DOMAIN toScreen', toScreen'[k].do = "layout"
      PROVE  /\ pending
             /\ \A j \in DOMAIN toScreen' : j < k => toScreen'[j].do \in Beforehand
             /\ \A j \in DOMAIN toScreen' : j > k => toScreen'[j].do # "layout"
  <2>1. CASE toScreen' = toScreen
    BY <1>7, <2>1 DEF LayoutOnce
  <2>2. CASE todo[1].step = "tell" /\ IsAppend(toScreen', toScreen, todo[1].msg)
    <3>1. CASE todo[1].msg.do = "layout"
      <4>1. pending /\ \A j \in DOMAIN toScreen : toScreen[j].do \in Beforehand
        BY <1>1, <2>2, <3>1 DEF LayoutOnce, TellsLayout
      <4>2. k = Len(toScreen) + 1
        BY <1>7, <2>2, <4>1 DEF IsAppend, Beforehand
      <4>3. \A j \in DOMAIN toScreen' : ~(j > k) /\ (j < k => j \in DOMAIN toScreen /\ toScreen'[j] = toScreen[j])
        BY <2>2, <4>2 DEF IsAppend
      <4> QED
        BY <4>1, <4>3
    <3>2. CASE todo[1].msg.do # "layout"
      <4>1. k \in DOMAIN toScreen /\ toScreen'[k] = toScreen[k]
        BY <1>7, <2>2, <3>2 DEF IsAppend
      <4>2. /\ pending
            /\ \A j \in DOMAIN toScreen : j < k => toScreen[j].do \in Beforehand
            /\ \A j \in DOMAIN toScreen : j > k => toScreen[j].do # "layout"
        BY <1>7, <4>1 DEF LayoutOnce
      <4>3. \A j \in DOMAIN toScreen' : j < k => j \in DOMAIN toScreen /\ toScreen'[j] = toScreen[j]
        BY <2>2, <4>1 DEF IsAppend
      <4> QED
        BY <2>2, <3>2, <4>2, <4>3 DEF IsAppend
    <3> QED
      BY <3>1, <3>2
  <2> QED
    BY <1>3, <2>1, <2>2
<1>8. buffered' = <<>> /\ (pending => shown' = {})
  BY <1>2 DEF LayoutOnce
<1> QED
  BY <1>2, <1>4, <1>5, <1>6, <1>7, <1>8 DEF LayoutOnce

LEMMA ContinuesLife == LifeInv /\ PtyContinues => LifeOK'
<1> SUFFICES ASSUME LifeInv, PtyContinues
             PROVE  LifeOK'
  OBVIOUS
<1>1. /\ TypeInv /\ ClaimsOK /\ ClaimsFit /\ RunsOK /\ MailOK /\ OneAtATime /\ HeldOK
      /\ RerunsOK /\ LayoutOnce /\ WaitsForUser
  BY LifeParts
<1>2. /\ ContinueOK(todo[1]) /\ RunsStay(runs', runs) /\ 1 \in DOMAIN todo /\ IsTail(todo', todo)
  BY <1>1, ContinuesFacts, TypeParts, FirstIsThere DEF ContinueOK
<1>3. \/ toScreen' = toScreen
      \/ todo[1].step = "tell" /\ IsAppend(toScreen', toScreen, todo[1].msg) /\ UNCHANGED runs
  BY <1>2 DEF ContinueOK
<1>4. /\ OnScreen' = OnScreen /\ ToClose' = ToClose /\ Claims' = Claims
  BY <1>1, ContinuesMoves
<1>5. UNCHANGED <<toPty, panes>>
  BY DEF PtyContinues, screen
<1>6. /\ WorkGoesOn /\ SameSignals
      /\ \/ UNCHANGED <<table, child>>
         \/ \E id : /\ id \notin DOMAIN child
                    /\ Loses(table', table, id) /\ Loses(child', child, id)
  BY <1>1, ContinuesWork
<1>7. ASSUME todo[1].step = "tell", IsAppend(toScreen', toScreen, todo[1].msg), UNCHANGED runs
      PROVE  MailOK' /\ LessWork /\ WaitsForUser'
  <2>1. ASSUME NEW r \in DOMAIN runs, Final(todo[1].msg, r)
        PROVE  FinalFits(todo[1].msg, r)
    <3>1. ToldFinal(todo[1], r)
      BY <1>7, <2>1 DEF ToldFinal
    <3>2. StepFits(1, r) /\ Promised(r)
      BY <1>1, <1>2, <3>1 DEF MailOK, Promised
    <3>3. ~Mailed(r)
      BY <1>1, <3>2 DEF MailOK, Mailed, MessageFits
    <3>4. ~Promised(r)'
      BY <1>2, <3>2 DEF Promised, IsTail, StepFits
    <3>5. ~Unsettled(r)'
      BY <1>7, <3>2 DEF Unsettled, StepFits
    <3> QED
      BY <3>2, <3>3, <3>4, <3>5 DEF FinalFits, StepFits, AtWork
  <2>2. MailOK' /\ LessWork
    BY <1>1, <1>2, <1>4, <1>6, <1>7, <2>1, MailTold
  <2>3. Shows(todo[1].msg) => NotStarted(todo[1].msg)
    BY <1>1, <1>2, <1>7 DEF WaitsForUser
  <2>4. WaitsForUser'
    BY <1>1, <1>2, <1>7, <2>3, WaitsTold
  <2> QED
    BY <2>2, <2>4
<1>8. ASSUME toScreen' = toScreen
      PROVE  MailOK' /\ LessWork /\ WaitsForUser'
  <2>1. MailOK' /\ LessWork
    BY <1>1, <1>2, <1>4, <1>6, <1>8, MailWaits
  <2>2. \A k \in DOMAIN todo' : \E j \in DOMAIN todo : todo'[k] = todo[j]
    BY <1>2 DEF IsTail
  <2>3. WaitsForUser'
    BY <1>1, <1>2, <1>8, <2>2, WaitsKept DEF HearsLess
  <2> QED
    BY <2>1, <2>3
<1>9. MailOK' /\ LessWork /\ WaitsForUser'
  BY <1>3, <1>7, <1>8
<1>10. OneAtATime' /\ \A p : Idle(p) => Idle(p)'
  BY <1>1, <1>2, <1>9, IdleKept
<1>11. RunsOK'
  <2>1. CASE UNCHANGED <<table, child>>
    BY <1>1, <1>4, <1>6, <2>1, RunsKept
  <2>2. ASSUME NEW id, id \notin DOMAIN child, Loses(table', table, id), Loses(child', child, id)
        PROVE  RunsOK'
    <3>1. ASSUME NEW r \in DOMAIN runs, Unsettled(r)'
          PROVE  RunOK(r)'
      <4>1. /\ runs'[r].id = runs[r].id /\ runs'[r].of = runs[r].of /\ runs'[r].hup = runs[r].hup
        BY <1>6 DEF WorkGoesOn, SameSignals, RunsStay, RunStays
      <4>2. Unsettled(r) /\ RunOK(r)
        BY <1>1, <1>6, <3>1 DEF WorkGoesOn, Unsettled, RunsOK
      <4> QED
        BY <1>4, <2>2, <4>1, <4>2 DEF RunOK, Loses
    <3>2. DOMAIN runs' = DOMAIN runs
      BY <1>2 DEF RunsStay
    <3> QED
      BY <3>1, <3>2 DEF RunsOK, RunOK
  <2> QED
    BY <1>6, <2>1, <2>2
<1>12. NoMoreReruns
  BY <1>5 DEF NoMoreReruns
<1>13. HeldOK'
  <2>1. \A p : NoRerun(p) => NoRerun(p)'
    BY <1>12, NoRerunKept
  <2>2. \A x \in DOMAIN panes' : StaysHeld(x)
    BY <1>5, <1>10, <2>1 DEF StaysHeld
  <2> QED
    BY <1>1, <2>2, HeldKept
<1>14. RerunsOK'
  <2>1. \A k \in DOMAIN toPty : toPty[k].do = "rerun" =>
            <<toPty[k].id, toPty[k].of>> \in OnScreen' \cup ToClose'
    BY <1>1, <1>4 DEF RerunsOK, RerunFits
  <2> QED
    BY <1>1, <1>2, <1>9, <1>12, <2>1, StayReruns, RerunsKept
<1>15. LayoutOnce'
  BY <1>1, ContinuesLayoutOnce
<1> QED
  BY <1>9, <1>10, <1>11, <1>13, <1>14, <1>15 DEF LifeOK

LEMMA ReportsLife ==
    ASSUME LifeInv, NEW r \in DOMAIN runs, Reports(r)
    PROVE  LifeOK'
<1>1. /\ TypeInv /\ ClaimsOK /\ ClaimsFit /\ OneToOne(Claims) /\ RunsOK /\ MailOK /\ OneAtATime /\ HeldOK
      /\ RerunsOK /\ LayoutOnce /\ WaitsForUser
  BY LifeParts DEF ClaimsFit
<1>2. Process(r)
  BY DEF Process
<1>3. /\ OnScreen' = OnScreen /\ ToClose' = ToClose /\ Starting' = Starting /\ Coming' = Coming
  BY <1>1, <1>2, ProcessMoves
<1>4. Claims' = Claims
  BY <1>3 DEF Claims
<1>5. /\ OneChanges(runs', runs, r) /\ runs[r].state = "ended" /\ runs'[r].state = "reported"
      /\ runs'[r].hup = runs[r].hup
  BY <1>1, TypeParts, ReportsFacts
<1>6. RunsStay(runs', runs) /\ UNCHANGED <<table, child, toPty, todo, screen>>
  BY <1>1, <1>2, ProcessSends
<1>7. WorkGoesOn /\ SameSignals
  BY <1>5, <1>6 DEF OneChanges, WorkGoesOn, SameSignals
<1>8. PICK m : /\ m.do \in {"hold", "exited"} /\ m.id = runs[r].id /\ m.run = r
               /\ IsAppend(toScreen', toScreen, m)
  <2>1. toScreen' = Append(toScreen, IF HoldsOnClose(runs[r].cmd)
                                     THEN HoldPane(runs[r].id, r, runs[r].tab)
                                     ELSE ClosePane(runs[r].id, r))
    BY DEF Reports
  <2> DEFINE x == IF HoldsOnClose(runs[r].cmd) THEN HoldPane(runs[r].id, r, runs[r].tab)
                                               ELSE ClosePane(runs[r].id, r)
  <2>2. x \in ScreenMessages(runs)
    BY <1>1, TypeParts, RunFields, MadeMessages
  <2>3. x.do \in {"hold", "exited"} /\ x.id = runs[r].id /\ x.run = r
    BY DEF HoldPane, ClosePane
  <2>4. IsAppend(toScreen', toScreen, x)
    BY <1>1, <2>1, <2>2, TypeParts, Appends
  <2> QED
    BY <2>3, <2>4
<1>9. Unsettled(r) /\ ~Unsettled(r)' /\ RunOK(r)
  BY <1>1, <1>5 DEF Unsettled, RunsOK
<1>10. Fits(r, Claims)
  <2>1. CASE runs[r].hup
    BY <1>1, <1>9, <2>1 DEF RunOK, ClaimsFit, Fits
  <2>2. CASE ~runs[r].hup
    BY <1>1, <1>9, <2>2 DEF RunOK, OneToOne, Fits
  <2> QED
    BY <2>1, <2>2
<1>11. ~Mailed(r) /\ ~Promised(r)
  BY <1>1, <1>5, <1>9 DEF MailOK, Mailed, Promised, MessageFits, StepFits
<1>12. ~Promised(r)'
  BY <1>6, <1>11 DEF Promised
<1>13. \A q \in DOMAIN runs : Final(m, q) => FinalFits(m, q)
  BY <1>8, <1>9, <1>10, <1>11, <1>12 DEF Final, FinalFits, AtWork
<1>14. MailOK' /\ LessWork
  BY <1>1, <1>3, <1>4, <1>6, <1>7, <1>8, <1>13, MailTold
<1>15. OneAtATime' /\ \A p : Idle(p) => Idle(p)'
  BY <1>1, <1>6, <1>14, IdleKept
<1>16. RunsOK'
  BY <1>1, <1>4, <1>6, <1>7, RunsKept
<1>17. NoMoreReruns
  BY <1>6 DEF NoMoreReruns
<1>18. HeldOK'
  <2>1. \A p : NoRerun(p) => NoRerun(p)'
    BY <1>17, NoRerunKept
  <2>2. \A x \in DOMAIN panes' : StaysHeld(x)
    BY <1>6, <1>15, <2>1 DEF StaysHeld, screen
  <2> QED
    BY <1>1, <2>2, HeldKept
<1>19. RerunsOK'
  <2>1. \A k \in DOMAIN toPty : toPty[k].do = "rerun" =>
            <<toPty[k].id, toPty[k].of>> \in OnScreen' \cup ToClose'
    BY <1>1, <1>3 DEF RerunsOK, RerunFits
  <2> QED
    BY <1>1, <1>6, <1>14, <1>17, <2>1, StayReruns, RerunsKept
<1>20. LayoutOnce'
  <2>1. ~pending
    BY <1>1, <1>5 DEF LayoutOnce
  <2>2. m.do # "layout"
    BY <1>8
  <2>3. ~LayoutIsTold
    <3>1. LayoutIsTold => 1 \in DOMAIN todo
      BY <1>1, TypeParts, FirstIsThere DEF LayoutIsTold
    <3> QED
      BY <1>1, <2>1, <3>1 DEF LayoutOnce, LayoutIsTold
  <2>4. NotTheLayout
    BY <1>8, <2>2, <2>3 DEF NotTheLayout
  <2>5. pending' = pending /\ buffered' = buffered
    BY <1>6 DEF screen
  <2> QED
    BY <1>1, <1>6, <2>1, <2>4, <2>5, LayoutOnceKept
<1>21. WaitsForUser'
  <2>1. ~Shows(m)
    BY <1>8 DEF Shows
  <2> QED
    BY <1>1, <1>6, <1>8, <2>1, WaitsTold
<1> QED
  BY <1>14, <1>15, <1>16, <1>18, <1>19, <1>20, <1>21 DEF LifeOK

(* The screen takes a message: it starts and ends no process.               *)
ScreenStep(do) ==
    /\ Receives(do) /\ UNCHANGED <<system, todo>>
    /\ Claims' \subseteq Claims /\ OnScreen' \subseteq OnScreen \cup Named(toScreen[1])
    /\ \A r \in DOMAIN runs : Unsettled(r) /\ <<runs[r].id, runs[r].of>> \in Claims
                                 => <<runs[r].id, runs[r].of>> \in Claims'

LEMMA ScreenLife ==
    ASSUME LifeInv, NEW do, ScreenStep(do)
    PROVE  /\ RunsOK' /\ MailOK' /\ OneAtATime' /\ WaitsForUser' /\ LessWork
           /\ \A p : Idle(p) => Idle(p)'
           /\ RunsStay(runs', runs) /\ UNCHANGED <<table, child, runs>>
           /\ IsTail(toScreen', toScreen) /\ 1 \in DOMAIN toScreen /\ toScreen[1].do = do
           /\ Head(toScreen) = toScreen[1]
<1>1. TypeInv /\ RunsOK /\ MailOK /\ OneAtATime /\ WaitsForUser
  BY LifeParts
<1>2. /\ IsTail(toScreen', toScreen) /\ 1 \in DOMAIN toScreen /\ toScreen[1].do = do
      /\ Head(toScreen) = toScreen[1]
  BY <1>1, ReceivesFacts, TypeParts, FirstIsThere DEF ScreenStep
<1>3. RunsStay(runs', runs) /\ UNCHANGED <<table, child, runs, todo>>
  BY <1>1, SystemStays DEF ScreenStep
<1>4. WorkGoesOn /\ SameSignals /\ HearsLess
  BY <1>2, <1>3 DEF WorkGoesOn, SameSignals, HearsLess
<1>5. MailOK' /\ LessWork
  BY <1>1, <1>2, <1>3, <1>4, MailKept DEF ScreenStep
<1>6. OneAtATime' /\ \A p : Idle(p) => Idle(p)'
  BY <1>1, <1>3, <1>5, IdleKept
<1>7. RunsOK'
  BY <1>1, <1>3, <1>4, RunsKept DEF ScreenStep
<1>8. WaitsForUser'
  BY <1>1, <1>3, <1>4, WaitsKept
<1> QED
  BY <1>2, <1>3, <1>5, <1>6, <1>7, <1>8

(* Nothing of the layout changes.                                          *)
LEMMA ScreenLayoutOnce ==
    ASSUME LifeInv, NEW do, ScreenStep(do), do # "layout", pending' = pending, buffered' = buffered,
           pending => shown' = shown,
           toPty' = toPty \/ \E m : IsAppend(toPty', toPty, m)
    PROVE  LayoutOnce'
<1>1. TypeInv /\ LayoutOnce
  BY LifeParts
<1>2. NotTheLayout
  BY ScreenLife DEF NotTheLayout
<1>3. todo' = todo /\ runs' = runs
  BY ScreenLife DEF ScreenStep
<1>4. pending => StartsAsBefore
  BY <1>1, <1>3 DEF LayoutOnce, StartsAsBefore
<1> QED
  BY <1>1, <1>2, <1>3, <1>4, LayoutOnceKept

(* The pane of a command that waits for the user has no process yet.        *)
LEMMA WaitingIsIdle ==
    ASSUME LifeInv, NEW do, ScreenStep(do), Shows(toScreen[1]),
           NEW i \in DOMAIN toScreen[1].panes, toScreen[1].panes[i].cmd = "suspended"
    PROVE  \A p : p = toScreen[1].panes[i].of => Idle(p)'
<1>1. NotStarted(toScreen[1])
  BY ScreenLife, LifeParts DEF WaitsForUser
<1>2. Idle(toScreen[1].panes[i].of)
  BY <1>1 DEF NotStarted, Idle
<1> QED
  BY <1>2, ScreenLife

LEMMA NewPaneLife == LifeInv /\ ScreenNewPane => LifeOK'
<1> SUFFICES ASSUME LifeInv, ScreenNewPane
             PROVE  LifeOK'
  OBVIOUS
<1>1. /\ TypeInv /\ ClaimsOK /\ NumbersOK /\ RerunsShown /\ HeldOK /\ RerunsOK /\ LayoutOnce
  BY LifeParts
<1>2. Receives("new") /\ UNCHANGED <<system, todo, pending, buffered>>
  BY DEF ScreenNewPane
<1>3. /\ toScreen[1] \in ScreenMessages(runs) /\ toScreen[1].do = "new"
  BY <1>1, <1>2, ReceivesFacts, TypeParts
<1>4. PICK t : t = toScreen[1].panes[1]
  OBVIOUS
<1>5. NewPaneGoes(t) /\ t \in Terminals /\ Claims' = Claims
  BY <1>1, <1>4, NewPaneMoves, NewPaneClaims
<1>6. toScreen[1].panes = <<t>>
  BY <1>3, <1>4, ScreenMessageType
<1>7. Named(toScreen[1]) = {<<t.id, t.of>>}
  BY <1>3, <1>6, NamedFacts
<1>8. /\ t.of \notin shown /\ t.id \notin DOMAIN panes
      /\ \/ /\ toPty' = toPty /\ Extends(panes', panes, t.id, Pane(t))
            /\ OnScreen' = OnScreen \cup {<<t.id, t.of>>} /\ ToClose' = ToClose
         \/ /\ IsAppend(toPty', toPty, Close(t.id, t.of)) /\ panes' = panes
            /\ OnScreen' = OnScreen /\ ToClose' = ToClose \cup {<<t.id, t.of>>}
  BY <1>5 DEF NewPaneGoes
<1>9. ScreenStep("new")
  BY <1>2, <1>5, <1>7, <1>8 DEF ScreenStep
<1>10. /\ RunsOK' /\ MailOK' /\ OneAtATime' /\ WaitsForUser' /\ LessWork
       /\ (\A p : Idle(p) => Idle(p)') /\ RunsStay(runs', runs)
  BY <1>9, ScreenLife
<1>11. NoMoreReruns
  BY <1>8 DEF NoMoreReruns, Close
<1>12. LayoutOnce'
  <2>1. pending = FALSE
    BY <1>1, <1>2, NothingPends
  <2>2. pending' = pending /\ buffered' = buffered
    BY <1>2
  <2>3. toPty' = toPty \/ \E m : IsAppend(toPty', toPty, m)
    BY <1>8
  <2> QED
    BY <1>9, <2>1, <2>2, <2>3, ScreenLayoutOnce
<1>13. \A p : NoRerun(p) => NoRerun(p)'
  BY <1>11, NoRerunKept
<1>14. ASSUME t.cmd = "suspended"
       PROVE  \A p : p = t.of => Idle(p)' /\ NoRerun(p)'
  <2>1. \A p : p = t.of => Idle(p)'
    BY <1>3, <1>6, <1>9, <1>14, WaitingIsIdle DEF Shows
  <2>2. \A p : p = t.of => NoRerun(p)
    BY <1>1, <1>8 DEF RerunsShown, NoRerun, IsRerun
  <2> QED
    BY <1>13, <2>1, <2>2
<1>15. HeldOK'
  <2>1. ASSUME NEW id \in DOMAIN panes', id \in DOMAIN panes, panes'[id] = panes[id]
        PROVE  StaysHeld(id)
    BY <1>10, <1>13, <2>1 DEF StaysHeld
  <2>2. ASSUME NEW id \in DOMAIN panes', panes'[id] = Pane(t)
        PROVE  StaysHeld(id)
    <3>1. Pane(t).of = t.of /\ Pane(t).held = (t.cmd = "suspended")
      BY <1>5, TerminalFields
    <3>2. panes'[id].held => t.cmd = "suspended"
      BY <2>2, <3>1, Zenon
    <3>3. panes'[id].of = t.of
      BY <2>2, <3>1
    <3> QED
      BY <1>14, <3>2, <3>3 DEF StaysHeld
  <2>3. \A id \in DOMAIN panes' : (id \in DOMAIN panes /\ panes'[id] = panes[id]) \/ panes'[id] = Pane(t)
    BY <1>8 DEF Extends
  <2> QED
    BY <1>1, <2>1, <2>2, <2>3, HeldKept
<1>16. RerunsOK'
  <2>1. \A k \in DOMAIN toPty : toPty[k].do = "rerun" =>
            <<toPty[k].id, toPty[k].of>> \in OnScreen' \cup ToClose'
    BY <1>1, <1>8 DEF RerunsOK, RerunFits
  <2> QED
    BY <1>1, <1>10, <1>11, <2>1, StayReruns, RerunsKept
<1> QED
  BY <1>10, <1>12, <1>15, <1>16 DEF LifeOK

LEMMA ApplyLayoutLife == LifeInv /\ ScreenApplyLayout => LifeOK'
<1> SUFFICES ASSUME LifeInv, ScreenApplyLayout
             PROVE  LifeOK'
  OBVIOUS
<1>1. /\ TypeInv /\ ClaimsOK /\ NumbersOK /\ RerunsShown /\ HeldOK /\ RerunsOK /\ LayoutOnce
  BY LifeParts
<1>2. /\ Receives("layout") /\ UNCHANGED <<system, todo, toPty>>
      /\ pending' = FALSE /\ buffered' = <<>>
  BY DEF ScreenApplyLayout
<1>3. /\ toScreen[1].do = "layout" /\ IsTail(toScreen', toScreen) /\ 1 \in DOMAIN toScreen
  BY <1>1, <1>2, ReceivesFacts, TypeParts, FirstIsThere
<1>4. /\ pending
      /\ \A j \in DOMAIN toScreen : j > 1 => toScreen[j].do # "layout"
  BY <1>1, <1>3 DEF LayoutOnce
<1>5. PICK ts : ts = toScreen[1].panes
  OBVIOUS
<1>6. LayoutGoes(ts) /\ ts \in Seq(Terminals) /\ Claims' \subseteq Claims
  BY <1>1, <1>5, ApplyLayoutMoves, ApplyLayoutClaims
<1>7. PICK L : L = {<<ts[i].id, ts[i].of>> : i \in DOMAIN ts}
  OBVIOUS
<1>8. /\ L \subseteq Coming /\ Coming' = Coming \ L /\ Starting' = Starting /\ ToClose' = ToClose
      /\ OnScreen' = L
      /\ \A id \in DOMAIN panes' : \E i \in DOMAIN ts :
            /\ panes'[id].of = ts[i].of
            /\ panes'[id].held <=> ts[i].cmd = "suspended" \/ id \in {m.id : m \in Range(buffered)}
  BY <1>6, <1>7 DEF LayoutGoes
<1>9. shown = {} /\ OnScreen = {} /\ ToClose = {}
  BY <1>1, <1>4, PendingFacts
<1>10. Claims' = Claims
  BY <1>8, <1>9 DEF Claims
<1>11. Named(toScreen[1]) = L
  BY <1>3, <1>5, <1>7 DEF Named
<1>12. ScreenStep("layout")
  BY <1>2, <1>8, <1>10, <1>11 DEF ScreenStep
<1>13. /\ RunsOK' /\ MailOK' /\ OneAtATime' /\ WaitsForUser'
  BY <1>12, ScreenLife
<1>14. \A p : NoRerun(p)'
  BY <1>1, <1>2, <1>9 DEF RerunsShown, NoRerun, IsRerun
<1>15. HeldOK'
  <2>1. {m.id : m \in Range(buffered)} = {}
    BY <1>1 DEF LayoutOnce, Range
  <2>2. ASSUME NEW id \in DOMAIN panes', panes'[id].held, NEW p, p = panes'[id].of
        PROVE  Idle(p)'
    <3>1. PICK i \in DOMAIN ts : p = ts[i].of /\ ts[i].cmd = "suspended"
      BY <1>8, <2>1, <2>2
    <3> QED
      BY <1>3, <1>5, <1>12, <3>1, WaitingIsIdle DEF Shows
  <2>3. \A id \in DOMAIN panes' : StaysHeld(id)
    BY <1>14, <2>2 DEF StaysHeld
  <2> QED
    BY <1>1, <2>3, HeldKept
<1>16. RerunsOK'
  BY <1>1, <1>2, <1>9 DEF RerunsShown, RerunsOK
<1>17. LayoutOnce'
  <2>1. \A k \in DOMAIN todo' : ~TellsLayout(todo'[k])
    <3>1. "layout" \notin Beforehand
      BY DEF Beforehand
    <3> QED
      BY <1>1, <1>2, <1>3, <3>1 DEF LayoutOnce
  <2>2. \A k \in DOMAIN toScreen' : toScreen'[k].do # "layout"
    <3>1. \A k \in DOMAIN toScreen' : k + 1 \in DOMAIN toScreen /\ toScreen'[k] = toScreen[k + 1] /\ k + 1 > 1
      BY <1>3 DEF IsTail
    <3> QED
      BY <1>4, <3>1
  <2> QED
    BY <1>2, <2>1, <2>2 DEF LayoutOnce
<1> QED
  BY <1>13, <1>15, <1>16, <1>17 DEF LifeOK

(* The message that is taken is about the one process that its pane's       *)
(* request had at work, and nobody is at work for it afterwards.            *)
LEMMA LastWord ==
    ASSUME LifeInv, NEW do \in {"hold", "exited"}, Receives(do), NEW id \in DOMAIN panes,
           toScreen[1].id = id
    PROVE  /\ toScreen[1].run \in DOMAIN runs /\ runs[toScreen[1].run].of = panes[id].of
           /\ ~Idle(panes[id].of) /\ ~Unsettled(toScreen[1].run)
           /\ \A q \in DOMAIN runs : runs[q].of = panes[id].of /\ AtWork(q) => q = toScreen[1].run
<1>1. TypeInv /\ MailOK /\ OneAtATime
  BY LifeParts
<1>2. toScreen[1] \in ScreenMessages(runs) /\ toScreen[1].do = do /\ 1 \in DOMAIN toScreen
  BY <1>1, ReceivesFacts, TypeParts, FirstIsThere
<1>3. PICK r : r = toScreen[1].run
  OBVIOUS
<1>4. r \in DOMAIN runs /\ Final(toScreen[1], r)
  BY <1>2, <1>3, ScreenMessageType DEF Final
<1>5. MessageFits(1, r) /\ Mailed(r)
  BY <1>1, <1>2, <1>4 DEF MailOK, Mailed
<1>6. runs[r].of = panes[id].of
  <2>1. <<id, panes[id].of>> \in OnScreen
    BY DEF OnScreen
  <2> QED
    BY <1>5, <2>1 DEF MessageFits, Fits
<1>7. AtWork(r) /\ ~Unsettled(r)
  BY <1>5 DEF AtWork, MessageFits
<1>8. ~Idle(panes[id].of)
  BY <1>4, <1>6, <1>7 DEF Idle
<1>9. \A q \in DOMAIN runs : runs[q].of = panes[id].of /\ AtWork(q) => q = r
  BY <1>1, <1>4, <1>6, <1>7 DEF OneAtATime
<1> QED
  BY <1>3, <1>4, <1>6, <1>7, <1>8, <1>9

LEMMA HoldPaneLife == LifeInv /\ ScreenHoldPane => LifeOK'
<1> SUFFICES ASSUME LifeInv, ScreenHoldPane
             PROVE  LifeOK'
  OBVIOUS
<1>1. /\ TypeInv /\ ClaimsOK /\ MailOK /\ HeldOK /\ RerunsOK /\ LayoutOnce
  BY LifeParts
<1>2. Receives("hold") /\ UNCHANGED <<system, todo, toPty, pending, shown>>
  BY DEF ScreenHoldPane
<1>3. pending = FALSE
  BY <1>1, <1>2, NothingPends
<1>4. /\ OnScreen' = OnScreen /\ DOMAIN panes' = DOMAIN panes
      /\ HeldPanes(panes', panes, {toScreen[1].id}) /\ buffered' = buffered
  BY <1>1, <1>3, HoldPaneMoves
<1>5. Coming' = Coming /\ Starting' = Starting /\ ToClose' = ToClose /\ Claims' = Claims
  <2>1. Coming' = Coming
    BY <1>1, <1>2, ScreenTakes
  <2>2. Starting' = Starting /\ ToClose' = ToClose
    BY <1>2 DEF Starting, ToClose
  <2> QED
    BY <1>4, <2>1, <2>2 DEF Claims
<1>6. ScreenStep("hold")
  BY <1>2, <1>4, <1>5 DEF ScreenStep
<1>7. /\ RunsOK' /\ MailOK' /\ OneAtATime' /\ WaitsForUser' /\ LessWork
      /\ (\A p : Idle(p) => Idle(p)') /\ RunsStay(runs', runs)
      /\ IsTail(toScreen', toScreen) /\ 1 \in DOMAIN toScreen
  BY <1>6, ScreenLife
<1>8. LayoutOnce'
  BY <1>2, <1>4, <1>6, ScreenLayoutOnce
<1>9. NoMoreReruns
  BY <1>2 DEF NoMoreReruns
<1>10. \A p : NoRerun(p) => NoRerun(p)'
  BY <1>9, NoRerunKept
<1>11. ASSUME NEW id \in DOMAIN panes, id = toScreen[1].id
       PROVE  \A p : p = panes[id].of => Idle(p)' /\ NoRerun(p)'
  <2>1. PICK r : r = toScreen[1].run
    OBVIOUS
  <2>2. /\ r \in DOMAIN runs /\ runs[r].of = panes[id].of
        /\ ~Idle(panes[id].of) /\ ~Unsettled(r)
        /\ \A q \in DOMAIN runs : runs[q].of = panes[id].of /\ AtWork(q) => q = r
    BY <1>2, <1>11, <2>1, LastWord
  <2>3. Final(toScreen[1], r)
    <3>1. toScreen[1].do = "hold"
      BY <1>6, ScreenLife
    <3> QED
      BY <2>1, <3>1 DEF Final
  <2>4. MessageFits(1, r)
    BY <1>1, <1>7, <2>2, <2>3 DEF MailOK
  <2>5. ~AtWork(r)'
    <3>1. runs' = runs /\ todo' = todo
      BY <1>2 DEF system
    <3>2. ~Unsettled(r)' /\ ~Promised(r)'
      BY <2>2, <2>4, <3>1 DEF Unsettled, Promised, MessageFits
    <3>3. ~Mailed(r)'
      <4>1. \A k \in DOMAIN toScreen' : k + 1 \in DOMAIN toScreen /\ k + 1 # 1 /\ toScreen'[k] = toScreen[k + 1]
        BY <1>7 DEF IsTail
      <4> QED
        BY <2>4, <4>1 DEF Mailed, MessageFits
    <3> QED
      BY <3>2, <3>3 DEF AtWork
  <2>6. ASSUME NEW p, p = panes[id].of
        PROVE  Idle(p)'
    <3>1. DOMAIN runs' = DOMAIN runs /\ \A q \in DOMAIN runs : runs'[q].of = runs[q].of
      BY <1>7 DEF RunsStay, RunStays
    <3> QED
      BY <1>7, <2>2, <2>5, <2>6, <3>1 DEF Idle, LessWork
  <2>7. ASSUME NEW p, p = panes[id].of
        PROVE  NoRerun(p)
    <3>1. ~Idle(p)
      BY <2>2, <2>7
    <3>2. \A k \in DOMAIN toPty : IsRerun(toPty[k], p) => Idle(p)
      BY <1>1 DEF RerunsOK, RerunFits, IsRerun
    <3> QED
      BY <3>1, <3>2 DEF NoRerun
  <2> QED
    BY <1>10, <2>6, <2>7
<1>12. HeldOK'
  <2>1. ASSUME NEW id \in DOMAIN panes', id # toScreen[1].id
        PROVE  StaysHeld(id)
    <3>1. id \in DOMAIN panes /\ panes'[id] = panes[id]
      BY <1>4, <2>1 DEF HeldPanes
    <3> QED
      BY <1>7, <1>10, <3>1 DEF StaysHeld
  <2>2. ASSUME NEW id \in DOMAIN panes', id = toScreen[1].id
        PROVE  StaysHeld(id)
    <3>1. id \in DOMAIN panes /\ panes'[id].of = panes[id].of
      BY <1>4 DEF HeldPanes
    <3>2. \A p : p = panes[id].of => Idle(p)' /\ NoRerun(p)'
      BY <1>11, <2>2, <3>1
    <3> QED
      BY <3>1, <3>2 DEF StaysHeld
  <2> QED
    BY <1>1, <2>1, <2>2, HeldKept
<1>13. RerunsOK'
  <2>1. \A k \in DOMAIN toPty : toPty[k].do = "rerun" =>
            <<toPty[k].id, toPty[k].of>> \in OnScreen' \cup ToClose'
    BY <1>1, <1>4, <1>5 DEF RerunsOK, RerunFits
  <2> QED
    BY <1>1, <1>7, <1>9, <2>1, StayReruns, RerunsKept
<1> QED
  BY <1>7, <1>8, <1>12, <1>13 DEF LifeOK

(* A pane goes whose request has nobody at work and is not to be run again. *)
LEMMA PaneLeaves ==
    ASSUME LifeInv, NEW do, Receives(do), do \notin {"new", "layout"},
           UNCHANGED <<system, todo, toPty, pending, buffered, shown>>,
           NEW id \in DOMAIN panes, Loses(panes', panes, id),
           NEW p, p = panes[id].of,
           \A r \in DOMAIN runs : runs[r].of = p => ~Unsettled(r),
           NoRerun(p)
    PROVE  LifeOK'
<1>1. /\ TypeInv /\ ClaimsOK /\ HeldOK /\ RerunsOK
  BY LifeParts
<1>2. /\ OnScreen' = OnScreen \ {<<id, p>>} /\ DOMAIN panes' = DOMAIN panes \ {id}
      /\ \A x \in DOMAIN panes' : panes'[x] = panes[x]
  BY PaneGone DEF Loses
<1>3. Coming' = Coming /\ Starting' = Starting /\ ToClose' = ToClose
  <2>1. Coming' = Coming
    BY <1>1, ScreenTakes
  <2> QED
    BY <2>1 DEF Starting, ToClose
<1>4. Claims' \subseteq Claims /\ \A a \in Claims : a # <<id, p>> => a \in Claims'
  BY <1>2, <1>3 DEF Claims
<1>5. ScreenStep(do)
  BY <1>2, <1>4 DEF ScreenStep
<1>6. /\ RunsOK' /\ MailOK' /\ OneAtATime' /\ WaitsForUser' /\ LessWork
      /\ (\A q : Idle(q) => Idle(q)') /\ RunsStay(runs', runs)
  BY <1>5, ScreenLife
<1>7. LayoutOnce'
  BY <1>5, ScreenLayoutOnce
<1>8. NoMoreReruns /\ \A q : NoRerun(q) => NoRerun(q)'
  BY NoRerunKept DEF NoMoreReruns
<1>9. HeldOK'
  <2>1. \A x \in DOMAIN panes' : x \in DOMAIN panes /\ panes'[x] = panes[x]
    BY <1>2
  <2>2. \A x \in DOMAIN panes' : StaysHeld(x)
    BY <1>6, <1>8, <2>1 DEF StaysHeld
  <2> QED
    BY <1>1, <2>2, HeldKept
<1>10. RerunsOK'
  <2>1. ASSUME NEW k \in DOMAIN toPty, toPty[k].do = "rerun"
        PROVE  <<toPty[k].id, toPty[k].of>> \in OnScreen' \cup ToClose'
    <3>1. <<toPty[k].id, toPty[k].of>> \in OnScreen \cup ToClose
      BY <1>1, <2>1 DEF RerunsOK, RerunFits
    <3>2. toPty[k].of # p
      BY <2>1 DEF NoRerun, IsRerun
    <3> QED
      BY <1>2, <1>3, <3>1, <3>2
  <2> QED
    BY <1>1, <1>6, <1>8, <2>1, StayReruns, RerunsKept
<1> QED
  BY <1>6, <1>7, <1>9, <1>10 DEF LifeOK

(* The screen hears of a pane that it does not have, or that is not held.   *)
LEMMA PanesAreLeft ==
    ASSUME LifeInv, NEW do, Receives(do), do \notin {"new", "layout"},
           UNCHANGED <<system, todo, toPty, pending, buffered, shown, panes>>
    PROVE  LifeOK'
<1>1. /\ TypeInv /\ ClaimsOK /\ HeldOK /\ RerunsOK
  BY LifeParts
<1>2. OnScreen' = OnScreen /\ Starting' = Starting /\ ToClose' = ToClose
  BY DEF OnScreen, Starting, ToClose
<1>3. Claims' = Claims
  <2>1. Coming' = Coming
    BY <1>1, ScreenTakes
  <2> QED
    BY <1>2, <2>1 DEF Claims
<1>4. ScreenStep(do)
  BY <1>2, <1>3 DEF ScreenStep
<1>5. /\ RunsOK' /\ MailOK' /\ OneAtATime' /\ WaitsForUser' /\ LessWork
      /\ (\A q : Idle(q) => Idle(q)') /\ RunsStay(runs', runs)
  BY <1>4, ScreenLife
<1>6. LayoutOnce'
  BY <1>4, ScreenLayoutOnce
<1>7. NoMoreReruns /\ \A q : NoRerun(q) => NoRerun(q)'
  BY NoRerunKept DEF NoMoreReruns
<1>8. HeldOK'
  <2>1. \A x \in DOMAIN panes' : StaysHeld(x)
    BY <1>5, <1>7 DEF StaysHeld
  <2> QED
    BY <1>1, <2>1, HeldKept
<1>9. RerunsOK'
  <2>1. \A k \in DOMAIN toPty : toPty[k].do = "rerun" =>
            <<toPty[k].id, toPty[k].of>> \in OnScreen' \cup ToClose'
    BY <1>1, <1>2 DEF RerunsOK, RerunFits
  <2> QED
    BY <1>1, <1>5, <1>7, <2>1, StayReruns, RerunsKept
<1> QED
  BY <1>5, <1>6, <1>8, <1>9 DEF LifeOK

LEMMA ClosePaneLife == LifeInv /\ ScreenClosePane => LifeOK'
<1> SUFFICES ASSUME LifeInv, ScreenClosePane
             PROVE  LifeOK'
  OBVIOUS
<1>1. TypeInv /\ RerunsOK
  BY LifeParts
<1>2. Receives("exited") /\ UNCHANGED <<system, todo, toPty, pending, buffered, shown>>
  BY DEF ScreenClosePane
<1>3. PICK id : id = toScreen[1].id
  OBVIOUS
<1>4. IF id \in DOMAIN panes THEN Loses(panes', panes, id) ELSE panes' = panes
  BY <1>1, <1>3, ClosePaneMoves
<1>5. CASE id \notin DOMAIN panes
  BY <1>2, <1>4, <1>5, PanesAreLeft
<1>6. CASE id \in DOMAIN panes
  <2>1. PICK p : p = panes[id].of
    OBVIOUS
  <2>2. /\ ~Idle(p) /\ ~Unsettled(toScreen[1].run)
        /\ \A q \in DOMAIN runs : runs[q].of = p /\ AtWork(q) => q = toScreen[1].run
    BY <1>2, <1>3, <1>6, <2>1, LastWord
  <2>3. \A q \in DOMAIN runs : runs[q].of = p => ~Unsettled(q)
    BY <2>2 DEF AtWork
  <2>4. NoRerun(p)
    <3>1. \A k \in DOMAIN toPty : IsRerun(toPty[k], p) => Idle(p)
      BY <1>1 DEF RerunsOK, RerunFits, IsRerun
    <3> QED
      BY <2>2, <3>1 DEF NoRerun
  <2> QED
    BY <1>2, <1>4, <1>6, <2>1, <2>3, <2>4, PaneLeaves
<1> QED
  BY <1>5, <1>6

LEMMA CloseFocusedLife == LifeInv /\ ScreenCloseFocusedPane => LifeOK'
<1> SUFFICES ASSUME LifeInv, ScreenCloseFocusedPane
             PROVE  LifeOK'
  OBVIOUS
<1>1. /\ TypeInv /\ ClaimsOK /\ NumbersOK /\ HeldOK /\ RerunsOK
  BY LifeParts
<1>2. Receives("close focused") /\ UNCHANGED <<system, todo, pending, buffered, shown>>
  BY DEF ScreenCloseFocusedPane
<1>3. CASE UNCHANGED <<panes, toPty>>
  BY <1>2, <1>3, PanesAreLeft
<1>4. ASSUME NEW id \in DOMAIN panes, FocusedGoes(id)
      PROVE  LifeOK'
  <2>1. PICK p : p = panes[id].of
    OBVIOUS
  <2>2. /\ OnScreen' = OnScreen \ {<<id, p>>} /\ ToClose' = ToClose \cup {<<id, p>>}
        /\ IsAppend(toPty', toPty, Close(id, p)) /\ Loses(panes', panes, id)
    BY <1>4, <2>1 DEF FocusedGoes
  <2>3. Claims' = Claims
    BY <1>1, CloseFocusedClaims
  <2>4. ScreenStep("close focused")
    BY <1>2, <2>2, <2>3 DEF ScreenStep
  <2>5. /\ RunsOK' /\ MailOK' /\ OneAtATime' /\ WaitsForUser' /\ LessWork
        /\ (\A q : Idle(q) => Idle(q)') /\ RunsStay(runs', runs)
    BY <2>4, ScreenLife
  <2>6. LayoutOnce'
    BY <1>2, <2>2, <2>4, ScreenLayoutOnce
  <2>7. NoMoreReruns
    BY <2>2 DEF NoMoreReruns, Close
  <2>8. \A q : NoRerun(q) => NoRerun(q)'
    BY <2>7, NoRerunKept
  <2>9. HeldOK'
    <3>1. \A x \in DOMAIN panes' : x \in DOMAIN panes /\ panes'[x] = panes[x]
      BY <2>2 DEF Loses
    <3>2. \A x \in DOMAIN panes' : StaysHeld(x)
      BY <2>5, <2>8, <3>1 DEF StaysHeld
    <3> QED
      BY <1>1, <3>2, HeldKept
  <2>10. RerunsOK'
    <3>1. \A k \in DOMAIN toPty : toPty[k].do = "rerun" =>
              <<toPty[k].id, toPty[k].of>> \in OnScreen' \cup ToClose'
      BY <1>1, <2>2 DEF RerunsOK, RerunFits
    <3> QED
      BY <1>1, <2>5, <2>7, <3>1, StayReruns, RerunsKept
  <2> QED
    BY <2>5, <2>6, <2>9, <2>10 DEF LifeOK
<1> QED
  BY <1>1, <1>3, <1>4, CloseFocusedMoves

(* A held pane's command is to be run again: its process is done with.      *)
LEMMA HeldRunsLife ==
    ASSUME LifeInv, Receives("key"), UNCHANGED <<system, todo, pending, buffered, shown>>,
           NEW id \in DOMAIN panes, NEW cmd \in AllCommands, HeldRuns(id, cmd)
    PROVE  LifeOK'
<1>1. /\ TypeInv /\ ClaimsOK /\ ClaimsFit /\ HeldOK /\ RerunsOK
  BY LifeParts
<1>2. PICK p : p = panes[id].of
  OBVIOUS
<1>3. /\ panes[id].held /\ OpenAgain(panes', panes, id, cmd) /\ OnScreen' = OnScreen
      /\ IsAppend(toPty', toPty, ReRun(id, cmd, p))
  BY <1>2 DEF HeldRuns
<1>4. PICK m : m = ReRun(id, cmd, p)
  OBVIOUS
<1>5. m.do = "rerun" /\ m.id = id /\ m.of = p /\ IsAppend(toPty', toPty, m)
  BY <1>3, <1>4 DEF ReRun
<1>6. ToClose' = ToClose
  <2>1. Named(m) = {}
    BY <1>5, NamedFacts
  <2>2. Grows(toPty', toPty, m)
    BY <1>1, <1>5, <2>1, NamedAppend DEF ClaimsOK
  <2> QED
    BY <2>1, <2>2 DEF Grows, ToClose
<1>7. Claims' = Claims
  <2>1. Coming' = Coming
    BY <1>1, ScreenTakes
  <2> QED
    BY <1>3, <1>6, <2>1 DEF Claims, Starting
<1>8. ScreenStep("key")
  BY <1>3, <1>7 DEF ScreenStep
<1>9. /\ RunsOK' /\ MailOK' /\ OneAtATime' /\ WaitsForUser' /\ LessWork
      /\ (\A q : Idle(q) => Idle(q)') /\ RunsStay(runs', runs)
  BY <1>8, ScreenLife
<1>10. LayoutOnce'
  BY <1>5, <1>8, ScreenLayoutOnce
<1>11. Idle(p) /\ NoRerun(p) /\ <<id, p>> \in OnScreen /\ <<id, p>> \notin ToClose
  BY <1>1, <1>2, <1>3 DEF HeldOK, OnScreen, ClaimsFit
<1>12. ASSUME NEW q, q # p, NoRerun(q)
       PROVE  NoRerun(q)'
  BY <1>5, <1>12 DEF NoRerun, IsRerun, IsAppend
<1>13. HeldOK'
  <2>1. panes'[id].held = FALSE /\ DOMAIN panes' = DOMAIN panes
        /\ \A x \in DOMAIN panes : x # id => panes'[x] = panes[x]
    BY <1>3 DEF OpenAgain
  <2>2. ASSUME NEW x \in DOMAIN panes', x # id
        PROVE  StaysHeld(x)
    <3>1. panes'[x] = panes[x] /\ x \in DOMAIN panes
      BY <2>1, <2>2
    <3>2. panes[x].of # p
      <4>1. <<x, panes[x].of>> \in Claims /\ <<id, p>> \in Claims
        BY <1>11, <3>1 DEF Claims, OnScreen
      <4> QED
        BY <1>1, <2>2, <4>1 DEF ClaimsFit, OneToOne
    <3> QED
      BY <1>9, <1>12, <3>1, <3>2 DEF StaysHeld
  <2>3. StaysHeld(id)
    BY <2>1 DEF StaysHeld
  <2> QED
    BY <1>1, <2>2, <2>3, HeldKept
<1>14. RerunsOK'
  <2>1. ASSUME NEW k \in DOMAIN toPty, toPty[k].do = "rerun"
        PROVE  RerunFits(k)'
    <3>1. RerunFits(k) /\ k \in DOMAIN toPty' /\ toPty'[k] = toPty[k]
      BY <1>1, <1>5, <2>1 DEF RerunsOK, IsAppend
    <3>2. PICK q, a : q = toPty[k].of /\ a = <<toPty[k].id, toPty[k].of>>
      OBVIOUS
    <3>3. /\ Idle(q) /\ a \in OnScreen \cup ToClose
          /\ \A j \in DOMAIN toPty : j # k => ~IsRerun(toPty[j], q)
          /\ \A j \in DOMAIN toPty : j < k => a \notin Named(toPty[j])
      BY <3>1, <3>2 DEF RerunFits
    <3>4. q # p
      BY <1>11, <2>1, <3>2 DEF NoRerun, IsRerun
    <3>5. ASSUME NEW j \in DOMAIN toPty', j # k
          PROVE  ~IsRerun(toPty'[j], q)
      BY <1>5, <3>3, <3>4, <3>5 DEF IsAppend, IsRerun
    <3>6. ASSUME NEW j \in DOMAIN toPty', j < k
          PROVE  a \notin Named(toPty'[j])
      <4>1. j \in DOMAIN toPty /\ toPty'[j] = toPty[j]
        BY <1>5, <2>1, <3>6 DEF IsAppend
      <4> QED
        BY <3>3, <3>6, <4>1
    <3>7. Idle(q)' /\ a \in OnScreen' \cup ToClose'
      BY <1>3, <1>6, <1>9, <3>3
    <3>8. q = toPty'[k].of /\ a = <<toPty'[k].id, toPty'[k].of>>
      BY <3>1, <3>2
    <3> QED
      BY <3>5, <3>6, <3>7, <3>8 DEF RerunFits
  <2>2. ASSUME NEW k, k = Len(toPty) + 1
        PROVE  RerunFits(k)'
    <3>1. /\ toPty'[k] = m /\ DOMAIN toPty' = DOMAIN toPty \cup {k} /\ k \in Int
          /\ \A j \in DOMAIN toPty : toPty'[j] = toPty[j]
      BY <1>5, <2>2 DEF IsAppend
    <3>2. ASSUME NEW j \in DOMAIN toPty', j # k
          PROVE  ~IsRerun(toPty'[j], p) /\ <<id, p>> \notin Named(toPty'[j])
      <4>1. j \in DOMAIN toPty /\ toPty'[j] = toPty[j]
        BY <3>1, <3>2
      <4> QED
        BY <1>11, <4>1 DEF NoRerun, ToClose, NamedIn
    <3>3. Idle(p)' /\ <<id, p>> \in OnScreen' \cup ToClose'
      BY <1>3, <1>9, <1>11
    <3>4. p = toPty'[k].of /\ <<id, p>> = <<toPty'[k].id, toPty'[k].of>>
      BY <1>5, <3>1
    <3>5. \A j \in DOMAIN toPty' : j < k => j # k
      BY <1>5, <3>1 DEF IsAppend
    <3> QED
      BY <3>2, <3>3, <3>4, <3>5 DEF RerunFits
  <2>3. \A k \in DOMAIN toPty' : k = Len(toPty) + 1 \/ (k \in DOMAIN toPty /\ toPty'[k] = toPty[k])
    BY <1>5 DEF IsAppend
  <2> QED
    BY <2>1, <2>2, <2>3 DEF RerunsOK
<1> QED
  BY <1>9, <1>10, <1>13, <1>14 DEF LifeOK

LEMMA KeyLife == LifeInv /\ ScreenKey => LifeOK'
<1> SUFFICES ASSUME LifeInv, ScreenKey
             PROVE  LifeOK'
  OBVIOUS
<1>1. TypeInv /\ HeldOK
  BY LifeParts
<1>2. Receives("key") /\ UNCHANGED <<system, todo, pending, buffered, shown>>
  BY DEF ScreenKey
<1>3. CASE UNCHANGED <<panes, toPty>>
  BY <1>2, <1>3, PanesAreLeft
<1>4. ASSUME NEW id \in DOMAIN panes, HeldGoes(id)
      PROVE  LifeOK'
  <2>1. PICK p : p = panes[id].of
    OBVIOUS
  <2>2. panes[id].held /\ Loses(panes', panes, id) /\ toPty' = toPty
    BY <1>4 DEF HeldGoes
  <2>3. Idle(p) /\ NoRerun(p)
    BY <1>1, <2>1, <2>2 DEF HeldOK
  <2>4. \A r \in DOMAIN runs : runs[r].of = p => ~Unsettled(r)
    BY <2>3 DEF Idle, AtWork
  <2> QED
    BY <1>2, <2>1, <2>2, <2>3, <2>4, PaneLeaves
<1>5. ASSUME NEW id \in DOMAIN panes, NEW cmd \in AllCommands, HeldRuns(id, cmd)
      PROVE  LifeOK'
  BY <1>2, <1>5, HeldRunsLife
<1> QED
  BY <1>1, <1>3, <1>4, <1>5, KeyMoves

LEMMA InitLife == Init => LifeInv
<1> SUFFICES ASSUME Init
             PROVE  LifeInv
  OBVIOUS
<1>1. ClaimsInv
  BY InitClaims
<1>2. /\ runs = <<>> /\ todo = <<>> /\ toScreen = <<>> /\ toPty = <<NewTab>> /\ panes = <<>>
      /\ shown = {} /\ pending = TRUE /\ buffered = <<>>
  BY DEF Init
<1>3. DOMAIN runs = {} /\ DOMAIN todo = {} /\ DOMAIN toScreen = {} /\ DOMAIN panes = {}
  BY <1>2
<1>4. DOMAIN toPty = {1} /\ toPty # <<>> /\ toPty[1].do = "new tab"
  <2>1. DOMAIN toPty = {1} /\ toPty[1] = NewTab
    BY <1>2
  <2>2. NewTab.do = "new tab"
    BY DEF NewTab
  <2>3. toPty # <<>>
    BY <1>2
  <2> QED
    BY <2>1, <2>2, <2>3
<1>5. RunsOK /\ MailOK /\ OneAtATime /\ HeldOK /\ WaitsForUser
  BY <1>3 DEF RunsOK, MailOK, OneAtATime, HeldOK, WaitsForUser
<1>6. RerunsOK
  BY <1>4 DEF RerunsOK
<1>7. LayoutOnce
  BY <1>2, <1>3, <1>4 DEF LayoutOnce, LayoutIsAsked
<1> QED
  BY <1>1, <1>5, <1>6, <1>7 DEF LifeInv, LifeOK

LEMMA NextLife ==
    ASSUME Mild
    PROVE  LifeInv /\ [Next]_vars => LifeInv'
<1> SUFFICES ASSUME LifeInv, [Next]_vars
             PROVE  LifeInv'
  OBVIOUS
<1>1. ClaimsInv'
  BY NextClaims DEF LifeInv, Mild
<1>2. TypeInv /\ ClaimsOK /\ LayoutOnce /\ LayoutHolds /\ ~Quick
  BY LifeParts DEF Mild
<1>3. LifeOK'
  <2>1. CASE PtyThread
    BY <1>2, <2>1, SpawnsLife, LayoutLife, RerunsLife, ClosesLife, ContinuesLife DEF PtyThread
  <2>2. CASE ScreenThread
    BY <1>2, <2>2, NewPaneLife, ApplyLayoutLife, HoldPaneLife, ClosePaneLife, CloseFocusedLife,
       KeyLife, QuietBytes, QuietResize, QuietLife DEF ScreenThread
  <2>3. CASE WriterApplies
    BY <1>2, <2>3, QuietWriter, QuietLife
  <2>4. CASE User
    BY <1>2, <2>4, QuietUser, QuietLife
  <2>5. CASE Resumes \/ UNCHANGED vars
    BY <1>2, <2>5, QuietRest, QuietLife
  <2>6. ASSUME NEW r \in DOMAIN runs, Process(r)
        PROVE  LifeOK'
    <3>1. CASE Reports(r)
      BY <3>1, ReportsLife
    <3>2. CASE Ends(r) \/ ListenerReads(r) \/ ListenerEnds(r)
      BY <1>2, <3>2, QuietProcess, QuietLife
    <3> QED
      BY <2>6, <3>1, <3>2 DEF Process
  <2> QED
    BY <2>1, <2>2, <2>3, <2>4, <2>5, <2>6 DEF Next
<1> QED
  BY <1>1, <1>3 DEF LifeInv

LEMMA LifeHolds ==
    ASSUME Mild
    PROVE  Spec => []LifeInv
<1>1. LifeInv /\ [Next]_vars => LifeInv'
  BY NextLife
<1> QED
  BY <1>1, InitLife, PTL DEF Spec

(* When processes that are hung up go before the next is spawned, and none   *)
(* ends before its pane is there, the message that a process has ended or is *)
(* not there closes or holds no pane but its own: whatever terminal ids were *)
(* given back and handed out again, commands run again in a terminal, and    *)
(* panes split, closed and laid out between the process's end and the        *)
(* screen's taking the message.  That is more than OnlyHungUpStray says,     *)
(* which lets a process that was hung up close another's pane.              *)
OnlyTheirOwn ==
    [][\A id \in DOMAIN panes :
          Receives("exited") \/ Receives("hold") =>
              (Head(toScreen).id = id /\ panes' # panes
                  => runs[Head(toScreen).run].of = panes[id].of)]_vars

THEOREM PanesHearOfTheirOwn ==
    ASSUME Mild
    PROVE  Spec => OnlyTheirOwn /\ OnlyHungUpStray
<1>1. ASSUME LifeInv, NEW id \in DOMAIN panes, Receives("exited") \/ Receives("hold"),
             Head(toScreen).id = id
      PROVE  runs[Head(toScreen).run].of = panes[id].of
  <2>1. Head(toScreen) = toScreen[1]
    BY <1>1, LifeParts, ReceivesFacts, TypeParts
  <2> QED
    BY <1>1, <2>1, LastWord
<1>2. LifeInv => [\A id \in DOMAIN panes :
          Receives("exited") \/ Receives("hold") =>
              (Head(toScreen).id = id /\ panes' # panes
                  => runs[Head(toScreen).run].of = panes[id].of)]_vars
  BY <1>1
<1>3. LifeInv => [\A id \in DOMAIN panes :
          Receives("exited") \/ Receives("hold") =>
              LET m == Head(toScreen) IN
              m.id = id /\ panes' # panes
                  => runs[m.run].of = panes[id].of \/ runs[m.run].hup]_vars
  BY <1>1
<1> QED
  BY <1>2, <1>3, LifeHolds, PTL DEF OnlyTheirOwn, OnlyHungUpStray
=============================================================================

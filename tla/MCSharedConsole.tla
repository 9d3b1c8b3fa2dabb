--------------------------- MODULE MCSharedConsole ---------------------------
(***************************************************************************)
(* An operator in one tab, a second tab that follows, and the proofs, for  *)
(* any tabs, guards and links, of what SharedConsole states.               *)
(***************************************************************************)
EXTENDS SharedConsole, SequenceTheorems, FiniteSetTheorems, WellFoundedInduction, TLAPS
CONSTANTS t1, t2, d, a, b, l

MCTabs == {t1, t2}
MCHands == {t1}
MCGuards == {d, a, b, l}
MCLinks == {l}
MCKnown == <<d>>

-----------------------------------------------------------------------------
(* The inductive invariant.  Of the lists and the guards on screen it only *)
(* speaks as they were last asked for: who is Rendered shows them.         *)

\* One operator works, and React commits before the next message or click.
OneOperator == Prompt /\ \E h \in Tabs : Hands = {h}

\* A backup is of a list that held no guard twice.
Shapes ==
  /\ TypeOK
  /\ \A t \in Tabs : undo[t] # None => IsInjective(undo[t].entries)

\* Only the operator's tab speaks, never to itself, and adds and cleans up.
Quiet ==
  /\ \A s, t \in Tabs : s \notin Hands \/ t = s => net[s][t] = <<>>
  /\ \A t \in Tabs \ Hands : adding[t] = {} /\ undo[t] = None

\* What a tab may list and show once nothing is under way.
Fit == Loaded(saved) \cup Links

\* The operator's tab knows the registry, and what a cleanup may bring back was
\* all listed for being saved.
Knows ==
  \A h \in Hands :
    /\ Loaded(saved) \subseteq list[h] /\ list[h] \subseteq Fit
    /\ IsFiniteSet(list[h])
    /\ guard[h] \in Fit
    /\ choice # None => guard[h] = choice
    /\ undo[h] # None => list[h] = Loaded(saved)

\* A tab that lacks a saved guard is about to read the registry again.
Hears ==
  \A h \in Hands, t \in Tabs \ Hands :
    (\A j \in DOMAIN net[h][t] : net[h][t][j].type = "GUARD_CHANGED") => Loaded(saved) \subseteq list[t]

\* A tab that lists or shows a guard which is gone, or is told to, is told of
\* its removal later.
Leaves ==
  \A h \in Hands, t \in Tabs \ Hands, x \in Guards \ Fit :
    /\ x \in list[t] \/ guard[t] = x =>
         \E j \in DOMAIN net[h][t] : net[h][t][j] = Change("remove", x)
    /\ \A i \in DOMAIN net[h][t] : net[h][t][i] = Selection(x) =>
         \E j \in DOMAIN net[h][t] : i < j /\ net[h][t][j] = Change("remove", x)

\* A message that does not move a tab away from the guard chosen.
Harmless(m) ==
  /\ m.type # "GUARD_CHANGED"
  /\ m # Change("remove", choice)

\* From message i on, a tab with these messages to handle stays on the guard
\* chosen, which the message names or, with i = 0, the tab shows.
Lands(t, q, i) ==
  /\ IF i = 0 THEN guard[t] = choice ELSE q[i] = Selection(choice)
  /\ \A j \in DOMAIN q : i < j => Harmless(q[j])

Follows ==
  choice # None =>
    \A h \in Hands, t \in Tabs \ Hands : \E i \in 0..Len(net[h][t]) : Lands(t, net[h][t], i)

IInv == Shapes /\ Quiet /\ Knows /\ Hears /\ Leaves /\ Follows

-----------------------------------------------------------------------------
(* Lists and registries.                                                   *)

\* A set of numbers that is not empty has a least one.
LEMMA LeastNumber ==
  ASSUME NEW Q, Q \subseteq Nat, Q # {}
  PROVE  \E m \in Q : \A k \in Q : m <= k
<1>1. PICK m \in Q : \A k \in Q : ~(<<k, m>> \in OpToRel(<, Nat))
  BY NatLessThanWellFounded, WFMin
<1>2. \A k \in Q : ~(k < m)
  BY <1>1 DEF OpToRel
<1> QED BY <1>2

LEMMA Induction ==
  ASSUME NEW top \in Nat, NEW Q, 0 \in Q, \A k \in 1..top : k - 1 \in Q => k \in Q
  PROVE  top \in Q
<1> SUFFICES ASSUME top \notin Q PROVE FALSE
  OBVIOUS
<1> DEFINE missed == (0..top) \ Q
<1>1. PICK m \in missed : \A k \in missed : m <= k
  BY LeastNumber, missed # {}, missed \subseteq Nat
<1>2. m \in 1..top /\ m - 1 \in 0..top /\ ~(m <= m - 1)
  BY <1>1
<1>3. m - 1 \in Q
  BY <1>1, <1>2
<1> QED BY <1>1, <1>2, <1>3

\* left is what Without keeps of the first guards of s, one by one.
Keeps(s, gs, n, left) ==
  left = [i \in 0..n |->
            IF i = 0 THEN <<>>
            ELSE IF s[i] \in gs THEN left[i - 1] ELSE Append(left[i - 1], s[i])]

\* There is such a function, so that the recursion in Without defines one.
LEMMA KeepsExist ==
  ASSUME NEW s, NEW gs, NEW top \in Nat
  PROVE  \E left : Keeps(s, gs, top, left)
<1> DEFINE Q == {n \in Nat : \E left : Keeps(s, gs, n, left)}
           step(f, i) == IF i = 0 THEN <<>>
                         ELSE IF s[i] \in gs THEN f[i - 1] ELSE Append(f[i - 1], s[i])
<1>1. 0 \in Q
  <2> DEFINE f == [i \in 0..0 |-> <<>>]
  <2>1. f = [i \in 0..0 |-> step(f, i)]
    OBVIOUS
  <2> QED BY <2>1 DEF Keeps
<1>2. ASSUME NEW n \in 1..top, n - 1 \in Q
      PROVE  n \in Q
  <2>1. PICK f : Keeps(s, gs, n - 1, f)
    BY <1>2
  <2> DEFINE g == [i \in 0..n |-> step(f, i)]
  <2>2. f = [i \in 0..(n - 1) |-> step(f, i)]
    BY <2>1 DEF Keeps
  <2>3. ASSUME NEW i \in 0..n
        PROVE  step(f, i) = step(g, i)
    <3>1. CASE i = 0
      BY <3>1
    <3>2. CASE i # 0
      <4>1. i - 1 \in 0..(n - 1) /\ i - 1 \in 0..n
        BY <3>2
      <4>2. f[i - 1] = g[i - 1]
        <5> HIDE DEF step
        <5>1. f[i - 1] = step(f, i - 1)
          BY <2>2, <4>1
        <5>2. g[i - 1] = step(f, i - 1)
          BY <4>1
        <5> QED BY <5>1, <5>2
      <4> HIDE DEF g
      <4> QED BY <4>2
    <3> QED BY <3>1, <3>2
  <2>4. g = [i \in 0..n |-> step(g, i)]
    <3> HIDE DEF step
    <3>1. \A i \in 0..n : g[i] = step(g, i)
      BY <2>3
    <3>2. g = [i \in 0..n |-> g[i]]
      OBVIOUS
    <3> HIDE DEF g
    <3> QED BY <3>1, <3>2
  <2> HIDE DEF g
  <2>5. Keeps(s, gs, n, g)
    BY <2>4, Zenon DEF Keeps
  <2> QED BY <1>2, <2>5
<1> HIDE DEF Q
<1>3. top \in Q
  BY <1>1, <1>2, Induction
<1> QED BY <1>3 DEF Q

\* What Without leaves of a list is a list of what was in it and not taken out,
\* and holds no guard twice if the list did not.
LEMMA WithoutRight ==
  ASSUME NEW s \in Seq(Guards), NEW gs
  PROVE  /\ Without(s, gs) \in Seq(Guards)
         /\ Range(Without(s, gs)) = Range(s) \ gs
         /\ IsInjective(s) => IsInjective(Without(s, gs))
<1> DEFINE left == CHOOSE f : Keeps(s, gs, Len(s), f)
<1>1. Without(s, gs) = left[Len(s)]
  BY DEF Without, Keeps
<1>2. Keeps(s, gs, Len(s), left)
  BY KeepsExist
<1> HIDE DEF left
<1> DEFINE top == Len(s)
<1>0. top \in Nat /\ Keeps(s, gs, top, left) /\ DOMAIN s = 1..top /\ \A i \in 1..top : s[i] \in Guards
  BY <1>2
<1> HIDE DEF top
<1>3. /\ left[0] = <<>>
      /\ \A i \in 1..top :
           left[i] = IF s[i] \in gs THEN left[i - 1] ELSE Append(left[i - 1], s[i])
  <2> DEFINE step(i) == IF i = 0 THEN <<>>
                        ELSE IF s[i] \in gs THEN left[i - 1] ELSE Append(left[i - 1], s[i])
  <2>1. left = [i \in 0..top |-> step(i)]
    BY <1>0 DEF Keeps
  <2> HIDE DEF step
  <2>2. \A i \in 0..top : left[i] = step(i)
    BY <2>1
  <2>3. 0 \in 0..top /\ \A i \in 1..top : i \in 0..top /\ i # 0
    BY <1>0
  <2> QED BY <2>2, <2>3 DEF step
<1> DEFINE Right(i) ==
             /\ left[i] \in Seq(Guards)
             /\ \A x : x \in Range(left[i]) <=> x \notin gs /\ \E j \in 1..i : s[j] = x
             /\ IsInjective(s) => IsInjective(left[i])
           Q == {i \in 0..top : Right(i)}
<1>4. 0 \in Q
  <2> DEFINE p == left[0]
  <2>1. p = <<>> /\ 1..0 = {} /\ 0 \in 0..top
    BY <1>0, <1>3
  <2> HIDE DEF p
  <2>2. p \in Seq(Guards) /\ DOMAIN p = {}
    BY <2>1
  <2>3. Range(p) = {} /\ IsInjective(p)
    BY <2>2 DEF Range, IsInjective
  <2> QED BY <2>1, <2>2, <2>3 DEF p
<1>5. ASSUME NEW k \in 1..top, k - 1 \in Q
      PROVE  k \in Q
  <2>1. /\ left[k - 1] \in Seq(Guards)
        /\ \A x : x \in Range(left[k - 1]) <=> x \notin gs /\ \E j \in 1..(k - 1) : s[j] = x
        /\ IsInjective(s) => IsInjective(left[k - 1])
    BY <1>5
  <2>2. \A x : (\E j \in 1..k : s[j] = x) <=> s[k] = x \/ \E j \in 1..(k - 1) : s[j] = x
    OBVIOUS
  <2>3. CASE s[k] \in gs
    <3>1. left[k] = left[k - 1]
      BY <1>3, <2>3
    <3> QED BY <2>1, <2>2, <2>3, <3>1
  <2>4. CASE s[k] \notin gs
    <3> DEFINE p == left[k - 1]
               q == left[k]
    <3>1. q = Append(p, s[k]) /\ s[k] \in Guards /\ p \in Seq(Guards)
      BY <1>0, <1>3, <2>1, <2>4
    <3> HIDE DEF p, q
    <3>2. /\ q \in Seq(Guards) /\ DOMAIN q = 1..(Len(p) + 1) /\ DOMAIN p = 1..Len(p)
          /\ q[Len(p) + 1] = s[k]
          /\ \A i \in 1..Len(p) : q[i] = p[i]
      BY <3>1
    <3>3. \A x : x \in Range(q) <=> x \in Range(p) \/ x = s[k]
      <4>1. ASSUME NEW x PROVE x \in Range(p) \/ x = s[k] => x \in Range(q)
        BY <3>1, <3>2 DEF Range
      <4>2. ASSUME NEW x, x \in Range(q) PROVE x \in Range(p) \/ x = s[k]
        <5>1. PICK i \in 1..(Len(p) + 1) : q[i] = x
          BY <3>2, <4>2 DEF Range
        <5>2. CASE i = Len(p) + 1
          BY <3>2, <5>1, <5>2
        <5>3. CASE i # Len(p) + 1
          <6>1. i \in 1..Len(p)
            BY <3>1, <5>3
          <6> QED BY <3>2, <5>1, <6>1 DEF Range
        <5> QED BY <5>2, <5>3
      <4> QED BY <4>1, <4>2
    <3>4. ASSUME IsInjective(s) PROVE IsInjective(q)
      <4>1. \A i \in 1..Len(p) : p[i] # s[k]
        <5> SUFFICES ASSUME NEW i \in 1..Len(p), p[i] = s[k] PROVE FALSE
          OBVIOUS
        <5>1. s[k] \in Range(p)
          BY <3>2 DEF Range
        <5>2. PICK j \in 1..(k - 1) : s[j] = s[k]
          BY <2>1, <5>1 DEF p
        <5> QED BY <1>0, <3>4, <5>2 DEF IsInjective
      <4>2. \A i, j \in 1..Len(p) : p[i] = p[j] => i = j
        BY <2>1, <3>2, <3>4 DEF IsInjective, p
      <4>3. \A i \in 1..(Len(p) + 1) : i = Len(p) + 1 \/ i \in 1..Len(p)
        BY <3>1
      <4> QED BY <3>2, <4>1, <4>2, <4>3 DEF IsInjective
    <3> QED BY <2>1, <2>2, <2>4, <3>2, <3>3, <3>4 DEF p, q
  <2> QED BY <2>3, <2>4
<1> HIDE DEF Q
<1>6. top \in Q
  BY <1>0, <1>4, <1>5, Induction
<1>7. Right(top)
  BY <1>6 DEF Q
<1>8. \A x : x \in Range(s) <=> \E j \in 1..top : s[j] = x
  BY <1>0 DEF Range
<1>9. Without(s, gs) = left[top]
  BY <1>1 DEF top
<1> QED BY <1>7, <1>8, <1>9

\* What the list of the saved guards and the known ones holds.
LEMMA LoadedFacts ==
  ASSUME NEW s \in Seq(Guards)
  PROVE  /\ Range(s) \subseteq Guards /\ Range(Known) \subseteq Guards
         /\ Loaded(s) \subseteq Guards
         /\ IsFiniteSet(Loaded(s))
         /\ First(s) \in Loaded(s)
<1>1. /\ Known \in Seq(Guards) /\ Known # <<>>
  BY ConsoleAssumption
<1>2. Range(s) \subseteq Guards /\ Range(Known) \subseteq Guards
  BY <1>1 DEF Range
<1>3. ASSUME NEW q \in Seq(Guards) PROVE IsFiniteSet(Range(q))
  <2>1. q \in Surjection(1..Len(q), Range(q))
    BY DEF Surjection, Range
  <2>2. IsFiniteSet(1..Len(q))
    BY FS_Interval
  <2> QED BY <2>1, <2>2, FS_Surjection
<1>4. IsFiniteSet(Loaded(s))
  BY <1>1, <1>3, FS_Union DEF Loaded
<1>5. First(s) \in Loaded(s)
  <2>1. CASE s = <<>>
    <3>1. 1 \in DOMAIN Known
      BY <1>1
    <3> QED BY <2>1, <3>1 DEF First, Loaded, Range
  <2>2. CASE s # <<>>
    <3>1. 1 \in DOMAIN s
      BY <2>2
    <3> QED BY <2>2, <3>1 DEF First, Loaded, Range
  <2> QED BY <2>1, <2>2
<1> QED BY <1>2, <1>4, <1>5 DEF Loaded

LEMMA AppendRight ==
  ASSUME NEW s \in Seq(Guards), NEW g \in Guards
  PROVE  /\ Append(s, g) \in Seq(Guards)
         /\ Range(Append(s, g)) = Range(s) \cup {g}
         /\ IsInjective(s) /\ g \notin Range(s) => IsInjective(Append(s, g))
<1> DEFINE q == Append(s, g)
<1>1. /\ q \in Seq(Guards) /\ DOMAIN q = 1..(Len(s) + 1) /\ DOMAIN s = 1..Len(s) /\ Len(s) \in Nat
      /\ q[Len(s) + 1] = g /\ \A i \in 1..Len(s) : q[i] = s[i]
  OBVIOUS
<1> HIDE DEF q
<1>2. \A i \in 1..(Len(s) + 1) : i = Len(s) + 1 \/ i \in 1..Len(s)
  BY <1>1
<1>3. Range(q) = Range(s) \cup {g}
  <2>1. ASSUME NEW x \in Range(q) PROVE x \in Range(s) \cup {g}
    BY <1>1, <1>2 DEF Range
  <2>2. Range(s) \subseteq Range(q)
    BY <1>1 DEF Range
  <2>3. g \in Range(q)
    <3>1. Len(s) + 1 \in DOMAIN q
      BY <1>1
    <3> QED BY <1>1, <3>1 DEF Range
  <2> QED BY <2>1, <2>2, <2>3
<1>4. ASSUME IsInjective(s), g \notin Range(s) PROVE IsInjective(q)
  BY <1>1, <1>2, <1>4 DEF IsInjective, Range
<1> QED BY <1>1, <1>3, <1>4 DEF q

LEMMA ConcatRight ==
  ASSUME NEW s \in Seq(Guards), NEW r \in Seq(Guards)
  PROVE  /\ s \o r \in Seq(Guards)
         /\ Range(s \o r) = Range(s) \cup Range(r)
         /\ IsInjective(s) /\ IsInjective(r) /\ Range(s) \cap Range(r) = {} => IsInjective(s \o r)
<1> DEFINE q == s \o r
<1>1. /\ q \in Seq(Guards) /\ DOMAIN q = 1..(Len(s) + Len(r)) /\ Len(s) \in Nat /\ Len(r) \in Nat
      /\ DOMAIN s = 1..Len(s) /\ DOMAIN r = 1..Len(r)
      /\ \A i \in 1..(Len(s) + Len(r)) : q[i] = IF i <= Len(s) THEN s[i] ELSE r[i - Len(s)]
  BY ConcatProperties
<1> HIDE DEF q
<1>2. /\ \A i \in DOMAIN s : i \in DOMAIN q /\ q[i] = s[i]
      /\ \A i \in DOMAIN r : i + Len(s) \in DOMAIN q /\ q[i + Len(s)] = r[i]
      /\ \A i \in DOMAIN q : \/ i \in DOMAIN s /\ q[i] = s[i]
                             \/ i - Len(s) \in DOMAIN r /\ q[i] = r[i - Len(s)]
  BY <1>1
<1>3. Range(q) = Range(s) \cup Range(r)
  <2>1. ASSUME NEW x \in Range(q) PROVE x \in Range(s) \cup Range(r)
    BY <1>2 DEF Range
  <2>2. ASSUME NEW x \in Range(s) PROVE x \in Range(q)
    BY <1>2 DEF Range
  <2>3. ASSUME NEW x \in Range(r) PROVE x \in Range(q)
    BY <1>2 DEF Range
  <2> QED BY <2>1, <2>2, <2>3
<1>4. ASSUME IsInjective(s), IsInjective(r), Range(s) \cap Range(r) = {} PROVE IsInjective(q)
  <2>1. \A i \in DOMAIN s, j \in DOMAIN r : s[i] # r[j]
    BY <1>4 DEF Range
  <2>2. \A i, j \in DOMAIN s : s[i] = s[j] => i = j
    BY <1>4 DEF IsInjective
  <2>3. \A i, j \in DOMAIN r : r[i] = r[j] => i = j
    BY <1>4 DEF IsInjective
  <2>4. ASSUME NEW i \in DOMAIN q, NEW j \in DOMAIN q, q[i] = q[j] PROVE i = j
    <3>1. i \in Nat /\ j \in Nat
      BY <1>1
    <3>2. CASE i \in DOMAIN s /\ q[i] = s[i]
      <4>1. CASE j \in DOMAIN s /\ q[j] = s[j]
        BY <2>2, <2>4, <3>2, <4>1
      <4>2. CASE j - Len(s) \in DOMAIN r /\ q[j] = r[j - Len(s)]
        BY <2>1, <2>4, <3>2, <4>2
      <4> QED BY <1>2, <2>4, <4>1, <4>2
    <3>3. CASE i - Len(s) \in DOMAIN r /\ q[i] = r[i - Len(s)]
      <4>1. j - Len(s) \in DOMAIN r /\ q[j] = r[j - Len(s)]
        BY <1>2, <2>1, <2>4, <3>3
      <4>2. i - Len(s) = j - Len(s)
        BY <2>3, <2>4, <3>3, <4>1
      <4> QED BY <1>1, <3>1, <4>2
    <3> QED BY <1>2, <3>2, <3>3
  <2> QED BY <2>4 DEF IsInjective
<1> QED BY <1>1, <1>3, <1>4 DEF q

\* What is saved once a guard has been remembered.
LEMMA RememberedRight ==
  ASSUME NEW g \in Guards, saved \in Seq(Guards), IsInjective(saved)
  PROVE  /\ Remembered(g) \in Seq(Guards) /\ IsInjective(Remembered(g))
         /\ Loaded(Remembered(g)) = Loaded(saved) \cup {g}
  BY AppendRight DEF Remembered, Loaded

-----------------------------------------------------------------------------
(* The state keeps its shape.                                              *)

LEMMA MessageFacts ==
  /\ \A g \in Guards : Selection(g) \in Message
  /\ \A g \in Guards : /\ Change("add", g) \in Message
                       /\ Change("rename", g) \in Message
                       /\ Change("remove", g) \in Message
  /\ \A g, x : Selection(g) # Change("remove", x) /\ Selection(g).type = "GUARD_CHANGED"
  /\ \A g : Change("add", g).type = "add" /\ Change("rename", g).type = "rename"
  /\ \A g : Change("remove", g).type = "remove" /\ Change("remove", g).guard = g
  /\ \A g, x : /\ Selection(g) = Selection(x) => g = x
               /\ Change("remove", g) = Change("remove", x) => g = x
               /\ Change("add", g) # Change("remove", x)
               /\ Change("rename", g) # Change("remove", x)
               /\ Change("add", g) # Selection(x)
               /\ Change("rename", g) # Selection(x)
               /\ Change("remove", g) # Selection(x)
               /\ Selection(g).guard = g
<1>1. /\ \A g \in Guards : Selection(g) \in Message
      /\ \A g \in Guards : /\ Change("add", g) \in Message
                           /\ Change("rename", g) \in Message
                           /\ Change("remove", g) \in Message
  BY DEF Selection, Change, Message
<1>2. /\ \A g : Selection(g).type = "GUARD_CHANGED" /\ Selection(g).guard = g
      /\ \A g : Change("add", g).type = "add" /\ Change("rename", g).type = "rename"
      /\ \A g : Change("remove", g).type = "remove" /\ Change("remove", g).guard = g
  BY DEF Selection, Change
<1> QED BY <1>1, <1>2

LEMMA BroadcastShape ==
  ASSUME NEW t \in Tabs, NEW msgs \in Seq(Message), net \in [Tabs -> [Tabs -> Seq(Message)]],
         Broadcast(t, msgs)
  PROVE  /\ net' \in [Tabs -> [Tabs -> Seq(Message)]]
         /\ \A s \in Tabs \ {t} : net'[s] = net[s]
         /\ net'[t][t] = net[t][t]
         /\ \A u \in Tabs \ {t} : net'[t][u] = net[t][u] \o msgs
<1> DEFINE row == [u \in Tabs |-> IF u = t THEN net[t][u] ELSE net[t][u] \o msgs]
<1>1. net' = [net EXCEPT ![t] = row]
  BY DEF Broadcast
<1>2. row \in [Tabs -> Seq(Message)]
  OBVIOUS
<1>3. row[t] = net[t][t] /\ \A u \in Tabs \ {t} : row[u] = net[t][u] \o msgs
  OBVIOUS
<1> HIDE DEF row
<1> QED BY <1>1, <1>2, <1>3

LEMMA RenderShape ==
  ASSUME TypeOK, NEW t \in Tabs, NEW insts \in SUBSET Guards, NEW g \in Guards,
         RenderNow(t, insts, g)
  PROVE  /\ list' \in [Tabs -> SUBSET Guards] /\ listed' \in [Tabs -> SUBSET Guards]
         /\ guard' \in [Tabs -> Guards] /\ shown' \in [Tabs -> Guards]
         /\ list'[t] = insts /\ guard'[t] = g
         /\ \A u \in Tabs \ {t} : list'[u] = list[u] /\ guard'[u] = guard[u]
  BY DEF TypeOK, RenderNow

\* What a removal announces: the changes, then where the tab went.
RemovalSays(t, announced, gone) ==
  announced \o IF shown[t] \in gone THEN <<Selection(First(saved'))>> ELSE <<>>

LEMMA RemovalShape ==
  ASSUME TypeOK, NEW t \in Tabs, NEW announced \in Seq(Message), NEW gone, saved' \in Seq(Guards),
         AfterRemoval(t, announced, gone)
  PROVE  /\ list' \in [Tabs -> SUBSET Guards] /\ listed' \in [Tabs -> SUBSET Guards]
         /\ guard' \in [Tabs -> Guards] /\ shown' \in [Tabs -> Guards]
         /\ choice' \in Guards \cup {None}
         /\ net' \in [Tabs -> [Tabs -> Seq(Message)]]
         /\ list'[t] = Loaded(saved')
         /\ guard'[t] = IF shown[t] \in gone THEN First(saved') ELSE guard[t]
         /\ choice' = IF shown[t] \in gone THEN First(saved') ELSE choice
         /\ \A u \in Tabs \ {t} : list'[u] = list[u] /\ guard'[u] = guard[u]
         /\ RemovalSays(t, announced, gone) \in Seq(Message)
         /\ Broadcast(t, RemovalSays(t, announced, gone))
<1>1. PICK s2 : s2 = saved'
  OBVIOUS
<1>2. s2 \in Seq(Guards) /\ Loaded(s2) \subseteq Guards /\ First(s2) \in Loaded(s2)
  BY <1>1, LoadedFacts
<1>3. guard[t] \in Guards /\ net \in [Tabs -> [Tabs -> Seq(Message)]] /\ choice \in Guards \cup {None}
  BY DEF TypeOK
<1> DEFINE g == IF shown[t] \in gone THEN First(saved') ELSE guard[t]
<1>4. g \in Guards /\ Loaded(saved') \in SUBSET Guards /\ First(saved') \in Guards
  BY <1>1, <1>2, <1>3
<1>5. RenderNow(t, Loaded(saved'), g) /\ choice' = IF shown[t] \in gone THEN First(saved') ELSE choice
  BY DEF AfterRemoval
<1>6. Broadcast(t, RemovalSays(t, announced, gone))
  BY DEF AfterRemoval, RemovalSays
<1>7. RemovalSays(t, announced, gone) \in Seq(Message)
  <2>1. Selection(First(saved')) \in Message
    BY <1>4, MessageFacts
  <2>2. <<Selection(First(saved'))>> \in Seq(Message) /\ <<>> \in Seq(Message)
    BY <2>1
  <2> QED BY <2>2, ConcatProperties DEF RemovalSays
<1>8. net' \in [Tabs -> [Tabs -> Seq(Message)]]
  BY <1>3, <1>6, <1>7, BroadcastShape
<1> HIDE DEF g
<1>9. /\ list' \in [Tabs -> SUBSET Guards] /\ listed' \in [Tabs -> SUBSET Guards]
      /\ guard' \in [Tabs -> Guards] /\ shown' \in [Tabs -> Guards]
      /\ list'[t] = Loaded(saved') /\ guard'[t] = g
      /\ \A u \in Tabs \ {t} : list'[u] = list[u] /\ guard'[u] = guard[u]
  BY <1>4, <1>5, RenderShape
<1>10. choice' \in Guards \cup {None}
  BY <1>3, <1>4, <1>5
<1> QED BY <1>5, <1>6, <1>7, <1>8, <1>9, <1>10 DEF g

LEMMA SelectShape ==
  ASSUME Shapes, NEW t \in Tabs, NEW g \in Guards, Select(t, g)
  PROVE  /\ Shapes' /\ saved' = saved /\ choice' = g
         /\ list'[t] = list[t] /\ guard'[t] = g
         /\ \A u \in Tabs \ {t} : list'[u] = list[u] /\ guard'[u] = guard[u]
<1>1. /\ RenderNow(t, list[t], g) /\ Broadcast(t, <<Selection(g)>>) /\ choice' = g
      /\ acts < MaxActs /\ acts' = acts + 1 /\ UNCHANGED <<saved, adding, undo>>
  BY DEF Select, Acts
<1>2. TypeOK /\ list[t] \in SUBSET Guards /\ MaxActs \in Nat
  BY ConsoleAssumption DEF Shapes, TypeOK
<1>3. <<Selection(g)>> \in Seq(Message)
  BY MessageFacts
<1>4. net' \in [Tabs -> [Tabs -> Seq(Message)]]
  BY <1>1, <1>2, <1>3, BroadcastShape DEF TypeOK
<1>5. /\ list' \in [Tabs -> SUBSET Guards] /\ listed' \in [Tabs -> SUBSET Guards]
      /\ guard' \in [Tabs -> Guards] /\ shown' \in [Tabs -> Guards]
      /\ list'[t] = list[t] /\ guard'[t] = g
      /\ \A u \in Tabs \ {t} : list'[u] = list[u] /\ guard'[u] = guard[u]
  BY <1>1, <1>2, RenderShape
<1>6. acts' \in 0..MaxActs
  BY <1>1, <1>2 DEF TypeOK
<1> QED BY <1>1, <1>4, <1>5, <1>6 DEF Shapes, TypeOK

\* What an added guard that is listed says to the other tabs.
LEMMA EndAddShape ==
  ASSUME Shapes, NEW t \in Tabs, NEW g \in Guards, EndAdd(t, g)
  PROVE  /\ Shapes' /\ undo' = undo /\ saved' \in {saved, Remembered(g)}
         /\ \A u \in Tabs \ {t} : /\ list'[u] = list[u] /\ guard'[u] = guard[u]
                                  /\ adding'[u] = adding[u]
         /\ IF g \in Loaded(saved')
              THEN /\ list'[t] = Loaded(saved') /\ guard'[t] = g /\ choice' = g
                   /\ Broadcast(t, <<Change("add", g), Selection(g)>>)
              ELSE UNCHANGED <<saved, list, guard, net, choice>>
<1>1. /\ g \in adding[t] /\ adding' = [adding EXCEPT ![t] = @ \ {g}]
      /\ saved' = Remembered(g) \/ saved' = saved
      /\ IF g \in Loaded(saved')
           THEN /\ list' = [list EXCEPT ![t] = Loaded(saved')]
                /\ guard' = [guard EXCEPT ![t] = g]
                /\ Broadcast(t, <<Change("add", g), Selection(g)>>)
                /\ choice' = g
           ELSE UNCHANGED <<list, guard, net, choice>>
      /\ UNCHANGED <<listed, shown, undo, acts>>
  BY DEF EndAdd, Store
<1>2. /\ TypeOK /\ saved \in Seq(Guards) /\ IsInjective(saved)
      /\ list \in [Tabs -> SUBSET Guards] /\ guard \in [Tabs -> Guards]
      /\ adding \in [Tabs -> SUBSET Guards] /\ net \in [Tabs -> [Tabs -> Seq(Message)]]
  BY DEF Shapes, TypeOK
<1>3. PICK s2 : s2 = saved'
  OBVIOUS
<1>4. /\ s2 \in Seq(Guards) /\ IsInjective(s2) /\ Loaded(s2) \subseteq Guards
      /\ s2 = saved \/ g \in Loaded(s2)
  <2>1. s2 = Remembered(g) \/ s2 = saved
    BY <1>1, <1>3
  <2>2. /\ Remembered(g) \in Seq(Guards) /\ IsInjective(Remembered(g))
        /\ g \in Loaded(Remembered(g))
    BY <1>2, RememberedRight
  <2>3. s2 \in Seq(Guards) /\ IsInjective(s2) /\ (s2 = saved \/ g \in Loaded(s2))
    BY <1>2, <2>1, <2>2
  <2> QED BY <2>3, LoadedFacts
<1>5. adding' \in [Tabs -> SUBSET Guards] /\ \A u \in Tabs \ {t} : adding'[u] = adding[u]
  BY <1>1, <1>2
<1>6. /\ list' \in [Tabs -> SUBSET Guards] /\ guard' \in [Tabs -> Guards]
      /\ net' \in [Tabs -> [Tabs -> Seq(Message)]] /\ choice' \in Guards \cup {None}
      /\ \A u \in Tabs \ {t} : list'[u] = list[u] /\ guard'[u] = guard[u]
      /\ g \in Loaded(saved') => list'[t] = Loaded(saved') /\ guard'[t] = g
  <2>1. CASE g \in Loaded(saved')
    <3>1. <<Change("add", g), Selection(g)>> \in Seq(Message)
      BY MessageFacts
    <3>2. net' \in [Tabs -> [Tabs -> Seq(Message)]]
      BY <1>1, <1>2, <2>1, <3>1, BroadcastShape
    <3> QED BY <1>1, <1>2, <1>3, <1>4, <2>1, <3>2
  <2>2. CASE g \notin Loaded(saved')
    BY <1>1, <1>2, <2>2 DEF TypeOK
  <2> QED BY <2>1, <2>2
<1>7. Shapes'
  BY <1>1, <1>2, <1>3, <1>4, <1>5, <1>6 DEF Shapes, TypeOK
<1>8. saved' \in {saved, Remembered(g)} /\ (g \notin Loaded(saved') => saved' = saved)
  BY <1>1, <1>3, <1>4
<1> QED BY <1>1, <1>5, <1>6, <1>7, <1>8

LEMMA RenameShape ==
  ASSUME Shapes, NEW t \in Tabs, NEW g \in Guards, Rename(t, g)
  PROVE  /\ Shapes' /\ Loaded(saved) = Loaded(saved')
         /\ list'[t] = Loaded(saved') /\ guard'[t] = guard[t]
         /\ \A u \in Tabs \ {t} : list'[u] = list[u] /\ guard'[u] = guard[u]
<1>1. /\ acts < MaxActs /\ acts' = acts + 1
      /\ IF g \in Range(Known) \ Range(saved)
           THEN saved' = Append(saved, g) \/ saved' = saved ELSE saved' = saved
      /\ RenderNow(t, Loaded(saved'), guard[t])
      /\ Broadcast(t, <<Change("rename", g)>>)
      /\ UNCHANGED <<adding, undo, choice>>
  BY DEF Rename, Store, Acts
<1>2. /\ TypeOK /\ saved \in Seq(Guards) /\ IsInjective(saved) /\ guard[t] \in Guards
      /\ net \in [Tabs -> [Tabs -> Seq(Message)]] /\ MaxActs \in Nat
  BY ConsoleAssumption DEF Shapes, TypeOK
<1>3. PICK s2 : s2 = saved'
  OBVIOUS
<1>4. s2 \in Seq(Guards) /\ IsInjective(s2) /\ Loaded(s2) = Loaded(saved)
  <2>1. CASE s2 = saved
    BY <1>2, <2>1
  <2>2. CASE s2 # saved
    <3>1. g \in Range(Known) \ Range(saved) /\ s2 = Append(saved, g)
      BY <1>1, <1>3, <2>2
    <3> QED BY <1>2, <3>1, AppendRight DEF Loaded
  <2> QED BY <2>1, <2>2
<1>5. Loaded(saved') \in SUBSET Guards
  BY <1>3, <1>4, LoadedFacts
<1>6. /\ list' \in [Tabs -> SUBSET Guards] /\ listed' \in [Tabs -> SUBSET Guards]
      /\ guard' \in [Tabs -> Guards] /\ shown' \in [Tabs -> Guards]
      /\ list'[t] = Loaded(saved') /\ guard'[t] = guard[t]
      /\ \A u \in Tabs \ {t} : list'[u] = list[u] /\ guard'[u] = guard[u]
  BY <1>1, <1>2, <1>5, RenderShape
<1>7. net' \in [Tabs -> [Tabs -> Seq(Message)]]
  <2>1. <<Change("rename", g)>> \in Seq(Message)
    BY MessageFacts
  <2> QED BY <1>1, <1>2, <2>1, BroadcastShape
<1>8. acts' \in 0..MaxActs
  BY <1>1, <1>2 DEF TypeOK
<1> QED BY <1>1, <1>2, <1>3, <1>4, <1>6, <1>7, <1>8 DEF Shapes, TypeOK

LEMMA RemoveGuardShape ==
  ASSUME Shapes, NEW t \in Tabs, NEW g \in Guards, RemoveGuard(t, g)
  PROVE  /\ Shapes' /\ undo' = undo /\ saved' \in {saved, Without(saved, {g})}
         /\ g \in listed[t] \ Range(Known)
         /\ \E announced \in Seq(Message) :
              /\ announced = IF Cardinality(Loaded(saved')) < Cardinality(listed[t])
                               THEN <<Change("remove", g)>> ELSE <<>>
              /\ AfterRemoval(t, announced, {g})
<1> DEFINE announced == IF Cardinality(Loaded(saved')) < Cardinality(listed[t])
                          THEN <<Change("remove", g)>> ELSE <<>>
<1>1. /\ acts < MaxActs /\ acts' = acts + 1 /\ g \in listed[t] \ Range(Known)
      /\ saved' = Without(saved, {g}) \/ saved' = saved
      /\ AfterRemoval(t, announced, {g})
      /\ UNCHANGED <<adding, undo>>
  BY DEF RemoveGuard, Store, Acts
<1>2. /\ TypeOK /\ saved \in Seq(Guards) /\ IsInjective(saved) /\ MaxActs \in Nat
  BY ConsoleAssumption DEF Shapes, TypeOK
<1>3. announced \in Seq(Message)
  BY MessageFacts
<1> HIDE DEF announced
<1>4. saved' \in Seq(Guards) /\ IsInjective(saved')
  <2>1. PICK s2 : s2 = saved'
    OBVIOUS
  <2>2. s2 \in Seq(Guards) /\ IsInjective(s2)
    BY <1>1, <1>2, <2>1, WithoutRight
  <2> QED BY <2>1, <2>2
<1>5. /\ list' \in [Tabs -> SUBSET Guards] /\ listed' \in [Tabs -> SUBSET Guards]
      /\ guard' \in [Tabs -> Guards] /\ shown' \in [Tabs -> Guards]
      /\ choice' \in Guards \cup {None}
      /\ net' \in [Tabs -> [Tabs -> Seq(Message)]]
  BY <1>1, <1>2, <1>3, <1>4, RemovalShape
<1>6. acts' \in 0..MaxActs
  BY <1>1, <1>2 DEF TypeOK
<1>7. Shapes'
  BY <1>1, <1>2, <1>4, <1>5, <1>6 DEF Shapes, TypeOK
<1> QED BY <1>1, <1>3, <1>7 DEF announced

LEMMA CleanupShape ==
  ASSUME Shapes, NEW t \in Tabs, NEW gs \in SUBSET Guards, Cleanup(t, gs)
  PROVE  /\ Shapes' /\ saved' = Without(saved, gs) /\ gs \cap Range(Known) = {}
         /\ \E gone \in Seq(Guards), announced \in Seq(Message) :
              /\ Range(gone) = Range(saved) \cap gs
              /\ DOMAIN announced = DOMAIN gone
              /\ \A i \in DOMAIN gone : announced[i] = Change("remove", gone[i])
              /\ AfterRemoval(t, announced, Range(gone))
<1> DEFINE gone == Without(saved, Guards \ gs)
           announced == [i \in DOMAIN gone |-> Change("remove", gone[i])]
           backup == [active |-> shown[t], entries |-> saved]
<1>1. /\ acts < MaxActs /\ acts' = acts + 1 /\ gs \cap Range(Known) = {}
      /\ saved' = Without(saved, gs)
      /\ AfterRemoval(t, announced, Range(gone))
      /\ undo' = [undo EXCEPT ![t] = backup]
      /\ UNCHANGED adding
  BY DEF Cleanup, Acts
<1>2. /\ TypeOK /\ saved \in Seq(Guards) /\ IsInjective(saved) /\ MaxActs \in Nat
      /\ \A u \in Tabs : undo[u] # None => IsInjective(undo[u].entries)
      /\ undo \in [Tabs -> Backup \cup {None}] /\ shown[t] \in Guards
  BY ConsoleAssumption DEF Shapes, TypeOK
<1>3. gone \in Seq(Guards) /\ Range(gone) = Range(saved) \cap gs
  BY <1>2, WithoutRight, LoadedFacts
<1>4. backup \in Backup /\ backup.entries = saved
  BY <1>2 DEF Backup
<1> HIDE DEF gone, backup
<1>5. /\ announced \in Seq(Message) /\ DOMAIN announced = DOMAIN gone
      /\ \A i \in DOMAIN gone : announced[i] = Change("remove", gone[i])
  <2>1. \A i \in DOMAIN gone : Change("remove", gone[i]) \in Message
    BY <1>3, MessageFacts
  <2> QED BY <1>3, <2>1
<1> HIDE DEF announced
<1>6. saved' \in Seq(Guards) /\ IsInjective(saved')
  BY <1>1, <1>2, WithoutRight
<1>7. /\ list' \in [Tabs -> SUBSET Guards] /\ listed' \in [Tabs -> SUBSET Guards]
      /\ guard' \in [Tabs -> Guards] /\ shown' \in [Tabs -> Guards]
      /\ choice' \in Guards \cup {None}
      /\ net' \in [Tabs -> [Tabs -> Seq(Message)]]
  BY <1>1, <1>2, <1>5, <1>6, RemovalShape
<1>8. acts' \in 0..MaxActs
  BY <1>1, <1>2 DEF TypeOK
<1>9. /\ undo' \in [Tabs -> Backup \cup {None}]
      /\ \A u \in Tabs : undo'[u] # None => IsInjective(undo'[u].entries)
  BY <1>1, <1>2, <1>4
<1>10. Shapes'
  BY <1>1, <1>2, <1>6, <1>7, <1>8, <1>9 DEF Shapes, TypeOK
<1> QED BY <1>1, <1>3, <1>5, <1>10

LEMMA RestoreShape ==
  ASSUME Shapes, NEW t \in Tabs, Restore(t)
  PROVE  /\ Shapes' /\ undo[t] \in Backup /\ undo'[t] = None
         /\ \A u \in Tabs \ {t} : undo'[u] = undo[u] /\ list'[u] = list[u] /\ guard'[u] = guard[u]
         /\ Range(saved') = Range(undo[t].entries) \cup Range(saved)
         /\ list'[t] = Loaded(saved')
         /\ \E back, told \in Seq(Message), returns \in BOOLEAN :
              /\ \A i \in DOMAIN back : \E x : back[i] = Change("add", x)
              /\ back = <<>> => Range(undo[t].entries) \subseteq listed[t]
              /\ told = IF returns THEN <<Selection(undo[t].active)>> ELSE <<>>
              /\ Broadcast(t, back \o told)
              /\ returns => undo[t].active \in Loaded(saved')
              /\ guard'[t] = IF returns THEN undo[t].active ELSE guard[t]
              /\ choice' = IF returns THEN undo[t].active ELSE choice
<1> DEFINE backup == undo[t]
           cameBack == Without(backup.entries, listed[t])
           returns == backup.active # shown[t] /\ backup.active \in Loaded(saved')
           rest == Without(saved, Range(backup.entries))
           back == [i \in DOMAIN cameBack |-> Change("add", cameBack[i])]
           told == IF returns THEN <<Selection(backup.active)>> ELSE <<>>
<1>1. /\ acts < MaxActs /\ acts' = acts + 1 /\ backup # None
      /\ undo' = [undo EXCEPT ![t] = None]
      /\ saved' = backup.entries \o rest
      /\ RenderNow(t, Loaded(saved'), IF returns THEN backup.active ELSE guard[t])
      /\ Broadcast(t, back \o told)
      /\ choice' = IF returns THEN backup.active ELSE choice
      /\ UNCHANGED adding
  BY DEF Restore, Acts
<1>2. /\ TypeOK /\ saved \in Seq(Guards) /\ IsInjective(saved) /\ MaxActs \in Nat
      /\ \A u \in Tabs : undo[u] # None => IsInjective(undo[u].entries)
      /\ undo \in [Tabs -> Backup \cup {None}] /\ guard[t] \in Guards
      /\ net \in [Tabs -> [Tabs -> Seq(Message)]]
  BY ConsoleAssumption DEF Shapes, TypeOK
<1>3. /\ backup \in Backup /\ backup.entries \in Seq(Guards) /\ IsInjective(backup.entries)
      /\ backup.active \in Guards
  BY <1>1, <1>2 DEF Backup
<1>4. cameBack \in Seq(Guards) /\ Range(cameBack) = Range(backup.entries) \ listed[t]
  BY <1>3, WithoutRight
<1>5. /\ saved' \in Seq(Guards) /\ IsInjective(saved')
      /\ Range(saved') = Range(backup.entries) \cup Range(saved)
  <2>1. rest \in Seq(Guards) /\ IsInjective(rest) /\ Range(rest) = Range(saved) \ Range(backup.entries)
    BY <1>2, WithoutRight
  <2> HIDE DEF rest
  <2> QED BY <1>1, <1>3, <2>1, ConcatRight
<1> HIDE DEF cameBack
<1>6. /\ back \in Seq(Message) /\ \A i \in DOMAIN back : \E x : back[i] = Change("add", x)
      /\ back = <<>> => Range(backup.entries) \subseteq listed[t]
  <2>1. \A i \in DOMAIN cameBack : Change("add", cameBack[i]) \in Message
    BY <1>4, MessageFacts
  <2>2. DOMAIN back = DOMAIN cameBack /\ back \in Seq(Message)
    BY <1>4, <2>1
  <2>3. back = <<>> => DOMAIN cameBack = {}
    <3> HIDE DEF back
    <3> QED BY <2>2
  <2>4. DOMAIN cameBack = {} => Range(cameBack) = {}
    BY DEF Range
  <2>5. \A i \in DOMAIN back : back[i] = Change("add", cameBack[i])
    OBVIOUS
  <2> HIDE DEF back
  <2> QED BY <1>4, <2>2, <2>3, <2>4, <2>5
<1>7. told \in Seq(Message)
  BY <1>3, MessageFacts
<1> HIDE DEF back
<1>8. back \o told \in Seq(Message)
  BY <1>6, <1>7, ConcatProperties
<1>9. net' \in [Tabs -> [Tabs -> Seq(Message)]]
  BY <1>1, <1>2, <1>8, BroadcastShape
<1>10. Loaded(saved') \in SUBSET Guards
  <2>1. PICK s2 : s2 = saved'
    OBVIOUS
  <2>2. Loaded(s2) \subseteq Guards
    BY <1>5, <2>1, LoadedFacts
  <2> QED BY <2>1, <2>2
<1> DEFINE g == IF returns THEN backup.active ELSE guard[t]
<1>11. g \in Guards /\ RenderNow(t, Loaded(saved'), g) /\ choice' \in Guards \cup {None}
  BY <1>1, <1>2, <1>3 DEF TypeOK
<1> HIDE DEF g
<1>12. /\ list' \in [Tabs -> SUBSET Guards] /\ listed' \in [Tabs -> SUBSET Guards]
       /\ guard' \in [Tabs -> Guards] /\ shown' \in [Tabs -> Guards]
       /\ list'[t] = Loaded(saved') /\ guard'[t] = g
       /\ \A u \in Tabs \ {t} : list'[u] = list[u] /\ guard'[u] = guard[u]
  BY <1>2, <1>10, <1>11, RenderShape
<1>13. acts' \in 0..MaxActs
  BY <1>1, <1>2 DEF TypeOK
<1>14. /\ undo' \in [Tabs -> Backup \cup {None}] /\ undo'[t] = None
       /\ \A u \in Tabs \ {t} : undo'[u] = undo[u]
       /\ \A u \in Tabs : undo'[u] # None => IsInjective(undo'[u].entries)
  BY <1>1, <1>2
<1>15. Shapes'
  BY <1>1, <1>2, <1>5, <1>9, <1>11, <1>12, <1>13, <1>14 DEF Shapes, TypeOK
<1>16. returns \in BOOLEAN
  OBVIOUS
<1>17. \E r \in BOOLEAN :
              /\ told = IF r THEN <<Selection(backup.active)>> ELSE <<>>
              /\ r => backup.active \in Loaded(saved')
              /\ guard'[t] = IF r THEN backup.active ELSE guard[t]
              /\ choice' = IF r THEN backup.active ELSE choice
  <2> WITNESS returns \in BOOLEAN
  <2> QED BY <1>1, <1>12 DEF g
<1> HIDE DEF told, returns
<1> QED BY <1>1, <1>3, <1>5, <1>6, <1>7, <1>12, <1>14, <1>15, <1>17

LEMMA OpenShape ==
  ASSUME Shapes, NEW t \in Tabs, NEW g \in Guards, NEW followed \in BOOLEAN, Open(t, g, followed)
  PROVE  /\ Shapes' /\ saved' = saved /\ choice' = None
         /\ guard'[t] = g /\ g \in Fit /\ IsFiniteSet(list'[t])
         /\ Loaded(saved) \subseteq list'[t] /\ list'[t] \subseteq Fit
         /\ undo'[t] = None /\ adding'[t] = {}
         /\ \A u \in Tabs \ {t} : /\ list'[u] = list[u] /\ guard'[u] = guard[u]
                                  /\ undo'[u] = undo[u] /\ adding'[u] = adding[u]
         /\ \A s, u \in Tabs : net'[s][u] = IF u = t THEN <<>> ELSE net[s][u]
<1> DEFINE insts == Loaded(saved) \cup IF followed THEN {g} ELSE {}
<1>1. /\ acts < MaxActs /\ acts' = acts + 1
      /\ g \in Links \cup Loaded(saved)
      /\ RenderNow(t, insts, g)
      /\ net' = [s \in Tabs |-> [net[s] EXCEPT ![t] = <<>>]]
      /\ adding' = [adding EXCEPT ![t] = {}]
      /\ undo' = [undo EXCEPT ![t] = None]
      /\ choice' = None /\ saved' = saved
  BY DEF Open
<1>2. /\ TypeOK /\ saved \in Seq(Guards) /\ MaxActs \in Nat
      /\ \A u \in Tabs : undo[u] # None => IsInjective(undo[u].entries)
      /\ undo \in [Tabs -> Backup \cup {None}] /\ adding \in [Tabs -> SUBSET Guards]
      /\ net \in [Tabs -> [Tabs -> Seq(Message)]]
  BY ConsoleAssumption DEF Shapes, TypeOK
<1>3. insts \in SUBSET Guards /\ IsFiniteSet(insts) /\ Loaded(saved) \subseteq insts
      /\ insts \subseteq Fit /\ g \in Fit
  <2>1. Loaded(saved) \subseteq Guards /\ IsFiniteSet(Loaded(saved))
    BY <1>2, LoadedFacts
  <2>2. IsFiniteSet(Loaded(saved) \cup {g})
    BY <2>1, FS_AddElement
  <2>3. IsFiniteSet(insts)
    <3>1. insts = Loaded(saved) \/ insts = Loaded(saved) \cup {g}
      OBVIOUS
    <3> QED BY <2>1, <2>2, <3>1
  <2> QED BY <1>1, <2>1, <2>3 DEF Fit
<1> HIDE DEF insts
<1>4. /\ list' \in [Tabs -> SUBSET Guards] /\ listed' \in [Tabs -> SUBSET Guards]
      /\ guard' \in [Tabs -> Guards] /\ shown' \in [Tabs -> Guards]
      /\ list'[t] = insts /\ guard'[t] = g
      /\ \A u \in Tabs \ {t} : list'[u] = list[u] /\ guard'[u] = guard[u]
  BY <1>1, <1>2, <1>3, RenderShape
<1>5. /\ net' \in [Tabs -> [Tabs -> Seq(Message)]]
      /\ \A s, u \in Tabs : net'[s][u] = IF u = t THEN <<>> ELSE net[s][u]
  BY <1>1, <1>2
<1>6. /\ undo' \in [Tabs -> Backup \cup {None}] /\ undo'[t] = None
      /\ \A u \in Tabs \ {t} : undo'[u] = undo[u]
      /\ \A u \in Tabs : undo'[u] # None => IsInjective(undo'[u].entries)
  BY <1>1, <1>2
<1>7. /\ adding' \in [Tabs -> SUBSET Guards] /\ adding'[t] = {}
      /\ \A u \in Tabs \ {t} : adding'[u] = adding[u]
  BY <1>1, <1>2
<1>8. acts' \in 0..MaxActs
  BY <1>1, <1>2 DEF TypeOK
<1>9. Shapes'
  BY <1>1, <1>2, <1>4, <1>5, <1>6, <1>7, <1>8 DEF Shapes, TypeOK
<1> QED BY <1>1, <1>3, <1>4, <1>5, <1>6, <1>7, <1>9

LEMMA ReceiveShape ==
  ASSUME Shapes, NEW t \in Tabs, NEW s \in Tabs, Receive(t, s)
  PROVE  /\ Shapes' /\ UNCHANGED <<saved, choice, undo, adding>>
         /\ net[s][t] # <<>> /\ net'[s][t] = Tail(net[s][t])
         /\ \A r, u \in Tabs : r # s \/ u # t => net'[r][u] = net[r][u]
         /\ \A u \in Tabs \ {t} : list'[u] = list[u] /\ guard'[u] = guard[u]
         /\ Prompt => Rendered(t)
         /\ LET msg == Head(net[s][t])
            IN IF msg.type = "GUARD_CHANGED"
                 THEN /\ guard'[t] = IF msg.guard = shown[t] THEN guard[t] ELSE msg.guard
                      /\ list'[t] = list[t]
                 ELSE /\ list'[t] = AfterChange(t, msg)
                      /\ guard'[t] = IF FallsBack(t, msg) THEN First(saved) ELSE guard[t]
<1> DEFINE msg == Head(net[s][t])
<1>1. /\ net[s][t] # <<>>
      /\ Prompt => Rendered(t)
      /\ net' = [net EXCEPT ![s][t] = Tail(net[s][t])]
      /\ IF msg.type = "GUARD_CHANGED"
           THEN /\ guard' = [guard EXCEPT ![t] = IF msg.guard = shown[t] THEN guard[t] ELSE msg.guard]
                /\ list' = list
           ELSE /\ list' = [list EXCEPT ![t] = AfterChange(t, msg)]
                /\ guard' = [guard EXCEPT ![t] = IF FallsBack(t, msg) THEN First(saved) ELSE guard[t]]
      /\ UNCHANGED <<saved, listed, shown, adding, undo, choice, acts>>
  BY DEF Receive
<1>2. /\ TypeOK /\ saved \in Seq(Guards)
      /\ list \in [Tabs -> SUBSET Guards] /\ guard \in [Tabs -> Guards] /\ shown \in [Tabs -> Guards]
      /\ net \in [Tabs -> [Tabs -> Seq(Message)]]
  BY DEF Shapes, TypeOK
<1> DEFINE q == net[s][t]
<1>3. msg \in Message /\ Tail(q) \in Seq(Message)
  <2>1. q \in Seq(Message) /\ q # <<>>
    BY <1>1, <1>2
  <2> HIDE DEF q
  <2>2. Head(q) \in Message /\ Tail(q) \in Seq(Message)
    BY <2>1, HeadTailProperties
  <2> QED BY <2>2 DEF q
<1>4. msg.guard \in Guards /\ First(saved) \in Guards
  BY <1>2, <1>3, LoadedFacts DEF Message
<1>5. AfterChange(t, msg) \subseteq Guards
  BY <1>2, LoadedFacts DEF AfterChange
<1>6. /\ net' \in [Tabs -> [Tabs -> Seq(Message)]] /\ net'[s][t] = Tail(net[s][t])
      /\ \A r, u \in Tabs : r # s \/ u # t => net'[r][u] = net[r][u]
  BY <1>1, <1>2, <1>3
<1>7. /\ list' \in [Tabs -> SUBSET Guards] /\ guard' \in [Tabs -> Guards]
      /\ \A u \in Tabs \ {t} : list'[u] = list[u] /\ guard'[u] = guard[u]
      /\ IF msg.type = "GUARD_CHANGED"
           THEN /\ guard'[t] = IF msg.guard = shown[t] THEN guard[t] ELSE msg.guard
                /\ list'[t] = list[t]
           ELSE /\ list'[t] = AfterChange(t, msg)
                /\ guard'[t] = IF FallsBack(t, msg) THEN First(saved) ELSE guard[t]
  <2> HIDE DEF msg
  <2>1. CASE msg.type = "GUARD_CHANGED"
    BY <1>1, <1>2, <1>4, <2>1
  <2>2. CASE msg.type # "GUARD_CHANGED"
    BY <1>1, <1>2, <1>4, <1>5, <2>2
  <2> QED BY <2>1, <2>2
<1>8. Shapes'
  BY <1>1, <1>2, <1>6, <1>7 DEF Shapes, TypeOK
<1> QED BY <1>1, <1>6, <1>7, <1>8

\* The steps that change neither a list asked for nor a message.
LEMMA SilentShape ==
  ASSUME Shapes, NEW t \in Tabs,
         \/ \E g \in Guards : BeginAdd(t, g) \/ RefuseAdd(t, g)
         \/ RestoreFails(t)
         \/ Commit(t)
  PROVE  /\ Shapes' /\ UNCHANGED <<saved, list, guard, net, choice>>
         /\ \A u \in Tabs : undo'[u] = undo[u] \/ (u = t /\ undo'[u] = None)
         /\ \A u \in Tabs : adding'[u] = adding[u] \/ (u = t /\ (t \in Hands \/ adding[t] # {}))
<1>1. /\ TypeOK /\ MaxActs \in Nat
      /\ \A u \in Tabs : undo[u] # None => IsInjective(undo[u].entries)
      /\ undo \in [Tabs -> Backup \cup {None}] /\ adding \in [Tabs -> SUBSET Guards]
      /\ list \in [Tabs -> SUBSET Guards] /\ listed \in [Tabs -> SUBSET Guards]
      /\ guard \in [Tabs -> Guards] /\ shown \in [Tabs -> Guards] /\ acts \in 0..MaxActs
  BY ConsoleAssumption DEF Shapes, TypeOK
<1>2. ASSUME NEW g \in Guards, BeginAdd(t, g)
      PROVE  /\ adding' \in [Tabs -> SUBSET Guards] /\ acts' \in 0..MaxActs /\ t \in Hands
             /\ \A u \in Tabs \ {t} : adding'[u] = adding[u]
             /\ UNCHANGED <<saved, renderVars, net, undo, choice>>
  <2>1. /\ acts < MaxActs /\ acts' = acts + 1 /\ t \in Hands
        /\ adding' = [adding EXCEPT ![t] = adding[t] \cup {g}]
        /\ UNCHANGED <<saved, renderVars, net, undo, choice>>
    BY <1>2 DEF BeginAdd, Acts
  <2> QED BY <1>1, <2>1
<1>3. ASSUME NEW g \in Guards, RefuseAdd(t, g)
      PROVE  /\ adding' \in [Tabs -> SUBSET Guards] /\ adding[t] # {}
             /\ \A u \in Tabs \ {t} : adding'[u] = adding[u]
             /\ UNCHANGED <<saved, renderVars, net, undo, choice, acts>>
  <2>1. /\ g \in adding[t] /\ adding' = [adding EXCEPT ![t] = adding[t] \ {g}]
        /\ UNCHANGED <<saved, renderVars, net, undo, choice, acts>>
    BY <1>3 DEF RefuseAdd
  <2> QED BY <1>1, <2>1
<1>4. ASSUME RestoreFails(t)
      PROVE  /\ undo' \in [Tabs -> Backup \cup {None}] /\ acts' \in 0..MaxActs /\ undo'[t] = None
             /\ \A u \in Tabs \ {t} : undo'[u] = undo[u]
             /\ UNCHANGED <<saved, renderVars, net, adding, choice>>
  <2>1. /\ acts < MaxActs /\ acts' = acts + 1
        /\ undo' = [undo EXCEPT ![t] = None]
        /\ UNCHANGED <<saved, renderVars, net, adding, choice>>
    BY <1>4 DEF RestoreFails, Acts
  <2> QED BY <1>1, <2>1
<1>5. ASSUME Commit(t)
      PROVE  /\ listed' \in [Tabs -> SUBSET Guards] /\ shown' \in [Tabs -> Guards]
             /\ UNCHANGED <<saved, list, guard, net, adding, undo, choice, acts>>
  BY <1>1, <1>5 DEF Commit
<1>6. CASE \E g \in Guards : BeginAdd(t, g)
  BY <1>1, <1>2, <1>6 DEF Shapes, TypeOK, renderVars
<1>7. CASE \E g \in Guards : RefuseAdd(t, g)
  BY <1>1, <1>3, <1>7 DEF Shapes, TypeOK, renderVars
<1>8. CASE RestoreFails(t)
  BY <1>1, <1>4, <1>8 DEF Shapes, TypeOK, renderVars
<1>9. CASE Commit(t)
  BY <1>1, <1>5, <1>9 DEF Shapes, TypeOK
<1> QED BY <1>6, <1>7, <1>8, <1>9

LEMMA InitShape ==
  ASSUME Init
  PROVE  Shapes
<1>1. /\ Known \in Seq(Guards) /\ Known # <<>> /\ Known[1] \in Guards /\ MaxActs \in Nat
      /\ Range(Known) \subseteq Guards
  <2>1. Known \in Seq(Guards) /\ Known # <<>> /\ MaxActs \in Nat
    BY ConsoleAssumption
  <2> QED BY <2>1 DEF Range
<1>2. saved = <<>> /\ IsInjective(saved) /\ saved \in Seq(Guards)
  BY DEF Init, IsInjective
<1>3. TypeOK
  BY <1>1, <1>2 DEF Init, TypeOK
<1>4. \A t \in Tabs : undo[t] = None
  BY DEF Init
<1> QED BY <1>3, <1>4 DEF Shapes

LEMMA ShapesStep ==
  ASSUME Shapes, [Next]_vars
  PROVE  Shapes'
<1>1. CASE UNCHANGED vars
  BY <1>1 DEF Shapes, TypeOK, vars, renderVars
<1>2. ASSUME NEW t \in Tabs, NEW g \in Guards, Select(t, g)
      PROVE  Shapes'
  BY <1>2, SelectShape
<1>3. ASSUME NEW t \in Tabs, NEW g \in Guards, EndAdd(t, g)
      PROVE  Shapes'
  BY <1>3, EndAddShape
<1>4. ASSUME NEW t \in Tabs, NEW g \in Guards, Rename(t, g)
      PROVE  Shapes'
  BY <1>4, RenameShape
<1>5. ASSUME NEW t \in Tabs, NEW g \in Guards, RemoveGuard(t, g)
      PROVE  Shapes'
  BY <1>5, RemoveGuardShape
<1>6. ASSUME NEW t \in Tabs, NEW g \in Guards, NEW followed \in BOOLEAN, Open(t, g, followed)
      PROVE  Shapes'
  BY <1>6, OpenShape
<1>7. ASSUME NEW t \in Tabs, NEW gs \in SUBSET Guards, Cleanup(t, gs)
      PROVE  Shapes'
  BY <1>7, CleanupShape
<1>8. ASSUME NEW t \in Tabs, Restore(t)
      PROVE  Shapes'
  BY <1>8, RestoreShape
<1>9. ASSUME NEW t \in Tabs, NEW s \in Tabs, Receive(t, s)
      PROVE  Shapes'
  BY <1>9, ReceiveShape
<1>10. ASSUME NEW t \in Tabs,
              (\E g \in Guards : BeginAdd(t, g) \/ RefuseAdd(t, g)) \/ RestoreFails(t) \/ Commit(t)
       PROVE  Shapes'
  BY <1>10, SilentShape
<1> QED BY <1>1, <1>2, <1>3, <1>4, <1>5, <1>6, <1>7, <1>8, <1>9, <1>10, Zenon DEF Next

(* Whatever operators do in however many tabs, the list of saved guards    *)
(* holds no guard twice and a backup is a registry that once was.          *)
THEOREM ConsoleTypes == Spec => []TypeOK
<1>1. Init => Shapes
  BY InitShape
<1>2. Shapes /\ [Next]_vars => Shapes'
  BY ShapesStep
<1>3. Shapes => TypeOK
  BY DEF Shapes
<1> QED BY <1>1, <1>2, <1>3, PTL DEF Spec

-----------------------------------------------------------------------------
(* The tabs follow one operator.                                           *)

\* The messages t has to handle once msgs have been added to them.
LEMMA ConcatFacts ==
  ASSUME NEW q \in Seq(Message), NEW msgs \in Seq(Message)
  PROVE  /\ Len(q) \in Nat /\ DOMAIN q = 1..Len(q) /\ DOMAIN msgs = 1..Len(msgs) /\ Len(msgs) \in Nat
         /\ DOMAIN (q \o msgs) = 1..(Len(q) + Len(msgs)) /\ Len(q \o msgs) = Len(q) + Len(msgs)
         /\ \A i \in DOMAIN q : i \in DOMAIN (q \o msgs) /\ (q \o msgs)[i] = q[i]
         /\ \A i \in DOMAIN msgs : /\ Len(q) + i \in DOMAIN (q \o msgs)
                                   /\ (q \o msgs)[Len(q) + i] = msgs[i]
         /\ \A i \in DOMAIN (q \o msgs) :
              \/ i \in DOMAIN q /\ (q \o msgs)[i] = q[i]
              \/ /\ i - Len(q) \in DOMAIN msgs /\ Len(q) < i
                 /\ (q \o msgs)[i] = msgs[i - Len(q)]
<1> DEFINE r == q \o msgs
<1>1. /\ r \in Seq(Message) /\ Len(r) = Len(q) + Len(msgs) /\ Len(q) \in Nat /\ Len(msgs) \in Nat
      /\ \A i \in 1..(Len(q) + Len(msgs)) : r[i] = IF i <= Len(q) THEN q[i] ELSE msgs[i - Len(q)]
      /\ DOMAIN q = 1..Len(q) /\ DOMAIN msgs = 1..Len(msgs)
  BY ConcatProperties
<1> HIDE DEF r
<1>2. DOMAIN r = 1..(Len(q) + Len(msgs))
  BY <1>1
<1> QED BY <1>1, <1>2 DEF r

\* What the operator's tab says keeps the others on the way, if it says what it
\* changed and asks for nothing that is not there.
LEMMA ToldRight ==
  ASSUME IInv, Shapes', NEW h \in Tabs, Hands = {h}, NEW msgs \in Seq(Message), Broadcast(h, msgs),
         \A u \in Tabs \ {h} : /\ list'[u] = list[u] /\ guard'[u] = guard[u]
                               /\ undo'[u] = undo[u] /\ adding'[u] = adding[u],
         Loaded(saved') \subseteq Loaded(saved)
           \/ \E j \in DOMAIN msgs : msgs[j].type # "GUARD_CHANGED",
         \A x \in Loaded(saved) \ Loaded(saved') : \E j \in DOMAIN msgs : msgs[j] = Change("remove", x),
         \A i \in DOMAIN msgs, x \in Guards : msgs[i] = Selection(x) => x \in Fit',
         choice' # None =>
           \/ /\ choice' = choice
              /\ \A j \in DOMAIN msgs : msgs[j].type # "GUARD_CHANGED" /\ msgs[j] # Change("remove", choice)
           \/ msgs # <<>> /\ msgs[Len(msgs)] = Selection(choice')
  PROVE  Quiet' /\ Hears' /\ Leaves' /\ Follows'
<1>1. /\ net \in [Tabs -> [Tabs -> Seq(Message)]] /\ net' \in [Tabs -> [Tabs -> Seq(Message)]]
      /\ \A s \in Tabs \ {h} : net'[s] = net[s]
      /\ net'[h][h] = net[h][h]
      /\ \A u \in Tabs \ {h} : net'[h][u] = net[h][u] \o msgs
  BY BroadcastShape DEF IInv, Shapes, TypeOK
<1>2. Quiet'
  <2>1. /\ \A s, t \in Tabs : s \notin Hands \/ t = s => net[s][t] = <<>>
        /\ \A t \in Tabs \ Hands : adding[t] = {} /\ undo[t] = None
    BY DEF IInv, Quiet
  <2>2. ASSUME NEW s \in Tabs, NEW t \in Tabs, s \notin Hands \/ t = s
        PROVE  net'[s][t] = <<>>
    <3>1. CASE s = h
      BY <1>1, <2>1, <2>2, <3>1
    <3>2. CASE s # h
      BY <1>1, <2>1, <2>2, <3>2
    <3> QED BY <3>1, <3>2
  <2>3. \A t \in Tabs \ Hands : adding'[t] = {} /\ undo'[t] = None
    BY <2>1
  <2> QED BY <2>2, <2>3 DEF Quiet
<1>3. ASSUME NEW t \in Tabs \ {h}
      PROVE  /\ net[h][t] \in Seq(Message) /\ net'[h][t] = net[h][t] \o msgs
             /\ (\A j \in DOMAIN net'[h][t] : net'[h][t][j].type = "GUARD_CHANGED") => Loaded(saved') \subseteq list'[t]
  <2> DEFINE q == net[h][t]
             r == net'[h][t]
  <2>1. q \in Seq(Message) /\ r = q \o msgs
    BY <1>1
  <2>2. (\A j \in DOMAIN q : q[j].type = "GUARD_CHANGED") => Loaded(saved) \subseteq list[t]
    BY DEF IInv, Hears
  <2> HIDE DEF q, r
  <2>3. /\ \A i \in DOMAIN q : i \in DOMAIN r /\ r[i] = q[i]
        /\ \A i \in DOMAIN msgs : Len(q) + i \in DOMAIN r /\ r[Len(q) + i] = msgs[i]
    BY <2>1, ConcatFacts
  <2>4. (\A j \in DOMAIN r : r[j].type = "GUARD_CHANGED") => Loaded(saved') \subseteq list'[t]
    BY <2>2, <2>3
  <2> QED BY <2>1, <2>4 DEF q, r
<1>4. Hears'
  BY <1>3 DEF Hears
<1>5. ASSUME NEW t \in Tabs \ {h}, NEW x \in Guards, x \notin Fit'
      PROVE  /\ x \in list'[t] \/ guard'[t] = x =>
                  \E j \in DOMAIN net'[h][t] : net'[h][t][j] = Change("remove", x)
             /\ \A i \in DOMAIN net'[h][t] : net'[h][t][i] = Selection(x) =>
                  \E j \in DOMAIN net'[h][t] : i < j /\ net'[h][t][j] = Change("remove", x)
  <2> DEFINE q == net[h][t]
             r == net'[h][t]
  <2>1. q \in Seq(Message) /\ r = q \o msgs
    BY <1>1
  <2>2. x \notin Fit =>
          /\ x \in list[t] \/ guard[t] = x => \E j \in DOMAIN q : q[j] = Change("remove", x)
          /\ \A i \in DOMAIN q : q[i] = Selection(x) =>
               \E j \in DOMAIN q : i < j /\ q[j] = Change("remove", x)
    BY DEF IInv, Leaves
  <2>3. x \in Fit => \E j \in DOMAIN msgs : msgs[j] = Change("remove", x)
    BY <1>5 DEF Fit
  <2>4. \A i \in DOMAIN msgs : msgs[i] # Selection(x)
    BY <1>5
  <2>5. list'[t] = list[t] /\ guard'[t] = guard[t]
    OBVIOUS
  <2> HIDE DEF q, r
  <2>6. /\ Len(q) \in Nat /\ DOMAIN q = 1..Len(q) /\ DOMAIN msgs = 1..Len(msgs) /\ Len(msgs) \in Nat
        /\ \A i \in DOMAIN q : i \in DOMAIN r /\ r[i] = q[i]
        /\ \A i \in DOMAIN msgs : Len(q) + i \in DOMAIN r /\ r[Len(q) + i] = msgs[i]
        /\ \A i \in DOMAIN r : \/ i \in DOMAIN q /\ r[i] = q[i]
                               \/ i - Len(q) \in DOMAIN msgs /\ r[i] = msgs[i - Len(q)]
    BY <2>1, ConcatFacts, SMTT(30)
  <2>7. x \in list'[t] \/ guard'[t] = x => \E j \in DOMAIN r : r[j] = Change("remove", x)
    BY <2>2, <2>3, <2>5, <2>6
  <2>8. ASSUME NEW i \in DOMAIN r, r[i] = Selection(x)
        PROVE  \E j \in DOMAIN r : i < j /\ r[j] = Change("remove", x)
    <3>1. i \in DOMAIN q /\ q[i] = Selection(x)
      BY <2>4, <2>6, <2>8
    <3>2. CASE x \notin Fit
      BY <2>2, <2>6, <3>1, <3>2
    <3>3. CASE x \in Fit
      <4>1. PICK j \in DOMAIN msgs : msgs[j] = Change("remove", x)
        BY <2>3, <3>3
      <4>2. i < Len(q) + j
        BY <2>6, <3>1
      <4> QED BY <2>6, <4>1, <4>2
    <3> QED BY <3>2, <3>3
  <2> QED BY <2>7, <2>8 DEF q, r
<1>6. Leaves'
  BY <1>5 DEF Leaves
<1>7. ASSUME NEW t \in Tabs \ {h}, choice' # None
      PROVE  (\E i \in 0..Len(net[h][t]) : Lands(t, net[h][t], i))'
  <2> DEFINE q == net[h][t]
             r == net'[h][t]
  <2>1. q \in Seq(Message) /\ r = q \o msgs
    BY <1>1
  <2>2. choice # None => \E i \in 0..Len(q) : Lands(t, q, i)
    BY DEF IInv, Follows
  <2>3. guard'[t] = guard[t]
    OBVIOUS
  <2>9. SUFFICES \E i \in 0..Len(r) :
                   /\ IF i = 0 THEN guard'[t] = choice' ELSE r[i] = Selection(choice')
                   /\ \A j \in DOMAIN r : i < j => r[j].type # "GUARD_CHANGED" /\ r[j] # Change("remove", choice')
    BY DEF Lands, Harmless
  <2> HIDE DEF q, r
  <2>4. /\ Len(q) \in Nat /\ DOMAIN q = 1..Len(q) /\ DOMAIN msgs = 1..Len(msgs) /\ Len(msgs) \in Nat
        /\ DOMAIN r = 1..(Len(q) + Len(msgs)) /\ Len(r) = Len(q) + Len(msgs)
        /\ \A i \in DOMAIN q : i \in DOMAIN r /\ r[i] = q[i]
        /\ \A i \in DOMAIN msgs : Len(q) + i \in DOMAIN r /\ r[Len(q) + i] = msgs[i]
        /\ \A i \in DOMAIN r : \/ i \in DOMAIN q /\ r[i] = q[i]
                               \/ i - Len(q) \in DOMAIN msgs /\ r[i] = msgs[i - Len(q)]
    BY <2>1, ConcatFacts
  <2>5. CASE /\ choice' = choice
             /\ \A j \in DOMAIN msgs : msgs[j].type # "GUARD_CHANGED" /\ msgs[j] # Change("remove", choice)
    <3>1. PICK i \in 0..Len(q) : Lands(t, q, i)
      BY <1>7, <2>2, <2>5
    <3>2. /\ IF i = 0 THEN guard[t] = choice ELSE q[i] = Selection(choice)
          /\ \A j \in DOMAIN q : i < j => q[j].type # "GUARD_CHANGED" /\ q[j] # Change("remove", choice)
      BY <3>1 DEF Lands, Harmless
    <3>3. IF i = 0 THEN guard'[t] = choice' ELSE r[i] = Selection(choice')
      BY <2>3, <2>4, <2>5, <3>2
    <3>4. \A j \in DOMAIN r : i < j => r[j].type # "GUARD_CHANGED" /\ r[j] # Change("remove", choice')
      BY <2>4, <2>5, <3>2
    <3> QED BY <2>4, <3>3, <3>4
  <2>6. CASE msgs # <<>> /\ msgs[Len(msgs)] = Selection(choice')
    <3>1. Len(msgs) \in DOMAIN msgs /\ Len(msgs) > 0
      BY <2>4, <2>6
    <3>2. /\ Len(r) \in 0..Len(r) /\ Len(r) # 0 /\ r[Len(r)] = Selection(choice')
          /\ \A j \in DOMAIN r : ~(Len(r) < j)
      BY <2>4, <2>6, <3>1
    <3> QED BY <3>2
  <2> QED BY <1>7, <2>5, <2>6
<1>8. Follows'
  BY <1>7 DEF Follows
<1> QED BY <1>2, <1>4, <1>6, <1>8

LEMMA OneMessage ==
  ASSUME NEW m \in Message
  PROVE  /\ <<m>> \in Seq(Message) /\ <<m>> # <<>> /\ Len(<<m>>) = 1
         /\ DOMAIN <<m>> = {1} /\ <<m>>[1] = m
  OBVIOUS

\* Who acts is the operator, and sees what was last asked for.
LEMMA OperatorActs ==
  ASSUME IInv, OneOperator, NEW t \in Tabs, Acts(t)
  PROVE  /\ Hands = {t} /\ listed[t] = list[t] /\ shown[t] = guard[t]
         /\ Loaded(saved) \subseteq list[t] /\ list[t] \subseteq Fit
         /\ IsFiniteSet(list[t]) /\ guard[t] \in Fit
         /\ choice # None => guard[t] = choice
         /\ undo[t] # None => list[t] = Loaded(saved)
<1>1. Hands = {t} /\ Rendered(t)
  BY DEF Acts, OneOperator
<1> QED BY <1>1 DEF Rendered, IInv, Knows

LEMMA SelectStep ==
  ASSUME IInv, OneOperator, NEW t \in Tabs, NEW g \in Guards, Select(t, g)
  PROVE  IInv'
<1>1. /\ Acts(t) /\ g \in listed[t] /\ Broadcast(t, <<Selection(g)>>)
      /\ undo' = undo /\ adding' = adding
  BY DEF Select
<1>2. /\ Hands = {t} /\ listed[t] = list[t]
      /\ Loaded(saved) \subseteq list[t] /\ list[t] \subseteq Fit /\ IsFiniteSet(list[t])
      /\ undo[t] # None => list[t] = Loaded(saved)
  BY <1>1, OperatorActs
<1>3. /\ Shapes' /\ saved' = saved /\ choice' = g
      /\ list'[t] = list[t] /\ guard'[t] = g
      /\ \A u \in Tabs \ {t} : list'[u] = list[u] /\ guard'[u] = guard[u]
  BY SelectShape DEF IInv
<1>4. Loaded(saved') = Loaded(saved) /\ Fit' = Fit /\ g \in Fit
  BY <1>1, <1>2, <1>3 DEF Fit
<1>5. Knows'
  BY <1>1, <1>2, <1>3, <1>4 DEF Knows
<1> DEFINE msgs == <<Selection(g)>>
<1>6. /\ msgs \in Seq(Message) /\ msgs # <<>> /\ Len(msgs) = 1 /\ DOMAIN msgs = {1}
      /\ msgs[1] = Selection(g)
  BY OneMessage, MessageFacts
<1>7. Broadcast(t, msgs)
  BY <1>1
<1> HIDE DEF msgs
<1>8. \A i \in DOMAIN msgs, x \in Guards : msgs[i] = Selection(x) => x \in Fit'
  BY <1>4, <1>6, MessageFacts
<1>9. Quiet' /\ Hears' /\ Leaves' /\ Follows'
  BY <1>1, <1>2, <1>3, <1>4, <1>6, <1>7, <1>8, ToldRight
<1> QED BY <1>3, <1>5, <1>9 DEF IInv

LEMMA EndAddStep ==
  ASSUME IInv, OneOperator, NEW t \in Tabs, NEW g \in Guards, EndAdd(t, g)
  PROVE  IInv'
<1>1. Hands = {t}
  <2>1. g \in adding[t]
    BY DEF EndAdd
  <2>2. t \in Hands
    BY <2>1 DEF IInv, Quiet
  <2> QED BY <2>2 DEF OneOperator
<1>2. /\ Shapes' /\ undo' = undo /\ saved' \in {saved, Remembered(g)}
      /\ \A u \in Tabs \ {t} : /\ list'[u] = list[u] /\ guard'[u] = guard[u]
                               /\ adding'[u] = adding[u]
      /\ IF g \in Loaded(saved')
           THEN /\ list'[t] = Loaded(saved') /\ guard'[t] = g /\ choice' = g
                /\ Broadcast(t, <<Change("add", g), Selection(g)>>)
           ELSE UNCHANGED <<saved, list, guard, net, choice>>
  BY EndAddShape DEF IInv
<1>3. CASE g \notin Loaded(saved')
  <2>1. UNCHANGED <<saved, list, guard, net, choice, undo>>
    BY <1>2, <1>3
  <2>2. Loaded(saved') = Loaded(saved) /\ Fit' = Fit
    BY <2>1 DEF Fit
  <2>3. \A u \in Tabs \ Hands : adding'[u] = adding[u]
    BY <1>1, <1>2
  <2>4. Quiet' /\ Knows'
    BY <2>1, <2>2, <2>3 DEF IInv, Quiet, Knows
  <2>5. Hears' /\ Leaves'
    BY <2>1, <2>2 DEF IInv, Hears, Leaves
  <2>6. Follows'
    BY <2>1 DEF IInv, Follows, Lands, Harmless
  <2> QED BY <1>2, <2>4, <2>5, <2>6 DEF IInv
<1>4. CASE g \in Loaded(saved')
  <2>1. PICK s2 : s2 = saved'
    OBVIOUS
  <2>2. IsFiniteSet(Loaded(s2)) /\ Loaded(saved) \subseteq Loaded(s2)
    <3>1. saved \in Seq(Guards) /\ IsInjective(saved)
      BY DEF IInv, Shapes, TypeOK
    <3>2. Remembered(g) \in Seq(Guards) /\ Loaded(Remembered(g)) = Loaded(saved) \cup {g}
      BY <3>1, RememberedRight
    <3>3. s2 \in Seq(Guards) /\ Loaded(saved) \subseteq Loaded(s2)
      BY <1>2, <2>1, <3>1, <3>2
    <3> QED BY <3>3, LoadedFacts
  <2>3. IsFiniteSet(Loaded(saved')) /\ Loaded(saved) \subseteq Loaded(saved')
    BY <2>1, <2>2
  <2>4. /\ list'[t] = Loaded(saved') /\ guard'[t] = g /\ choice' = g
        /\ Broadcast(t, <<Change("add", g), Selection(g)>>)
    BY <1>2, <1>4
  <2>5. Knows'
    BY <1>1, <1>4, <2>3, <2>4 DEF Knows, Fit
  <2> DEFINE msgs == <<Change("add", g), Selection(g)>>
  <2>6. /\ msgs \in Seq(Message) /\ msgs # <<>> /\ Len(msgs) = 2 /\ DOMAIN msgs = {1, 2}
        /\ msgs[1] = Change("add", g) /\ msgs[2] = Selection(g)
    BY MessageFacts
  <2>7. Broadcast(t, msgs)
    BY <2>4
  <2> HIDE DEF msgs
  <2>8. \A i \in DOMAIN msgs, x \in Guards : msgs[i] = Selection(x) => x \in Fit'
    BY <1>4, <2>6, MessageFacts DEF Fit
  <2>9. \E j \in DOMAIN msgs : msgs[j].type # "GUARD_CHANGED"
    BY <2>6, MessageFacts
  <2>10. Quiet' /\ Hears' /\ Leaves' /\ Follows'
    BY <1>1, <1>2, <2>3, <2>4, <2>6, <2>7, <2>8, <2>9, ToldRight
  <2> QED BY <1>2, <2>5, <2>10 DEF IInv
<1> QED BY <1>3, <1>4

LEMMA RenameStep ==
  ASSUME IInv, OneOperator, NEW t \in Tabs, NEW g \in Guards, Rename(t, g)
  PROVE  IInv'
<1>1. /\ Acts(t) /\ Broadcast(t, <<Change("rename", g)>>)
      /\ undo' = undo /\ adding' = adding /\ choice' = choice
  BY DEF Rename
<1>2. /\ Hands = {t} /\ guard[t] \in Fit
      /\ choice # None => guard[t] = choice
  BY <1>1, OperatorActs
<1>3. /\ Shapes' /\ Loaded(saved) = Loaded(saved')
      /\ list'[t] = Loaded(saved') /\ guard'[t] = guard[t]
      /\ \A u \in Tabs \ {t} : list'[u] = list[u] /\ guard'[u] = guard[u]
  BY RenameShape DEF IInv
<1>4. Fit' = Fit
  BY <1>3 DEF Fit
<1>5. Loaded(saved) = Loaded(saved') /\ IsFiniteSet(Loaded(saved))
  BY <1>3, LoadedFacts DEF IInv, Shapes, TypeOK
<1>6. Knows'
  BY <1>1, <1>2, <1>3, <1>4, <1>5 DEF Knows, Fit
<1> DEFINE msgs == <<Change("rename", g)>>
<1>7. /\ msgs \in Seq(Message) /\ DOMAIN msgs = {1} /\ msgs[1] = Change("rename", g)
  BY OneMessage, MessageFacts
<1>8. Broadcast(t, msgs)
  BY <1>1
<1> HIDE DEF msgs
<1>9. /\ \A i \in DOMAIN msgs, x \in Guards : msgs[i] = Selection(x) => x \in Fit'
      /\ \A j \in DOMAIN msgs : msgs[j].type # "GUARD_CHANGED" /\ msgs[j] # Change("remove", choice)
  BY <1>7, MessageFacts
<1>10. Quiet' /\ Hears' /\ Leaves' /\ Follows'
  BY <1>1, <1>2, <1>3, <1>5, <1>7, <1>8, <1>9, ToldRight
<1> QED BY <1>3, <1>6, <1>10 DEF IInv

LEMMA RemovalStep ==
  ASSUME IInv, OneOperator, NEW t \in Tabs, NEW announced \in Seq(Message), NEW gone,
         Acts(t), AfterRemoval(t, announced, gone), Shapes', adding' = adding,
         \A u \in Tabs \ {t} : undo'[u] = undo[u],
         Loaded(saved') \subseteq Loaded(saved),
         Loaded(saved) \ Loaded(saved') \subseteq gone,
         \A x \in Loaded(saved) \ Loaded(saved') :
           \E j \in DOMAIN announced : announced[j] = Change("remove", x),
         \A j \in DOMAIN announced : \E x \in gone : announced[j] = Change("remove", x)
  PROVE  IInv'
<1>1. /\ Hands = {t} /\ shown[t] = guard[t] /\ guard[t] \in Fit
      /\ choice # None => guard[t] = choice
  BY OperatorActs
<1>2. TypeOK /\ saved' \in Seq(Guards) /\ choice \in Guards \cup {None} /\ None \notin Guards
  BY ConsoleAssumption DEF IInv, Shapes, TypeOK
<1> DEFINE msgs == RemovalSays(t, announced, gone)
<1>3. /\ list'[t] = Loaded(saved')
      /\ guard'[t] = IF shown[t] \in gone THEN First(saved') ELSE guard[t]
      /\ choice' = IF shown[t] \in gone THEN First(saved') ELSE choice
      /\ \A u \in Tabs \ {t} : list'[u] = list[u] /\ guard'[u] = guard[u]
      /\ msgs \in Seq(Message)
      /\ Broadcast(t, msgs)
  BY <1>2, RemovalShape
<1>4. IsFiniteSet(Loaded(saved')) /\ First(saved') \in Loaded(saved')
  <2>1. PICK s2 : s2 = saved'
    OBVIOUS
  <2>2. IsFiniteSet(Loaded(s2)) /\ First(s2) \in Loaded(s2)
    BY <1>2, <2>1, LoadedFacts
  <2> QED BY <2>1, <2>2
<1>5. Knows'
  <2>1. guard'[t] \in Fit'
    BY <1>1, <1>3, <1>4 DEF Fit
  <2>2. choice' # None => guard'[t] = choice'
    BY <1>1, <1>3
  <2> QED BY <1>1, <1>3, <1>4, <2>1, <2>2 DEF Knows, Fit
<1> DEFINE moved == IF shown[t] \in gone THEN <<Selection(First(saved'))>> ELSE <<>>
<1>6. msgs = announced \o moved
  BY DEF RemovalSays
<1>7. moved \in Seq(Message)
  <2>1. First(saved') \in Guards
    BY <1>2, <1>4, LoadedFacts
  <2> QED BY <2>1, OneMessage, MessageFacts
<1>8. /\ \A i \in DOMAIN moved : moved[i] = Selection(First(saved'))
      /\ shown[t] \in gone => DOMAIN moved = {1} /\ Len(moved) = 1
      /\ shown[t] \notin gone => DOMAIN moved = {} /\ Len(moved) = 0
  OBVIOUS
<1> HIDE DEF msgs, moved
<1>9. /\ Len(announced) \in Nat
      /\ \A i \in DOMAIN announced : i \in DOMAIN msgs /\ msgs[i] = announced[i]
      /\ \A i \in DOMAIN moved : /\ Len(announced) + i \in DOMAIN msgs
                                 /\ msgs[Len(announced) + i] = moved[i]
      /\ \A i \in DOMAIN msgs : \/ i \in DOMAIN announced /\ msgs[i] = announced[i]
                                \/ /\ i - Len(announced) \in DOMAIN moved
                                   /\ msgs[i] = moved[i - Len(announced)]
      /\ Len(msgs) = Len(announced) + Len(moved)
  BY <1>6, <1>7, ConcatFacts
<1>10. \A x \in Loaded(saved) \ Loaded(saved') : \E j \in DOMAIN msgs : msgs[j] = Change("remove", x)
  BY <1>9
<1>11. ASSUME NEW i \in DOMAIN msgs, NEW x \in Guards, msgs[i] = Selection(x)
       PROVE  x \in Fit'
  <2>1. i - Len(announced) \in DOMAIN moved /\ msgs[i] = moved[i - Len(announced)]
    <3>1. ~(i \in DOMAIN announced /\ msgs[i] = announced[i])
      BY <1>11, MessageFacts
    <3> QED BY <1>9, <3>1
  <2>2. Selection(x) = Selection(First(saved'))
    BY <1>8, <1>11, <2>1
  <2>3. x = First(saved')
    BY <2>2, MessageFacts
  <2> QED BY <1>4, <2>3 DEF Fit
<1>12. ASSUME choice' # None
       PROVE  \/ /\ choice' = choice
                 /\ \A j \in DOMAIN msgs : msgs[j].type # "GUARD_CHANGED" /\ msgs[j] # Change("remove", choice)
              \/ msgs # <<>> /\ msgs[Len(msgs)] = Selection(choice')
  <2>1. CASE shown[t] \in gone
    <3>1. Len(announced) + 1 \in DOMAIN msgs /\ msgs[Len(announced) + 1] = Selection(First(saved'))
      BY <1>8, <1>9, <2>1
    <3>2. Len(msgs) = Len(announced) + 1 /\ choice' = First(saved')
      BY <1>3, <1>8, <1>9, <2>1
    <3>3. msgs # <<>>
      BY <3>1
    <3> QED BY <3>1, <3>2, <3>3
  <2>2. CASE shown[t] \notin gone
    <3>1. choice' = choice /\ choice \notin gone
      BY <1>1, <1>3, <1>12, <2>2
    <3>2. ASSUME NEW j \in DOMAIN msgs
          PROVE  msgs[j].type # "GUARD_CHANGED" /\ msgs[j] # Change("remove", choice)
      <4>1. j \in DOMAIN announced /\ msgs[j] = announced[j]
        BY <1>8, <1>9, <2>2
      <4>2. PICK x \in gone : announced[j] = Change("remove", x)
        BY <4>1
      <4> QED BY <3>1, <4>1, <4>2, MessageFacts
    <3> QED BY <3>1, <3>2
  <2> QED BY <2>1, <2>2
<1>13. Quiet' /\ Hears' /\ Leaves' /\ Follows'
  BY <1>1, <1>3, <1>10, <1>11, <1>12, ToldRight
<1> QED BY <1>5, <1>13 DEF IInv

\* A list gets shorter by the removal of a saved guard, so that it is announced.
LEMMA RemoveGuardStep ==
  ASSUME IInv, OneOperator, NEW t \in Tabs, NEW g \in Guards, RemoveGuard(t, g)
  PROVE  IInv'
<1>1. /\ Shapes' /\ undo' = undo /\ saved' \in {saved, Without(saved, {g})}
      /\ g \in listed[t] \ Range(Known)
  BY RemoveGuardShape DEF IInv
<1>2. PICK announced \in Seq(Message) :
        /\ announced = IF Cardinality(Loaded(saved')) < Cardinality(listed[t])
                         THEN <<Change("remove", g)>> ELSE <<>>
        /\ AfterRemoval(t, announced, {g})
  BY RemoveGuardShape DEF IInv
<1>3. Acts(t) /\ adding' = adding
  BY DEF RemoveGuard
<1>4. /\ listed[t] = list[t] /\ Loaded(saved) \subseteq list[t] /\ IsFiniteSet(list[t])
  BY <1>3, OperatorActs
<1>5. PICK s2 : s2 = saved'
  OBVIOUS
<1>6. saved \in Seq(Guards) /\ s2 \in Seq(Guards)
  <2>1. saved \in Seq(Guards)
    BY DEF IInv, Shapes, TypeOK
  <2> QED BY <1>1, <1>5, <2>1, WithoutRight
<1>7. Loaded(s2) \subseteq Loaded(saved) /\ Loaded(saved) \ Loaded(s2) \subseteq {g}
  <2>1. Range(Without(saved, {g})) = Range(saved) \ {g}
    BY <1>6, WithoutRight
  <2> QED BY <1>1, <1>5, <2>1 DEF Loaded
<1>8. ASSUME NEW x \in Loaded(saved) \ Loaded(s2)
      PROVE  \E j \in DOMAIN announced : announced[j] = Change("remove", x)
  <2>1. x = g /\ g \in list[t] /\ g \notin Loaded(s2)
    BY <1>1, <1>4, <1>7, <1>8
  <2>2. Loaded(s2) \in SUBSET list[t] /\ Loaded(s2) # list[t]
    BY <1>4, <1>7, <2>1
  <2>3. Cardinality(Loaded(s2)) < Cardinality(list[t])
    <3>1. /\ IsFiniteSet(Loaded(s2)) /\ Cardinality(Loaded(s2)) <= Cardinality(list[t])
          /\ Cardinality(Loaded(s2)) # Cardinality(list[t])
      BY <1>4, <2>2, FS_Subset
    <3>2. Cardinality(Loaded(s2)) \in Nat /\ Cardinality(list[t]) \in Nat
      BY <1>4, <3>1, FS_CardinalityType
    <3> QED BY <3>1, <3>2
  <2>4. announced = <<Change("remove", g)>>
    BY <1>2, <1>4, <1>5, <2>3
  <2> QED BY <2>1, <2>4
<1>9. \A j \in DOMAIN announced : \E x \in {g} : announced[j] = Change("remove", x)
  BY <1>2
<1>10. /\ Loaded(saved') \subseteq Loaded(saved) /\ Loaded(saved) \ Loaded(saved') \subseteq {g}
       /\ \A x \in Loaded(saved) \ Loaded(saved') :
            \E j \in DOMAIN announced : announced[j] = Change("remove", x)
  BY <1>5, <1>7, <1>8
<1> DEFINE gone == {g}
<1>11. /\ AfterRemoval(t, announced, gone) /\ \A u \in Tabs \ {t} : undo'[u] = undo[u]
       /\ Loaded(saved) \ Loaded(saved') \subseteq gone
       /\ \A j \in DOMAIN announced : \E x \in gone : announced[j] = Change("remove", x)
  BY <1>1, <1>2, <1>9, <1>10
<1> HIDE DEF gone
<1> QED BY <1>1, <1>3, <1>10, <1>11, RemovalStep

LEMMA CleanupStep ==
  ASSUME IInv, OneOperator, NEW t \in Tabs, NEW gs \in SUBSET Guards, Cleanup(t, gs)
  PROVE  IInv'
<1>1. Shapes' /\ saved' = Without(saved, gs) /\ gs \cap Range(Known) = {}
  BY CleanupShape DEF IInv
<1>2. PICK gone \in Seq(Guards), announced \in Seq(Message) :
        /\ Range(gone) = Range(saved) \cap gs
        /\ DOMAIN announced = DOMAIN gone
        /\ \A i \in DOMAIN gone : announced[i] = Change("remove", gone[i])
        /\ AfterRemoval(t, announced, Range(gone))
  BY CleanupShape DEF IInv
<1>3. Acts(t) /\ adding' = adding
  BY DEF Cleanup
<1>4. \A u \in Tabs \ {t} : undo'[u] = undo[u]
  BY DEF Cleanup, IInv, Shapes, TypeOK
<1>5. Range(saved') = Range(saved) \ gs
  <2>1. saved \in Seq(Guards)
    BY DEF IInv, Shapes, TypeOK
  <2> QED BY <1>1, <2>1, WithoutRight
<1>6. Loaded(saved') \subseteq Loaded(saved) /\ Loaded(saved) \ Loaded(saved') \subseteq Range(gone)
  BY <1>2, <1>5 DEF Loaded
<1>7. \A x \in Range(gone) : \E j \in DOMAIN announced : announced[j] = Change("remove", x)
  BY <1>2 DEF Range
<1>8. \A j \in DOMAIN announced : \E x \in Range(gone) : announced[j] = Change("remove", x)
  BY <1>2 DEF Range
<1>9. \A x \in Loaded(saved) \ Loaded(saved') :
        \E j \in DOMAIN announced : announced[j] = Change("remove", x)
  BY <1>6, <1>7
<1> QED BY <1>1, <1>2, <1>3, <1>4, <1>6, <1>8, <1>9, RemovalStep

\* What the backup brings back is announced, unless the tab listed it, and what
\* it lists while it holds a backup is saved.
LEMMA RestoreStep ==
  ASSUME IInv, OneOperator, NEW t \in Tabs, Restore(t)
  PROVE  IInv'
<1>1. /\ Shapes' /\ undo[t] \in Backup /\ undo'[t] = None
      /\ \A u \in Tabs \ {t} : undo'[u] = undo[u] /\ list'[u] = list[u] /\ guard'[u] = guard[u]
      /\ Range(saved') = Range(undo[t].entries) \cup Range(saved)
      /\ list'[t] = Loaded(saved')
  BY RestoreShape DEF IInv
<1>2. PICK back \in Seq(Message), told \in Seq(Message), returns \in BOOLEAN :
        /\ \A i \in DOMAIN back : \E x : back[i] = Change("add", x)
        /\ back = <<>> => Range(undo[t].entries) \subseteq listed[t]
        /\ told = IF returns THEN <<Selection(undo[t].active)>> ELSE <<>>
        /\ Broadcast(t, back \o told)
        /\ returns => undo[t].active \in Loaded(saved')
        /\ guard'[t] = IF returns THEN undo[t].active ELSE guard[t]
        /\ choice' = IF returns THEN undo[t].active ELSE choice
  BY RestoreShape DEF IInv
<1>3. Acts(t) /\ adding' = adding
  BY DEF Restore
<1>4. /\ Hands = {t} /\ listed[t] = list[t] /\ guard[t] \in Fit
      /\ choice # None => guard[t] = choice
      /\ list[t] = Loaded(saved)
  <2>1. undo[t] # None
    BY DEF Restore
  <2> QED BY <1>3, <2>1, OperatorActs
<1>5. Loaded(saved) \subseteq Loaded(saved') /\ IsFiniteSet(Loaded(saved'))
  <2>1. PICK s2 : s2 = saved'
    OBVIOUS
  <2>2. s2 \in Seq(Guards)
    BY <1>1, <2>1 DEF Shapes, TypeOK
  <2> QED BY <1>1, <2>1, <2>2, LoadedFacts DEF Loaded
<1>6. back = <<>> => Loaded(saved') \subseteq Loaded(saved)
  BY <1>1, <1>2, <1>4 DEF Loaded
<1>7. Knows'
  <2>1. guard'[t] \in Fit'
    BY <1>2, <1>4, <1>5 DEF Fit
  <2>2. choice' # None => guard'[t] = choice'
    BY <1>2, <1>4
  <2> QED BY <1>1, <1>4, <1>5, <2>1, <2>2 DEF Knows, Fit
<1> DEFINE msgs == back \o told
<1>8. msgs \in Seq(Message) /\ Broadcast(t, msgs)
  BY <1>2, ConcatProperties
<1>9. /\ \A i \in DOMAIN told : told[i] = Selection(undo[t].active)
      /\ returns => DOMAIN told = {1} /\ Len(told) = 1
      /\ ~returns => DOMAIN told = {} /\ Len(told) = 0
  BY <1>2
<1>10. /\ Len(back) \in Nat /\ DOMAIN back = 1..Len(back)
       /\ \A i \in DOMAIN back : i \in DOMAIN msgs /\ msgs[i] = back[i]
       /\ \A i \in DOMAIN told : /\ Len(back) + i \in DOMAIN msgs
                                 /\ msgs[Len(back) + i] = told[i]
       /\ \A i \in DOMAIN msgs : \/ i \in DOMAIN back /\ msgs[i] = back[i]
                                 \/ i - Len(back) \in DOMAIN told /\ msgs[i] = told[i - Len(back)]
       /\ Len(msgs) = Len(back) + Len(told)
  BY ConcatFacts
<1> HIDE DEF msgs
<1>11. Loaded(saved') \subseteq Loaded(saved) \/ \E j \in DOMAIN msgs : msgs[j].type # "GUARD_CHANGED"
  <2>1. CASE back = <<>>
    BY <1>6, <2>1
  <2>2. CASE back # <<>>
    <3>1. 1 \in DOMAIN back
      BY <2>2
    <3>2. PICK x : back[1] = Change("add", x)
      BY <1>2, <3>1
    <3>3. 1 \in DOMAIN msgs /\ msgs[1].type = "add"
      BY <1>10, <3>1, <3>2, MessageFacts
    <3> QED BY <3>3
  <2> QED BY <2>1, <2>2
<1>12. ASSUME NEW i \in DOMAIN msgs, NEW x \in Guards, msgs[i] = Selection(x)
       PROVE  x \in Fit'
  <2>1. ~(i \in DOMAIN back /\ msgs[i] = back[i])
    BY <1>2, <1>12, MessageFacts
  <2>2. i - Len(back) \in DOMAIN told /\ msgs[i] = told[i - Len(back)]
    BY <1>10, <2>1
  <2>3. Selection(x) = Selection(undo[t].active) /\ returns
    BY <1>9, <1>12, <2>2
  <2>4. x = undo[t].active
    BY <2>3, MessageFacts
  <2> QED BY <1>2, <2>3, <2>4 DEF Fit
<1>13. \/ /\ choice' = choice
          /\ \A j \in DOMAIN msgs : msgs[j].type # "GUARD_CHANGED" /\ msgs[j] # Change("remove", choice)
       \/ msgs # <<>> /\ msgs[Len(msgs)] = Selection(choice')
  <2>1. CASE returns
    <3>1. Len(back) + 1 \in DOMAIN msgs /\ msgs[Len(back) + 1] = Selection(undo[t].active)
      BY <1>9, <1>10, <2>1
    <3>2. Len(msgs) = Len(back) + 1 /\ choice' = undo[t].active
      BY <1>2, <1>9, <1>10, <2>1
    <3>3. msgs # <<>>
      BY <3>1
    <3> QED BY <3>1, <3>2, <3>3
  <2>2. CASE ~returns
    <3>1. ASSUME NEW j \in DOMAIN msgs
          PROVE  msgs[j].type # "GUARD_CHANGED" /\ msgs[j] # Change("remove", choice)
      <4>1. j \in DOMAIN back /\ msgs[j] = back[j]
        BY <1>9, <1>10, <2>2
      <4>2. PICK x : back[j] = Change("add", x)
        BY <1>2, <4>1
      <4> QED BY <4>1, <4>2, MessageFacts
    <3> QED BY <1>2, <2>2, <3>1
  <2> QED BY <2>1, <2>2
<1>14. \A u \in Tabs \ {t} : /\ list'[u] = list[u] /\ guard'[u] = guard[u]
                             /\ undo'[u] = undo[u] /\ adding'[u] = adding[u]
  BY <1>1, <1>3
<1>15. \A x \in Loaded(saved) \ Loaded(saved') : \E j \in DOMAIN msgs : msgs[j] = Change("remove", x)
  BY <1>5
<1>16. Quiet' /\ Hears' /\ Leaves' /\ Follows'
  BY <1>1, <1>4, <1>8, <1>11, <1>12, <1>13, <1>14, <1>15, ToldRight
<1> QED BY <1>1, <1>7, <1>16 DEF IInv

LEMMA SilentStep ==
  ASSUME IInv, OneOperator, NEW t \in Tabs,
         \/ \E g \in Guards : BeginAdd(t, g) \/ RefuseAdd(t, g)
         \/ RestoreFails(t)
         \/ Commit(t)
  PROVE  IInv'
<1>1. /\ Shapes' /\ UNCHANGED <<saved, list, guard, net, choice>>
      /\ \A u \in Tabs : undo'[u] = undo[u] \/ (u = t /\ undo'[u] = None)
      /\ \A u \in Tabs : adding'[u] = adding[u] \/ (u = t /\ (t \in Hands \/ adding[t] # {}))
  BY SilentShape DEF IInv
<1>2. Loaded(saved') = Loaded(saved) /\ Fit' = Fit
  BY <1>1 DEF Fit
<1>3. Quiet'
  BY <1>1 DEF IInv, Quiet
<1>4. Knows'
  <2>1. \A h \in Hands : h \in Tabs
    BY ConsoleAssumption
  <2> QED BY <1>1, <1>2, <2>1 DEF IInv, Knows
<1>5. Hears' /\ Leaves'
  BY <1>1, <1>2 DEF IInv, Hears, Leaves
<1>6. Follows'
  BY <1>1 DEF IInv, Follows, Lands, Harmless
<1> QED BY <1>1, <1>3, <1>4, <1>5, <1>6 DEF IInv

LEMMA OpenStep ==
  ASSUME IInv, OneOperator, NEW t \in Tabs, NEW g \in Guards, NEW followed \in BOOLEAN,
         Open(t, g, followed)
  PROVE  IInv'
<1>1. /\ Shapes' /\ saved' = saved /\ choice' = None
      /\ guard'[t] = g /\ g \in Fit /\ IsFiniteSet(list'[t])
      /\ Loaded(saved) \subseteq list'[t] /\ list'[t] \subseteq Fit
      /\ undo'[t] = None /\ adding'[t] = {}
      /\ \A u \in Tabs \ {t} : /\ list'[u] = list[u] /\ guard'[u] = guard[u]
                               /\ undo'[u] = undo[u] /\ adding'[u] = adding[u]
      /\ \A s, u \in Tabs : net'[s][u] = IF u = t THEN <<>> ELSE net[s][u]
  BY OpenShape DEF IInv
<1>2. PICK h \in Tabs : Hands = {h}
  BY DEF OneOperator
<1>3. Fit' = Fit /\ Loaded(saved') = Loaded(saved)
  BY <1>1 DEF Fit
<1>4. Quiet'
  BY <1>1 DEF IInv, Quiet
<1>5. Knows'
  <2>1. CASE h = t
    BY <1>1, <1>2, <1>3, <2>1 DEF Knows
  <2>2. CASE h # t
    BY <1>1, <1>2, <1>3, <2>2 DEF IInv, Knows
  <2> QED BY <2>1, <2>2
<1>6. Hears'
  BY <1>1, <1>2, <1>3 DEF IInv, Hears
<1>7. Leaves'
  <2>1. ASSUME NEW u \in Tabs \ {h}, NEW x \in Guards, x \notin Fit'
        PROVE  /\ x \in list'[u] \/ guard'[u] = x =>
                    \E j \in DOMAIN net'[h][u] : net'[h][u][j] = Change("remove", x)
               /\ \A i \in DOMAIN net'[h][u] : net'[h][u][i] = Selection(x) =>
                    \E j \in DOMAIN net'[h][u] : i < j /\ net'[h][u][j] = Change("remove", x)
    <3>1. CASE u = t
      <4>1. net'[h][u] = <<>> /\ x \notin list'[u] /\ guard'[u] # x
        BY <1>1, <1>3, <2>1, <3>1
      <4>2. DOMAIN net'[h][u] = {}
        BY <4>1
      <4> QED BY <4>1, <4>2
    <3>2. CASE u # t
      <4>1. net'[h][u] = net[h][u] /\ list'[u] = list[u] /\ guard'[u] = guard[u]
        BY <1>1, <3>2
      <4> QED BY <1>2, <1>3, <2>1, <4>1 DEF IInv, Leaves
    <3> QED BY <3>1, <3>2
  <2> QED BY <1>2, <2>1 DEF Leaves
<1>8. Follows'
  BY <1>1 DEF Follows
<1> QED BY <1>1, <1>4, <1>5, <1>6, <1>7, <1>8 DEF IInv

\* The first message and the others.
LEMMA TailFacts ==
  ASSUME NEW q \in Seq(Message), q # <<>>
  PROVE  /\ Len(q) \in Nat /\ Len(q) > 0 /\ DOMAIN q = 1..Len(q) /\ Head(q) = q[1] /\ Head(q) \in Message
         /\ Len(Tail(q)) = Len(q) - 1 /\ DOMAIN Tail(q) = 1..(Len(q) - 1)
         /\ \A i \in DOMAIN Tail(q) : i + 1 \in DOMAIN q /\ Tail(q)[i] = q[i + 1]
         /\ \A i \in DOMAIN q : i = 1 \/ (i - 1 \in DOMAIN Tail(q) /\ Tail(q)[i - 1] = q[i])
<1> DEFINE r == Tail(q)
<1>1. /\ r \in Seq(Message) /\ Len(r) = Len(q) - 1 /\ Head(q) \in Message /\ Head(q) = q[1]
      /\ \A i \in 1..Len(r) : r[i] = q[i + 1]
      /\ Len(q) \in Nat /\ DOMAIN q = 1..Len(q)
  BY HeadTailProperties
<1>2. Len(q) > 0
  BY <1>1
<1> HIDE DEF r
<1>3. DOMAIN r = 1..(Len(q) - 1)
  BY <1>1
<1> QED BY <1>1, <1>2, <1>3 DEF r

LEMMA ReceiveStep ==
  ASSUME IInv, OneOperator, NEW t \in Tabs, NEW s \in Tabs, Receive(t, s)
  PROVE  IInv'
<1> DEFINE q == net[s][t]
           r == Tail(q)
           msg == Head(q)
<1>1. /\ Shapes' /\ UNCHANGED <<saved, choice, undo, adding>>
      /\ q # <<>> /\ net'[s][t] = r
      /\ \A p, u \in Tabs : p # s \/ u # t => net'[p][u] = net[p][u]
      /\ \A u \in Tabs \ {t} : list'[u] = list[u] /\ guard'[u] = guard[u]
      /\ Rendered(t)
      /\ IF msg.type = "GUARD_CHANGED"
           THEN /\ guard'[t] = IF msg.guard = shown[t] THEN guard[t] ELSE msg.guard
                /\ list'[t] = list[t]
           ELSE /\ list'[t] = AfterChange(t, msg)
                /\ guard'[t] = IF FallsBack(t, msg) THEN First(saved) ELSE guard[t]
  BY ReceiveShape DEF IInv, OneOperator
<1>2. Hands = {s} /\ t # s
  <2>1. s \in Hands /\ t # s
    BY <1>1 DEF IInv, Quiet
  <2> QED BY <2>1 DEF OneOperator
<1>3. Fit' = Fit /\ Loaded(saved') = Loaded(saved) /\ shown[t] = guard[t] /\ guard[t] \in Guards
      /\ First(saved) \in Loaded(saved)
  BY <1>1, LoadedFacts DEF Fit, Rendered, IInv, Shapes, TypeOK
<1>4. q \in Seq(Message)
  BY DEF IInv, Shapes, TypeOK
<1>5. /\ Len(q) \in Nat /\ Len(q) > 0 /\ DOMAIN q = 1..Len(q) /\ msg = q[1] /\ msg \in Message
      /\ Len(r) = Len(q) - 1 /\ DOMAIN r = 1..(Len(q) - 1)
      /\ \A i \in DOMAIN r : i + 1 \in DOMAIN q /\ r[i] = q[i + 1]
      /\ \A i \in DOMAIN q : i = 1 \/ (i - 1 \in DOMAIN r /\ r[i - 1] = q[i])
  BY <1>1, <1>4, TailFacts
<1>6. /\ msg.guard \in Guards /\ msg.type \in {"GUARD_CHANGED", "add", "rename", "remove"}
      /\ msg.type = "GUARD_CHANGED" => msg = Selection(msg.guard)
      /\ msg.type = "remove" => msg = Change("remove", msg.guard)
  BY <1>5 DEF Message, Selection, Change
<1>7. /\ (\A j \in DOMAIN q : q[j].type = "GUARD_CHANGED") => Loaded(saved) \subseteq list[t]
      /\ \A x \in Guards \ Fit :
           /\ x \in list[t] \/ guard[t] = x => \E j \in DOMAIN q : q[j] = Change("remove", x)
           /\ \A i \in DOMAIN q : q[i] = Selection(x) =>
                \E j \in DOMAIN q : i < j /\ q[j] = Change("remove", x)
      /\ choice # None => \E i \in 0..Len(q) : Lands(t, q, i)
  BY <1>2 DEF IInv, Hears, Leaves, Follows
<1> HIDE DEF q, r, msg
<1>8. Quiet'
  BY <1>1, <1>2 DEF IInv, Quiet
<1>9. Knows'
  BY <1>1, <1>2, <1>3 DEF IInv, Knows
<1>10. (\A j \in DOMAIN r : r[j].type = "GUARD_CHANGED") => Loaded(saved) \subseteq list'[t]
  <2>1. CASE msg.type = "GUARD_CHANGED"
    BY <1>1, <1>5, <1>7, <2>1
  <2>2. CASE msg.type # "GUARD_CHANGED"
    BY <1>1, <2>2 DEF AfterChange
  <2> QED BY <2>1, <2>2
<1>11. Hears'
  BY <1>1, <1>2, <1>3, <1>10 DEF IInv, Hears
<1>12. ASSUME NEW x \in Guards \ Fit
       PROVE  /\ x \in list'[t] \/ guard'[t] = x => \E j \in DOMAIN r : r[j] = Change("remove", x)
              /\ \A i \in DOMAIN r : r[i] = Selection(x) =>
                   \E j \in DOMAIN r : i < j /\ r[j] = Change("remove", x)
  <2>1. x \notin Loaded(saved)
    BY <1>12 DEF Fit
  <2>2. ASSUME NEW j \in DOMAIN q, q[j] = Change("remove", x), msg # Change("remove", x)
        PROVE  \E k \in DOMAIN r : r[k] = Change("remove", x)
    BY <1>5, <2>2
  <2>3. ASSUME x \in list'[t] \/ guard'[t] = x
        PROVE  \E j \in DOMAIN r : r[j] = Change("remove", x)
    <3>1. CASE msg.type = "GUARD_CHANGED"
      <4>1. x \in list[t] \/ guard[t] = x \/ msg = Selection(x)
        BY <1>1, <1>6, <2>3, <3>1
      <4>2. \E j \in DOMAIN q : q[j] = Change("remove", x)
        <5>1. CASE msg = Selection(x)
          <6>1. 1 \in DOMAIN q /\ q[1] = Selection(x)
            BY <1>5, <5>1
          <6> QED BY <1>7, <1>12, <6>1
        <5>2. CASE msg # Selection(x)
          BY <1>7, <1>12, <4>1, <5>2
        <5> QED BY <5>1, <5>2
      <4>3. msg # Change("remove", x)
        BY <3>1, MessageFacts
      <4> QED BY <2>2, <4>2, <4>3
    <3>2. CASE msg.type # "GUARD_CHANGED"
      <4>1. list'[t] = AfterChange(t, msg)
            /\ guard'[t] = IF FallsBack(t, msg) THEN First(saved) ELSE guard[t]
        BY <1>1, <3>2
      <4>2. shown[t] = x /\ ~(msg.type = "remove" /\ msg.guard = x)
        <5>1. CASE x \in list'[t]
          BY <2>1, <4>1, <5>1 DEF AfterChange
        <5>2. CASE x \notin list'[t]
          <6>1. guard'[t] = x /\ x # First(saved)
            BY <1>3, <2>1, <2>3, <5>2
          <6>2. guard[t] = x /\ ~FallsBack(t, msg)
            BY <4>1, <6>1
          <6> QED BY <1>3, <2>1, <6>2 DEF FallsBack
        <5> QED BY <5>1, <5>2
      <4>3. guard[t] = x /\ msg # Change("remove", x)
        BY <1>3, <4>2, MessageFacts
      <4> QED BY <1>7, <1>12, <2>2, <4>3
    <3> QED BY <3>1, <3>2
  <2>4. ASSUME NEW i \in DOMAIN r, r[i] = Selection(x)
        PROVE  \E j \in DOMAIN r : i < j /\ r[j] = Change("remove", x)
    <3>1. i + 1 \in DOMAIN q /\ q[i + 1] = Selection(x)
      BY <1>5, <2>4
    <3>2. PICK j \in DOMAIN q : i + 1 < j /\ q[j] = Change("remove", x)
      BY <1>7, <1>12, <3>1
    <3>3. j - 1 \in DOMAIN r /\ i < j - 1 /\ r[j - 1] = Change("remove", x)
      BY <1>5, <3>1, <3>2
    <3> QED BY <3>3
  <2> QED BY <2>3, <2>4
<1>13. Leaves'
  <2>1. ASSUME NEW u \in Tabs \ {s}, NEW x \in Guards, x \notin Fit'
        PROVE  /\ x \in list'[u] \/ guard'[u] = x =>
                    \E j \in DOMAIN net'[s][u] : net'[s][u][j] = Change("remove", x)
               /\ \A i \in DOMAIN net'[s][u] : net'[s][u][i] = Selection(x) =>
                    \E j \in DOMAIN net'[s][u] : i < j /\ net'[s][u][j] = Change("remove", x)
    <3>1. CASE u = t
      <4>1. net'[s][u] = r /\ x \in Guards \ Fit
        BY <1>1, <1>3, <2>1, <3>1
      <4> QED BY <1>12, <3>1, <4>1
    <3>2. CASE u # t
      <4>1. net'[s][u] = net[s][u] /\ list'[u] = list[u] /\ guard'[u] = guard[u]
        BY <1>1, <3>2
      <4> QED BY <1>2, <1>3, <2>1, <4>1 DEF IInv, Leaves
    <3> QED BY <3>1, <3>2
  <2> QED BY <1>2, <2>1 DEF Leaves
<1>14. ASSUME choice # None
       PROVE  \E i \in 0..Len(r) :
                /\ IF i = 0 THEN guard'[t] = choice ELSE r[i] = Selection(choice)
                /\ \A j \in DOMAIN r : i < j => r[j].type # "GUARD_CHANGED" /\ r[j] # Change("remove", choice)
  <2>1. PICK i \in 0..Len(q) : Lands(t, q, i)
    BY <1>7, <1>14
  <2>2. /\ IF i = 0 THEN guard[t] = choice ELSE q[i] = Selection(choice)
        /\ \A j \in DOMAIN q : i < j => q[j].type # "GUARD_CHANGED" /\ q[j] # Change("remove", choice)
    BY <2>1 DEF Lands, Harmless
  <2>3. CASE i = 0
    <3>1. msg.type # "GUARD_CHANGED" /\ msg # Change("remove", choice)
      BY <1>5, <2>2, <2>3
    <3>2. ~FallsBack(t, msg)
      BY <1>3, <1>6, <2>2, <2>3, <3>1 DEF FallsBack
    <3>3. guard'[t] = choice
      BY <1>1, <2>2, <2>3, <3>1, <3>2
    <3>4. \A j \in DOMAIN r : r[j].type # "GUARD_CHANGED" /\ r[j] # Change("remove", choice)
      BY <1>5, <2>2, <2>3
    <3> QED BY <1>5, <3>3, <3>4
  <2>4. CASE i = 1
    <3>1. msg = Selection(choice)
      BY <1>5, <2>2, <2>4
    <3>2. guard'[t] = choice
      BY <1>1, <1>3, <3>1, MessageFacts
    <3>3. \A j \in DOMAIN r : r[j].type # "GUARD_CHANGED" /\ r[j] # Change("remove", choice)
      BY <1>5, <2>2, <2>4
    <3> QED BY <1>5, <3>2, <3>3
  <2>5. CASE i > 1
    <3>1. i - 1 \in 1..Len(r) /\ i - 1 # 0 /\ r[i - 1] = q[i]
      BY <1>5, <2>5
    <3>2. \A j \in DOMAIN r : i - 1 < j => r[j].type # "GUARD_CHANGED" /\ r[j] # Change("remove", choice)
      BY <1>5, <2>2, <2>5
    <3>3. r[i - 1] = Selection(choice) /\ i - 1 \in 0..Len(r)
      BY <1>5, <2>2, <2>5, <3>1
    <3> QED BY <3>1, <3>2, <3>3
  <2> QED BY <2>3, <2>4, <2>5
<1>15. Follows'
  <2>1. ASSUME NEW u \in Tabs \ {s}, choice' # None
        PROVE  (\E i \in 0..Len(net[s][u]) : Lands(u, net[s][u], i))'
    <3>1. choice' = choice /\ choice # None
      BY <1>1, <2>1
    <3>2. CASE u = t
      <4>1. net'[s][u] = r
        BY <1>1, <3>2
      <4> QED BY <1>14, <3>1, <3>2, <4>1 DEF Lands, Harmless
    <3>3. CASE u # t
      <4>1. net'[s][u] = net[s][u] /\ guard'[u] = guard[u]
        BY <1>1, <3>3
      <4>2. \E i \in 0..Len(net[s][u]) : Lands(u, net[s][u], i)
        BY <1>2, <2>1, <3>1 DEF IInv, Follows
      <4> QED BY <3>1, <4>1, <4>2 DEF Lands, Harmless
    <3> QED BY <3>2, <3>3
  <2> QED BY <1>2, <2>1 DEF Follows
<1> QED BY <1>1, <1>8, <1>9, <1>11, <1>13, <1>15 DEF IInv

LEMMA StartsFollowing ==
  ASSUME Init, OneOperator
  PROVE  IInv
<1>1. Shapes
  BY InitShape
<1>2. /\ \A t \in Tabs : list[t] = Loaded(saved) /\ guard[t] \in Loaded(saved)
      /\ \A t \in Tabs : adding[t] = {} /\ undo[t] = None
      /\ \A s, t \in Tabs : net[s][t] = <<>>
      /\ choice = None /\ saved \in Seq(Guards)
  <2>1. Range(<<>>) = {} /\ saved = <<>>
    BY DEF Init, Range
  <2>2. Loaded(saved) = Range(Known) /\ Known[1] = First(saved)
    BY <2>1 DEF Loaded, First
  <2>3. saved \in Seq(Guards)
    BY <2>1
  <2>4. Known[1] \in Loaded(saved)
    BY <2>2, <2>3, LoadedFacts
  <2> QED BY <2>1, <2>2, <2>3, <2>4 DEF Init
<1>3. \A h \in Hands : h \in Tabs
  BY ConsoleAssumption
<1>4. \A s, t \in Tabs : DOMAIN net[s][t] = {}
  BY <1>2
<1>5. Quiet
  BY <1>2 DEF Quiet
<1>6. Knows
  BY <1>2, <1>3, LoadedFacts DEF Knows, Fit
<1>7. Hears
  BY <1>2, <1>3 DEF Hears
<1>8. Leaves
  BY <1>2, <1>3, <1>4 DEF Leaves, Fit
<1>9. Follows
  BY <1>2 DEF Follows
<1> QED BY <1>1, <1>5, <1>6, <1>7, <1>8, <1>9 DEF IInv

LEMMA FollowingStep ==
  ASSUME OneOperator, IInv, [Next]_vars
  PROVE  IInv'
<1>1. CASE UNCHANGED vars
  <2>1. /\ UNCHANGED <<saved, list, guard, net, choice, undo, adding>>
        /\ Loaded(saved') = Loaded(saved) /\ Fit' = Fit
    BY <1>1 DEF vars, renderVars, Fit
  <2>2. Shapes'
    BY ShapesStep DEF IInv
  <2>3. Quiet' /\ Knows'
    BY <2>1 DEF IInv, Quiet, Knows
  <2>4. Hears' /\ Leaves'
    BY <2>1 DEF IInv, Hears, Leaves
  <2>5. Follows'
    BY <2>1 DEF IInv, Follows, Lands, Harmless
  <2> QED BY <2>2, <2>3, <2>4, <2>5 DEF IInv
<1>2. ASSUME NEW t \in Tabs, NEW g \in Guards, Select(t, g)
      PROVE  IInv'
  BY <1>2, SelectStep
<1>3. ASSUME NEW t \in Tabs, NEW g \in Guards, EndAdd(t, g)
      PROVE  IInv'
  BY <1>3, EndAddStep
<1>4. ASSUME NEW t \in Tabs, NEW g \in Guards, Rename(t, g)
      PROVE  IInv'
  BY <1>4, RenameStep
<1>5. ASSUME NEW t \in Tabs, NEW g \in Guards, RemoveGuard(t, g)
      PROVE  IInv'
  BY <1>5, RemoveGuardStep
<1>6. ASSUME NEW t \in Tabs, NEW g \in Guards, NEW followed \in BOOLEAN, Open(t, g, followed)
      PROVE  IInv'
  BY <1>6, OpenStep
<1>7. ASSUME NEW t \in Tabs, NEW gs \in SUBSET Guards, Cleanup(t, gs)
      PROVE  IInv'
  BY <1>7, CleanupStep
<1>8. ASSUME NEW t \in Tabs, Restore(t)
      PROVE  IInv'
  BY <1>8, RestoreStep
<1>9. ASSUME NEW t \in Tabs, NEW s \in Tabs, Receive(t, s)
      PROVE  IInv'
  BY <1>9, ReceiveStep
<1>10. ASSUME NEW t \in Tabs,
              (\E g \in Guards : BeginAdd(t, g) \/ RefuseAdd(t, g)) \/ RestoreFails(t) \/ Commit(t)
       PROVE  IInv'
  BY <1>10, SilentStep
<1> QED BY <1>1, <1>2, <1>3, <1>4, <1>5, <1>6, <1>7, <1>8, <1>9, <1>10, Zenon DEF Next

(* However many tabs are open, once the messages of the one an operator    *)
(* works in have been handled every tab shows the guard last selected,     *)
(* added or fallen back to, unless a page was opened since.                *)
THEOREM TabsFollow == OneOperator => (Spec => []FollowsSelection)
<1> SUFFICES ASSUME OneOperator PROVE Spec => []FollowsSelection
  OBVIOUS
<1>1. Init => IInv
  BY StartsFollowing
<1>2. IInv /\ [Next]_vars => IInv'
  BY FollowingStep
<1>3. IInv => FollowsSelection
  <2> SUFFICES ASSUME IInv, Settled, choice # None, NEW t \in Tabs PROVE shown[t] = choice
    BY DEF FollowsSelection
  <2>1. PICK h \in Tabs : Hands = {h}
    BY DEF OneOperator
  <2>2. shown[t] = guard[t]
    BY DEF Settled, Rendered
  <2>3. CASE t = h
    BY <2>1, <2>2, <2>3 DEF IInv, Knows
  <2>4. CASE t # h
    <3>1. net[h][t] = <<>> /\ Len(<<>>) = 0
      BY DEF Settled
    <3>2. Lands(t, net[h][t], 0)
      <4>1. PICK i \in 0..Len(net[h][t]) : Lands(t, net[h][t], i)
        BY <2>1, <2>4 DEF IInv, Follows
      <4>2. i = 0
        BY <3>1
      <4> QED BY <4>1, <4>2
    <3> QED BY <2>2, <3>2 DEF Lands
  <2> QED BY <2>3, <2>4
<1> QED BY <1>1, <1>2, <1>3, PTL DEF Spec

(* Once the messages have been handled every tab lists what is stored, and *)
(* beyond it at most guards of links, whatever writes to the storage fail. *)
THEOREM TabsAgree == OneOperator => (Spec => []RegistryAgrees)
<1> SUFFICES ASSUME OneOperator PROVE Spec => []RegistryAgrees
  OBVIOUS
<1>1. Init => IInv
  BY StartsFollowing
<1>2. IInv /\ [Next]_vars => IInv'
  BY FollowingStep
<1>3. IInv => RegistryAgrees
  <2> SUFFICES ASSUME IInv, Settled, NEW t \in Tabs
               PROVE  Loaded(saved) \subseteq listed[t] /\ listed[t] \subseteq Loaded(saved) \cup Links
    BY DEF RegistryAgrees
  <2>1. PICK h \in Tabs : Hands = {h}
    BY DEF OneOperator
  <2>2. listed[t] = list[t] /\ list[t] \subseteq Guards
    BY DEF Settled, Rendered, IInv, Shapes, TypeOK
  <2>3. CASE t = h
    BY <2>1, <2>2, <2>3 DEF IInv, Knows, Fit
  <2>4. CASE t # h
    <3>1. DOMAIN net[h][t] = {}
      BY DEF Settled
    <3>2. Loaded(saved) \subseteq list[t]
      BY <2>1, <2>4, <3>1 DEF IInv, Hears
    <3>3. \A x \in Guards \ Fit : x \notin list[t]
      BY <2>1, <2>4, <3>1 DEF IInv, Leaves
    <3> QED BY <2>2, <3>2, <3>3 DEF Fit
  <2> QED BY <2>3, <2>4
<1> QED BY <1>1, <1>2, <1>3, PTL DEF Spec

(* Once the messages have been handled no tab is left on a guard that is   *)
(* gone from the registry, unless a link named it.                         *)
THEOREM RemovedGuardsAreLeft == OneOperator => (Spec => []RemovedIsLeft)
<1> SUFFICES ASSUME OneOperator PROVE Spec => []RemovedIsLeft
  OBVIOUS
<1>1. Init => IInv
  BY StartsFollowing
<1>2. IInv /\ [Next]_vars => IInv'
  BY FollowingStep
<1>3. IInv => RemovedIsLeft
  <2> SUFFICES ASSUME IInv, Settled, NEW t \in Tabs PROVE shown[t] \in Loaded(saved) \cup Links
    BY DEF RemovedIsLeft
  <2>1. PICK h \in Tabs : Hands = {h}
    BY DEF OneOperator
  <2>2. shown[t] = guard[t] /\ guard[t] \in Guards
    BY DEF Settled, Rendered, IInv, Shapes, TypeOK
  <2>3. CASE t = h
    BY <2>1, <2>2, <2>3 DEF IInv, Knows, Fit
  <2>4. CASE t # h
    <3>1. DOMAIN net[h][t] = {}
      BY DEF Settled
    <3>2. \A x \in Guards \ Fit : x # guard[t]
      BY <2>1, <2>4, <3>1 DEF IInv, Leaves
    <3> QED BY <2>2, <3>2 DEF Fit
  <2> QED BY <2>3, <2>4
<1> QED BY <1>1, <1>2, <1>3, PTL DEF Spec
=============================================================================

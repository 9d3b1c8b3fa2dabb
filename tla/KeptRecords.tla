---------------------------- MODULE KeptRecords ------------------------------
(***************************************************************************)
(* Proofs about what the pages of one browser keep or share: the channel   *)
(* between tabs, the grid of a dashboard, the history of transactions, the *)
(* address book, the toasts and the alerts, the shell with its worker, and *)
(* the caps of a draft with their names.  The parts share no state with    *)
(* one another; MCRecords puts them beside the others, and checks all.     *)
(***************************************************************************)
EXTENDS Integers, Sequences, FiniteSets, TLC, FiniteSetTheorems, TLAPS

CONSTANTS
  Nil,
  HistTabs, Txs, Kept, MaxAge, MaxDay,
  DialogTabs, Addresses, Names, Files, Capacity,
  GridPages, MaxNamed, MaxChanges,
  Pages, Remembered, MaxSaid, MaxFaults,
  Visible, MaxToasts, MaxClicks,
  MaxBuild, Risks,
  TooMuch, MaxSteps, MaxFetches, MaxNow, TTL,
  x, y, z    \* guards, contracts or addresses, whatever a part is about

VARIABLES
  history, memory, failed, warned, open, table, day,
  format, book, bookDialog,
  grid, arrangement, known, resetting, refused, stored, named, changes,
  means, tab, world, cell, wire, lastRevision, heard, said, faults,
  toasts, timers, nextId, kept, panel, permission, prompts, last, clicks,
  build, worker, waiting, promoters, page,
  capRows, picked, preview, timer, inFlight, labels, cache, pending, now, steps, begun

historyVars == <<history, memory, failed, warned, open, table, day>>
bookVars == <<format, book, bookDialog>>
gridVars == <<grid, arrangement, known, resetting, refused, stored, named, changes>>
channelVars == <<means, tab, world, cell, wire, lastRevision, heard, said, faults>>
noticeVars == <<toasts, timers, nextId, kept, panel, permission, prompts, last, clicks>>
shellVars == <<build, worker, waiting, promoters, page>>
capVars == <<capRows, picked, preview, timer, inFlight, labels, cache, pending, now, steps, begun>>
-----------------------------------------------------------------------------
(* Lemmas that are of no part.                                             *)

\* Induction over the numbers, for a set of them.
LEMMA LeastNumber ==
  ASSUME NEW Q, Q \subseteq Nat, Q # {}
  PROVE  \E m \in Q : \A k \in Q : m <= k
<1>1. PICK m \in Q : \A k \in Q : ~(<<k, m>> \in OpToRel(<, Nat))
  BY NatLessThanWellFounded, WFMin
<1>2. \A k \in Q : ~(k < m)
  BY <1>1 DEF OpToRel
<1> QED BY <1>2

LEMMA Induction ==
  ASSUME NEW n \in Nat, NEW Q, 0 \in Q, \A k \in 1..n : k - 1 \in Q => k \in Q
  PROVE  \A k \in 0..n : k \in Q
<1> SUFFICES ASSUME NEW j \in 0..n, j \notin Q PROVE FALSE
  OBVIOUS
<1> DEFINE E == (0..n) \ Q
<1>1. PICK m \in E : \A k \in E : m <= k
  BY LeastNumber, E # {}, E \subseteq Nat
<1>2. m \in 1..n /\ m - 1 \in 0..n /\ ~(m <= m - 1)
  BY <1>1
<1>3. m - 1 \in Q
  BY <1>1, <1>2
<1> QED BY <1>1, <1>2, <1>3

\* What is computed step by step from a first value is a function.
Steps(n, X) == [1..n -> [X -> X]]
Computes(f, n, X, first, step) ==
  /\ f \in [0..n -> X]
  /\ f[0] = first /\ \A i \in 1..n : f[i] = step[i][f[i - 1]]

LEMMA StepByStep ==
  ASSUME NEW n \in Nat, NEW X, NEW first \in X, NEW step \in Steps(n, X)
  PROVE  \E f : Computes(f, n, X, first, step)
<1>0. step \in [1..n -> [X -> X]]
  BY DEF Steps
<1> DEFINE computes(k, f) == f[0] = first /\ \A i \in 1..k : f[i] = step[i][f[i - 1]]
           Q == {k \in Nat : \E f \in [0..k -> X] : computes(k, f)}
<1>1. 0 \in Q
  <2> DEFINE f == [i \in 0..0 |-> first]
  <2>1. f \in [0..0 -> X] /\ computes(0, f)
    OBVIOUS
  <2> QED BY <2>1
<1>2. ASSUME NEW k \in 1..n, k - 1 \in Q
      PROVE  k \in Q
  <2>1. PICK f \in [0..(k - 1) -> X] : computes(k - 1, f)
    BY <1>2
  <2> DEFINE g == [i \in 0..k |-> IF i = k THEN step[k][f[k - 1]] ELSE f[i]]
  <2>2. k \in Nat /\ k - 1 \in 0..(k - 1) /\ f[k - 1] \in X
    BY <2>1
  <2>3. step[k][f[k - 1]] \in X
    BY <1>0, <2>2
  <2>4. g \in [0..k -> X]
    <3> SUFFICES ASSUME NEW i \in 0..k PROVE g[i] \in X
      OBVIOUS
    <3>1. CASE i = k
      BY <2>3, <3>1
    <3>2. CASE i # k
      BY <2>1, <3>2
    <3> QED BY <3>1, <3>2
  <2>5. \A i \in 0..(k - 1) : g[i] = f[i]
    OBVIOUS
  <2>6. g[0] = first
    BY <2>1, <2>5
  <2>7. ASSUME NEW i \in 1..k
        PROVE  g[i] = step[i][g[i - 1]]
    <3>1. CASE i = k
      <4>1. g[k] = step[k][f[k - 1]] /\ g[k - 1] = f[k - 1]
        BY <2>5
      <4> QED BY <3>1, <4>1
    <3>2. CASE i # k
      <4>1. i \in 1..(k - 1) /\ g[i] = f[i] /\ g[i - 1] = f[i - 1]
        BY <2>5, <3>2
      <4> QED BY <2>1, <4>1
    <3> QED BY <3>1, <3>2
  <2> HIDE DEF g
  <2> QED BY <2>2, <2>4, <2>6, <2>7
<1> HIDE DEF Q
<1>3. \A k \in 1..n : k - 1 \in Q => k \in Q
  BY <1>2
<1>4. \A k \in 0..n : k \in Q
  BY <1>1, <1>3, Induction
<1>5. n \in Q
  BY <1>4
<1> QED BY <1>5 DEF Q, Computes

-----------------------------------------------------------------------------
(* The channel.  The filter's map holds what was heard last of each tab, in *)
(* the order they were heard, and remembers no tab with a revision that it  *)
(* has not announced.                                                       *)
T == INSTANCE TabChannel

Sources == Pages \X Nat
Tidings == [event : {TRUE}, type : T!Types, origin : Sources, sound : BOOLEAN, revision : Nat]
Mail == {[event |-> FALSE]} \cup Tidings
Envelopes == [nonce : Nat, event : Tidings]
Notes == [origin : Sources, revision : Nat]
ChannelFits ==
  /\ MaxSaid \in Nat /\ MaxFaults \in Nat /\ Remembered \in Nat \ {0}
  /\ Nil \notin Envelopes

\* The tabs heard after the i-th notice, up to the j-th.
Between(h, i, j) == {h[k].origin : k \in i + 1..j} \ {h[i].origin}
Crowded(h, i, j) == Cardinality(Between(h, i, j)) >= Remembered
Spaced(h) ==
  \A j \in DOMAIN h : \A i \in 1..j - 1 :
    h[i].origin = h[j].origin => h[i].revision < h[j].revision \/ Crowded(h, i, j - 1)
\* What is kept of the notices heard.
Covers(e, n) == e.origin = n.origin /\ e.revision >= n.revision
Recalled(h, notes) ==
  \A i \in DOMAIN h : (\E k \in DOMAIN notes : Covers(notes[k], h[i])) \/ Crowded(h, i, Len(h))
InOrder(h, notes) ==
  \A k \in DOMAIN notes, l \in DOMAIN notes, i \in DOMAIN h :
    k < l /\ h[i].origin = notes[k].origin =>
      \E j \in i + 1..Len(h) : h[j].origin = notes[l].origin
Apart(notes) == \A k, l \in DOMAIN notes : notes[k].origin = notes[l].origin => k = l
InTurn(h, notes) == Recalled(h, notes) /\ InOrder(h, notes) /\ Apart(notes)

LEMMA SameCount == ASSUME NEW Q PROVE T!Cardinality(Q) = Cardinality(Q)
BY DEF T!Cardinality, Cardinality

LEMMA BetweenIsFinite ==
  ASSUME NEW h, NEW i \in Nat, NEW j \in Nat
  PROVE  IsFiniteSet(Between(h, i, j))
<1> DEFINE places == i + 1..j
           tabs == {h[k].origin : k \in places}
           f == [k \in places |-> h[k].origin]
<1>1. IsFiniteSet(places)
  BY FS_Interval
<1>2. f \in Surjection(places, tabs)
  BY DEF Surjection
<1>3. IsFiniteSet(tabs)
  BY <1>1, <1>2, FS_Surjection
<1>4. IsFiniteSet(tabs \ {h[i].origin})
  BY <1>3, FS_RemoveElement
<1> QED BY <1>4 DEF Between

\* What was crowded stays so when more is heard.
LEMMA StaysCrowded ==
  ASSUME NEW h \in Seq(Tidings), NEW m \in Tidings, NEW i \in 1..Len(h), NEW j \in 0..Len(h),
         NEW l \in j..Len(h) + 1, Crowded(h, i, j), ChannelFits
  PROVE  Crowded(Append(h, m), i, l)
<1>1. PICK g : g = Append(h, m)
  OBVIOUS
<1>2. Len(h) \in Nat /\ \A k \in 1..Len(h) : g[k] = h[k]
  BY <1>1
<1>3. Between(h, i, j) \subseteq Between(g, i, l)
  BY <1>2 DEF Between
<1>4. IsFiniteSet(Between(g, i, l))
  BY <1>2, BetweenIsFinite
<1>5. /\ Cardinality(Between(h, i, j)) <= Cardinality(Between(g, i, l))
      /\ IsFiniteSet(Between(h, i, j))
  BY <1>3, <1>4, FS_Subset
<1>6. Cardinality(Between(h, i, j)) \in Nat /\ Cardinality(Between(g, i, l)) \in Nat
  BY <1>4, <1>5, FS_CardinalityType
<1> QED BY <1>1, <1>5, <1>6 DEF Crowded, ChannelFits

\* The first of too many is forgotten: the others were heard after it.
LEMMA OneForgotten ==
  ASSUME ChannelFits, NEW h \in Seq(Tidings), NEW notes \in Seq(Notes), InTurn(h, notes),
         Len(notes) = Remembered + 1
  PROVE  InTurn(h, Tail(notes)) /\ Tail(notes) \in Seq(Notes) /\ Len(Tail(notes)) = Remembered
<1>1. PICK rest : rest = Tail(notes)
  OBVIOUS
<1>2. /\ Remembered \in Nat /\ Remembered >= 1 /\ DOMAIN notes = 1..Remembered + 1
      /\ rest \in Seq(Notes) /\ Len(rest) = Remembered /\ DOMAIN rest = 1..Remembered
      /\ \A k \in 1..Remembered : rest[k] = notes[k + 1]
  BY <1>1 DEF ChannelFits
<1>3. Len(h) \in Nat /\ DOMAIN h = 1..Len(h)
  OBVIOUS
<1>4. ASSUME NEW i \in DOMAIN h, h[i].origin = notes[1].origin
      PROVE  Crowded(h, i, Len(h))
  <2> DEFINE places == 2..Remembered + 1
             others == Between(h, i, Len(h))
             f == [l \in places |-> notes[l].origin]
  <2>1. ASSUME NEW l \in places PROVE notes[l].origin \in others
    <3>1. 1 \in DOMAIN notes /\ l \in DOMAIN notes /\ 1 < l /\ l # 1
      BY <1>2
    <3>2. PICK j \in i + 1..Len(h) : h[j].origin = notes[l].origin
      BY <1>4, <3>1 DEF InTurn, InOrder
    <3>3. notes[l].origin # notes[1].origin
      BY <3>1 DEF InTurn, Apart
    <3> QED BY <1>4, <3>2, <3>3 DEF Between
  <2>2. f \in [places -> others]
    BY <2>1
  <2>3. IsFiniteSet(places) /\ Cardinality(places) = Remembered
    <3>1. /\ IsFiniteSet(places)
          /\ Cardinality(places) = IF 2 > Remembered + 1 THEN 0 ELSE Remembered + 1 - 2 + 1
      BY <1>2, FS_Interval
    <3> QED BY <1>2, <3>1
  <2>4. IsFiniteSet(others)
    BY <1>3, BetweenIsFinite
  <2>5. Cardinality(others) \in Nat
    BY <2>4, FS_CardinalityType
  <2>6. ASSUME Cardinality(others) < Cardinality(places) PROVE FALSE
    <3> HIDE DEF places, others, f
    <3>1. PICK k \in places, l \in places : k # l /\ f[k] = f[l]
      BY <2>2, <2>3, <2>4, <2>6, FS_PigeonHole
    <3> USE DEF places, f
    <3>2. k \in DOMAIN notes /\ l \in DOMAIN notes /\ notes[k].origin = notes[l].origin
      BY <1>2, <3>1
    <3> QED BY <3>1, <3>2 DEF InTurn, Apart
  <2> HIDE DEF places, others
  <2>7. Cardinality(others) >= Remembered
    BY <1>2, <2>3, <2>5, <2>6
  <2> QED BY <2>7 DEF Crowded, others
<1>5. Recalled(h, rest)
  <2> SUFFICES ASSUME NEW i \in DOMAIN h, ~Crowded(h, i, Len(h))
               PROVE  \E k \in DOMAIN rest : Covers(rest[k], h[i])
    BY DEF Recalled
  <2>1. PICK k \in DOMAIN notes : Covers(notes[k], h[i])
    BY DEF InTurn, Recalled
  <2>2. k # 1
    BY <1>4, <2>1 DEF Covers
  <2>3. k - 1 \in 1..Remembered /\ rest[k - 1] = notes[k]
    BY <1>2, <2>2
  <2> QED BY <1>2, <2>1, <2>3
<1>6. InOrder(h, rest)
  <2> SUFFICES ASSUME NEW k \in DOMAIN rest, NEW l \in DOMAIN rest, NEW i \in DOMAIN h,
                      k < l, h[i].origin = rest[k].origin
               PROVE  \E j \in i + 1..Len(h) : h[j].origin = rest[l].origin
    BY DEF InOrder
  <2>1. /\ k + 1 \in DOMAIN notes /\ l + 1 \in DOMAIN notes /\ k + 1 < l + 1
        /\ rest[k] = notes[k + 1] /\ rest[l] = notes[l + 1]
    BY <1>2
  <2> QED BY <2>1 DEF InTurn, InOrder
<1>7. Apart(rest)
  <2> SUFFICES ASSUME NEW k \in DOMAIN rest, NEW l \in DOMAIN rest, rest[k].origin = rest[l].origin
               PROVE  k = l
    BY DEF Apart
  <2>1. /\ k + 1 \in DOMAIN notes /\ l + 1 \in DOMAIN notes
        /\ rest[k] = notes[k + 1] /\ rest[l] = notes[l + 1]
    BY <1>2
  <2>2. k + 1 = l + 1
    BY <2>1 DEF InTurn, Apart
  <2> QED BY <1>2, <2>2
<1> QED BY <1>1, <1>2, <1>5, <1>6, <1>7 DEF InTurn

\* A sequence without one of its places.
LEMMA WithoutOne ==
  ASSUME NEW Q, NEW queue \in Seq(Q), NEW v \in 1..Len(queue)
  PROVE  LET rest == SubSeq(queue, 1, v - 1) \o SubSeq(queue, v + 1, Len(queue))
         IN /\ rest \in Seq(Q) /\ Len(rest) = Len(queue) - 1
            /\ \A i \in 1..Len(rest) : rest[i] = IF i < v THEN queue[i] ELSE queue[i + 1]
<1> DEFINE front == SubSeq(queue, 1, v - 1)
           back == SubSeq(queue, v + 1, Len(queue))
<1>1. /\ front \in Seq(Q) /\ Len(front) = v - 1
      /\ \A i \in 1..(v - 1) : front[i] = queue[i]
  OBVIOUS
<1>2. /\ back \in Seq(Q) /\ Len(back) = Len(queue) - v
      /\ \A i \in 1..(Len(queue) - v) : back[i] = queue[i + v]
  OBVIOUS
<1> HIDE DEF front, back
<1>4. v \in Nat /\ Len(queue) \in Nat
  OBVIOUS
<1>5. front \o back \in Seq(Q) /\ Len(front \o back) = Len(queue) - 1
  <2>1. front \in Seq(Q) /\ back \in Seq(Q)
    BY <1>1, <1>2
  <2>2. front \o back \in Seq(Q) /\ Len(front \o back) = Len(front) + Len(back)
    BY <2>1, SMTT(30)
  <2> QED BY <1>1, <1>2, <1>4, <2>2
<1>6. ASSUME NEW i \in 1..(Len(queue) - 1)
      PROVE  (front \o back)[i] = IF i < v THEN queue[i] ELSE queue[i + 1]
  <2>1. CASE i < v
    BY <1>1, <1>2, <1>4, <2>1
  <2>2. CASE ~(i < v)
    <3>1. i - (v - 1) \in 1..(Len(queue) - v)
      BY <1>4, <2>2
    <3>2. (front \o back)[i] = back[i - (v - 1)]
      BY <1>1, <1>2, <1>4, <2>2, <3>1
    <3>3. back[i - (v - 1)] = queue[i - (v - 1) + v] /\ i - (v - 1) + v = i + 1
      BY <1>2, <1>4, <3>1
    <3> QED BY <2>2, <3>2, <3>3
  <2> QED BY <2>1, <2>2
<1> QED BY <1>5, <1>6 DEF front, back

LEMMA NotesAre ==
  ASSUME NEW notes \in Seq(Notes), NEW k \in DOMAIN notes
  PROVE  notes[k].origin \in Sources /\ notes[k].revision \in Nat
<1>1. notes[k] \in Notes
  OBVIOUS
<1> QED BY <1>1 DEF Notes

LEMMA TidingsAre ==
  ASSUME NEW h \in Seq(Tidings), NEW k \in DOMAIN h
  PROVE  h[k].origin \in Sources /\ h[k].revision \in Nat
<1>1. h[k] \in Tidings
  OBVIOUS
<1> QED BY <1>1 DEF Tidings

\* The map without one tab: its other entries, in their order.
Picks(f, rest, notes, o) ==
  /\ f \in [DOMAIN rest -> DOMAIN notes]
  /\ \A k \in DOMAIN rest : rest[k] = notes[f[k]] /\ rest[k].origin # o
  /\ \A k, l \in DOMAIN rest : k < l => f[k] < f[l]
  /\ \A n \in DOMAIN notes : notes[n].origin # o => \E k \in DOMAIN rest : f[k] = n

LEMMA ForgetIs ==
  ASSUME NEW notes \in Seq(Notes), Apart(notes), NEW o
  PROVE  LET rest == T!Forget(notes, o)
         IN  /\ rest \in Seq(Notes) /\ Len(rest) <= Len(notes)
             /\ \E f : Picks(f, rest, notes, o)
<1>1. PICK at : at = {i \in DOMAIN notes : notes[i].origin = o}
  OBVIOUS
<1>2. Len(notes) \in Nat /\ DOMAIN notes = 1..Len(notes)
  OBVIOUS
<1>3. CASE at = {}
  <2>1. T!Forget(notes, o) = notes
    BY <1>1, <1>3 DEF T!Forget
  <2> DEFINE f == [k \in DOMAIN notes |-> k]
  <2>2. f \in [DOMAIN notes -> DOMAIN notes]
    OBVIOUS
  <2>3. \A k \in DOMAIN notes : f[k] = k /\ notes[k].origin # o
    BY <1>1, <1>3
  <2> HIDE DEF f
  <2>4. Picks(f, notes, notes, o)
    BY <1>2, <2>2, <2>3 DEF Picks
  <2> QED BY <1>2, <2>1, <2>4
<1>4. CASE at # {}
  <2>1. PICK v : v = CHOOSE i \in at : TRUE
    OBVIOUS
  <2>2. v \in at
    BY <1>4, <2>1, Zenon
  <2>3. v \in 1..Len(notes) /\ notes[v].origin = o
    BY <1>1, <1>2, <2>2
  <2>4. T!Forget(notes, o) = SubSeq(notes, 1, v - 1) \o SubSeq(notes, v + 1, Len(notes))
    BY <1>1, <1>4, <2>1, Zenon DEF T!Forget
  <2>5. PICK rest : rest = SubSeq(notes, 1, v - 1) \o SubSeq(notes, v + 1, Len(notes))
    OBVIOUS
  <2>6. /\ rest \in Seq(Notes) /\ Len(rest) = Len(notes) - 1
        /\ \A i \in 1..Len(rest) : rest[i] = IF i < v THEN notes[i] ELSE notes[i + 1]
    BY <2>3, <2>5, WithoutOne
  <2>7. DOMAIN rest = 1..Len(notes) - 1
    BY <2>6
  <2> DEFINE f == [k \in DOMAIN rest |-> IF k < v THEN k ELSE k + 1]
  <2>8. f \in [DOMAIN rest -> DOMAIN notes] /\ \A k \in DOMAIN rest : f[k] # v
    BY <1>2, <2>3, <2>7
  <2>9. \A k \in DOMAIN rest : rest[k] = notes[f[k]]
    BY <2>6, <2>7
  <2>10. \A k, l \in DOMAIN rest : k < l => f[k] < f[l]
    BY <1>2, <2>3, <2>7
  <2>11. ASSUME NEW n \in DOMAIN notes, notes[n].origin # o
         PROVE  \E k \in DOMAIN rest : f[k] = n
    <3>1. CASE n < v
      BY <1>2, <2>3, <2>7, <3>1
    <3>2. CASE n > v
      <4>1. n - 1 \in DOMAIN rest /\ ~(n - 1 < v)
        BY <1>2, <2>3, <2>7, <3>2
      <4>2. f[n - 1] = n
        BY <1>2, <4>1
      <4> QED BY <4>1, <4>2
    <3>3. n # v
      BY <2>3, <2>11
    <3> QED BY <1>2, <2>3, <3>1, <3>2, <3>3
  <2> HIDE DEF f
  <2>12. \A k \in DOMAIN rest : rest[k].origin # o
    BY <2>3, <2>8, <2>9, <1>2 DEF Apart
  <2>13. Len(rest) <= Len(notes)
    BY <1>2, <2>6
  <2>14. Picks(f, rest, notes, o)
    BY <2>8, <2>9, <2>10, <2>11, <2>12 DEF Picks
  <2>15. T!Forget(notes, o) = rest
    BY <2>4, <2>5
  <2> QED BY <2>6, <2>13, <2>14, <2>15
<1> QED BY <1>3, <1>4

\* A tab that was heard moves to the end of the map.
LEMMA MovesToTheEnd ==
  ASSUME ChannelFits, NEW h \in Seq(Tidings), NEW notes \in Seq(Notes), InTurn(h, notes),
         NEW m \in Tidings, \A k \in DOMAIN notes : notes[k].origin = m.origin => m.revision >= notes[k].revision
  PROVE  LET all == Append(T!Forget(notes, m.origin), [origin |-> m.origin, revision |-> m.revision])
         IN  /\ all \in Seq(Notes) /\ Len(all) <= Len(notes) + 1
             /\ InTurn(Append(h, m), all)
             /\ \A k \in DOMAIN all : \/ \E n \in DOMAIN notes : all[k] = notes[n]
                                      \/ all[k] = [origin |-> m.origin, revision |-> m.revision]
<1>1. PICK rest : rest = T!Forget(notes, m.origin)
  OBVIOUS
<1>2. /\ rest \in Seq(Notes) /\ Len(rest) <= Len(notes)
      /\ \E f : Picks(f, rest, notes, m.origin)
  BY <1>1, ForgetIs DEF InTurn
<1>3. PICK f : Picks(f, rest, notes, m.origin)
  BY <1>2
<1>4. PICK note \in Notes : note = [origin |-> m.origin, revision |-> m.revision]
  <2>1. m.origin \in Sources /\ m.revision \in Nat
    BY DEF Tidings
  <2> QED BY <2>1 DEF Notes
<1>5. note.origin = m.origin /\ note.revision = m.revision /\ m.revision \in Nat
  BY <1>4 DEF Tidings
<1>6. PICK end \in Nat : end = Len(rest) + 1
  BY <1>2
<1>7. PICK all : all = Append(rest, note)
  OBVIOUS
<1>8. /\ all \in Seq(Notes) /\ Len(all) = end /\ DOMAIN all = 1..end /\ DOMAIN rest = 1..end - 1
      /\ all[end] = note /\ \A k \in 1..end - 1 : all[k] = rest[k]
  BY <1>2, <1>6, <1>7
<1>a. end \in 1..end /\ DOMAIN all = 1..end
  BY <1>2, <1>6, <1>8
<1>b. ASSUME NEW k \in 1..end, k # end
      PROVE  /\ k \in DOMAIN rest /\ k \in 1..end - 1
             /\ all[k] = notes[f[k]] /\ all[k].origin # m.origin /\ f[k] \in DOMAIN notes
             /\ f[k] \in Nat
  <2>1. k \in DOMAIN rest /\ k \in 1..end - 1 /\ all[k] = rest[k]
    BY <1>6, <1>8, <1>b
  <2>2. rest[k] = notes[f[k]] /\ rest[k].origin # m.origin /\ f[k] \in DOMAIN notes
    BY <1>3, <2>1 DEF Picks
  <2>3. \A n \in DOMAIN notes : n \in Nat
    OBVIOUS
  <2> QED BY <2>1, <2>2, <2>3
<1>c. ASSUME NEW k \in 1..end, NEW l \in 1..end, k # end, l # end, k < l
      PROVE  f[k] < f[l]
  BY <1>3, <1>b, <1>c DEF Picks
<1>9. PICK g : g = Append(h, m)
  OBVIOUS
<1>10. PICK len \in Nat : len = Len(h)
  OBVIOUS
<1>11. /\ g \in Seq(Tidings) /\ Len(g) = len + 1 /\ DOMAIN g = 1..len + 1 /\ DOMAIN h = 1..len
       /\ g[len + 1] = m /\ \A i \in 1..len : g[i] = h[i]
  BY <1>9, <1>10
<1>d. DOMAIN g = 1..len + 1 /\ Len(g) = len + 1
  BY <1>11
<1>12. Recalled(g, all)
  <2> SUFFICES ASSUME NEW i \in 1..len + 1, ~Crowded(g, i, len + 1)
               PROVE  \E k \in 1..end : Covers(all[k], g[i])
    BY <1>a, <1>d DEF Recalled
  <2>1. CASE i = len + 1
    <3>1. all[end].origin = g[i].origin /\ all[end].revision = g[i].revision
          /\ g[i].revision \in Nat
      BY <1>5, <1>8, <1>11, <2>1
    <3>2. Covers(all[end], g[i])
      BY <3>1 DEF Covers
    <3> QED BY <1>a, <3>2
  <2>2. CASE i # len + 1
    <3>1. i \in 1..len /\ g[i] = h[i]
      BY <1>11, <2>2
    <3>2. ~Crowded(h, i, len)
      BY <1>9, <1>10, <3>1, StaysCrowded
    <3>3. PICK n \in DOMAIN notes : Covers(notes[n], h[i])
      BY <1>10, <1>11, <3>1, <3>2 DEF InTurn, Recalled
    <3>4. CASE notes[n].origin = m.origin
      <4>1. m.revision >= notes[n].revision /\ notes[n].revision >= h[i].revision
            /\ h[i].origin = m.origin
        BY <3>3, <3>4 DEF Covers
      <4>2. h[i].revision \in Nat /\ notes[n].revision \in Nat
        BY <1>11, <3>1, TidingsAre, NotesAre
      <4>3. m.revision >= h[i].revision
        BY <1>5, <4>1, <4>2
      <4>4. Covers(all[end], g[i])
        BY <1>5, <1>8, <3>1, <4>1, <4>3 DEF Covers
      <4> QED BY <1>a, <4>4
    <3>5. CASE notes[n].origin # m.origin
      <4>1. PICK k \in DOMAIN rest : f[k] = n
        BY <1>3, <3>5 DEF Picks
      <4>2. k \in 1..end /\ k # end
        BY <1>6, <1>8, <4>1
      <4>3. all[k] = notes[n]
        BY <1>b, <4>1, <4>2
      <4> QED BY <3>1, <3>3, <4>2, <4>3
    <3> QED BY <3>4, <3>5
  <2> QED BY <2>1, <2>2
<1>13. InOrder(g, all)
  <2> SUFFICES ASSUME NEW k \in 1..end, NEW l \in 1..end, NEW i \in 1..len + 1,
                      k < l, g[i].origin = all[k].origin
               PROVE  \E j \in i + 1..len + 1 : g[j].origin = all[l].origin
    BY <1>a, <1>d DEF InOrder
  <2>0. k # end
    BY <1>6
  <2>1. all[k] = notes[f[k]] /\ all[k].origin # m.origin /\ f[k] \in DOMAIN notes
    BY <1>b, <2>0
  <2>2. i \in 1..len /\ g[i] = h[i]
    BY <1>11, <2>1
  <2>3. CASE l = end
    BY <1>5, <1>8, <1>11, <2>2, <2>3
  <2>4. CASE l # end
    <3>1. all[l] = notes[f[l]] /\ f[l] \in DOMAIN notes
      BY <1>b, <2>4
    <3>4. f[k] < f[l]
      BY <1>c, <2>0, <2>4
    <3>5. i \in DOMAIN h /\ h[i].origin = notes[f[k]].origin
      BY <1>11, <2>1, <2>2
    <3>2. PICK j \in i + 1..len : h[j].origin = notes[f[l]].origin
      BY <1>10, <2>1, <3>1, <3>4, <3>5 DEF InTurn, InOrder
    <3>3. j \in i + 1..len + 1 /\ g[j].origin = all[l].origin
      BY <1>11, <2>2, <3>1, <3>2
    <3> QED BY <3>3
  <2> QED BY <2>3, <2>4
<1>14. Apart(all)
  <2> SUFFICES ASSUME NEW k \in 1..end, NEW l \in 1..end, all[k].origin = all[l].origin, k # l
               PROVE  FALSE
    BY <1>a DEF Apart
  <2>0. all[end].origin = m.origin
    BY <1>5, <1>8
  <2>1. CASE k = end
    <3>1. all[l].origin # m.origin
      BY <1>b, <2>1
    <3> QED BY <2>0, <2>1, <3>1
  <2>3. CASE l = end
    <3>1. all[k].origin # m.origin
      BY <1>b, <2>3
    <3> QED BY <2>0, <2>3, <3>1
  <2>2. CASE k # end /\ l # end
    <3>1. /\ all[k] = notes[f[k]] /\ all[l] = notes[f[l]] /\ f[k] \in Nat
          /\ f[k] \in DOMAIN notes /\ f[l] \in DOMAIN notes
      BY <1>b, <2>2
    <3>2. f[k] = f[l]
      BY <3>1 DEF InTurn, Apart
    <3>4. ~(k < l) /\ ~(l < k)
      BY <1>c, <2>2, <3>1, <3>2
    <3> QED BY <3>4
  <2> QED BY <2>1, <2>2, <2>3
<1>15. \A k \in DOMAIN all : (\E n \in DOMAIN notes : all[k] = notes[n]) \/ all[k] = note
  <2> SUFFICES ASSUME NEW k \in 1..end, k # end PROVE \E n \in DOMAIN notes : all[k] = notes[n]
    BY <1>8, <1>a
  <2>1. all[k] = notes[f[k]] /\ f[k] \in DOMAIN notes
    BY <1>b
  <2> QED BY <2>1
<1>16. Len(all) <= Len(notes) + 1
  BY <1>2, <1>6, <1>8
<1> QED BY <1>1, <1>4, <1>7, <1>8, <1>9, <1>12, <1>13, <1>14, <1>15, <1>16 DEF InTurn

\* What a notice is measured by.
LEMMA SeenIs ==
  ASSUME NEW notes \in Seq(Notes), Apart(notes), NEW o
  PROVE  /\ T!Seen(notes, o) \in Nat
         /\ \A k \in DOMAIN notes : notes[k].origin = o => T!Seen(notes, o) = notes[k].revision
         /\ T!Seen(notes, o) = 0 \/ \E k \in DOMAIN notes : notes[k].origin = o
<1> DEFINE of == {e \in T!Range(notes) : e.origin = o}
<1>2. PICK e : e = CHOOSE n \in of : TRUE
  OBVIOUS
<1>3. T!Seen(notes, o) = IF of = {} THEN 0 ELSE e.revision
  BY <1>2 DEF T!Seen
<1>4. \A k \in DOMAIN notes : notes[k].origin = o => notes[k] \in of
  BY DEF T!Range
<1> HIDE DEF of
<1>5. CASE of = {}
  BY <1>3, <1>4, <1>5
<1>6. CASE of # {}
  <2>1. e \in of
    BY <1>2, <1>6, Zenon
  <2>2. PICK k \in DOMAIN notes : notes[k] = e /\ notes[k].origin = o
    BY <2>1 DEF T!Range, of
  <2>3. T!Seen(notes, o) = notes[k].revision /\ notes[k] \in Notes
    BY <1>3, <1>6, <2>2
  <2>4. notes[k].revision \in Nat
    BY <2>3 DEF Notes
  <2>5. \A l \in DOMAIN notes : notes[l].origin = o => l = k
    BY <2>2 DEF Apart
  <2> QED BY <2>2, <2>3, <2>4, <2>5
<1> QED BY <1>5, <1>6

\* A notice that is acted on comes after those of its tab that are remembered.
LEMMA TurnsKept ==
  ASSUME ChannelFits, NEW h \in Seq(Tidings), NEW notes \in Seq(Notes), InTurn(h, notes),
         Len(notes) <= Remembered, Spaced(h), NEW m \in Tidings,
         m.revision > T!Seen(notes, m.origin)
  PROVE  LET rest == T!Remember(notes, m)
         IN  /\ rest \in Seq(Notes) /\ Len(rest) <= Remembered
             /\ InTurn(Append(h, m), rest) /\ Spaced(Append(h, m))
             /\ \A k \in DOMAIN rest : \/ \E n \in DOMAIN notes : rest[k] = notes[n]
                                       \/ rest[k] = [origin |-> m.origin, revision |-> m.revision]
<1>1. PICK all : all = Append(T!Forget(notes, m.origin),
                              [origin |-> m.origin, revision |-> m.revision])
  OBVIOUS
<1>2. m.revision \in Nat
  BY DEF Tidings
<1>3. \A k \in DOMAIN notes : notes[k].origin = m.origin => m.revision > notes[k].revision
  BY SeenIs DEF InTurn
<1>4. /\ all \in Seq(Notes) /\ Len(all) <= Len(notes) + 1
      /\ InTurn(Append(h, m), all)
      /\ \A k \in DOMAIN all : \/ \E n \in DOMAIN notes : all[k] = notes[n]
                               \/ all[k] = [origin |-> m.origin, revision |-> m.revision]
  <2>1. \A k \in DOMAIN notes : notes[k].origin = m.origin => m.revision >= notes[k].revision
    <3>1. \A k \in DOMAIN notes : notes[k].revision \in Nat
      BY NotesAre
    <3> QED BY <1>2, <1>3, <3>1
  <2> QED BY <1>1, <2>1, MovesToTheEnd
<1>5. PICK rest : rest = T!Remember(notes, m)
  OBVIOUS
<1>6. rest = IF Len(all) > Remembered THEN Tail(all) ELSE all
  BY <1>1, <1>5, Zenon DEF T!Remember
<1>7. Append(h, m) \in Seq(Tidings) /\ Remembered \in Nat /\ Len(all) \in Nat /\ Len(notes) \in Nat
  BY <1>4 DEF ChannelFits
<1>8. /\ rest \in Seq(Notes) /\ Len(rest) <= Remembered /\ InTurn(Append(h, m), rest)
      /\ \A k \in DOMAIN rest : \E l \in DOMAIN all : rest[k] = all[l]
  <2>1. CASE Len(all) > Remembered
    <3>1. Len(all) = Remembered + 1
      BY <1>4, <1>7, <2>1
    <3>2. rest = Tail(all)
      BY <1>6, <2>1
    <3>3. rest \in Seq(Notes) /\ Len(rest) <= Remembered /\ InTurn(Append(h, m), rest)
      <4>1. PICK g \in Seq(Tidings) : g = Append(h, m)
        BY <1>7
      <4>2. InTurn(g, all) /\ all \in Seq(Notes)
        BY <1>4, <4>1
      <4>3. InTurn(g, rest) /\ rest \in Seq(Notes) /\ Len(rest) = Remembered
        BY <3>1, <3>2, <4>2, OneForgotten
      <4> QED BY <1>7, <4>1, <4>3
    <3>4. \A k \in DOMAIN rest : k + 1 \in DOMAIN all /\ rest[k] = all[k + 1]
      BY <1>4, <1>7, <3>1, <3>2
    <3> QED BY <3>3, <3>4
  <2>2. CASE ~(Len(all) > Remembered)
    BY <1>4, <1>6, <1>7, <2>2
  <2> QED BY <2>1, <2>2
<1>9. PICK g : g = Append(h, m)
  OBVIOUS
<1>10. PICK len \in Nat : len = Len(h)
  OBVIOUS
<1>11. /\ DOMAIN g = 1..len + 1 /\ DOMAIN h = 1..len
       /\ g[len + 1] = m /\ \A i \in 1..len : g[i] = h[i]
  BY <1>9, <1>10
<1>12. ASSUME NEW j \in 1..len + 1, NEW i \in 1..j - 1, g[i].origin = g[j].origin
       PROVE  g[i].revision < g[j].revision \/ Crowded(g, i, j - 1)
  <2>0. i \in 1..len /\ g[i] = h[i] /\ j - 1 \in 0..len
    BY <1>11
  <2>1. CASE j = len + 1
    <3>1. CASE Crowded(h, i, len)
      BY <1>9, <1>10, <2>0, <2>1, <3>1, StaysCrowded
    <3>2. CASE ~Crowded(h, i, len)
      <4>1. PICK k \in DOMAIN notes : Covers(notes[k], h[i])
        BY <1>10, <1>11, <2>0, <3>2 DEF InTurn, Recalled
      <4>2. notes[k].origin = m.origin /\ notes[k].revision >= h[i].revision
        BY <1>11, <1>12, <2>0, <2>1, <4>1 DEF Covers
      <4>3. m.revision > notes[k].revision
        BY <1>3, <4>2
      <4>4. h[i].revision \in Nat /\ notes[k].revision \in Nat
        BY <1>11, <2>0, TidingsAre, NotesAre
      <4> QED BY <1>2, <1>11, <2>0, <2>1, <4>2, <4>3, <4>4
    <3> QED BY <3>1, <3>2
  <2>2. CASE j # len + 1
    <3>1. j \in 1..len /\ g[j] = h[j]
      BY <1>11, <2>2
    <3>2. h[i].revision < h[j].revision \/ Crowded(h, i, j - 1)
      BY <1>11, <1>12, <2>0, <3>1 DEF Spaced
    <3>3. Crowded(h, i, j - 1) => Crowded(g, i, j - 1)
      BY <1>9, <1>10, <2>0, StaysCrowded
    <3> QED BY <2>0, <3>1, <3>2, <3>3
  <2> QED BY <2>1, <2>2
<1>13. Spaced(g)
  BY <1>11, <1>12 DEF Spaced
<1>14. \A k \in DOMAIN rest : \/ \E n \in DOMAIN notes : rest[k] = notes[n]
                              \/ rest[k] = [origin |-> m.origin, revision |-> m.revision]
  BY <1>4, <1>8
<1> QED BY <1>5, <1>8, <1>9, <1>13, <1>14

\* What a tab has announced, and what every page keeps of it.
ChannelTab == [origin : Sources, closed : BOOLEAN, revision : Nat, read : T!Reading]
Announced(o, r, tabs, n) == o[2] <= n /\ \A q \in Pages : o = tabs[q].origin => r <= tabs[q].revision
TabFits(p) == tab[p].origin[1] = p /\ tab[p].origin[2] <= faults /\ tab[p].revision <= said
MailFits(m, tabs, n) ==
  m.event => m.origin[2] <= MaxFaults /\ (m.sound => Announced(m.origin, m.revision, tabs, n))
MapFits(p) ==
  /\ \A k \in DOMAIN lastRevision[p] :
       Announced(lastRevision[p][k].origin, lastRevision[p][k].revision, tab, faults)
  /\ Len(lastRevision[p]) <= Remembered
  /\ InTurn(heard[p], lastRevision[p]) /\ Spaced(heard[p])
  /\ \A j \in DOMAIN heard[p] : heard[p][j].origin # tab[p].origin
Calls(p, ty, m, tabs, notes) ==
  /\ m.event /\ m.origin # tabs[p].origin /\ m.type = ty
  /\ ty = "REGISTRY_CHANGED" => T!Accepts(notes, m)
UpToDate(p, ty) == tab[p].read[T!Subject(ty)] = world[T!Subject(ty)]
Reached(p, ty) ==
  \/ tab[p].closed \/ UpToDate(p, ty)
  \/ \E i \in DOMAIN wire[p] : Calls(p, ty, wire[p][i], tab, lastRevision[p])
InReach == means.transport # "none" /\ ~(means.transport = "storage" /\ means.refuses)
ChannelTyped ==
  /\ means.transport \in T!Transports
  /\ said \in 0..MaxSaid /\ faults \in 0..MaxFaults
  /\ world \in T!Reading /\ world.registry <= said /\ world.chain <= said
  /\ cell = Nil \/ (cell \in Envelopes /\ cell.nonce <= said)
  /\ tab \in [Pages -> ChannelTab] /\ wire \in [Pages -> Seq(Mail)]
  /\ heard \in [Pages -> Seq(Tidings)] /\ lastRevision \in [Pages -> Seq(Notes)]
ChannelInv ==
  /\ ChannelTyped
  /\ \A p \in Pages : /\ TabFits(p) /\ MapFits(p)
                       /\ \A i \in DOMAIN wire[p] : MailFits(wire[p][i], tab, faults)
  /\ InReach => \A p \in Pages, ty \in T!Types : Reached(p, ty)

\* No tab takes back what it has announced; one that comes back has a new name.
Onward ==
  /\ faults' >= faults
  /\ \A q \in Pages : \/ tab'[q].origin = tab[q].origin /\ tab'[q].revision >= tab[q].revision
                      \/ tab'[q].origin[2] > faults
LEMMA StaysAnnounced ==
  ASSUME ChannelFits, ChannelTyped, ChannelTyped', Onward,
         NEW o \in Sources, NEW r \in Nat, Announced(o, r, tab, faults)
  PROVE  Announced(o, r, tab', faults')
<1>1. o[2] \in Nat /\ faults \in Nat /\ faults' \in Nat
  BY DEF Sources, ChannelTyped, ChannelFits
<1>2. o[2] <= faults'
  BY <1>1 DEF Announced, Onward
<1>3. ASSUME NEW q \in Pages, o = tab'[q].origin PROVE r <= tab'[q].revision
  <2>1. tab[q] \in ChannelTab /\ tab'[q] \in ChannelTab
    BY DEF ChannelTyped
  <2>2. tab[q].revision \in Nat /\ tab'[q].revision \in Nat
    BY <2>1 DEF ChannelTab
  <2>3. ~(tab'[q].origin[2] > faults)
    BY <1>1, <1>3 DEF Announced
  <2>4. tab'[q].origin = tab[q].origin /\ tab'[q].revision >= tab[q].revision
    BY <2>3 DEF Onward
  <2>5. r <= tab[q].revision
    BY <1>3, <2>4 DEF Announced
  <2> QED BY <2>2, <2>4, <2>5
<1> QED BY <1>2, <1>3 DEF Announced

\* A page that hears nothing new, and is told nothing it did not know.
Apace(p) == lastRevision'[p] = lastRevision[p] /\ heard'[p] = heard[p] /\ tab'[p].origin = tab[p].origin
LEMMA ChannelHolds ==
  ASSUME ChannelFits, ChannelInv, ChannelTyped', Onward,
         \A p \in Pages : TabFits(p)',
         \A p \in Pages : Apace(p) \/ MapFits(p)',
         \A p \in Pages : \A i \in DOMAIN wire'[p] :
            (\E j \in DOMAIN wire[p] : wire'[p][i] = wire[p][j])
              \/ MailFits(wire'[p][i], tab', faults'),
         InReach' => \A p \in Pages, ty \in T!Types : Reached(p, ty)'
  PROVE  ChannelInv'
<1>1. ASSUME NEW p \in Pages PROVE MapFits(p)'
  <2>1. CASE Apace(p)
    <3>1. MapFits(p) /\ lastRevision[p] \in Seq(Notes)
      BY DEF ChannelInv, ChannelTyped
    <3>2. ASSUME NEW k \in DOMAIN lastRevision'[p]
          PROVE  Announced(lastRevision'[p][k].origin, lastRevision'[p][k].revision, tab', faults')
      <4>1. PICK n : n = lastRevision[p][k]
        OBVIOUS
      <4>2. n.origin \in Sources /\ n.revision \in Nat /\ Announced(n.origin, n.revision, tab, faults)
        BY <2>1, <3>1, <3>2, <4>1, NotesAre DEF Apace, MapFits
      <4>3. Announced(n.origin, n.revision, tab', faults')
        BY <4>2, StaysAnnounced DEF ChannelInv
      <4> QED BY <2>1, <4>1, <4>3 DEF Apace
    <3> QED BY <2>1, <3>1, <3>2 DEF MapFits, Apace
  <2> QED BY <2>1
<1>2. ASSUME NEW p \in Pages, NEW i \in DOMAIN wire'[p] PROVE MailFits(wire'[p][i], tab', faults')
  <2>1. ASSUME NEW j \in DOMAIN wire[p], wire'[p][i] = wire[p][j] PROVE MailFits(wire'[p][i], tab', faults')
    <3>1. PICK m : m = wire[p][j]
      OBVIOUS
    <3>2. m \in Mail /\ MailFits(m, tab, faults)
      BY <3>1 DEF ChannelInv, ChannelTyped
    <3>3. ASSUME m.event PROVE m.origin \in Sources /\ m.revision \in Nat
      <4>1. CASE m = [event |-> FALSE]
        BY <3>3, <4>1
      <4>2. CASE m \in Tidings
        BY <4>2 DEF Tidings
      <4> QED BY <3>2, <4>1, <4>2 DEF Mail
    <3>4. ASSUME m.event, m.sound PROVE Announced(m.origin, m.revision, tab', faults')
      BY <3>2, <3>3, <3>4, StaysAnnounced DEF ChannelInv, MailFits
    <3>5. MailFits(m, tab', faults')
      BY <3>2, <3>4 DEF MailFits
    <3> QED BY <2>1, <3>1, <3>5
  <2> QED BY <2>1
<1> QED BY <1>1, <1>2 DEF ChannelInv

\* A page that was reached is, as long as its mail is.
LEMMA StaysReached ==
  ASSUME ChannelFits, ChannelTyped, NEW p \in Pages, NEW ty \in T!Types, Reached(p, ty),
         tab'[p].closed = tab[p].closed \/ tab'[p].closed, tab'[p].origin = tab[p].origin,
         tab'[p].read[T!Subject(ty)] = tab[p].read[T!Subject(ty)] \/ UpToDate(p, ty)',
         world'[T!Subject(ty)] = world[T!Subject(ty)],
         lastRevision'[p] = lastRevision[p],
         \A i \in DOMAIN wire[p] : \E j \in DOMAIN wire'[p] : wire'[p][j] = wire[p][i]
  PROVE  Reached(p, ty)'
<1>1. CASE tab[p].closed
  BY <1>1 DEF Reached
<1>2. CASE UpToDate(p, ty)
  BY <1>2 DEF Reached, UpToDate
<1>3. ASSUME NEW i \in DOMAIN wire[p], Calls(p, ty, wire[p][i], tab, lastRevision[p])
      PROVE  Reached(p, ty)'
  <2>1. PICK j \in DOMAIN wire'[p] : wire'[p][j] = wire[p][i]
    OBVIOUS
  <2>2. PICK m : m = wire[p][i]
    OBVIOUS
  <2>3. Calls(p, ty, m, tab', lastRevision'[p])
    BY <1>3, <2>2 DEF Calls
  <2>4. Calls(p, ty, wire'[p][j], tab', lastRevision'[p])
    BY <2>1, <2>2, <2>3
  <2> QED BY <2>1, <2>4 DEF Reached
<1> QED BY <1>1, <1>2, <1>3 DEF Reached

Changed(r, ty, v) == [r EXCEPT ![T!Subject(ty)] = v]
LEMMA SubjectsAre ==
  ASSUME NEW ty \in T!Types, NEW r \in T!Reading, NEW v \in 0..MaxSaid
  PROVE  LET s == Changed(r, ty, v)
         IN  /\ T!Subject(ty) \in {"registry", "chain"} /\ r[T!Subject(ty)] \in 0..MaxSaid
             /\ s \in T!Reading /\ s[T!Subject(ty)] = v
             /\ \A tz \in T!Types \ {ty} : s[T!Subject(tz)] = r[T!Subject(tz)]
<1>1. CASE ty = "REGISTRY_CHANGED"
  BY <1>1 DEF T!Subject, T!Types, T!Reading, Changed
<1>2. CASE ty = "FREEZE_STATE_CHANGED"
  BY <1>2 DEF T!Subject, T!Types, T!Reading, Changed
<1> QED BY <1>1, <1>2 DEF T!Types

LEMMA SubjectIs == ASSUME NEW ty \in T!Types PROVE T!Subject(ty) \in {"registry", "chain"}
BY DEF T!Subject

\* A page reads one of the two again.
Reread(t, ty, v) == [t EXCEPT !.read[T!Subject(ty)] = v]
LEMMA RereadIs ==
  ASSUME NEW t \in ChannelTab, NEW ty \in T!Types, NEW v \in 0..MaxSaid
  PROVE  LET new == Reread(t, ty, v)
         IN  /\ new \in ChannelTab
             /\ new.origin = t.origin /\ new.closed = t.closed /\ new.revision = t.revision
             /\ new.read[T!Subject(ty)] = v
             /\ \A tz \in T!Types \ {ty} : new.read[T!Subject(tz)] = t.read[T!Subject(tz)]
<1>1. PICK r \in T!Reading : r = t.read
  BY DEF ChannelTab
<1>2. PICK s : s = Changed(r, ty, v)
  OBVIOUS
<1>3. /\ s \in T!Reading /\ s[T!Subject(ty)] = v
      /\ \A tz \in T!Types \ {ty} : s[T!Subject(tz)] = r[T!Subject(tz)]
  BY <1>2, SubjectsAre, SMTT(30)
<1>4. PICK new : new = [t EXCEPT !.read = s]
  OBVIOUS
<1>5. Reread(t, ty, v) = new
  BY <1>1, <1>2, <1>4 DEF Reread, Changed
<1>6. new = [origin |-> t.origin, closed |-> t.closed, revision |-> t.revision, read |-> s]
  BY <1>4 DEF ChannelTab
<1>7. /\ new \in ChannelTab /\ new.origin = t.origin /\ new.closed = t.closed
      /\ new.revision = t.revision /\ new.read = s
  BY <1>3, <1>6 DEF ChannelTab
<1> QED BY <1>1, <1>3, <1>5, <1>7

\* What is announced is on the way to every other page that is open.
LEMMA AnnounceFits ==
  ASSUME ChannelFits, ChannelInv, NEW p \in Pages, NEW ty \in T!Types, T!Announce(p, ty)
  PROVE  ChannelInv'
<1>0. /\ said \in Nat /\ faults \in Nat /\ MaxSaid \in Nat /\ MaxFaults \in Nat
      /\ said < MaxSaid /\ faults <= MaxFaults /\ said' = said + 1 /\ ~tab[p].closed
      /\ UNCHANGED <<means, lastRevision, heard, faults>>
  BY DEF ChannelInv, ChannelTyped, ChannelFits, T!Announce
<1>1. PICK s \in {"registry", "chain"} : s = T!Subject(ty)
  BY SubjectIs
<1>2. world \in T!Reading /\ world[s] <= said /\ world[s] \in Nat
  BY <1>1 DEF ChannelInv, ChannelTyped, T!Reading
<1>3. PICK v \in 0..MaxSaid : v = world[s] + 1
  BY <1>0, <1>2
<1>4. world' = [world EXCEPT ![s] = v]
  BY <1>1, <1>3 DEF T!Announce
<1>5. /\ world' \in T!Reading /\ world'[s] = v /\ v <= said'
      /\ world'.registry <= said' /\ world'.chain <= said'
  <2>1. world' \in T!Reading /\ world'[s] = v /\ v <= said'
    <3>1. world' = Changed(world, ty, v)
      BY <1>1, <1>4 DEF Changed
    <3>2. world' \in T!Reading /\ world'[s] = v
      BY <1>1, <1>2, <3>1, SubjectsAre
    <3> QED BY <1>0, <1>2, <1>3, <3>2
  <2>2. world.registry \in Nat /\ world.chain \in Nat /\ world.registry <= said /\ world.chain <= said
    BY DEF ChannelInv, ChannelTyped, T!Reading
  <2>3. CASE s = "registry"
    <3>1. world'.chain = world.chain /\ world'.registry = v
      BY <1>2, <1>4, <2>3 DEF T!Reading
    <3> QED BY <1>0, <2>1, <2>2, <3>1
  <2>4. CASE s = "chain"
    <3>1. world'.registry = world.registry /\ world'.chain = v
      BY <1>2, <1>4, <2>4 DEF T!Reading
    <3> QED BY <1>0, <2>1, <2>2, <3>1
  <2> QED BY <2>1, <2>3, <2>4
<1>6. PICK rev : rev = IF ty = "REGISTRY_CHANGED" THEN tab[p].revision + 1 ELSE tab[p].revision
  OBVIOUS
<1>7. /\ tab \in [Pages -> ChannelTab] /\ tab[p] \in ChannelTab /\ tab[p].revision \in Nat
      /\ TabFits(p)
  BY DEF ChannelInv, ChannelTyped, ChannelTab
<1>8. rev \in Nat /\ rev >= tab[p].revision /\ rev <= said'
  BY <1>0, <1>6, <1>7 DEF TabFits
<1>9. PICK t1 : t1 = [tab[p] EXCEPT !.revision = rev]
  OBVIOUS
<1>10. t1 = [origin |-> tab[p].origin, closed |-> tab[p].closed, revision |-> rev,
             read |-> tab[p].read]
  BY <1>7, <1>9 DEF ChannelTab
<1>11. t1 \in ChannelTab /\ t1.origin = tab[p].origin /\ t1.closed = tab[p].closed
       /\ t1.revision = rev /\ t1.read = tab[p].read
  BY <1>7, <1>8, <1>10 DEF ChannelTab
<1>12. PICK t2 : t2 = Reread(t1, ty, v)
  OBVIOUS
<1>13. /\ t2 \in ChannelTab /\ t2.origin = tab[p].origin /\ t2.closed = tab[p].closed
       /\ t2.revision = rev /\ t2.read[s] = v
       /\ \A tz \in T!Types \ {ty} : t2.read[T!Subject(tz)] = tab[p].read[T!Subject(tz)]
  BY <1>1, <1>11, <1>12, RereadIs
<1>14. tab' = [tab EXCEPT ![p] = t2]
  <2>1. tab' = [tab EXCEPT ![p].revision = IF ty = "REGISTRY_CHANGED" THEN @ + 1 ELSE @,
                           ![p].read[T!Subject(ty)] = world'[T!Subject(ty)]]
    BY DEF T!Announce
  <2>2. PICK first : first = [tab EXCEPT ![p].revision = rev]
    OBVIOUS
  <2>3. first = [tab EXCEPT ![p] = t1] /\ first[p] = t1
    BY <1>7, <1>9, <2>2
  <2>4. tab' = [first EXCEPT ![p].read[s] = v]
    BY <1>1, <1>5, <1>6, <2>1, <2>2
  <2>5. tab' = [first EXCEPT ![p] = [t1 EXCEPT !.read[s] = v]]
    BY <2>3, <2>4
  <2>6. tab' = [first EXCEPT ![p] = t2]
    BY <1>1, <1>12, <2>5 DEF Reread
  <2> QED BY <1>7, <2>3, <2>6
<1>15. /\ tab' \in [Pages -> ChannelTab] /\ tab'[p] = t2
       /\ \A q \in Pages \ {p} : tab'[q] = tab[q]
  BY <1>7, <1>13, <1>14
<1>16. \A q \in Pages : /\ tab'[q].origin = tab[q].origin /\ tab'[q].closed = tab[q].closed
                        /\ tab'[q].revision >= tab[q].revision
  <2>1. \A q \in Pages : tab[q].revision \in Nat
    BY <1>7 DEF ChannelTab
  <2> QED BY <1>8, <1>13, <1>15, <2>1
<1>17. PICK e : e = T!Event(ty, tab[p].origin, IF ty = "REGISTRY_CHANGED" THEN rev ELSE 0)
  OBVIOUS
<1>18. /\ e \in Tidings /\ e.event /\ e.sound /\ e.type = ty /\ e.origin = tab[p].origin
       /\ (ty = "REGISTRY_CHANGED" => e.revision = rev) /\ e.revision <= rev /\ e.revision \in Nat
  <2>1. PICK n \in Nat : n = IF ty = "REGISTRY_CHANGED" THEN rev ELSE 0
    BY <1>8
  <2>2. e = [event |-> TRUE, type |-> ty, origin |-> tab[p].origin, sound |-> TRUE, revision |-> n]
    BY <1>17, <2>1 DEF T!Event
  <2>3. tab[p].origin \in Sources
    BY <1>7 DEF ChannelTab
  <2> QED BY <1>8, <2>1, <2>2, <2>3 DEF Tidings
<1>19. T!Send(p, e)
  <2>1. T!Send(p, T!Event(ty, tab[p].origin,
                          IF ty = "REGISTRY_CHANGED" THEN tab'[p].revision ELSE 0))
    BY DEF T!Announce
  <2>2. tab'[p].revision = rev
    BY <1>13, <1>15
  <2> QED BY <1>17, <2>1, <2>2
<1>20. PICK out : out = T!Reaches(p, e)
  OBVIOUS
<1>21. /\ wire \in [Pages -> Seq(Mail)] /\ out \in [Pages -> Seq(Mail)]
       /\ \A q \in Pages : out[q] = wire[q] \/ out[q] = Append(wire[q], e)
       /\ \A q \in Pages \ {p} : tab[q].closed \/ out[q] = Append(wire[q], e)
  <2>1. out = [q \in Pages |-> IF (q # p \/ means.echoes) /\ ~tab[q].closed
                               THEN Append(wire[q], e) ELSE wire[q]]
    BY <1>20 DEF T!Reaches
  <2>2. wire \in [Pages -> Seq(Mail)] /\ e \in Mail
    BY <1>18 DEF ChannelInv, ChannelTyped, Mail
  <2>3. \A q \in Pages : wire[q] \in Seq(Mail) /\ Append(wire[q], e) \in Seq(Mail)
    BY <2>2
  <2> QED BY <2>1, <2>2, <2>3
<1>22. PICK value : value = T!Envelope(e, said + 1)
  OBVIOUS
<1>23. value \in Envelopes /\ value.nonce = said + 1 /\ value # cell
  <2>1. value = [nonce |-> said + 1, event |-> e]
    BY <1>22 DEF T!Envelope
  <2>2. value \in Envelopes /\ value.nonce = said + 1
    BY <1>0, <1>18, <2>1 DEF Envelopes
  <2>3. cell = Nil \/ (cell.nonce <= said)
    BY DEF ChannelInv, ChannelTyped
  <2>4. value # cell
    BY <1>0, <2>2, <2>3 DEF ChannelFits
  <2> QED BY <2>2, <2>4
<1>24. /\ wire' = wire \/ (wire' = out /\ means.transport # "none")
       /\ InReach => wire' = out
       /\ cell' = cell \/ cell' = value
  <2>1. means.transport \in {"broadcast", "storage", "none"}
    BY DEF ChannelInv, ChannelTyped, T!Transports
  <2>2. CASE means.transport = "none"
    BY <1>19, <2>2 DEF T!Send, InReach
  <2>3. CASE means.transport = "broadcast"
    BY <1>19, <1>20, <2>3 DEF T!Send, InReach
  <2>4. CASE means.transport = "storage"
    <3>1. IF means.refuses THEN UNCHANGED <<cell, wire>>
          ELSE cell' = value /\ wire' = IF value = cell THEN wire ELSE out
      BY <1>19, <1>20, <1>22, <2>4, Zenon DEF T!Send
    <3> QED BY <1>23, <2>4, <3>1 DEF InReach
  <2> QED BY <2>1, <2>2, <2>3, <2>4
<1>25. ChannelTyped'
  <2>1. wire' \in [Pages -> Seq(Mail)]
    BY <1>21, <1>24
  <2>2. cell' = Nil \/ (cell' \in Envelopes /\ cell'.nonce <= said')
    <3>1. cell = Nil \/ (cell \in Envelopes /\ cell.nonce <= said)
      BY DEF ChannelInv, ChannelTyped
    <3>2. ASSUME cell \in Envelopes, cell.nonce <= said PROVE cell.nonce <= said'
      <4>1. cell.nonce \in Nat
        BY <3>2 DEF Envelopes
      <4> QED BY <1>0, <3>2, <4>1
    <3> QED BY <1>0, <1>23, <1>24, <3>1, <3>2
  <2>3. said' \in 0..MaxSaid
    BY <1>0
  <2> QED BY <1>0, <1>5, <1>15, <2>1, <2>2, <2>3 DEF ChannelInv, ChannelTyped
<1>26. Onward
  BY <1>0, <1>16 DEF Onward
<1>27. ASSUME NEW q \in Pages PROVE TabFits(q)'
  <2>1. TabFits(q) /\ tab[q].revision \in Nat
    BY <1>7 DEF ChannelInv, ChannelTab
  <2>2. tab'[q].revision <= said'
    BY <1>0, <1>8, <1>13, <1>15, <2>1 DEF TabFits
  <2> QED BY <1>0, <1>16, <2>1, <2>2 DEF TabFits
<1>28. MailFits(e, tab', faults')
  <2>1. e.origin[1] = p /\ e.origin[2] <= faults /\ e.origin \in Sources
    BY <1>7, <1>18 DEF TabFits, ChannelTab
  <2>2. e.origin[2] \in Nat
    BY <2>1 DEF Sources
  <2>3. ASSUME NEW q \in Pages, e.origin = tab'[q].origin PROVE e.revision <= tab'[q].revision
    <3>1. tab'[q].origin[1] = q
      BY <1>27 DEF TabFits
    <3> QED BY <1>13, <1>15, <1>18, <2>1, <2>3, <3>1
  <2> QED BY <1>0, <2>1, <2>2, <2>3 DEF MailFits, Announced
<1>29. ASSUME NEW q \in Pages, NEW i \in DOMAIN wire'[q]
       PROVE  \/ \E j \in DOMAIN wire[q] : wire'[q][i] = wire[q][j]
              \/ MailFits(wire'[q][i], tab', faults')
  <2>1. CASE wire'[q] = wire[q]
    BY <2>1
  <2>2. CASE wire'[q] = Append(wire[q], e)
    <3>1. wire[q] \in Seq(Mail)
      BY <1>21
    <3>2. wire'[q][i] = e \/ (i \in DOMAIN wire[q] /\ wire'[q][i] = wire[q][i])
      BY <2>2, <3>1
    <3> QED BY <1>28, <3>2
  <2> QED BY <1>21, <1>24, <2>1, <2>2
<1>30. ASSUME InReach, NEW q \in Pages, NEW tz \in T!Types PROVE Reached(q, tz)'
  <2>0. Reached(q, tz) /\ wire[q] \in Seq(Mail) /\ wire' = out
    BY <1>21, <1>24, <1>30 DEF ChannelInv
  <2>1. \A i \in DOMAIN wire[q] : \E j \in DOMAIN wire'[q] : wire'[q][j] = wire[q][i]
    <3>1. ASSUME wire'[q] = Append(wire[q], e), NEW i \in DOMAIN wire[q]
          PROVE  i \in DOMAIN wire'[q] /\ wire'[q][i] = wire[q][i]
      BY <2>0, <3>1
    <3> QED BY <1>21, <2>0, <3>1
  <2>2. CASE tz # ty
    <3>1. world'[T!Subject(tz)] = world[T!Subject(tz)]
      <4>1. world' = Changed(world, ty, v)
        BY <1>1, <1>4 DEF Changed
      <4> QED BY <1>2, <2>2, <4>1, SubjectsAre, SMTT(30)
    <3>2. tab'[q].read[T!Subject(tz)] = tab[q].read[T!Subject(tz)]
      BY <1>13, <1>15, <2>2
    <3> QED BY <1>0, <1>16, <2>0, <2>1, <3>1, <3>2, StaysReached DEF ChannelInv
  <2>3. CASE tz = ty /\ q = p
    <3>1. UpToDate(q, tz)'
      BY <1>1, <1>5, <1>13, <1>15, <2>3 DEF UpToDate
    <3> QED BY <3>1 DEF Reached
  <2>4. CASE tz = ty /\ q # p /\ ~tab[q].closed
    <3>1. wire'[q] = Append(wire[q], e)
      BY <1>21, <2>0, <2>4
    <3>2. PICK i : i = Len(wire[q]) + 1
      OBVIOUS
    <3>3. i \in DOMAIN wire'[q] /\ wire'[q][i] = e
      BY <2>0, <3>1, <3>2
    <3>4. e.origin # tab'[q].origin
      <4>1. e.origin[1] = p /\ tab'[q].origin[1] = q
        BY <1>7, <1>18, <1>27 DEF TabFits
      <4> QED BY <2>4, <4>1
    <3>5. ASSUME ty = "REGISTRY_CHANGED" PROVE T!Accepts(lastRevision[q], e)
      <4>1. lastRevision[q] \in Seq(Notes) /\ MapFits(q)
        BY DEF ChannelInv, ChannelTyped
      <4>2. PICK notes \in Seq(Notes) : notes = lastRevision[q]
        BY <4>1
      <4>3. e.revision = tab[p].revision + 1
        BY <1>6, <1>18, <3>5
      <4>4. \A k \in DOMAIN notes : notes[k].origin = e.origin =>
               notes[k].revision <= tab[p].revision /\ notes[k].revision \in Nat
        BY <1>18, <4>1, <4>2, NotesAre DEF MapFits, Announced
      <4>5. T!Seen(notes, e.origin) <= tab[p].revision /\ T!Seen(notes, e.origin) \in Nat
        <5>1. Apart(notes)
          BY <4>1, <4>2 DEF MapFits, InTurn
        <5> QED BY <1>7, <4>4, <5>1, SeenIs
      <4>6. e.revision > T!Seen(notes, e.origin)
        BY <1>7, <4>3, <4>5
      <4> QED BY <1>18, <4>2, <4>6 DEF T!Accepts
    <3>6. Calls(q, ty, e, tab', lastRevision'[q])
      BY <1>0, <1>18, <3>4, <3>5 DEF Calls
    <3>7. Calls(q, ty, wire'[q][i], tab', lastRevision'[q])
      BY <3>3, <3>6
    <3> QED BY <2>4, <3>3, <3>7 DEF Reached
  <2>5. CASE tab[q].closed
    BY <1>16, <2>5 DEF Reached
  <2> QED BY <2>2, <2>3, <2>4, <2>5
<1>31. InReach' => InReach
  BY <1>0 DEF InReach
<1>32. \A q \in Pages : Apace(q)
  BY <1>0, <1>16 DEF Apace
<1> QED BY <1>25, <1>26, <1>27, <1>29, <1>30, <1>31, <1>32, ChannelHolds

\* A message that makes its page read, and one that is noted too.
Acts(p, m) == T!Passes(p, m) /\ (m.type = "REGISTRY_CHANGED" => T!Accepts(lastRevision[p], m))
Noted(p, m) == Acts(p, m) /\ m.type = "REGISTRY_CHANGED"

LEMMA MailIs == ASSUME NEW m \in Mail, m.event PROVE m \in Tidings
<1>1. CASE m = [event |-> FALSE]
  BY <1>1
<1>2. CASE m \in Tidings
  BY <1>2
<1> QED BY <1>1, <1>2 DEF Mail

\* What a page keeps when it notes a message.
LEMMA NotedFits ==
  ASSUME ChannelFits, ChannelInv, ChannelTyped', Onward, NEW p \in Pages, NEW m \in Tidings,
         MailFits(m, tab, faults), Noted(p, m), tab'[p].origin = tab[p].origin,
         lastRevision' = [lastRevision EXCEPT ![p] = T!Remember(@, m)],
         heard' = [heard EXCEPT ![p] = Append(@, m)]
  PROVE  MapFits(p)'
<1>1. PICK h \in Seq(Tidings) : h = heard[p]
  BY DEF ChannelInv, ChannelTyped
<1>2. PICK notes \in Seq(Notes) : notes = lastRevision[p]
  BY DEF ChannelInv, ChannelTyped
<1>3. /\ heard \in [Pages -> Seq(Tidings)] /\ lastRevision \in [Pages -> Seq(Notes)]
      /\ MapFits(p)
  BY DEF ChannelInv, ChannelTyped
<1>4. PICK rest : rest = T!Remember(notes, m)
  OBVIOUS
<1>5. PICK g : g = Append(h, m)
  OBVIOUS
<1>6. lastRevision'[p] = rest /\ heard'[p] = g
  BY <1>1, <1>2, <1>3, <1>4, <1>5
<1>7. InTurn(h, notes) /\ Len(notes) <= Remembered /\ Spaced(h)
  BY <1>1, <1>2, <1>3 DEF MapFits
<1>8. m.sound /\ m.revision > T!Seen(notes, m.origin) /\ m.event /\ m.origin # tab[p].origin
  BY <1>2 DEF Noted, Acts, T!Accepts, T!Passes
<1>9. /\ rest \in Seq(Notes) /\ Len(rest) <= Remembered /\ InTurn(g, rest) /\ Spaced(g)
      /\ \A k \in DOMAIN rest : \/ \E n \in DOMAIN notes : rest[k] = notes[n]
                                \/ rest[k] = [origin |-> m.origin, revision |-> m.revision]
  BY <1>4, <1>5, <1>7, <1>8, TurnsKept
<1>10. ASSUME NEW k \in DOMAIN rest
       PROVE  Announced(rest[k].origin, rest[k].revision, tab', faults')
  <2>1. PICK o \in Sources : o = rest[k].origin
    BY <1>9, NotesAre
  <2>2. PICK r \in Nat : r = rest[k].revision
    BY <1>9, NotesAre
  <2>3. Announced(o, r, tab, faults)
    <3>1. CASE rest[k] = [origin |-> m.origin, revision |-> m.revision]
      BY <1>8, <2>1, <2>2, <3>1 DEF MailFits
    <3>2. ASSUME NEW n \in DOMAIN notes, rest[k] = notes[n] PROVE Announced(o, r, tab, faults)
      BY <1>2, <1>3, <2>1, <2>2, <3>2 DEF MapFits
    <3> QED BY <1>9, <3>1, <3>2
  <2>4. Announced(o, r, tab', faults')
    BY <2>3, StaysAnnounced DEF ChannelInv
  <2> QED BY <2>1, <2>2, <2>4
<1>11. ASSUME NEW j \in DOMAIN g PROVE g[j].origin # tab'[p].origin
  <2>1. g[j] = m \/ (j \in DOMAIN h /\ g[j] = h[j])
    BY <1>5
  <2>2. \A i \in DOMAIN h : h[i].origin # tab[p].origin
    BY <1>1, <1>3 DEF MapFits
  <2> QED BY <1>8, <2>1, <2>2
<1> QED BY <1>6, <1>9, <1>10, <1>11 DEF MapFits

\* A page that acts has read what it was told of; the rest is still on its way.
LEMMA DeliverFits ==
  ASSUME ChannelFits, ChannelInv, NEW p \in Pages, T!Deliver(p)
  PROVE  ChannelInv'
<1>1. PICK m : m = Head(wire[p])
  OBVIOUS
<1>2. /\ wire \in [Pages -> Seq(Mail)] /\ wire[p] \in Seq(Mail) /\ wire[p] # <<>>
      /\ wire' = [wire EXCEPT ![p] = Tail(@)] /\ UNCHANGED <<means, world, cell, said, faults>>
  BY DEF ChannelInv, ChannelTyped, T!Deliver
<1>3. m \in Mail /\ 1 \in DOMAIN wire[p] /\ wire[p][1] = m
  BY <1>1, <1>2
<1>4. MailFits(m, tab, faults) /\ (m.event => m \in Tidings)
  BY <1>3, MailIs DEF ChannelInv
<1>5. /\ wire' \in [Pages -> Seq(Mail)] /\ \A q \in Pages \ {p} : wire'[q] = wire[q]
      /\ wire'[p] = Tail(wire[p])
  BY <1>2
<1>6. /\ \A i \in DOMAIN wire'[p] : i + 1 \in DOMAIN wire[p] /\ wire'[p][i] = wire[p][i + 1]
      /\ \A i \in DOMAIN wire[p] : i = 1 \/ (i - 1 \in DOMAIN wire'[p] /\ wire'[p][i - 1] = wire[p][i])
  <2>1. PICK box \in Seq(Mail) : box = wire[p] /\ box # <<>>
    BY <1>2
  <2>2. PICK rest : rest = Tail(box)
    OBVIOUS
  <2>3. Len(box) \in Nat /\ Len(rest) = Len(box) - 1 /\ DOMAIN rest = 1..Len(box) - 1
        /\ DOMAIN box = 1..Len(box) /\ \A i \in 1..Len(box) - 1 : rest[i] = box[i + 1]
    BY <2>1, <2>2
  <2>4. \A i \in DOMAIN box : i = 1 \/ (i - 1 \in DOMAIN rest /\ rest[i - 1] = box[i])
    BY <2>3
  <2> QED BY <1>5, <2>1, <2>2, <2>3, <2>4
<1>7. /\ tab' = IF Acts(p, m)
                THEN [tab EXCEPT ![p].read[T!Subject(m.type)] = world[T!Subject(m.type)]] ELSE tab
      /\ lastRevision' = IF Noted(p, m) THEN [lastRevision EXCEPT ![p] = T!Remember(@, m)]
                         ELSE lastRevision
      /\ heard' = IF Noted(p, m) THEN [heard EXCEPT ![p] = Append(@, m)] ELSE heard
  BY <1>1, Zenon DEF T!Deliver, Acts, Noted
<1>8. /\ tab \in [Pages -> ChannelTab] /\ tab[p] \in ChannelTab
      /\ \A ty \in T!Types : world[T!Subject(ty)] \in 0..MaxSaid
  BY DEF ChannelInv, ChannelTyped, T!Reading, T!Subject
<1>9. ASSUME Acts(p, m)
      PROVE  /\ tab' \in [Pages -> ChannelTab]
             /\ \A q \in Pages \ {p} : tab'[q] = tab[q]
             /\ tab'[p].origin = tab[p].origin /\ tab'[p].closed = tab[p].closed
             /\ tab'[p].revision = tab[p].revision
             /\ tab'[p].read[T!Subject(m.type)] = world[T!Subject(m.type)]
             /\ \A ty \in T!Types \ {m.type} : tab'[p].read[T!Subject(ty)] = tab[p].read[T!Subject(ty)]
  <2>1. m.type \in T!Types
    BY <1>4, <1>9 DEF Acts, T!Passes, Tidings
  <2>2. PICK t : t = Reread(tab[p], m.type, world[T!Subject(m.type)])
    OBVIOUS
  <2>3. /\ t \in ChannelTab
        /\ t.origin = tab[p].origin /\ t.closed = tab[p].closed /\ t.revision = tab[p].revision
        /\ t.read[T!Subject(m.type)] = world[T!Subject(m.type)]
        /\ \A ty \in T!Types \ {m.type} : t.read[T!Subject(ty)] = tab[p].read[T!Subject(ty)]
    BY <1>8, <2>1, <2>2, RereadIs
  <2>4. tab' = [tab EXCEPT ![p] = t]
    BY <1>7, <1>9, <2>2 DEF Reread
  <2>5. tab' \in [Pages -> ChannelTab] /\ tab'[p] = t /\ \A q \in Pages \ {p} : tab'[q] = tab[q]
    BY <1>8, <2>3, <2>4
  <2> QED BY <2>3, <2>5
<1>10. /\ tab' \in [Pages -> ChannelTab]
       /\ \A q \in Pages : /\ tab'[q].origin = tab[q].origin /\ tab'[q].closed = tab[q].closed
                           /\ tab'[q].revision = tab[q].revision
                           /\ q = p \/ tab'[q] = tab[q]
  BY <1>7, <1>8, <1>9
<1>11. ChannelTyped' /\ Onward
  <2>1. heard' \in [Pages -> Seq(Tidings)]
    <3>1. heard \in [Pages -> Seq(Tidings)]
      BY DEF ChannelInv, ChannelTyped
    <3>2. CASE Noted(p, m)
      <4>1. m \in Tidings
        BY <1>4, <3>2 DEF Noted, Acts, T!Passes
      <4> QED BY <1>7, <3>1, <3>2, <4>1
    <3> QED BY <1>7, <3>1, <3>2
  <2>2. lastRevision' \in [Pages -> Seq(Notes)]
    <3>1. lastRevision \in [Pages -> Seq(Notes)] /\ heard[p] \in Seq(Tidings)
          /\ lastRevision[p] \in Seq(Notes) /\ MapFits(p)
      BY DEF ChannelInv, ChannelTyped
    <3>2. CASE Noted(p, m)
      <4>1. m \in Tidings /\ m.revision > T!Seen(lastRevision[p], m.origin)
        BY <1>4, <3>2 DEF Noted, Acts, T!Passes, T!Accepts
      <4>2. T!Remember(lastRevision[p], m) \in Seq(Notes)
        BY <3>1, <4>1, TurnsKept DEF MapFits
      <4> QED BY <1>7, <3>1, <3>2, <4>2
    <3> QED BY <1>7, <3>1, <3>2
  <2>3. ChannelTyped'
    BY <1>2, <1>5, <1>10, <2>1, <2>2 DEF ChannelInv, ChannelTyped
  <2>4. \A q \in Pages : tab[q].revision \in Nat /\ faults \in Nat
    BY <1>8 DEF ChannelTab, ChannelInv, ChannelTyped
  <2>5. faults \in Nat
    BY DEF ChannelInv, ChannelTyped
  <2>6. Onward
    BY <1>2, <1>10, <2>4, <2>5 DEF Onward
  <2> QED BY <2>3, <2>6
<1>12. \A q \in Pages : TabFits(q)'
  BY <1>2, <1>10 DEF ChannelInv, TabFits
<1>13. ASSUME NEW q \in Pages PROVE Apace(q) \/ MapFits(q)'
  <2>1. CASE Noted(p, m) /\ q = p
    <3>1. m \in Tidings
      BY <1>4, <2>1 DEF Noted, Acts, T!Passes
    <3>2. MapFits(p)'
      BY <1>4, <1>7, <1>10, <1>11, <2>1, <3>1, NotedFits
    <3> QED BY <2>1, <3>2
  <2>2. CASE ~Noted(p, m)
    BY <1>7, <1>10, <2>2 DEF Apace
  <2>3. CASE Noted(p, m) /\ q # p
    <3>1. lastRevision \in [Pages -> Seq(Notes)] /\ heard \in [Pages -> Seq(Tidings)]
      BY DEF ChannelInv, ChannelTyped
    <3> QED BY <1>7, <1>10, <2>3, <3>1 DEF Apace
  <2> QED BY <2>1, <2>2, <2>3
<1>14. ASSUME NEW q \in Pages, NEW i \in DOMAIN wire'[q]
       PROVE  \E j \in DOMAIN wire[q] : wire'[q][i] = wire[q][j]
  <2>1. CASE q = p
    BY <1>6, <1>14, <2>1
  <2>2. CASE q # p
    BY <1>5, <1>14, <2>2
  <2> QED BY <2>1, <2>2
<1>15. ASSUME InReach', NEW q \in Pages, NEW ty \in T!Types PROVE Reached(q, ty)'
  <2>0. Reached(q, ty) /\ InReach
    BY <1>2, <1>15 DEF ChannelInv, InReach
  <2>1. CASE q # p
    <3>1. lastRevision'[q] = lastRevision[q]
      <4>1. lastRevision \in [Pages -> Seq(Notes)]
        BY DEF ChannelInv, ChannelTyped
      <4> QED BY <1>7, <2>1, <4>1
    <3>2. wire'[q] = wire[q] /\ tab'[q] = tab[q] /\ world' = world
      BY <1>2, <1>5, <1>10, <2>1
    <3> QED BY <2>0, <3>1, <3>2 DEF Reached, UpToDate, Calls
  <2>2. CASE q = p /\ tab[p].closed
    BY <1>10, <2>2 DEF Reached
  <2>3. ASSUME Acts(p, m), m.type = ty PROVE UpToDate(p, ty)'
    BY <1>2, <1>9, <2>3 DEF UpToDate
  <2>4. CASE q = p /\ UpToDate(p, ty)
    <3>1. UpToDate(p, ty)'
      <4>1. CASE Acts(p, m) /\ m.type = ty
        BY <2>3, <4>1
      <4>2. CASE Acts(p, m) /\ m.type # ty
        BY <1>2, <1>9, <2>4, <4>2 DEF UpToDate
      <4>3. CASE ~Acts(p, m)
        BY <1>2, <1>7, <2>4, <4>3 DEF UpToDate
      <4> QED BY <4>1, <4>2, <4>3
    <3> QED BY <2>4, <3>1 DEF Reached
  <2>5. ASSUME q = p, NEW i \in DOMAIN wire[p], Calls(p, ty, wire[p][i], tab, lastRevision[p])
        PROVE  Reached(p, ty)'
    <3>1. CASE Acts(p, m) /\ m.type = ty
      BY <2>3, <3>1 DEF Reached
    <3>2. CASE i = 1
      <4>1. Acts(p, m) /\ m.type = ty
        BY <1>3, <2>5, <3>2 DEF Calls, Acts, T!Passes
      <4> QED BY <3>1, <4>1
    <3>3. CASE i # 1 /\ ~(Acts(p, m) /\ m.type = ty)
      <4>1. PICK j : j = i - 1
        OBVIOUS
      <4>2. j \in DOMAIN wire'[p] /\ wire'[p][j] = wire[p][i]
        BY <1>6, <3>3, <4>1
      <4>3. ty = "REGISTRY_CHANGED" => lastRevision'[p] = lastRevision[p]
        BY <1>7, <3>3 DEF Noted
      <4>4. tab'[p].origin = tab[p].origin
        BY <1>10
      <4>5. Calls(p, ty, wire'[p][j], tab', lastRevision'[p])
        BY <2>5, <4>2, <4>3, <4>4 DEF Calls
      <4> QED BY <4>2, <4>5 DEF Reached
    <3> QED BY <3>1, <3>2, <3>3
  <2>6. CASE q = p /\ ~tab[p].closed /\ ~UpToDate(p, ty)
    <3>1. PICK i \in DOMAIN wire[p] : Calls(p, ty, wire[p][i], tab, lastRevision[p])
      BY <2>0, <2>6 DEF Reached
    <3> QED BY <2>5, <2>6, <3>1
  <2> QED BY <2>1, <2>2, <2>4, <2>6
<1> QED BY <1>11, <1>12, <1>13, <1>14, <1>15, ChannelHolds

\* A message more takes nothing away.
LEMMA OneMore ==
  ASSUME ChannelFits, ChannelInv, NEW p \in Pages, NEW m \in Mail, MailFits(m, tab, faults),
         T!Fault, wire' = [wire EXCEPT ![p] = Append(@, m)],
         UNCHANGED <<means, tab, world, cell, lastRevision, heard, said>>
  PROVE  ChannelInv'
<1>1. wire \in [Pages -> Seq(Mail)] /\ faults \in Nat /\ MaxFaults \in Nat
  BY DEF ChannelInv, ChannelTyped, ChannelFits
<1>2. faults' = faults + 1 /\ faults' \in 0..MaxFaults
  BY <1>1 DEF T!Fault
<1>3. /\ wire' \in [Pages -> Seq(Mail)]
      /\ \A q \in Pages : wire'[q] = wire[q] \/ wire'[q] = Append(wire[q], m)
  BY <1>1
<1>4. ASSUME NEW q \in Pages
      PROVE  /\ \A i \in DOMAIN wire[q] : i \in DOMAIN wire'[q] /\ wire'[q][i] = wire[q][i]
             /\ \A i \in DOMAIN wire'[q] : wire'[q][i] = m
                                            \/ (i \in DOMAIN wire[q] /\ wire'[q][i] = wire[q][i])
  <2>1. PICK box \in Seq(Mail) : box = wire[q]
    BY <1>1
  <2>2. wire'[q] = box \/ wire'[q] = Append(box, m)
    BY <1>3, <2>1
  <2> QED BY <2>1, <2>2
<1>5. ChannelTyped'
  BY <1>2, <1>3 DEF ChannelInv, ChannelTyped
<1>6. \A q \in Pages : tab[q] \in ChannelTab /\ tab[q].revision \in Nat /\ tab[q].origin[2] \in Nat
  BY DEF ChannelInv, ChannelTyped, ChannelTab, Sources
<1>7. Onward
  BY <1>1, <1>2, <1>6 DEF Onward
<1>8. \A q \in Pages : TabFits(q)'
  <2>1. \A q \in Pages : TabFits(q)
    BY DEF ChannelInv
  <2> QED BY <1>1, <1>2, <1>6, <2>1 DEF TabFits
<1>9. MailFits(m, tab', faults')
  <2>1. CASE m.event
    <3>1. m \in Tidings
      BY <2>1, MailIs
    <3>2. m.origin \in Sources /\ m.revision \in Nat
      BY <3>1 DEF Tidings
    <3>3. m.sound => Announced(m.origin, m.revision, tab', faults')
      BY <1>5, <1>7, <2>1, <3>2, StaysAnnounced DEF MailFits, ChannelInv
    <3> QED BY <2>1, <3>3 DEF MailFits
  <2> QED BY <2>1 DEF MailFits
<1>10. \A q \in Pages : Apace(q)
  BY DEF Apace
<1>11. ASSUME NEW q \in Pages, NEW i \in DOMAIN wire'[q]
       PROVE  \/ \E j \in DOMAIN wire[q] : wire'[q][i] = wire[q][j]
              \/ MailFits(wire'[q][i], tab', faults')
  BY <1>4, <1>9
<1>12. ASSUME InReach', NEW q \in Pages, NEW ty \in T!Types PROVE Reached(q, ty)'
  <2>1. Reached(q, ty)
    BY <1>12 DEF ChannelInv, InReach
  <2>2. \A i \in DOMAIN wire[q] : \E j \in DOMAIN wire'[q] : wire'[q][j] = wire[q][i]
    BY <1>4
  <2> QED BY <2>1, <2>2, StaysReached DEF ChannelInv
<1> QED BY <1>5, <1>7, <1>8, <1>10, <1>11, <1>12, ChannelHolds

LEMMA RepeatFits ==
  ASSUME ChannelFits, ChannelInv, NEW p \in Pages, T!Repeat(p)
  PROVE  ChannelInv'
<1>1. wire \in [Pages -> Seq(Mail)] /\ wire[p] \in Seq(Mail) /\ wire[p] # <<>>
  BY DEF ChannelInv, ChannelTyped, T!Repeat
<1>2. PICK m : m = Head(wire[p])
  OBVIOUS
<1>3. m \in Mail /\ 1 \in DOMAIN wire[p] /\ wire[p][1] = m
  BY <1>1, <1>2
<1>4. MailFits(m, tab, faults)
  BY <1>3 DEF ChannelInv
<1>5. /\ T!Fault /\ UNCHANGED <<means, tab, world, cell, lastRevision, heard, said>>
      /\ wire' = [wire EXCEPT ![p] = Append(@, m)]
  BY <1>1, <1>2 DEF T!Repeat
<1> QED BY <1>3, <1>4, <1>5, OneMore

\* What another build has written says nothing of any tab.
LEMMA StrayFits ==
  ASSUME ChannelFits, ChannelInv, NEW p \in Pages, NEW m \in T!Foreign, T!Stray(p, m)
  PROVE  ChannelInv'
<1>1. m \in Mail /\ MailFits(m, tab, faults)
  <2>1. PICK o : o = <<CHOOSE q \in Pages : TRUE, MaxFaults>>
    OBVIOUS
  <2>2. MaxFaults \in Nat /\ MaxSaid \in Nat
    BY DEF ChannelFits
  <2>3. o \in Sources /\ o[2] = MaxFaults
    <3>1. PICK q : q = CHOOSE first \in Pages : TRUE
      OBVIOUS
    <3>2. q \in Pages
      BY <3>1, Zenon
    <3> QED BY <2>1, <2>2, <3>1, <3>2 DEF Sources
  <2>4. \/ m = [event |-> FALSE]
        \/ m = [event |-> TRUE, type |-> "REGISTRY_CHANGED", origin |-> o,
                sound |-> FALSE, revision |-> MaxSaid]
    BY <2>1 DEF T!Foreign
  <2>5. CASE m = [event |-> FALSE]
    BY <2>5 DEF Mail, MailFits
  <2>6. CASE m = [event |-> TRUE, type |-> "REGISTRY_CHANGED", origin |-> o,
                  sound |-> FALSE, revision |-> MaxSaid]
    <3>1. m \in Tidings
      BY <2>2, <2>3, <2>6 DEF Tidings, T!Types
    <3>2. m.origin = o /\ m.sound = FALSE
      BY <2>6
    <3> QED BY <2>2, <2>3, <3>1, <3>2 DEF Mail, MailFits
  <2> QED BY <2>4, <2>5, <2>6
<1>2. /\ T!Fault /\ UNCHANGED <<means, tab, world, cell, lastRevision, heard, said>>
      /\ wire' = [wire EXCEPT ![p] = Append(@, m)]
  BY DEF T!Stray
<1> QED BY <1>1, <1>2, OneMore

LEMMA NothingHeard ==
  /\ InTurn(<<>>, <<>>) /\ Spaced(<<>>) /\ <<>> \in Seq(Mail) /\ <<>> \in Seq(Tidings)
  /\ <<>> \in Seq(Notes) /\ Len(<<>>) = 0 /\ DOMAIN <<>> = {}
BY DEF InTurn, Recalled, InOrder, Apart, Spaced

\* A page that goes, or comes back, owes nobody anything.
LEMMA Afresh ==
  ASSUME ChannelFits, ChannelInv, NEW p \in Pages, NEW t \in ChannelTab, T!Fault,
         tab' = [tab EXCEPT ![p] = t], wire' = [wire EXCEPT ![p] = <<>>],
         UNCHANGED <<means, world, cell, said>>,
         ChannelTyped', Onward, TabFits(p)',
         \A q \in Pages \ {p} : lastRevision'[q] = lastRevision[q] /\ heard'[q] = heard[q],
         MapFits(p)' \/ Apace(p),
         t.closed \/ t.read = world
  PROVE  ChannelInv'
<1>1. wire \in [Pages -> Seq(Mail)] /\ tab \in [Pages -> ChannelTab] /\ faults \in Nat
  BY DEF ChannelInv, ChannelTyped
<1>2. faults' = faults + 1 /\ tab'[p] = t /\ wire'[p] = <<>>
  BY <1>1 DEF T!Fault
<1>3. \A q \in Pages \ {p} : tab'[q] = tab[q] /\ wire'[q] = wire[q]
  BY <1>1
<1>4. ASSUME NEW q \in Pages PROVE TabFits(q)'
  <2>1. CASE q = p
    BY <2>1
  <2>2. CASE q # p
    <3>1. TabFits(q) /\ tab[q].origin[2] \in Nat
      BY <1>1 DEF ChannelInv, ChannelTab, Sources
    <3> QED BY <1>1, <1>2, <1>3, <2>2, <3>1 DEF TabFits
  <2> QED BY <2>1, <2>2
<1>5. ASSUME NEW q \in Pages PROVE Apace(q) \/ MapFits(q)'
  BY <1>3 DEF Apace
<1>6. ASSUME NEW q \in Pages, NEW i \in DOMAIN wire'[q]
      PROVE  \E j \in DOMAIN wire[q] : wire'[q][i] = wire[q][j]
  BY <1>2, <1>3, NothingHeard
<1>7. ASSUME InReach', NEW q \in Pages, NEW ty \in T!Types PROVE Reached(q, ty)'
  <2>1. Reached(q, ty)
    BY <1>7 DEF ChannelInv, InReach
  <2>2. CASE q = p
    BY <1>2, <2>2 DEF Reached, UpToDate
  <2>3. CASE q # p
    <3>1. /\ wire'[q] = wire[q] /\ tab'[q] = tab[q] /\ world' = world
          /\ lastRevision'[q] = lastRevision[q]
      BY <1>3, <2>3
    <3> QED BY <2>1, <3>1 DEF Reached, UpToDate, Calls
  <2> QED BY <2>2, <2>3
<1> QED BY <1>4, <1>5, <1>6, <1>7, ChannelHolds

\* The page that comes back has a name that nobody has heard.
LEMMA ReloadFits ==
  ASSUME ChannelFits, ChannelInv, NEW p \in Pages, T!Reload(p)
  PROVE  ChannelInv'
<1>1. /\ wire \in [Pages -> Seq(Mail)] /\ tab \in [Pages -> ChannelTab] /\ faults \in Nat
      /\ heard \in [Pages -> Seq(Tidings)] /\ lastRevision \in [Pages -> Seq(Notes)]
      /\ world \in T!Reading /\ said \in Nat /\ MaxFaults \in Nat /\ Remembered \in Nat
  BY DEF ChannelInv, ChannelTyped, ChannelFits
<1>2. T!Fault /\ faults' = faults + 1 /\ faults' \in 0..MaxFaults /\ faults' \in Nat
  BY <1>1 DEF T!Reload, T!Fault
<1>3. PICK t : t = [origin |-> <<p, faults'>>, closed |-> FALSE, revision |-> 0, read |-> world]
  OBVIOUS
<1>4. /\ t \in ChannelTab /\ t.origin = <<p, faults'>> /\ t.revision = 0 /\ t.read = world
      /\ t.origin[1] = p /\ t.origin[2] = faults'
  BY <1>1, <1>2, <1>3 DEF ChannelTab, Sources
<1>5. /\ tab' = [tab EXCEPT ![p] = t] /\ wire' = [wire EXCEPT ![p] = <<>>]
      /\ lastRevision' = [lastRevision EXCEPT ![p] = <<>>] /\ heard' = [heard EXCEPT ![p] = <<>>]
      /\ UNCHANGED <<means, world, cell, said>>
  BY <1>3 DEF T!Reload
<1>6. /\ tab' \in [Pages -> ChannelTab] /\ wire' \in [Pages -> Seq(Mail)]
      /\ heard' \in [Pages -> Seq(Tidings)] /\ lastRevision' \in [Pages -> Seq(Notes)]
      /\ tab'[p] = t /\ lastRevision'[p] = <<>> /\ heard'[p] = <<>>
      /\ \A q \in Pages \ {p} : /\ tab'[q] = tab[q]
                                /\ lastRevision'[q] = lastRevision[q] /\ heard'[q] = heard[q]
  BY <1>1, <1>4, <1>5, NothingHeard
<1>7. ChannelTyped'
  BY <1>2, <1>5, <1>6 DEF ChannelInv, ChannelTyped
<1>8. Onward
  <2>1. \A q \in Pages : tab[q].revision \in Nat
    BY <1>1 DEF ChannelTab
  <2>2. \A q \in Pages \ {p} : tab'[q].origin = tab[q].origin /\ tab'[q].revision >= tab[q].revision
    BY <1>6, <2>1
  <2>3. tab'[p].origin[2] > faults /\ faults' >= faults
    BY <1>1, <1>2, <1>4, <1>6
  <2> QED BY <2>2, <2>3 DEF Onward
<1>9. TabFits(p)'
  BY <1>1, <1>2, <1>4, <1>5, <1>6 DEF TabFits
<1>10. MapFits(p)'
  <2>1. lastRevision'[p] = <<>> /\ heard'[p] = <<>>
    BY <1>6
  <2> QED BY <1>1, <2>1, NothingHeard DEF MapFits
<1> QED BY <1>2, <1>4, <1>5, <1>6, <1>7, <1>8, <1>9, <1>10, Afresh

LEMMA CloseFits ==
  ASSUME ChannelFits, ChannelInv, NEW p \in Pages, T!Close(p)
  PROVE  ChannelInv'
<1>1. /\ wire \in [Pages -> Seq(Mail)] /\ tab \in [Pages -> ChannelTab] /\ faults \in Nat
      /\ tab[p] \in ChannelTab /\ MaxFaults \in Nat /\ TabFits(p)
  BY DEF ChannelInv, ChannelTyped, ChannelFits
<1>2. T!Fault /\ faults' = faults + 1 /\ faults' \in 0..MaxFaults /\ faults' \in Nat
  BY <1>1 DEF T!Close, T!Fault
<1>3. PICK t : t = [tab[p] EXCEPT !.closed = TRUE]
  OBVIOUS
<1>4. /\ t \in ChannelTab /\ t.origin = tab[p].origin /\ t.revision = tab[p].revision
      /\ t.closed = TRUE
  <2>1. t = [origin |-> tab[p].origin, closed |-> TRUE, revision |-> tab[p].revision,
             read |-> tab[p].read]
    BY <1>1, <1>3 DEF ChannelTab
  <2> QED BY <1>1, <2>1 DEF ChannelTab
<1>5. /\ tab' = [tab EXCEPT ![p] = t] /\ wire' = [wire EXCEPT ![p] = <<>>]
      /\ UNCHANGED <<means, world, cell, lastRevision, heard, said>>
  BY <1>1, <1>3 DEF T!Close
<1>6. /\ tab' \in [Pages -> ChannelTab] /\ wire' \in [Pages -> Seq(Mail)] /\ tab'[p] = t
      /\ \A q \in Pages \ {p} : tab'[q] = tab[q]
  BY <1>1, <1>4, <1>5, NothingHeard
<1>7. ChannelTyped'
  BY <1>2, <1>5, <1>6 DEF ChannelInv, ChannelTyped
<1>8. Onward
  <2>1. \A q \in Pages : tab[q].revision \in Nat
    BY <1>1 DEF ChannelTab
  <2>2. \A q \in Pages \ {p} : tab'[q].origin = tab[q].origin /\ tab'[q].revision >= tab[q].revision
    BY <1>6, <2>1
  <2>3. tab'[p].origin = tab[p].origin /\ tab'[p].revision >= tab[p].revision /\ faults' >= faults
    BY <1>1, <1>2, <1>4, <1>6, <2>1
  <2> QED BY <2>2, <2>3 DEF Onward
<1>9. TabFits(p)'
  <2>1. tab[p].origin[2] \in Nat
    BY <1>1 DEF ChannelTab, Sources
  <2> QED BY <1>1, <1>2, <1>4, <1>5, <1>6, <2>1 DEF TabFits
<1>10. Apace(p)
  BY <1>4, <1>5, <1>6 DEF Apace
<1>11. T!Fault /\ UNCHANGED <<means, world, cell, said>>
  BY <1>2, <1>5
<1>12. \A q \in Pages \ {p} : lastRevision'[q] = lastRevision[q] /\ heard'[q] = heard[q]
  BY <1>5
<1> QED BY <1>4, <1>5, <1>7, <1>8, <1>9, <1>10, <1>11, <1>12, Afresh

LEMMA ChannelStep == ChannelFits /\ ChannelInv /\ [T!Next]_(T!channelVars) => ChannelInv'
<1> SUFFICES ASSUME ChannelFits, ChannelInv, [T!Next]_(T!channelVars) PROVE ChannelInv'
  OBVIOUS
<1>1. ASSUME NEW p \in Pages, NEW ty \in T!Types, T!Announce(p, ty) PROVE ChannelInv'
  BY <1>1, AnnounceFits
<1>2. ASSUME NEW p \in Pages, T!Deliver(p) PROVE ChannelInv'
  BY <1>2, DeliverFits
<1>3. ASSUME NEW p \in Pages, T!Repeat(p) PROVE ChannelInv'
  BY <1>3, RepeatFits
<1>4. ASSUME NEW p \in Pages, T!Reload(p) PROVE ChannelInv'
  BY <1>4, ReloadFits
<1>5. ASSUME NEW p \in Pages, T!Close(p) PROVE ChannelInv'
  BY <1>5, CloseFits
<1>6. ASSUME NEW p \in Pages, NEW m \in T!Foreign, T!Stray(p, m) PROVE ChannelInv'
  BY <1>6, StrayFits
<1>7. CASE UNCHANGED T!channelVars
  <2>1. UNCHANGED <<means, tab, world, cell, wire, lastRevision, heard, said, faults>>
    BY <1>7 DEF T!channelVars
  <2> QED BY <2>1 DEF ChannelInv, ChannelTyped, TabFits, MapFits, MailFits, Reached, UpToDate,
                      Calls, InReach, Announced
<1> QED BY <1>1, <1>2, <1>3, <1>4, <1>5, <1>6, <1>7 DEF T!Next

LEMMA ChannelBegins == ChannelFits /\ T!Init => ChannelInv
<1> SUFFICES ASSUME ChannelFits, T!Init PROVE ChannelInv
  OBVIOUS
<1>1. world = [registry |-> 0, chain |-> 0] /\ said = 0 /\ faults = 0 /\ cell = Nil
  BY DEF T!Init
<1>2. MaxSaid \in Nat /\ MaxFaults \in Nat /\ Remembered \in Nat
  BY DEF ChannelFits
<1>3. world \in T!Reading /\ world.registry = 0 /\ world.chain = 0
  BY <1>1, <1>2 DEF T!Reading
<1>4. ASSUME NEW p \in Pages
      PROVE  /\ tab[p] \in ChannelTab /\ tab[p].origin[1] = p /\ tab[p].origin[2] = 0
             /\ tab[p].revision = 0 /\ tab[p].read = world
             /\ wire[p] = <<>> /\ lastRevision[p] = <<>> /\ heard[p] = <<>>
  <2>1. tab[p] = [origin |-> <<p, 0>>, closed |-> FALSE, revision |-> 0, read |-> world]
    BY DEF T!Init
  <2> QED BY <1>3, <2>1 DEF T!Init, ChannelTab, Sources
<1>5. /\ tab \in [Pages -> ChannelTab] /\ wire \in [Pages -> Seq(Mail)]
      /\ heard \in [Pages -> Seq(Tidings)] /\ lastRevision \in [Pages -> Seq(Notes)]
  <2>1. tab = [p \in Pages |-> tab[p]] /\ wire = [p \in Pages |-> <<>>]
        /\ lastRevision = wire /\ heard = wire
    BY DEF T!Init
  <2> QED BY <1>4, <2>1, NothingHeard
<1>6. means.transport \in T!Transports
  <2>1. PICK channel, storage, target, echoes, refuses \in BOOLEAN :
          means = [transport |-> T!Transport(channel, storage, target), echoes |-> echoes,
                   refuses |-> refuses]
    BY DEF T!Init
  <2> QED BY <2>1 DEF T!Transport, T!Transports
<1>7. ChannelTyped
  BY <1>1, <1>2, <1>3, <1>5, <1>6 DEF ChannelTyped
<1>8. ASSUME NEW p \in Pages
      PROVE  TabFits(p) /\ MapFits(p) /\ DOMAIN wire[p] = {}
  BY <1>1, <1>2, <1>4, NothingHeard DEF TabFits, MapFits
<1>9. \A p \in Pages, ty \in T!Types : Reached(p, ty)
  BY <1>4 DEF Reached, UpToDate
<1> QED BY <1>7, <1>8, <1>9 DEF ChannelInv

LEMMA ChannelSays == ChannelFits /\ ChannelInv => T!ChannelTypes /\ T!HeardInTurn /\ T!NobodyLeftBehind
<1> SUFFICES ASSUME ChannelFits, ChannelInv
             PROVE  T!ChannelTypes /\ T!HeardInTurn /\ T!NobodyLeftBehind
  OBVIOUS
<1>1. /\ ChannelTyped /\ said \in 0..MaxSaid /\ faults \in 0..MaxFaults
      /\ MaxSaid \in Nat /\ MaxFaults \in Nat /\ Remembered \in Nat
  BY DEF ChannelInv, ChannelTyped, ChannelFits
<1>2. ASSUME NEW o \in Sources, o[2] <= MaxFaults PROVE o \in T!Origins
  BY <1>1, <1>2 DEF Sources, T!Origins
<1>3. ASSUME NEW p \in Pages
      PROVE  /\ tab[p].origin \in T!Origins /\ tab[p].closed \in BOOLEAN
             /\ tab[p].revision \in 0..MaxSaid /\ tab[p].read \in T!Reading
             /\ lastRevision[p] \in Seq(Notes) /\ heard[p] \in Seq(Tidings) /\ wire[p] \in Seq(Mail)
             /\ MapFits(p)
  <2>1. tab[p] \in ChannelTab /\ TabFits(p) /\ MapFits(p)
    BY <1>1 DEF ChannelInv, ChannelTyped
  <2>2. tab[p].origin \in Sources /\ tab[p].revision \in Nat /\ tab[p].origin[2] \in Nat
    BY <2>1 DEF ChannelTab, Sources
  <2>3. tab[p].origin[2] <= MaxFaults /\ tab[p].revision \in 0..MaxSaid
    BY <1>1, <2>1, <2>2 DEF TabFits
  <2> QED BY <1>1, <1>2, <2>1, <2>2, <2>3 DEF ChannelTab, ChannelTyped
<1>4. T!ChannelTypes
  <2>1. ASSUME NEW p \in Pages
        PROVE  T!IsInjective([i \in DOMAIN lastRevision[p] |-> lastRevision[p][i].origin])
    <3>1. PICK notes \in Seq(Notes) : notes = lastRevision[p] /\ Apart(notes)
      BY <1>3 DEF MapFits, InTurn
    <3> QED BY <3>1 DEF T!IsInjective, Apart
  <2>2. ASSUME NEW p \in Pages, NEW m \in T!Range(wire[p]), m.event
        PROVE  m.type \in T!Types /\ m.origin \in T!Origins
    <3>1. PICK i \in DOMAIN wire[p] : m = wire[p][i]
      BY DEF T!Range
    <3>2. m \in Mail /\ MailFits(m, tab, faults)
      BY <1>3, <3>1 DEF ChannelInv
    <3>3. m \in Tidings
      BY <2>2, <3>2, MailIs
    <3>4. m.type \in T!Types /\ m.origin \in Sources
      BY <3>3 DEF Tidings
    <3> QED BY <1>2, <2>2, <3>2, <3>4 DEF MailFits
  <2>3. \A p \in Pages : Len(lastRevision[p]) <= Remembered
    BY <1>3 DEF MapFits
  <2> QED BY <1>1, <1>3, <2>1, <2>2, <2>3 DEF T!ChannelTypes, ChannelTyped
<1>5. T!HeardInTurn
  <2> SUFFICES ASSUME NEW p \in Pages, NEW j \in DOMAIN heard[p]
               PROVE  /\ heard[p][j].origin # tab[p].origin
                      /\ \A i \in 1..j - 1 :
                           heard[p][i].origin = heard[p][j].origin =>
                             \/ heard[p][i].revision < heard[p][j].revision
                             \/ T!Cardinality({heard[p][k].origin : k \in i + 1..j - 1}
                                                \ {heard[p][i].origin}) >= Remembered
    BY DEF T!HeardInTurn
  <2>1. PICK h \in Seq(Tidings) : h = heard[p]
    BY <1>3
  <2>2. ASSUME NEW i \in 1..j - 1, h[i].origin = h[j].origin
        PROVE  \/ h[i].revision < h[j].revision
               \/ T!Cardinality({h[k].origin : k \in i + 1..j - 1} \ {h[i].origin}) >= Remembered
    <3>1. h[i].revision < h[j].revision \/ Crowded(h, i, j - 1)
      BY <1>3, <2>1, <2>2 DEF MapFits, Spaced
    <3>2. PICK Q : Q = Between(h, i, j - 1)
      OBVIOUS
    <3>3. T!Cardinality(Q) = Cardinality(Q)
      BY SameCount
    <3>4. Q = {h[k].origin : k \in i + 1..j - 1} \ {h[i].origin}
      BY <3>2 DEF Between
    <3> QED BY <3>1, <3>2, <3>3, <3>4 DEF Crowded
  <2>3. heard[p][j].origin # tab[p].origin
    BY <1>3 DEF MapFits
  <2> QED BY <2>1, <2>2, <2>3
<1>6. T!NobodyLeftBehind
  <2> SUFFICES ASSUME InReach, NEW p \in Pages, NEW ty \in T!Types,
                      ~tab[p].closed, tab[p].read[T!Subject(ty)] # world[T!Subject(ty)]
               PROVE  \E m \in T!Range(wire[p]) :
                        /\ T!Passes(p, m) /\ m.type = ty
                        /\ ty = "REGISTRY_CHANGED" => T!Accepts(lastRevision[p], m)
    BY DEF T!NobodyLeftBehind, InReach
  <2>1. PICK i \in DOMAIN wire[p] : Calls(p, ty, wire[p][i], tab, lastRevision[p])
    BY DEF ChannelInv, Reached, UpToDate
  <2>2. wire[p][i] \in T!Range(wire[p])
    BY DEF T!Range
  <2> QED BY <2>1, <2>2 DEF Calls, T!Passes
<1> QED BY <1>4, <1>5, <1>6

\* Of the channel: no tab is left behind with a change it will not hear of, whatever is
\* repeated, strayed, reloaded or closed; each tab's notices are acted on once and in their
\* order, unless as many other tabs as are remembered were heard in between; and no tab acts
\* on its own.
THEOREM NoTabIsLeftBehind ==
  ASSUME ChannelFits
  PROVE  T!Init /\ [][T!Next]_(T!channelVars)
           => [](T!ChannelTypes /\ T!HeardInTurn /\ T!NobodyLeftBehind)
<1>1. T!Init => ChannelInv
  BY ChannelBegins
<1>2. ChannelInv /\ [T!Next]_(T!channelVars) => ChannelInv'
  BY ChannelStep
<1>3. ChannelInv => T!ChannelTypes /\ T!HeardInTurn /\ T!NobodyLeftBehind
  BY ChannelSays
<1> QED BY <1>1, <1>2, <1>3, PTL

-----------------------------------------------------------------------------
(* The grid.  An arrangement has every panel once, wherever it came from:   *)
(* the one of the browser is put right when it is read, and every change    *)
(* of one that is whole leaves it so.                                       *)
PanelRow(id, folded) == [id |-> id, collapsed |-> folded]
Arrangements ==
  {Nil,
   [version |-> 0, rows |-> <<PanelRow("gone", TRUE), PanelRow("b", TRUE), PanelRow("b", FALSE)>>],
   [version |-> 2, rows |-> <<PanelRow("b", TRUE), PanelRow("a", TRUE)>>]}
LowerCase == [n |-> "n", N |-> "n", m |-> "m"]

D == INSTANCE DashboardLayout WITH active <- arrangement, warned <- refused,
       DefaultOrder <- <<"a", "b">>, RawLayouts <- Arrangements,
       LayoutNames <- {"n", "N", "m"}, Folded <- LowerCase

GridRow == [id : D!PanelIds, collapsed : BOOLEAN]
RawRow == [id : {"a", "b", "gone"}, collapsed : BOOLEAN]
Alone(rows) == \A i, j \in 1..Len(rows) : rows[i].id = rows[j].id => i = j
HasAll(rows) == \A id \in D!PanelIds : \E i \in 1..Len(rows) : rows[i].id = id
WholeLayouts == {rows \in Seq(GridRow) : Alone(rows) /\ HasAll(rows)}
GridNames == {"n", "N", "m"}
NamedLayout == [name : GridNames, layout : WholeLayouts]
GridRecord == [version : Nat, rows : Seq(RawRow)]

\* The names of a list are told apart whatever their case.
ToldApart(list) ==
  \A i, j \in 1..Len(list) : i # j => LowerCase[list[i].name] # LowerCase[list[j].name]

GridFits == MaxNamed \in Nat /\ MaxChanges \in Nat
GridInv ==
  /\ grid \in [GridPages -> WholeLayouts \cup {Nil}]
  /\ arrangement \in [GridPages -> GridNames \cup {Nil}]
  /\ known \in [GridPages -> Seq(NamedLayout)]
  /\ resetting \subseteq GridPages /\ refused \subseteq GridPages
  /\ stored = Nil \/ stored \in GridRecord
  /\ named \in Seq(NamedLayout) /\ Len(named) <= MaxNamed /\ ToldApart(named)
  /\ changes \in 0..MaxChanges

LEMMA PanelsAre == D!PanelIds = {"a", "b"} /\ DOMAIN <<"a", "b">> = 1..2
<1>1. DOMAIN <<"a", "b">> = 1..2 /\ <<"a", "b">>[1] = "a" /\ <<"a", "b">>[2] = "b"
  OBVIOUS
<1> QED BY <1>1 DEF D!PanelIds, D!ToSet

LEMMA DefaultIs ==
  /\ D!DefaultLayout \in WholeLayouts /\ Len(D!DefaultLayout) = 2 /\ D!DefaultLayout \in Seq(RawRow)
<1>1. PICK all : all = D!DefaultLayout
  OBVIOUS
<1>2. all = [i \in 1..2 |-> D!Row(<<"a", "b">>[i], FALSE)]
  BY <1>1, PanelsAre DEF D!DefaultLayout
<1>3. all[1] = [id |-> "a", collapsed |-> FALSE] /\ all[2] = [id |-> "b", collapsed |-> FALSE]
  <2>1. <<"a", "b">>[1] = "a" /\ <<"a", "b">>[2] = "b" /\ 1 \in 1..2 /\ 2 \in 1..2
    OBVIOUS
  <2>2. all[1] = D!Row(<<"a", "b">>[1], FALSE) /\ all[2] = D!Row(<<"a", "b">>[2], FALSE)
    BY <1>2, <2>1
  <2> QED BY <2>1, <2>2 DEF D!Row
<1>4. \A i \in 1..2 : i = 1 \/ i = 2
  OBVIOUS
<1>5. all[1] \in GridRow /\ all[2] \in GridRow /\ all[1] \in RawRow /\ all[2] \in RawRow
  BY <1>3, PanelsAre DEF GridRow, RawRow
<1>6. all \in Seq(GridRow) /\ all \in Seq(RawRow) /\ Len(all) = 2
  <2>1. \A i \in 1..2 : all[i] \in GridRow /\ all[i] \in RawRow
    BY <1>4, <1>5
  <2>2. all = [i \in 1..2 |-> all[i]]
    BY <1>2
  <2> HIDE DEF GridRow, RawRow
  <2> QED BY <2>1, <2>2
<1>7. Alone(all) /\ HasAll(all)
  <2>1. all[1].id = "a" /\ all[2].id = "b"
    BY <1>3
  <2> QED BY <1>4, <1>6, <2>1, PanelsAre DEF Alone, HasAll
<1> QED BY <1>1, <1>6, <1>7 DEF WholeLayouts

\* What a list of rows places: the first that names a panel.
LEMMA PlacedIs ==
  ASSUME NEW X, NEW rows \in Seq(X)
  PROVE  LET list == D!Placed(rows)
         IN  /\ list \in Seq(X) /\ Alone(list)
             /\ \A k \in 1..Len(list) : /\ list[k].id \in D!PanelIds
                                        /\ \E i \in 1..Len(rows) : list[k] = rows[i]
             /\ \A i \in 1..Len(rows) : rows[i].id \in D!PanelIds =>
                  \E k \in 1..Len(list) : list[k].id = rows[i].id
<1> DEFINE n == Len(rows)
           fresh(s, row) == row.id \in D!PanelIds /\ \A k \in DOMAIN s : s[k].id # row.id
           next(i, s) == IF fresh(s, rows[i]) THEN Append(s, rows[i]) ELSE s
           is(f) == f = [i \in 0..n |-> IF i = 0 THEN <<>> ELSE next(i, f[i - 1])]
           step == [i \in 1..n |-> [s \in Seq(X) |-> next(i, s)]]
<1>1. n \in Nat /\ <<>> \in Seq(X) /\ \A i \in 1..n : rows[i] \in X
  OBVIOUS
<1>2. ASSUME NEW i \in 1..n, NEW s \in Seq(X)
      PROVE  next(i, s) \in Seq(X)
  BY <1>1, <1>2
<1>3. step \in Steps(n, Seq(X))
  <2> HIDE DEF next, n
  <2> QED BY <1>2 DEF Steps
<1>4. PICK f \in [0..n -> Seq(X)] :
        f[0] = <<>> /\ \A i \in 1..n : f[i] = step[i][f[i - 1]]
  <2> HIDE DEF step, n
  <2>1. PICK f : Computes(f, n, Seq(X), <<>>, step)
    BY <1>1, <1>3, StepByStep
  <2> QED BY <2>1 DEF Computes
<1>5. is(f)
  <2>1. ASSUME NEW i \in 1..n
        PROVE  f[i] = next(i, f[i - 1])
    <3>0. i - 1 \in 0..n
      BY <1>1
    <3>1. f[i - 1] \in Seq(X)
      BY <1>4, <3>0
    <3>2. step[i][f[i - 1]] = next(i, f[i - 1])
      BY <3>1
    <3> QED BY <1>4, <3>2
  <2> HIDE DEF next, n
  <2> QED BY <1>1, <1>4, <2>1
<1> DEFINE g == CHOOSE f1 : is(f1)
<1>6. is(g)
  <2> HIDE DEF is
  <2> QED BY <1>5
<1>7. D!Placed(rows) = g[n]
  BY DEF D!Placed
<1>8. g[0] = <<>> /\ \A i \in 1..n : g[i] = next(i, g[i - 1])
  <2> HIDE DEF g, next, n
  <2> QED BY <1>1, <1>6
<1> DEFINE within(s) == \A k \in 1..Len(s) : s[k].id \in D!PanelIds /\ \E i \in 1..n : s[k] = rows[i]
           upTo(m, s) == \A i \in 1..m : rows[i].id \in D!PanelIds => \E k \in 1..Len(s) : s[k].id = rows[i].id
           good(m, s) == s \in Seq(X) /\ Alone(s) /\ within(s) /\ upTo(m, s)
           Q == {k \in Nat : good(k, g[k])}
<1> HIDE DEF g
<1>9. 0 \in Q
  <2>1. Alone(<<>>) /\ within(<<>>) /\ upTo(0, <<>>)
    BY DEF Alone
  <2> HIDE DEF within, upTo
  <2> QED BY <1>1, <1>8, <2>1
<1>10. ASSUME NEW k \in 1..n, k - 1 \in Q
       PROVE  k \in Q
  <2>1. PICK s \in Seq(X) : s = g[k - 1] /\ good(k - 1, s)
    BY <1>10
  <2>2. PICK t : t = next(k, s)
    OBVIOUS
  <2>3. k \in Nat /\ g[k] = t /\ t \in Seq(X) /\ \A i \in 1..k : i = k \/ i \in 1..k - 1
    BY <1>1, <1>2, <1>8, <2>1, <2>2
  <2>4. CASE fresh(s, rows[k])
    <3>1. PICK len \in Nat : len = Len(s)
      OBVIOUS
    <3>2. t = Append(s, rows[k])
      BY <2>2, <2>4
    <3>3. /\ Len(t) = len + 1 /\ t[len + 1] = rows[k] /\ \A i \in 1..len : t[i] = s[i]
          /\ DOMAIN s = 1..len
      BY <1>1, <3>1, <3>2
    <3>a. Alone(s) /\ within(s) /\ \A i \in 1..len : s[i].id # rows[k].id
      BY <2>1, <2>4, <3>3
    <3>b. \A i \in 1..len : t[i].id = s[i].id /\ t[i].id # t[len + 1].id
      BY <3>3, <3>a
    <3>c. \A i, j \in 1..len : t[i].id = t[j].id => i = j
      BY <3>1, <3>a, <3>b DEF Alone
    <3>4. Alone(t)
      <4> SUFFICES ASSUME NEW i \in 1..len + 1, NEW j \in 1..len + 1, t[i].id = t[j].id
                   PROVE  i = j
        BY <3>3 DEF Alone
      <4>1. (i \in 1..len \/ i = len + 1) /\ (j \in 1..len \/ j = len + 1)
        BY <3>1
      <4> QED BY <3>b, <3>c, <4>1
    <3>5. within(t)
      <4> SUFFICES ASSUME NEW l \in 1..Len(t)
                   PROVE  t[l].id \in D!PanelIds /\ \E i \in 1..n : t[l] = rows[i]
        OBVIOUS
      <4> HIDE DEF n
      <4>1. CASE l = len + 1
        BY <1>10, <2>4, <3>3, <4>1
      <4>2. CASE l # len + 1
        <5>1. l \in 1..len /\ t[l] = s[l] /\ Len(s) = len
          BY <3>1, <3>3, <4>2
        <5> QED BY <3>a, <5>1
      <4> QED BY <4>1, <4>2
    <3>6. upTo(k, t)
      <4> SUFFICES ASSUME NEW i \in 1..k, rows[i].id \in D!PanelIds
                   PROVE  \E l \in 1..Len(t) : t[l].id = rows[i].id
        OBVIOUS
      <4>1. CASE i = k
        BY <3>3, <4>1
      <4>2. CASE i # k
        <5>1. PICK l \in 1..len : s[l].id = rows[i].id
          BY <2>1, <2>3, <3>1, <4>2
        <5> QED BY <3>3, <5>1
      <4> QED BY <4>1, <4>2
    <3> HIDE DEF within, upTo
    <3> QED BY <2>3, <3>4, <3>5, <3>6
  <2>5. CASE ~fresh(s, rows[k])
    <3>1. t = s
      BY <2>2, <2>5
    <3>2. upTo(k, t)
      <4> SUFFICES ASSUME NEW i \in 1..k, rows[i].id \in D!PanelIds
                   PROVE  \E l \in 1..Len(t) : t[l].id = rows[i].id
        OBVIOUS
      <4>1. CASE i = k
        <5>1. DOMAIN s = 1..Len(s)
          OBVIOUS
        <5> QED BY <2>5, <3>1, <4>1, <5>1
      <4>2. CASE i # k
        BY <2>1, <2>3, <3>1, <4>2
      <4> QED BY <4>1, <4>2
    <3>3. s \in Seq(X) /\ Alone(s) /\ within(s)
      BY <2>1
    <3> HIDE DEF within, upTo
    <3> QED BY <2>3, <3>1, <3>2, <3>3
  <2> HIDE DEF fresh
  <2> QED BY <2>4, <2>5
<1> HIDE DEF Q
<1>11. \A k \in 1..n : k - 1 \in Q => k \in Q
  BY <1>10
<1>12. n \in Q
  <2> HIDE DEF n
  <2>1. \A k \in 0..n : k \in Q
    BY <1>1, <1>9, <1>11, Induction
  <2> QED BY <1>1, <2>1
<1> QED BY <1>7, <1>12 DEF Q

\* Whatever the browser held, every panel is there once.
LEMMA NormalIsWhole ==
  ASSUME NEW rows \in Seq(RawRow)
  PROVE  D!NormalizeLayout(rows) \in WholeLayouts
<1>1. PICK base \in Seq(RawRow) : base = D!DefaultLayout /\ base \in WholeLayouts
  BY DefaultIs
<1>2. PICK all \in Seq(RawRow) : all = rows \o base
  <2> HIDE DEF RawRow
  <2>1. rows \o base \in Seq(RawRow)
    BY <1>1
  <2> QED BY <2>1
<1>3. \A i \in 1..Len(base) : Len(rows) + i \in 1..Len(all) /\ all[Len(rows) + i] = base[i]
  BY <1>2
<1>4. PICK list : list = D!Placed(all)
  OBVIOUS
<1>5. /\ list \in Seq(RawRow) /\ Alone(list)
      /\ \A k \in 1..Len(list) : list[k].id \in D!PanelIds
      /\ \A i \in 1..Len(all) : all[i].id \in D!PanelIds => \E k \in 1..Len(list) : list[k].id = all[i].id
  BY <1>4, PlacedIs
<1>6. HasAll(list)
  <2> SUFFICES ASSUME NEW id \in D!PanelIds PROVE \E k \in 1..Len(list) : list[k].id = id
    BY DEF HasAll
  <2>1. PICK i \in 1..Len(base) : base[i].id = id
    BY <1>1 DEF WholeLayouts, HasAll
  <2> QED BY <1>3, <1>5, <2>1
<1>7. ASSUME NEW k \in 1..Len(list) PROVE list[k] \in GridRow
  <2>1. PICK row : row = list[k]
    OBVIOUS
  <2>2. row \in RawRow /\ row.id \in D!PanelIds
    BY <1>5, <2>1
  <2> QED BY <2>1, <2>2 DEF GridRow, RawRow
<1>8. list \in Seq(GridRow)
  BY <1>5, <1>7
<1> QED BY <1>1, <1>2, <1>4, <1>5, <1>6, <1>8 DEF WholeLayouts, D!NormalizeLayout

\* Arrangements that have every panel once are of one length.
LEMMA NoLonger ==
  ASSUME NEW l \in WholeLayouts, NEW r \in WholeLayouts
  PROVE  Len(l) <= Len(r)
<1>1. /\ Len(l) \in Nat /\ Len(r) \in Nat /\ Alone(l) /\ HasAll(r)
      /\ \A i \in 1..Len(l) : l[i].id \in D!PanelIds
  <2>1. l \in Seq(GridRow) /\ r \in Seq(GridRow) /\ Alone(l) /\ HasAll(r)
    BY DEF WholeLayouts
  <2>2. \A i \in 1..Len(l) : l[i] \in GridRow
    BY <2>1
  <2> QED BY <2>1, <2>2 DEF GridRow
<1> DEFINE from == 1..Len(l)
           to == 1..Len(r)
           f == [i \in from |-> CHOOSE j \in to : r[j].id = l[i].id]
<1>2. ASSUME NEW i \in from PROVE f[i] \in to /\ r[f[i]].id = l[i].id
  <2>1. \E j \in to : r[j].id = l[i].id
    BY <1>1 DEF HasAll
  <2> QED BY <2>1
<1>3. f \in [from -> to] /\ \A i, k \in from : f[i] = f[k] => i = k
  <2> HIDE DEF f
  <2>1. \A i, k \in from : f[i] = f[k] => i = k
    BY <1>1, <1>2 DEF Alone
  <2>2. f \in [from -> to]
    BY <1>2 DEF f
  <2> QED BY <2>1, <2>2
<1>4. IsFiniteSet(from) /\ IsFiniteSet(to) /\ Cardinality(from) = Len(l) /\ Cardinality(to) = Len(r)
  <2>1. PICK m \in Nat, n \in Nat : m = Len(l) /\ n = Len(r)
    BY <1>1
  <2>2. /\ IsFiniteSet(1..m) /\ Cardinality(1..m) = (IF 1 > m THEN 0 ELSE m - 1 + 1)
        /\ IsFiniteSet(1..n) /\ Cardinality(1..n) = (IF 1 > n THEN 0 ELSE n - 1 + 1)
    BY FS_Interval
  <2>3. (IF 1 > m THEN 0 ELSE m - 1 + 1) = m /\ (IF 1 > n THEN 0 ELSE n - 1 + 1) = n
    OBVIOUS
  <2> QED BY <2>1, <2>2, <2>3
<1> HIDE DEF from, to, f
<1>5. ~(Cardinality(to) < Cardinality(from))
  BY <1>3, <1>4, FS_PigeonHole
<1> QED BY <1>1, <1>4, <1>5

LEMMA WholeIs ==
  ASSUME NEW l \in WholeLayouts
  PROVE  D!Whole(l) /\ l \in D!Layouts /\ Len(l) = 2 /\ l \in Seq(RawRow)
<1>1. l \in Seq(GridRow) /\ Alone(l) /\ HasAll(l)
  BY DEF WholeLayouts
<1>2. Len(l) = 2
  <2>1. Len(l) <= Len(D!DefaultLayout) /\ Len(D!DefaultLayout) <= Len(l)
    BY DefaultIs, NoLonger
  <2> QED BY <1>1, <2>1, DefaultIs
<1>3. \A i \in 1..2 : l[i] \in GridRow
  BY <1>1, <1>2
<1>4. {l[i].id : i \in DOMAIN l} = D!PanelIds /\ DOMAIN l = 1..2
  <2>1. DOMAIN l = 1..2
    BY <1>1, <1>2
  <2>2. \A i \in 1..2 : l[i].id \in D!PanelIds
    BY <1>3 DEF GridRow
  <2> QED BY <1>1, <1>2, <2>1, <2>2 DEF HasAll
<1>5. l \in [1..2 -> [id : D!PanelIds, collapsed : BOOLEAN]]
  BY <1>1, <1>2, <1>3 DEF GridRow
<1>6. l \in Seq(RawRow)
  <2>1. \A i \in 1..2 : l[i] \in RawRow
    BY <1>3, PanelsAre DEF GridRow, RawRow
  <2> QED BY <1>1, <1>2, <2>1
<1> QED BY <1>2, <1>4, <1>5, <1>6, DefaultIs, PanelsAre DEF D!Whole, D!Layouts

\* Rows that are each once, and as many as there are panels to be had.
LEMMA TwoRows ==
  ASSUME NEW l, l \in Seq(GridRow), Len(l) = 2, l[1].id # l[2].id
  PROVE  l \in WholeLayouts
<1>1. \A i \in 1..2 : i = 1 \/ i = 2
  OBVIOUS
<1>2. l[1] \in GridRow /\ l[2] \in GridRow
  OBVIOUS
<1>3. l[1].id \in {"a", "b"} /\ l[2].id \in {"a", "b"}
  BY <1>2, PanelsAre DEF GridRow
<1>4. Alone(l)
  BY <1>1 DEF Alone
<1>5. HasAll(l)
  BY <1>3, PanelsAre DEF HasAll
<1> QED BY <1>4, <1>5 DEF WholeLayouts

LEMMA RowsDiffer ==
  ASSUME NEW l \in WholeLayouts
  PROVE  /\ l \in Seq(GridRow) /\ Len(l) = 2 /\ DOMAIN l = 1..2
         /\ l[1] \in GridRow /\ l[2] \in GridRow /\ l[1].id # l[2].id
<1>1. l \in Seq(GridRow) /\ Len(l) = 2 /\ Alone(l)
  BY WholeIs DEF WholeLayouts
<1>2. l[1] \in GridRow /\ l[2] \in GridRow /\ DOMAIN l = 1..2
  <2>1. DOMAIN l = 1..2
    BY <1>1
  <2>2. l \in Seq(GridRow) /\ 1 \in DOMAIN l /\ 2 \in DOMAIN l
    BY <1>1, <2>1
  <2>3. \A k \in DOMAIN l : l[k] \in GridRow
    BY <2>2
  <2> QED BY <2>1, <2>2, <2>3
<1>3. l[1].id # l[2].id
  BY <1>1 DEF Alone
<1> QED BY <1>1, <1>2, <1>3

LEMMA ReorderedIs ==
  ASSUME NEW l \in WholeLayouts, NEW i \in 1..2, NEW j \in 1..2, i # j
  PROVE  D!Reordered(l, i, j) \in WholeLayouts
<1>1. /\ l \in Seq(GridRow) /\ Len(l) = 2
      /\ l[1] \in GridRow /\ l[2] \in GridRow /\ l[1].id # l[2].id
  BY RowsDiffer
<1>2. PICK left \in Seq(GridRow) : left = D!RemoveAt(l, i) /\ Len(left) = 1 /\ left[1] = l[j]
  <2> HIDE DEF GridRow
  <2>1. D!RemoveAt(l, i) = SubSeq(l, 1, i - 1) \o SubSeq(l, i + 1, Len(l))
    BY DEF D!RemoveAt
  <2>2. i \in 1..Len(l)
    BY <1>1
  <2>a. PICK left : left = SubSeq(l, 1, i - 1) \o SubSeq(l, i + 1, Len(l))
    OBVIOUS
  <2>3. /\ left \in Seq(GridRow) /\ left = D!RemoveAt(l, i) /\ Len(left) = Len(l) - 1
        /\ \A k \in 1..Len(left) : left[k] = IF k < i THEN l[k] ELSE l[k + 1]
    BY <1>1, <2>1, <2>2, <2>a, WithoutOne
  <2>4. left[1] = IF 1 < i THEN l[1] ELSE l[2]
    BY <1>1, <2>3
  <2>5. left[1] = l[j]
    BY <2>4
  <2> QED BY <1>1, <2>3, <2>5
<1>3. PICK out : out = D!Reordered(l, i, j)
  OBVIOUS
<1>4. PICK e \in GridRow : e = l[i]
  BY <1>1
<1>5. out = SubSeq(left, 1, j - 1) \o <<e>> \o SubSeq(left, j, Len(left))
  BY <1>2, <1>3, <1>4 DEF D!Reordered, D!InsertAt
<1>6. out \in Seq(GridRow) /\ Len(out) = 2 /\ out[j] = e /\ out[i] = left[1]
  <2> HIDE DEF GridRow
  <2>1. CASE j = 1
    <3>1a. PICK front : front = SubSeq(left, 1, 0)
      OBVIOUS
    <3>1. front \in Seq(GridRow) /\ front = SubSeq(left, 1, 0) /\ Len(front) = 0
      BY <1>2, <3>1a
    <3>2a. PICK back : back = SubSeq(left, 1, 1)
      OBVIOUS
    <3>2. back \in Seq(GridRow) /\ back = SubSeq(left, 1, 1) /\ Len(back) = 1 /\ back[1] = left[1]
      BY <1>2, <3>2a
    <3>3. out = front \o <<e>> \o back /\ i = 2
      BY <1>2, <1>5, <2>1, <3>1, <3>2
    <3>b. PICK mid : mid = front \o <<e>>
      OBVIOUS
    <3>4. mid \in Seq(GridRow) /\ mid = front \o <<e>> /\ Len(mid) = 1 /\ mid[1] = e
      BY <1>4, <3>1, <3>b
    <3> QED BY <2>1, <3>2, <3>3, <3>4
  <2>2. CASE j = 2
    <3>1a. PICK front : front = SubSeq(left, 1, 1)
      OBVIOUS
    <3>1. front \in Seq(GridRow) /\ front = SubSeq(left, 1, 1) /\ Len(front) = 1 /\ front[1] = left[1]
      BY <1>2, <3>1a
    <3>2a. PICK back : back = SubSeq(left, 2, 1)
      OBVIOUS
    <3>2. back \in Seq(GridRow) /\ back = SubSeq(left, 2, 1) /\ Len(back) = 0
      BY <1>2, <3>2a
    <3>3. out = front \o <<e>> \o back /\ i = 1
      BY <1>2, <1>5, <2>2, <3>1, <3>2
    <3>b. PICK mid : mid = front \o <<e>>
      OBVIOUS
    <3>4. mid \in Seq(GridRow) /\ mid = front \o <<e>> /\ Len(mid) = 2 /\ mid[1] = front[1] /\ mid[2] = e
      BY <1>4, <3>1, <3>b
    <3> QED BY <2>2, <3>1, <3>2, <3>3, <3>4
  <2> QED BY <2>1, <2>2
<1>7. out[1].id # out[2].id
  BY <1>1, <1>2, <1>4, <1>6
<1> QED BY <1>3, <1>6, <1>7, TwoRows

LEMMA FoldedIs ==
  ASSUME NEW l \in WholeLayouts, NEW i \in 1..2
  PROVE  [l EXCEPT ![i].collapsed = ~@] \in WholeLayouts
<1>1. /\ l \in Seq(GridRow) /\ Len(l) = 2 /\ DOMAIN l = 1..2
      /\ l[1] \in GridRow /\ l[2] \in GridRow /\ l[1].id # l[2].id
  BY RowsDiffer
<1>2. PICK row : row = [l[i] EXCEPT !.collapsed = ~@]
  OBVIOUS
<1>3. row \in GridRow /\ row.id = l[i].id
  <2>1. PICK r \in GridRow : r = l[i]
    BY <1>1
  <2>2. PICK no \in BOOLEAN : no = ~r.collapsed
    BY <2>1 DEF GridRow
  <2>3. row = [r EXCEPT !.collapsed = no]
    BY <1>2, <2>1, <2>2, Zenon
  <2> QED BY <2>1, <2>2, <2>3 DEF GridRow
<1>4. PICK out : out = [l EXCEPT ![i] = row]
  OBVIOUS
<1>5. [l EXCEPT ![i].collapsed = ~@] = out
  BY <1>2, <1>4, Zenon
<1>6. out \in Seq(GridRow) /\ Len(out) = 2 /\ out[1].id # out[2].id
  <2>1. out \in Seq(GridRow) /\ Len(out) = 2
    <3>1. DOMAIN out = 1..2 /\ \A k \in 1..2 : out[k] = l[k] \/ out[k] = row
      BY <1>1, <1>4
    <3>2. \A k \in 1..2 : k = 1 \/ k = 2
      OBVIOUS
    <3>3. \A k \in 1..2 : out[k] \in GridRow
      BY <1>1, <1>3, <3>1, <3>2
    <3>4. out = [k \in 1..2 |-> out[k]]
      BY <1>1, <1>4
    <3> QED BY <3>3, <3>4
  <2>2. \A k \in 1..2 : out[k].id = l[k].id
    BY <1>1, <1>3, <1>4
  <2> QED BY <1>1, <2>1, <2>2
<1> QED BY <1>5, <1>6, TwoRows

LEMMA PlaceIs ==
  ASSUME NEW list \in Seq(NamedLayout), NEW name
  PROVE  LET at == D!PlaceOf(list, name)
         IN  \/ at \in 1..Len(list) /\ LowerCase[list[at].name] = LowerCase[name]
             \/ at = 0 /\ \A i \in 1..Len(list) : LowerCase[list[i].name] # LowerCase[name]
<1> DEFINE same == {i \in DOMAIN list : LowerCase[list[i].name] = LowerCase[name]}
           least(i) == i \in same /\ \A j \in same : i <= j
           at == CHOOSE i : least(i)
<1>1. D!PlaceOf(list, name) = IF same = {} THEN 0 ELSE CHOOSE i \in same : \A j \in same : i <= j
  BY DEF D!PlaceOf
<1>2. DOMAIN list = 1..Len(list) /\ Len(list) \in Nat
  OBVIOUS
<1>3. same \subseteq Nat /\ same \subseteq 1..Len(list)
  BY <1>2
<1>4. CASE same = {}
  BY <1>1, <1>2, <1>4
<1>5. CASE same # {}
  <2>1. (CHOOSE i \in same : \A j \in same : i <= j) \in same
    <3> HIDE DEF same
    <3>1. \E i \in same : \A j \in same : i <= j
      BY <1>3, <1>5, LeastNumber
    <3> QED BY <3>1, Zenon
  <2>2. PICK m \in same : m = D!PlaceOf(list, name)
    <3> HIDE DEF same
    <3> QED BY <1>1, <1>5, <2>1
  <2> QED BY <1>3, <2>2
<1> QED BY <1>4, <1>5

LEMMA OneNameLess ==
  ASSUME NEW list \in Seq(NamedLayout), ToldApart(list), NEW v \in 1..Len(list)
  PROVE  LET rest == D!RemoveAt(list, v)
         IN  rest \in Seq(NamedLayout) /\ Len(rest) = Len(list) - 1 /\ ToldApart(rest)
<1>1. PICK rest : rest = SubSeq(list, 1, v - 1) \o SubSeq(list, v + 1, Len(list))
  OBVIOUS
<1>2. /\ rest \in Seq(NamedLayout) /\ Len(rest) = Len(list) - 1
      /\ \A i \in 1..Len(rest) : rest[i] = IF i < v THEN list[i] ELSE list[i + 1]
  BY <1>1, WithoutOne
<1>3. D!RemoveAt(list, v) = rest
  BY <1>1 DEF D!RemoveAt
<1>4. ToldApart(rest)
  <2> SUFFICES ASSUME NEW i \in 1..Len(rest), NEW j \in 1..Len(rest), i # j
               PROVE  LowerCase[rest[i].name] # LowerCase[rest[j].name]
    BY DEF ToldApart
  <2>0. Len(list) \in Nat
    OBVIOUS
  <2>1. PICK i1 \in 1..Len(list) : i1 = (IF i < v THEN i ELSE i + 1) /\ rest[i] = list[i1]
    BY <1>2, <2>0
  <2>2. PICK j1 \in 1..Len(list) : j1 = (IF j < v THEN j ELSE j + 1) /\ rest[j] = list[j1]
    BY <1>2, <2>0
  <2>3. i1 # j1
    BY <1>2, <2>0, <2>1, <2>2
  <2> QED BY <2>1, <2>2, <2>3 DEF ToldApart
<1> QED BY <1>2, <1>3, <1>4

LEMMA NamedIs == ASSUME NEW e \in NamedLayout PROVE e.name \in GridNames /\ e.layout \in WholeLayouts
BY DEF NamedLayout

LEMMA SavedIs ==
  ASSUME NEW list \in Seq(NamedLayout), ToldApart(list), NEW name \in GridNames, NEW l \in WholeLayouts
  PROVE  LET list1 == D!Saved(list, name, l)
         IN  list1 \in Seq(NamedLayout) /\ Len(list1) <= Len(list) + 1 /\ ToldApart(list1)
<1>1. PICK whole \in WholeLayouts : whole = D!NormalizeLayout(l)
  BY NormalIsWhole, WholeIs
<1>2. PICK at : at = D!PlaceOf(list, name)
  OBVIOUS
<1>3. \/ at \in 1..Len(list) /\ LowerCase[list[at].name] = LowerCase[name]
      \/ at = 0 /\ \A i \in 1..Len(list) : LowerCase[list[i].name] # LowerCase[name]
  BY <1>2, PlaceIs
<1>4. PICK list1 : list1 = D!Saved(list, name, l)
  OBVIOUS
<1>5. list1 = IF at > 0 THEN [list EXCEPT ![at].layout = whole]
              ELSE Append(list, [name |-> name, layout |-> whole])
  BY <1>1, <1>2, <1>4, Zenon DEF D!Saved
<1>6. Len(list) \in Nat /\ \A i \in 1..Len(list) : list[i] \in NamedLayout
  OBVIOUS
<1>7. CASE at \in 1..Len(list)
  <2>1. PICK e \in NamedLayout : e = list[at]
    BY <1>6, <1>7
  <2>2. PICK e1 : e1 = [e EXCEPT !.layout = whole]
    OBVIOUS
  <2>3. e1 \in NamedLayout /\ e1.name = e.name
    BY <2>1, <2>2 DEF NamedLayout
  <2>4. list1 = [list EXCEPT ![at] = e1]
    BY <1>5, <1>6, <1>7, <2>1, <2>2
  <2>5. list1 \in Seq(NamedLayout) /\ Len(list1) = Len(list)
    BY <1>6, <1>7, <2>3, <2>4
  <2>6. \A i \in 1..Len(list) : list1[i].name = list[i].name
    BY <1>6, <1>7, <2>1, <2>3, <2>4
  <2>7. ToldApart(list1)
    BY <2>5, <2>6 DEF ToldApart
  <2> QED BY <1>4, <1>6, <2>5, <2>7
<1>8. CASE at = 0 /\ \A i \in 1..Len(list) : LowerCase[list[i].name] # LowerCase[name]
  <2>a. PICK e : e = [name |-> name, layout |-> whole]
    OBVIOUS
  <2>1. e \in NamedLayout /\ e = [name |-> name, layout |-> whole] /\ e.name = name
    BY <2>a DEF NamedLayout
  <2>2. list1 = Append(list, e)
    BY <1>5, <1>8, <2>1
  <2>3. PICK len \in Nat : len = Len(list)
    BY <1>6
  <2>4. /\ list1 \in Seq(NamedLayout) /\ Len(list1) = len + 1
        /\ list1[len + 1] = e /\ \A i \in 1..len : list1[i] = list[i]
    <3>1. list1 \in Seq(NamedLayout)
      BY <2>1, <2>2
    <3>2. Len(list1) = len + 1 /\ list1[len + 1] = e
      BY <2>2, <2>3
    <3>3. \A i \in 1..len : list1[i] = list[i]
      BY <2>2, <2>3
    <3> QED BY <3>1, <3>2, <3>3
  <2>5. \A i \in 1..len : LowerCase[list1[i].name] # LowerCase[list1[len + 1].name]
    BY <1>8, <2>1, <2>3, <2>4
  <2>6. \A i, j \in 1..len : i # j => LowerCase[list1[i].name] # LowerCase[list1[j].name]
    BY <2>3, <2>4 DEF ToldApart
  <2>7. ToldApart(list1)
    <3> SUFFICES ASSUME NEW i \in 1..len + 1, NEW j \in 1..len + 1, i # j
                 PROVE  LowerCase[list1[i].name] # LowerCase[list1[j].name]
      BY <2>4 DEF ToldApart
    <3>1. (i \in 1..len \/ i = len + 1) /\ (j \in 1..len \/ j = len + 1)
      BY <2>3
    <3> QED BY <2>5, <2>6, <3>1
  <2> QED BY <1>4, <2>3, <2>4, <2>7
<1> QED BY <1>3, <1>7, <1>8

LEMMA RenamedIs ==
  ASSUME NEW list \in Seq(NamedLayout), ToldApart(list), NEW name \in GridNames, NEW v \in 1..Len(list),
         \A i \in 1..Len(list) : i # v => LowerCase[list[i].name] # LowerCase[name]
  PROVE  LET list1 == [list EXCEPT ![v].name = name]
         IN  list1 \in Seq(NamedLayout) /\ Len(list1) = Len(list) /\ ToldApart(list1)
<1>1. Len(list) \in Nat /\ \A i \in 1..Len(list) : list[i] \in NamedLayout
  OBVIOUS
<1>2. PICK e \in NamedLayout : e = list[v]
  BY <1>1
<1>3. PICK e1 : e1 = [e EXCEPT !.name = name]
  OBVIOUS
<1>4. e1 \in NamedLayout /\ e1.name = name
  BY <1>2, <1>3 DEF NamedLayout
<1>5. PICK list1 : list1 = [list EXCEPT ![v] = e1]
  OBVIOUS
<1>6. [list EXCEPT ![v].name = name] = list1
  BY <1>1, <1>2, <1>3, <1>5
<1>7. list1 \in Seq(NamedLayout) /\ Len(list1) = Len(list)
  BY <1>1, <1>4, <1>5
<1>8. list1[v] = e1 /\ \A i \in 1..Len(list) : i # v => list1[i] = list[i]
  BY <1>1, <1>5
<1>9. ToldApart(list1)
  <2> SUFFICES ASSUME NEW i \in 1..Len(list), NEW j \in 1..Len(list), i # j
               PROVE  LowerCase[list1[i].name] # LowerCase[list1[j].name]
    BY <1>7 DEF ToldApart
  <2> QED BY <1>4, <1>8 DEF ToldApart
<1> QED BY <1>6, <1>7, <1>9

\* What the browser's record is read as, and what an arrangement is written as.
LEMMA ReadIsWhole ==
  ASSUME NEW raw, raw = Nil \/ raw \in GridRecord PROVE D!Decoded(raw) \in WholeLayouts
<1>1. CASE raw = Nil
  BY <1>1, DefaultIs DEF D!Decoded
<1>2. CASE raw # Nil /\ raw \in GridRecord
  <2>1. raw.rows \in Seq(RawRow)
    BY <1>2 DEF GridRecord
  <2>2. D!Decoded(raw) \in {D!DefaultLayout, D!NormalizeLayout(raw.rows)}
    BY <1>2 DEF D!Decoded
  <2> QED BY <2>1, <2>2, DefaultIs, NormalIsWhole
<1> QED BY <1>1, <1>2

LEMMA WrittenFits ==
  ASSUME NEW rows \in Seq(RawRow) PROVE D!Encoded(rows) \in GridRecord
<1>1. PICK l \in WholeLayouts : l = D!NormalizeLayout(rows)
  BY NormalIsWhole
<1>2. l \in Seq(RawRow)
  BY WholeIs
<1>3. D!Encoded(rows) = [version |-> 1, rows |-> l]
  BY <1>1 DEF D!Encoded, D!LayoutVersion
<1> QED BY <1>2, <1>3 DEF GridRecord

LEMMA PersistIs ==
  ASSUME GridInv, NEW p \in GridPages, NEW l \in WholeLayouts, D!Persist(p, l)
  PROVE  /\ grid' \in [GridPages -> WholeLayouts \cup {Nil}]
         /\ refused' \subseteq GridPages
         /\ stored' = Nil \/ stored' \in GridRecord
<1>1. grid' = [grid EXCEPT ![p] = l] /\ grid \in [GridPages -> WholeLayouts \cup {Nil}]
  BY DEF GridInv, D!Persist
<1>2. refused' \subseteq GridPages
  BY DEF GridInv, D!Persist
<1>3. stored' = stored \/ stored' = D!Encoded(l)
  BY DEF D!Persist
<1>4. D!Encoded(l) \in GridRecord
  BY WholeIs, WrittenFits
<1> QED BY <1>1, <1>2, <1>3, <1>4 DEF GridInv

LEMMA GridStep == ASSUME GridFits, GridInv, D!Next PROVE GridInv'
<1>0. /\ grid \in [GridPages -> WholeLayouts \cup {Nil}]
      /\ arrangement \in [GridPages -> GridNames \cup {Nil}]
      /\ known \in [GridPages -> Seq(NamedLayout)]
      /\ resetting \subseteq GridPages /\ refused \subseteq GridPages
      /\ stored = Nil \/ stored \in GridRecord
      /\ named \in Seq(NamedLayout) /\ Len(named) <= MaxNamed /\ ToldApart(named)
      /\ changes \in 0..MaxChanges /\ MaxChanges \in Nat /\ MaxNamed \in Nat
  BY DEF GridInv, GridFits
<1>a. D!Counted => changes' \in 0..MaxChanges
  BY <1>0 DEF D!Counted
\* A list that is no worse is written, or refused.
<1>b. ASSUME NEW p \in GridPages, NEW list \in Seq(NamedLayout), Len(list) <= MaxNamed, ToldApart(list),
             D!Keep(list), known' = [known EXCEPT ![p] = named'],
             arrangement' \in [GridPages -> GridNames \cup {Nil}],
             changes' \in 0..MaxChanges, UNCHANGED <<grid, resetting, refused, stored>>
      PROVE  GridInv'
  <2>1. PICK list1 \in {list, named} : list1 = named'
    BY <1>b, Zenon DEF D!Keep
  <2>2. list1 \in Seq(NamedLayout) /\ Len(list1) <= MaxNamed /\ ToldApart(list1)
    BY <1>0, <1>b, <2>1
  <2>3. known' = [known EXCEPT ![p] = list1]
    BY <1>b, <2>1
  <2>4. known' \in [GridPages -> Seq(NamedLayout)]
    BY <1>0, <2>2, <2>3
  <2>5. named' \in Seq(NamedLayout) /\ Len(named') <= MaxNamed /\ ToldApart(named')
    BY <2>1, <2>2 DEF ToldApart
  <2> QED BY <1>0, <1>b, <2>4, <2>5 DEF GridInv
\* An arrangement that is whole is taken on.
<1>c. ASSUME NEW p \in GridPages, NEW l \in WholeLayouts, D!Persist(p, l),
             arrangement' \in [GridPages -> GridNames \cup {Nil}],
             resetting' \subseteq GridPages, changes' \in 0..MaxChanges, UNCHANGED <<known, named>>
      PROVE  GridInv'
  <2>1. /\ grid' \in [GridPages -> WholeLayouts \cup {Nil}] /\ refused' \subseteq GridPages
        /\ stored' = Nil \/ stored' \in GridRecord
    BY <1>c, PersistIs
  <2>2. ToldApart(named')
    BY <1>0, <1>c DEF ToldApart
  <2> QED BY <1>0, <1>c, <2>1, <2>2 DEF GridInv
<1>1. ASSUME NEW p \in GridPages, D!Mount(p) PROVE GridInv'
  <2>1. PICK l \in WholeLayouts : l = D!Decoded(stored)
    BY <1>0, ReadIsWhole
  <2>2. grid' \in [GridPages -> WholeLayouts \cup {Nil}]
    BY <1>0, <1>1, <2>1 DEF D!Mount
  <2>3. known' \in [GridPages -> Seq(NamedLayout)]
    BY <1>0, <1>1 DEF D!Mount
  <2>4. stored' = Nil \/ stored' \in GridRecord
    <3>1. CASE stored' = stored
      BY <1>0, <3>1
    <3>2. CASE stored # Nil /\ stored' = D!Encoded(stored.rows)
      <4>1. PICK rows \in Seq(RawRow) : rows = stored.rows
        BY <1>0, <3>2 DEF GridRecord
      <4> QED BY <3>2, <4>1, WrittenFits
    <3> QED BY <1>1, <3>1, <3>2 DEF D!Mount
  <2>5. UNCHANGED <<arrangement, resetting, refused, named, changes>>
    BY <1>1 DEF D!Mount
  <2>6. ToldApart(named')
    BY <1>0, <2>5 DEF ToldApart
  <2> QED BY <1>0, <2>2, <2>3, <2>4, <2>5, <2>6 DEF GridInv
<1>2. ASSUME NEW p \in GridPages, NEW from \in 1..2, NEW to \in 1..2, D!Move(p, from, to) PROVE GridInv'
  <2>1. PICK l \in WholeLayouts : l = grid[p]
    BY <1>0, <1>2 DEF D!Move
  <2>2. PICK l1 \in WholeLayouts : l1 = D!Reordered(l, from, to)
    BY <1>2, <2>1, ReorderedIs DEF D!Move
  <2>3. D!Persist(p, l1) /\ changes' \in 0..MaxChanges /\ UNCHANGED <<arrangement, known, resetting, named>>
    BY <1>2, <1>a, <2>1, <2>2 DEF D!Move
  <2> QED BY <1>0, <1>c, <2>3
<1>3. ASSUME NEW p \in GridPages, NEW i \in 1..2, D!Collapse(p, i) PROVE GridInv'
  <2>1. PICK l \in WholeLayouts : l = grid[p]
    BY <1>0, <1>3 DEF D!Collapse
  <2>2. PICK l1 \in WholeLayouts : l1 = [l EXCEPT ![i].collapsed = ~@]
    BY FoldedIs
  <2>3. D!Persist(p, l1) /\ changes' \in 0..MaxChanges /\ UNCHANGED <<arrangement, known, resetting, named>>
    BY <1>3, <1>a, <2>1, <2>2, Zenon DEF D!Collapse
  <2> QED BY <1>0, <1>c, <2>3
<1>4. ASSUME NEW p \in GridPages, NEW name \in GridNames, D!SaveLayout(p, name) PROVE GridInv'
  <2>1. PICK l \in WholeLayouts : l = grid[p]
    BY <1>0, <1>4 DEF D!SaveLayout
  <2>2. PICK list : list = D!Saved(named, name, l)
    OBVIOUS
  <2>3. list \in Seq(NamedLayout) /\ Len(list) <= MaxNamed /\ ToldApart(list)
    <3>1. Len(named) < MaxNamed
      BY <1>4 DEF D!SaveLayout
    <3>2. list \in Seq(NamedLayout) /\ Len(list) <= Len(named) + 1 /\ ToldApart(list)
      BY <1>0, <2>2, SavedIs
    <3>3. Len(list) \in Nat /\ Len(named) \in Nat
      BY <1>0, <3>2
    <3> QED BY <1>0, <3>1, <3>2, <3>3
  <2>4. PICK name1 \in GridNames : name1 = LET at == D!PlaceOf(named, name)
                                           IN  IF at > 0 THEN named[at].name ELSE name
    <3>1. PICK at : at = D!PlaceOf(named, name)
      OBVIOUS
    <3>2. at \in 1..Len(named) \/ at = 0
      BY <1>0, <3>1, PlaceIs
    <3>3. CASE at \in 1..Len(named)
      <4>1. PICK e \in NamedLayout : e = named[at]
        BY <1>0, <3>3
      <4> QED BY <3>1, <3>3, <4>1, NamedIs
    <3> QED BY <3>1, <3>2, <3>3
  <2>5. arrangement' = [arrangement EXCEPT ![p] = name1]
    BY <1>4, <2>4, Zenon DEF D!SaveLayout
  <2>6. arrangement' \in [GridPages -> GridNames \cup {Nil}]
    BY <1>0, <2>5
  <2>7. D!Keep(list)
    BY <1>4, <2>1, <2>2 DEF D!SaveLayout
  <2>8. /\ known' = [known EXCEPT ![p] = named'] /\ changes' \in 0..MaxChanges
        /\ UNCHANGED <<grid, resetting, refused, stored>>
    BY <1>4, <1>a DEF D!SaveLayout
  <2> QED BY <1>b, <2>3, <2>6, <2>7, <2>8
<1>5. ASSUME NEW p \in GridPages, D!UpdateLayout(p) PROVE GridInv'
  <2>1. PICK l \in WholeLayouts : l = grid[p]
    BY <1>0, <1>5 DEF D!UpdateLayout
  <2>2. PICK name \in GridNames : name = arrangement[p]
    BY <1>0, <1>5 DEF D!UpdateLayout
  <2>3. PICK list : list = D!Saved(named, name, l)
    OBVIOUS
  <2>4. list \in Seq(NamedLayout) /\ Len(list) <= MaxNamed /\ ToldApart(list)
    <3>1. Len(named) < MaxNamed
      BY <1>5 DEF D!UpdateLayout
    <3>2. list \in Seq(NamedLayout) /\ Len(list) <= Len(named) + 1 /\ ToldApart(list)
      BY <1>0, <2>3, SavedIs
    <3>3. Len(list) \in Nat /\ Len(named) \in Nat
      BY <1>0, <3>2
    <3> QED BY <1>0, <3>1, <3>2, <3>3
  <2>5. D!Keep(list)
    BY <1>5, <2>1, <2>2, <2>3 DEF D!UpdateLayout
  <2>6. /\ known' = [known EXCEPT ![p] = named'] /\ changes' \in 0..MaxChanges
        /\ UNCHANGED <<grid, arrangement, resetting, refused, stored>>
    BY <1>5, <1>a DEF D!UpdateLayout
  <2> QED BY <1>0, <1>b, <2>4, <2>5, <2>6
<1>6. ASSUME NEW p \in GridPages, NEW i \in DOMAIN known[p], D!SelectLayout(p, i) PROVE GridInv'
  <2>1. PICK list \in Seq(NamedLayout) : list = known[p]
    BY <1>0
  <2>2. PICK e \in NamedLayout : e = list[i]
    <3>1. i \in DOMAIN list
      BY <2>1
    <3> QED BY <3>1
  <2>3. PICK l \in WholeLayouts, name \in GridNames : l = e.layout /\ name = e.name
    BY <2>2, NamedIs
  <2>4. D!Persist(p, l)
    BY <1>6, <2>1, <2>2, <2>3 DEF D!SelectLayout
  <2>5. arrangement' = [arrangement EXCEPT ![p] = name]
    BY <1>6, <2>1, <2>2, <2>3 DEF D!SelectLayout
  <2>6. arrangement' \in [GridPages -> GridNames \cup {Nil}]
    BY <1>0, <2>5
  <2>7. changes' \in 0..MaxChanges /\ UNCHANGED <<known, resetting, named>>
    BY <1>6, <1>a DEF D!SelectLayout
  <2> QED BY <1>0, <1>c, <2>4, <2>6, <2>7
<1>7. ASSUME NEW p \in GridPages, NEW name \in GridNames, D!RenameLayout(p, name) PROVE GridInv'
  <2>1. PICK old \in GridNames : old = arrangement[p]
    BY <1>0, <1>7 DEF D!RenameLayout
  <2>2. PICK at : at = D!PlaceOf(named, old)
    OBVIOUS
  <2>3. at > 0 /\ \A i \in DOMAIN named : i # at => LowerCase[named[i].name] # LowerCase[name]
    BY <1>7, <2>1, <2>2 DEF D!RenameLayout
  <2>4. at \in 1..Len(named)
    BY <1>0, <2>2, <2>3, PlaceIs
  <2>5. PICK list : list = [named EXCEPT ![at].name = name]
    OBVIOUS
  <2>6. \A i \in 1..Len(named) : i # at => LowerCase[named[i].name] # LowerCase[name]
    BY <1>0, <2>3
  <2>7. list \in Seq(NamedLayout) /\ Len(list) = Len(named) /\ ToldApart(list)
    BY <1>0, <2>4, <2>5, <2>6, RenamedIs
  <2>8. D!Keep(list)
    BY <1>7, <2>1, <2>2, <2>5 DEF D!RenameLayout
  <2>9. /\ known' = [known EXCEPT ![p] = named'] /\ changes' \in 0..MaxChanges
        /\ arrangement' = [arrangement EXCEPT ![p] = name] /\ UNCHANGED <<grid, resetting, refused, stored>>
    BY <1>7, <1>a DEF D!RenameLayout
  <2>10. arrangement' \in [GridPages -> GridNames \cup {Nil}]
    BY <1>0, <2>9
  <2> QED BY <1>0, <1>b, <2>7, <2>8, <2>9, <2>10
<1>8. ASSUME NEW p \in GridPages, D!DeleteLayout(p) PROVE GridInv'
  <2>1. PICK at : at = D!PlaceOf(named, arrangement[p])
    OBVIOUS
  <2>2. at \in 1..Len(named)
    <3>1. at > 0
      BY <1>8, <2>1 DEF D!DeleteLayout
    <3> QED BY <1>0, <2>1, <3>1, PlaceIs
  <2>3. PICK list : list = D!RemoveAt(named, at)
    OBVIOUS
  <2>4. list \in Seq(NamedLayout) /\ Len(list) = Len(named) - 1 /\ ToldApart(list)
    BY <1>0, <2>2, <2>3, OneNameLess
  <2>5. Len(list) <= MaxNamed
    <3>1. Len(named) \in Nat
      BY <1>0
    <3> QED BY <1>0, <2>4, <3>1
  <2>6. D!Keep(list)
    BY <1>8, <2>1, <2>3 DEF D!DeleteLayout
  <2>7. /\ known' = [known EXCEPT ![p] = named'] /\ changes' = changes
        /\ arrangement' = [arrangement EXCEPT ![p] = Nil] /\ UNCHANGED <<grid, resetting, refused, stored>>
    BY <1>8 DEF D!DeleteLayout
  <2>8. arrangement' \in [GridPages -> GridNames \cup {Nil}]
    BY <1>0, <2>7
  <2> QED BY <1>0, <1>b, <2>4, <2>5, <2>6, <2>7, <2>8
<1>9. ASSUME NEW p \in GridPages, D!AskReset(p) \/ D!CancelReset(p) PROVE GridInv'
  <2>1. resetting' \subseteq GridPages /\ UNCHANGED <<grid, arrangement, known, refused, stored, named, changes>>
    BY <1>0, <1>9 DEF D!AskReset, D!CancelReset
  <2>2. ToldApart(named')
    BY <1>0, <2>1 DEF ToldApart
  <2> QED BY <1>0, <2>1, <2>2 DEF GridInv
<1>10. ASSUME NEW p \in GridPages, D!ConfirmReset(p) PROVE GridInv'
  <2>1. PICK l \in WholeLayouts : l = D!DefaultLayout
    BY DefaultIs
  <2>2. /\ D!Persist(p, l) /\ resetting' = resetting \ {p} /\ UNCHANGED <<known, named, changes>>
        /\ arrangement' = [arrangement EXCEPT ![p] = Nil]
    BY <1>10, <2>1 DEF D!ConfirmReset
  <2>3. arrangement' \in [GridPages -> GridNames \cup {Nil}]
    BY <1>0, <2>2
  <2> QED BY <1>0, <1>c, <2>2, <2>3
<1>11. ASSUME NEW p \in GridPages, D!Reload(p) PROVE GridInv'
  <2>1. /\ grid' = [grid EXCEPT ![p] = Nil] /\ arrangement' = [arrangement EXCEPT ![p] = Nil]
        /\ known' = [known EXCEPT ![p] = <<>>] /\ resetting' = resetting \ {p}
        /\ refused' = refused \ {p} /\ UNCHANGED <<stored, named, changes>>
    BY <1>11 DEF D!Reload
  <2>2. known' \in [GridPages -> Seq(NamedLayout)]
    <3>1. <<>> \in Seq(NamedLayout)
      OBVIOUS
    <3> QED BY <1>0, <2>1, <3>1
  <2>3. ToldApart(named')
    BY <1>0, <2>1 DEF ToldApart
  <2> QED BY <1>0, <2>1, <2>2, <2>3 DEF GridInv
<1> QED BY <1>1, <1>2, <1>3, <1>4, <1>5, <1>6, <1>7, <1>8, <1>9, <1>10, <1>11, PanelsAre
        DEF D!Next, GridNames

(* Whatever the browser held at first and whatever the pages do after one  *)
(* another: every page shows every panel once, a named arrangement has     *)
(* every panel once, and no two of them have one name in whatever case     *)
(* (layoutStore.ts, normalizeLayout and saveNamedLayout).                  *)
THEOREM PanelsAreKept ==
  ASSUME GridFits PROVE D!Spec => [](D!GridTypes /\ D!NoPanelLost /\ D!NamesApart)
<1>1. D!Init => GridInv
  <2> SUFFICES ASSUME D!Init PROVE GridInv
    OBVIOUS
  <2>1. stored = Nil \/ stored \in GridRecord
    <3>1. ASSUME NEW id \in {"a", "b", "gone"}, NEW fold \in BOOLEAN PROVE PanelRow(id, fold) \in RawRow
      BY DEF PanelRow, RawRow
    <3>2. PICK g, b1, b2, a1 : /\ g = PanelRow("gone", TRUE) /\ b1 = PanelRow("b", TRUE)
                               /\ b2 = PanelRow("b", FALSE) /\ a1 = PanelRow("a", TRUE)
      OBVIOUS
    <3>3. g \in RawRow /\ b1 \in RawRow /\ b2 \in RawRow /\ a1 \in RawRow
      BY <3>1, <3>2
    <3>4. PICK r1, r2 : r1 = <<g, b1, b2>> /\ r2 = <<b1, a1>>
      OBVIOUS
    <3>5. r1 \in Seq(RawRow) /\ r2 \in Seq(RawRow)
      BY <3>3, <3>4
    <3>6. stored \in {Nil, [version |-> 0, rows |-> r1], [version |-> 2, rows |-> r2]}
      BY <3>2, <3>4 DEF D!Init, Arrangements
    <3> QED BY <3>5, <3>6 DEF GridRecord
  <2>2. named = <<>> /\ <<>> \in Seq(NamedLayout) /\ Len(<<>>) = 0 /\ ToldApart(named)
    BY DEF D!Init, ToldApart
  <2>3. known \in [GridPages -> Seq(NamedLayout)]
    BY <2>2 DEF D!Init
  <2> QED BY <2>1, <2>2, <2>3 DEF D!Init, GridInv, GridFits
<1>2. GridInv /\ [D!Next]_(D!gridVars) => GridInv'
  <2>1. ASSUME GridInv, UNCHANGED D!gridVars PROVE GridInv'
    BY <2>1 DEF GridInv, ToldApart, D!gridVars
  <2> QED BY <2>1, GridStep
<1>3. GridInv => D!GridTypes
  <2> SUFFICES ASSUME GridInv PROVE D!GridTypes
    OBVIOUS
  <2>1. WholeLayouts \subseteq D!Layouts
    BY WholeIs
  <2>2. PICK entries : entries = [name : {"n", "N", "m"}, layout : D!Layouts]
    OBVIOUS
  <2>3. NamedLayout \subseteq entries
    BY <2>1, <2>2 DEF NamedLayout, GridNames
  <2>4. \A list \in Seq(NamedLayout) : list \in Seq(entries)
    BY <2>3
  <2>5. named \in Seq(entries) /\ \A p \in GridPages : known[p] \in Seq(entries)
    BY <2>4 DEF GridInv
  <2>6. grid \in [GridPages -> D!Layouts \cup {Nil}]
    BY <2>1 DEF GridInv
  <2> QED BY <2>2, <2>5, <2>6 DEF GridInv, GridNames, D!GridTypes
<1>4. GridInv => D!NoPanelLost /\ D!NamesApart
  <2> SUFFICES ASSUME GridInv PROVE D!NoPanelLost /\ D!NamesApart
    OBVIOUS
  <2>1. ASSUME NEW p \in GridPages, grid[p] # Nil PROVE D!Whole(grid[p])
    <3>1. PICK l \in WholeLayouts : l = grid[p]
      BY <2>1 DEF GridInv
    <3> QED BY <3>1, WholeIs
  <2>2. ASSUME NEW i \in DOMAIN named PROVE D!Whole(named[i].layout)
    <3>1. PICK e \in NamedLayout : e = named[i]
      BY DEF GridInv
    <3>2. PICK l \in WholeLayouts : l = e.layout
      BY NamedIs
    <3> QED BY <3>1, <3>2, WholeIs
  <2>3. DOMAIN named = 1..Len(named)
    BY DEF GridInv
  <2>4. D!NamesApart
    BY <2>3 DEF GridInv, ToldApart, D!NamesApart
  <2> QED BY <2>1, <2>2, <2>4 DEF D!NoPanelLost
<1> QED
  <2> SUFFICES ASSUME GridFits PROVE D!Spec => [](D!GridTypes /\ D!NoPanelLost /\ D!NamesApart)
    OBVIOUS
  <2> QED BY <1>1, <1>2, <1>3, <1>4, PTL DEF D!Spec

-----------------------------------------------------------------------------
(* The history.  A row that is young and is not the one recorded stays      *)
(* where it is or moves to the front, but for the new row before it.        *)
H == INSTANCE TxHistory WITH store <- history, shown <- table

(* A list is filtered element by element, so what is true of the result    *)
(* is proved up to each of them.                                            *)
\* What is left of the first rows of a list.
LEMMA FilterIsComputed ==
  ASSUME NEW X, NEW list \in Seq(X), NEW keep
  PROVE  \E f : /\ f[0] = <<>>
                /\ \A i \in 1..Len(list) :
                     f[i] = IF list[i] \in keep THEN Append(f[i - 1], list[i]) ELSE f[i - 1]
                /\ H!Filtered(list, keep) = f[Len(list)]
<1> DEFINE n == Len(list)
           next(i, s) == IF list[i] \in keep THEN Append(s, list[i]) ELSE s
           is(f) == f = [i \in 0..n |-> IF i = 0 THEN <<>> ELSE next(i, f[i - 1])]
           step == [i \in 1..n |-> [s \in Seq(X) |-> next(i, s)]]
<1>1. n \in Nat /\ <<>> \in Seq(X)
  OBVIOUS
<1>2. step \in Steps(n, Seq(X))
  BY DEF Steps
<1>3. PICK f \in [0..n -> Seq(X)] :
        f[0] = <<>> /\ \A i \in 1..n : f[i] = step[i][f[i - 1]]
  <2> HIDE DEF step, n
  <2>1. PICK f : Computes(f, n, Seq(X), <<>>, step)
    BY <1>1, <1>2, StepByStep
  <2> QED BY <2>1 DEF Computes
<1>4. is(f)
  <2>1. ASSUME NEW i \in 1..n
        PROVE  f[i] = next(i, f[i - 1])
    <3>0. i - 1 \in 0..n
      BY <1>1
    <3>1. f[i - 1] \in Seq(X)
      BY <1>3, <3>0
    <3>2. step[i][f[i - 1]] = next(i, f[i - 1])
      BY <3>1
    <3> QED BY <1>3, <3>2
  <2> HIDE DEF next, n
  <2> QED BY <1>1, <1>3, <2>1
<1> DEFINE g == CHOOSE f1 : is(f1)
<1>5. is(g)
  <2> HIDE DEF is
  <2> QED BY <1>4
<1>6. H!Filtered(list, keep) = g[n]
  BY DEF H!Filtered
<1>7. g[0] = <<>> /\ \A i \in 1..n : g[i] = next(i, g[i - 1])
  <2> HIDE DEF g, next, n
  <2> QED BY <1>1, <1>5
<1> QED BY <1>6, <1>7

\* The rows of a list are a part of another, in its order.
Part(some, list, n) ==
  /\ Len(some) <= n
  /\ \A j \in 1..Len(some) : \E i \in j..n : list[i] = some[j]
  /\ \A j, k \in 1..Len(some) :
       j < k => \E i, m \in 1..n : i < m /\ list[i] = some[j] /\ list[m] = some[k]

\* A filter leaves a part of a list: all that is to be kept, and no later than it was.
LEMMA FilterKeeps ==
  ASSUME NEW X, NEW list \in Seq(X), NEW keep
  PROVE  LET left == H!Filtered(list, keep)
         IN /\ left \in Seq(X) /\ Part(left, list, Len(list))
            /\ \A j \in 1..Len(left) : left[j] \in keep
            /\ \A i \in 1..Len(list) :
                 list[i] \in keep => \E j \in 1..Len(left) : j <= i /\ left[j] = list[i]
<1> DEFINE top == Len(list)
<1>1. top \in Nat
  OBVIOUS
<1>2. PICK f : /\ f[0] = <<>>
               /\ \A i \in 1..top :
                    f[i] = IF list[i] \in keep THEN Append(f[i - 1], list[i]) ELSE f[i - 1]
               /\ H!Filtered(list, keep) = f[top]
  BY FilterIsComputed
<1> DEFINE typed(n) == f[n] \in Seq(X)
           within(n) == \A j \in 1..Len(f[n]) : \E i \in j..n : list[i] = f[n][j]
           ordered(n) == \A j, k \in 1..Len(f[n]) :
             j < k => \E i, m \in 1..n : i < m /\ list[i] = f[n][j] /\ list[m] = f[n][k]
           keeps(n) == \A j \in 1..Len(f[n]) : f[n][j] \in keep
           whole(n) == \A i \in 1..n :
             list[i] \in keep => \E j \in 1..Len(f[n]) : j <= i /\ f[n][j] = list[i]
           good(n) == typed(n) /\ Len(f[n]) <= n /\ within(n) /\ ordered(n) /\ keeps(n) /\ whole(n)
           Q == {n \in Nat : good(n)}
<1>3. 0 \in Q
  <2>1. f[0] = <<>> /\ Len(f[0]) = 0 /\ f[0] \in Seq(X)
    BY <1>2
  <2>2. \A j \in 1..Len(f[0]) : FALSE
    BY <2>1
  <2>3. \A i \in 1..0 : FALSE
    OBVIOUS
  <2>4. typed(0) /\ Len(f[0]) <= 0
    BY <2>1
  <2> HIDE DEF typed
  <2>5. within(0) /\ ordered(0) /\ keeps(0) /\ whole(0)
    BY <2>2, <2>3
  <2> QED BY <2>4, <2>5
<1>4. ASSUME NEW n \in 1..top, n - 1 \in Q
      PROVE  n \in Q
  <2> DEFINE s == f[n - 1]
  <2>0. n \in Nat /\ n - 1 \in Nat /\ list[n] \in X /\ good(n - 1)
    BY <1>1, <1>4
  <2>1. CASE list[n] \notin keep
    <3>1. f[n] = f[n - 1]
      BY <1>2, <2>1
    <3>2. typed(n) /\ Len(f[n]) <= n /\ keeps(n)
      BY <2>0, <3>1
    <3>3. within(n)
      <4> SUFFICES ASSUME NEW j \in 1..Len(s) PROVE \E i \in j..n : list[i] = s[j]
        BY <3>1
      <4>1. PICK i \in j..(n - 1) : list[i] = s[j]
        BY <2>0
      <4>2. i \in j..n
        BY <2>0, <4>1
      <4> QED BY <4>1, <4>2
    <3>4. ordered(n)
      <4> SUFFICES ASSUME NEW j \in 1..Len(s), NEW k \in 1..Len(s), j < k
                   PROVE \E i, m \in 1..n : i < m /\ list[i] = s[j] /\ list[m] = s[k]
        BY <3>1
      <4>1. PICK i \in 1..(n - 1), m \in 1..(n - 1) : i < m /\ list[i] = s[j] /\ list[m] = s[k]
        BY <2>0
      <4>2. i \in 1..n /\ m \in 1..n
        BY <2>0, <4>1
      <4> QED BY <4>1, <4>2
    <3>5. whole(n)
      <4> SUFFICES ASSUME NEW i \in 1..n, list[i] \in keep
                   PROVE  \E j \in 1..Len(s) : j <= i /\ s[j] = list[i]
        BY <3>1
      <4>1. i \in 1..(n - 1)
        BY <2>0, <2>1
      <4> QED BY <2>0, <4>1
    <3> QED BY <2>0, <3>2, <3>3, <3>4, <3>5
  <2>2. CASE list[n] \in keep
    <3>1. f[n] = Append(s, list[n])
      BY <1>2, <2>2
    <3>2. s \in Seq(X) /\ Len(s) \in Nat /\ Len(s) <= n - 1
      BY <2>0
    <3>3. /\ f[n] \in Seq(X) /\ Len(f[n]) = Len(s) + 1
          /\ f[n][Len(s) + 1] = list[n]
          /\ \A j \in 1..Len(s) : f[n][j] = s[j]
      BY <2>0, <3>1, <3>2
    <3>4. \A j \in 1..Len(f[n]) : j \in 1..Len(s) \/ j = Len(s) + 1
      BY <3>2, <3>3
    <3>5. typed(n) /\ Len(f[n]) <= n
      BY <2>0, <3>2, <3>3
    <3>6. keeps(n)
      BY <2>0, <2>2, <3>3, <3>4
    <3>7. within(n)
      <4> SUFFICES ASSUME NEW j \in 1..Len(f[n]) PROVE \E i \in j..n : list[i] = f[n][j]
        OBVIOUS
      <4>1. CASE j \in 1..Len(s)
        <5>1. PICK i \in j..(n - 1) : list[i] = s[j]
          BY <2>0, <4>1
        <5>2. i \in j..n
          BY <2>0, <5>1
        <5> QED BY <3>3, <4>1, <5>1, <5>2
      <4>2. CASE j = Len(s) + 1
        <5>1. n \in j..n
          BY <2>0, <3>2, <4>2
        <5> QED BY <3>3, <4>2, <5>1
      <4> QED BY <3>4, <4>1, <4>2
    <3>8. ordered(n)
      <4> SUFFICES ASSUME NEW j \in 1..Len(f[n]), NEW k \in 1..Len(f[n]), j < k
                   PROVE \E i, m \in 1..n : i < m /\ list[i] = f[n][j] /\ list[m] = f[n][k]
        OBVIOUS
      <4>0. j \in 1..Len(s)
        BY <3>2, <3>3
      <4>1. CASE k \in 1..Len(s)
        <5>1. PICK i \in 1..(n - 1), m \in 1..(n - 1) : i < m /\ list[i] = s[j] /\ list[m] = s[k]
          BY <2>0, <4>0, <4>1
        <5>2. i \in 1..n /\ m \in 1..n
          BY <2>0, <5>1
        <5> QED BY <3>3, <4>0, <4>1, <5>1, <5>2
      <4>2. CASE k = Len(s) + 1
        <5>1. PICK i \in j..(n - 1) : list[i] = s[j]
          BY <2>0, <4>0
        <5>2. i \in 1..n /\ n \in 1..n /\ i < n
          BY <2>0, <4>0, <5>1
        <5> QED BY <3>3, <4>0, <4>2, <5>1, <5>2
      <4> QED BY <3>4, <4>1, <4>2
    <3>9. whole(n)
      <4> SUFFICES ASSUME NEW i \in 1..n, list[i] \in keep
                   PROVE  \E j \in 1..Len(f[n]) : j <= i /\ f[n][j] = list[i]
        OBVIOUS
      <4>1. CASE i \in 1..(n - 1)
        <5>1. PICK j \in 1..Len(s) : j <= i /\ s[j] = list[i]
          BY <2>0, <4>1
        <5>2. j \in 1..Len(f[n])
          BY <3>2, <3>3, <5>1
        <5> QED BY <3>3, <5>1, <5>2
      <4>2. CASE i = n
        <5>1. Len(s) + 1 \in 1..Len(f[n]) /\ Len(s) + 1 <= n
          BY <2>0, <3>2, <3>3
        <5> QED BY <3>3, <4>2, <5>1
      <4>3. i \in 1..(n - 1) \/ i = n
        BY <2>0
      <4> QED BY <4>1, <4>2, <4>3
    <3> QED BY <2>0, <3>5, <3>6, <3>7, <3>8, <3>9
  <2> QED BY <2>1, <2>2
<1> HIDE DEF Q
<1>5. \A n \in 1..top : n - 1 \in Q => n \in Q
  BY <1>4
<1>6. \A n \in 0..top : n \in Q
  BY <1>1, <1>3, <1>5, Induction
<1>7. top \in Q
  BY <1>1, <1>6
<1>8. good(top)
  BY <1>7 DEF Q
<1> QED BY <1>2, <1>8 DEF Part

HistFits == Kept \in Nat /\ MaxAge \in Nat /\ MaxDay \in Nat

LEMMA PruneKeeps ==
  ASSUME HistFits, NEW rows \in Seq(H!Row)
  PROVE  LET left == H!Prune(rows)
         IN /\ left \in Seq(H!Row) /\ Len(left) <= Kept
            /\ \A i \in 1..Len(rows) : day - rows[i].day <= MaxAge =>
                 \/ \E j \in 1..Len(left) : j <= i /\ left[j] = rows[i]
                 \/ Len(left) = Kept /\ Kept < i
<1> DEFINE kept0 == {r \in H!Range(rows) : day - r.day <= MaxAge}
           young == H!Filtered(rows, kept0)
           left == H!Prune(rows)
<1>1. /\ young \in Seq(H!Row)
      /\ \A i \in 1..Len(rows) :
           rows[i] \in kept0 => \E j \in 1..Len(young) : j <= i /\ young[j] = rows[i]
  <2> HIDE DEF kept0
  <2> QED BY FilterKeeps
<1>2. left = SubSeq(young, 1, IF Len(young) < Kept THEN Len(young) ELSE Kept)
  BY DEF H!Prune, H!Young
<1>3. Kept \in Nat /\ Len(young) \in Nat
  BY <1>1 DEF HistFits
<1> HIDE DEF young, left
<1>4. /\ left \in Seq(H!Row) /\ Len(left) = IF Len(young) < Kept THEN Len(young) ELSE Kept
      /\ \A j \in 1..Len(left) : left[j] = young[j]
  <2>1. CASE Len(young) < Kept
    BY <1>1, <1>2, <1>3, <2>1
  <2>2. CASE ~(Len(young) < Kept)
    BY <1>1, <1>2, <1>3, <2>2
  <2> QED BY <2>1, <2>2
<1>5. ASSUME NEW i \in 1..Len(rows), day - rows[i].day <= MaxAge
      PROVE  \/ \E j \in 1..Len(left) : j <= i /\ left[j] = rows[i]
             \/ Len(left) = Kept /\ Kept < i
  <2>1. rows[i] \in kept0
    <3>1. rows[i] \in H!Range(rows)
      BY DEF H!Range
    <3> QED BY <1>5, <3>1
  <2>2. PICK j \in 1..Len(young) : j <= i /\ young[j] = rows[i]
    BY <1>1, <2>1
  <2>3. j \in 1..Len(left) \/ (Len(left) = Kept /\ Kept < i)
    BY <1>3, <1>4, <2>2
  <2> QED BY <1>4, <2>2, <2>3
<1> QED BY <1>3, <1>4, <1>5 DEF left

LEMMA RecordedKeeps ==
  ASSUME HistFits, day \in 0..MaxDay, NEW rows \in Seq(H!Row), Len(rows) <= Kept, NEW row \in H!Row,
         row.day = day
  PROVE  LET left == H!Recorded(rows, row)
         IN /\ left \in Seq(H!Row) /\ Len(left) <= Kept
            /\ \A i \in 1..Len(rows) : day - rows[i].day <= MaxAge =>
                 \/ \E j \in 1..Len(left) : left[j].tx = rows[i].tx
                 \/ Len(left) = Kept /\ Kept <= i
<1> DEFINE keep == {r \in H!Range(rows) : r.tx # row.tx}
           others == H!Filtered(rows, keep)
           all == <<row>> \o others
           left == H!Recorded(rows, row)
<1>1. /\ others \in Seq(H!Row)
      /\ \A i \in 1..Len(rows) :
           rows[i] \in keep => \E j \in 1..Len(others) : j <= i /\ others[j] = rows[i]
  <2> HIDE DEF keep
  <2> QED BY FilterKeeps
<1>2. left = H!Prune(all)
  BY DEF H!Recorded
<1> HIDE DEF others
<1>3. /\ all \in Seq(H!Row) /\ Len(all) = Len(others) + 1 /\ all[1] = row
      /\ \A j \in 1..Len(others) : all[j + 1] = others[j]
  BY <1>1
<1> HIDE DEF all, left
<1>4. /\ left \in Seq(H!Row) /\ Len(left) <= Kept
      /\ \A i \in 1..Len(all) : day - all[i].day <= MaxAge =>
           \/ \E j \in 1..Len(left) : j <= i /\ left[j] = all[i]
           \/ Len(left) = Kept /\ Kept < i
  BY <1>2, <1>3, PruneKeeps
<1>5. Kept \in Nat /\ Len(left) \in Nat /\ Len(others) \in Nat /\ MaxAge \in Nat
  BY <1>1, <1>4 DEF HistFits
<1>6. ASSUME NEW i \in 1..Len(rows), day - rows[i].day <= MaxAge
      PROVE  \/ \E j \in 1..Len(left) : left[j].tx = rows[i].tx
             \/ Len(left) = Kept /\ Kept <= i
  <2>1. CASE rows[i].tx = row.tx
    <3>1. 1 \in 1..Len(all) /\ day - all[1].day <= MaxAge
      BY <1>3, <1>5
    <3>2. ~(Kept < 1)
      BY <1>5
    <3>3. PICK j \in 1..Len(left) : left[j] = all[1]
      BY <1>4, <3>1, <3>2
    <3> QED BY <1>3, <2>1, <3>3
  <2>2. CASE rows[i].tx # row.tx
    <3>1. rows[i] \in keep
      <4>1. rows[i] \in H!Range(rows)
        BY DEF H!Range
      <4> QED BY <2>2, <4>1
    <3>2. PICK j \in 1..Len(others) : j <= i /\ others[j] = rows[i]
      BY <1>1, <3>1
    <3>3. j + 1 \in 1..Len(all) /\ all[j + 1] = rows[i] /\ j + 1 <= i + 1
      BY <1>3, <1>5, <3>2
    <3>4. \/ \E k \in 1..Len(left) : left[k] = rows[i]
          \/ Len(left) = Kept /\ Kept < j + 1
      BY <1>4, <1>6, <3>3
    <3> QED BY <1>5, <3>2, <3>4
  <2> QED BY <2>1, <2>2
<1> QED BY <1>4, <1>6 DEF left

\* What a tab goes on from is a record that fits.
LEMMA LoadFits ==
  ASSUME HistFits, H!HistTypes, NEW t \in HistTabs
  PROVE  H!Load(t) \in Seq(H!Row) /\ (t \notin failed => Len(H!Load(t)) <= Kept)
<1>1. H!Prune(history) \in Seq(H!Row) /\ Len(H!Prune(history)) <= Kept
  BY PruneKeeps DEF H!HistTypes
<1>2. memory[t] \in Seq(H!Row)
  BY DEF H!HistTypes
<1> QED BY <1>1, <1>2 DEF H!Load

\* A handler keeps the types, and a row unless the property lets it go.
RowsKept ==
  \A i \in DOMAIN history :
    \/ \E j \in DOMAIN history' : history'[j].tx = history[i].tx
    \/ history' = <<>>
    \/ day - history[i].day > MaxAge
    \/ Len(history') = Kept /\ i = Len(history)
    \/ \E t \in failed : t \notin failed'

LEMMA NotifyFits ==
  ASSUME H!HistTypes, NEW t \in HistTabs, NEW rows \in Seq(H!Row), H!Notify(t, rows)
  PROVE  table' \in [HistTabs -> Seq(H!Row)]
BY DEF H!HistTypes, H!Notify

LEMMA RecordTxFits ==
  ASSUME HistFits, H!HistTypes, NEW t \in HistTabs, NEW h \in Txs, H!RecordTx(t, h)
  PROVE  H!HistTypes' /\ RowsKept
<1> DEFINE row == [tx |-> h, day |-> day]
           next == H!Recorded(H!Load(t), row)
<1>1. /\ memory' = [memory EXCEPT ![t] = next]
      /\ \/ history' = next /\ failed' = failed \ {t} /\ warned' = warned \ {t}
         \/ UNCHANGED history /\ failed' = failed \cup {t} /\ warned' = warned \cup {t}
      /\ H!Notify(t, next)
      /\ UNCHANGED <<open, day>>
  BY DEF H!RecordTx
<1>2. day \in 0..MaxDay /\ row \in H!Row /\ row.day = day
  BY DEF H!HistTypes, H!Row
<1>3. history \in Seq(H!Row) /\ Len(history) <= Kept /\ Len(history) \in Nat
  BY DEF H!HistTypes
<1>4. next \in Seq(H!Row) /\ Len(next) <= Kept
  <2> DEFINE rows == H!Load(t)
  <2>1. rows \in Seq(H!Row)
    BY LoadFits
  <2>2. next = H!Prune(<<row>> \o H!Filtered(rows, {r \in H!Range(rows) : r.tx # row.tx}))
    BY DEF H!Recorded
  <2> DEFINE keep == {r \in H!Range(rows) : r.tx # row.tx}
             all == <<row>> \o H!Filtered(rows, keep)
  <2> HIDE DEF keep, rows, row
  <2>3. H!Filtered(rows, keep) \in Seq(H!Row)
    BY <2>1, FilterKeeps
  <2>4. all \in Seq(H!Row)
    BY <1>2, <2>3
  <2>5. next = H!Prune(all)
    BY <2>2 DEF keep
  <2> HIDE DEF all, next
  <2> QED BY <2>4, <2>5, PruneKeeps
<1>5. H!HistTypes'
  <2> HIDE DEF next
  <2>1. table' \in [HistTabs -> Seq(H!Row)]
    BY <1>1, <1>4, NotifyFits
  <2>2. history' \in Seq(H!Row) /\ Len(history') <= Kept
    BY <1>1, <1>3, <1>4
  <2>3. memory' \in [HistTabs -> Seq(H!Row)]
    BY <1>1, <1>4 DEF H!HistTypes
  <2>4. failed' \subseteq warned' /\ warned' \subseteq HistTabs /\ open' \subseteq HistTabs
    BY <1>1 DEF H!HistTypes
  <2> QED BY <1>1, <1>2, <2>1, <2>2, <2>3, <2>4 DEF H!HistTypes
<1>6. RowsKept
  <2> SUFFICES ASSUME NEW i \in 1..Len(history), ~(day - history[i].day > MaxAge)
               PROVE  \/ \E j \in DOMAIN history' : history'[j].tx = history[i].tx
                      \/ Len(history') = Kept /\ i = Len(history)
                      \/ \E u \in failed : u \notin failed'
    BY <1>3 DEF RowsKept
  <2>1. CASE UNCHANGED history
    <3>1. i \in DOMAIN history' /\ history'[i] = history[i]
      BY <1>3, <2>1
    <3> QED BY <3>1
  <2>2. CASE history' = next /\ failed' = failed \ {t}
    <3>1. CASE t \in failed
      BY <2>2, <3>1
    <3>2. CASE t \notin failed
      <4>1. H!Load(t) = H!Prune(history)
        BY <3>2 DEF H!Load
      <4> DEFINE rows == H!Load(t)
      <4>2. rows \in Seq(H!Row) /\ Len(rows) <= Kept
        BY <3>2, LoadFits
      <4>3. history[i] \in H!Row /\ day - history[i].day <= MaxAge
        <5>1. history[i] \in H!Row
          BY <1>3
        <5>2. history[i].day \in Int /\ day \in Int /\ MaxAge \in Int
          BY <1>2, <5>1 DEF H!Row, HistFits
        <5> QED BY <5>1, <5>2
      <4>4. \/ \E j \in 1..Len(rows) : j <= i /\ rows[j] = history[i]
            \/ Len(rows) = Kept /\ Kept < i
        BY <1>3, <4>1, <4>3, PruneKeeps
      <4>5. Kept \in Nat
        BY DEF HistFits
      <4>6. PICK j \in 1..Len(rows) : j <= i /\ rows[j] = history[i]
        BY <1>3, <4>4, <4>5
      <4>7. day - rows[j].day <= MaxAge
        BY <4>3, <4>6
      <4> HIDE DEF rows, row
      <4>8. \/ \E k \in 1..Len(next) : next[k].tx = rows[j].tx
            \/ Len(next) = Kept /\ Kept <= j
        BY <1>2, <4>2, <4>6, <4>7, RecordedKeeps DEF rows
      <4> HIDE DEF next
      <4>9. CASE \E k \in 1..Len(next) : next[k].tx = rows[j].tx
        <5>1. DOMAIN history' = 1..Len(next)
          BY <1>4, <2>2
        <5> QED BY <2>2, <4>6, <4>9, <5>1
      <4>10. CASE Len(next) = Kept /\ Kept <= j
        BY <1>3, <2>2, <4>5, <4>6, <4>10
      <4> QED BY <4>8, <4>9, <4>10
    <3> QED BY <3>1, <3>2
  <2> QED BY <1>1, <2>1, <2>2
<1> QED BY <1>5, <1>6

LEMMA ClearTxHistoryFits ==
  ASSUME HistFits, H!HistTypes, NEW t \in HistTabs, H!ClearTxHistory(t)
  PROVE  H!HistTypes' /\ RowsKept
<1>1. history' = <<>> \/ UNCHANGED history
  BY DEF H!ClearTxHistory
<1>2. history' \in Seq(H!Row) /\ Len(history') <= Kept
  <2>1. CASE history' = <<>>
    <3>1. <<>> \in Seq(H!Row) /\ Len(<<>>) = 0 /\ 0 <= Kept
      BY DEF HistFits
    <3> QED BY <2>1, <3>1
  <2>2. CASE UNCHANGED history
    BY <2>2 DEF H!HistTypes
  <2> QED BY <1>1, <2>1, <2>2
<1>3. PICK rows : rows = history'
  OBVIOUS
<1>4. H!Prune(rows) \in Seq(H!Row)
  BY <1>2, <1>3, PruneKeeps
<1>5. UNCHANGED day
  BY DEF H!ClearTxHistory
<1>6. H!Prune(history') = H!Prune(rows)
  BY <1>3
<1>7. table' \in [HistTabs -> Seq(H!Row)] /\ memory' \in [HistTabs -> Seq(H!Row)]
  <2>1. memory' = [memory EXCEPT ![t] = H!Prune(rows)] /\ H!Notify(t, H!Prune(rows))
    BY <1>6 DEF H!ClearTxHistory
  <2>2. table' \in [HistTabs -> Seq(H!Row)]
    BY <1>4, <2>1, NotifyFits
  <2>3. memory' \in [HistTabs -> Seq(H!Row)]
    BY <1>4, <2>1 DEF H!HistTypes
  <2> QED BY <2>2, <2>3
<1>8. failed' \subseteq warned' /\ warned' \subseteq HistTabs /\ open' \subseteq HistTabs
  BY DEF H!ClearTxHistory, H!HistTypes
<1>9. H!HistTypes'
  BY <1>2, <1>5, <1>7, <1>8 DEF H!HistTypes
<1> QED BY <1>1, <1>9 DEF RowsKept

LEMMA HistStep ==
  ASSUME HistFits, H!HistTypes, [H!Next]_(H!histVars)
  PROVE  H!HistTypes' /\ RowsKept
<1>1. CASE UNCHANGED H!histVars
  BY <1>1 DEF H!histVars, H!HistTypes, RowsKept
<1>2. CASE H!Tick
  <2>1. day' \in 0..MaxDay
    BY <1>2 DEF H!Tick, H!HistTypes, HistFits
  <2> QED BY <1>2, <2>1 DEF H!Tick, H!HistTypes, RowsKept
<1>3. ASSUME NEW t \in HistTabs, H!OpenTable(t)
      PROVE  H!HistTypes' /\ RowsKept
  <2>1. H!Load(t) \in Seq(H!Row)
    BY LoadFits
  <2> QED BY <1>3, <2>1 DEF H!OpenTable, H!HistTypes, RowsKept
<1>4. ASSUME NEW t \in HistTabs, H!CloseTable(t)
      PROVE  H!HistTypes' /\ RowsKept
  BY <1>4 DEF H!CloseTable, H!HistTypes, RowsKept
<1> QED BY <1>1, <1>2, <1>3, <1>4, RecordTxFits, ClearTxHistoryFits DEF H!Next

(* A recorded transaction stays in the history of the browser until its age,*)
(* a full record, a clear or a tab back from a refused write takes it, for  *)
(* any tabs, limits and ages (recordTx, loadTxHistory and pruneTxHistory).       *)
THEOREM HistoryOutlives ==
  ASSUME HistFits
  PROVE  H!Spec => []H!HistTypes /\ H!RowsOutlive
<1>1. H!Init => H!HistTypes
  BY DEF H!Init, H!HistTypes, HistFits
<1>2. H!HistTypes /\ [H!Next]_(H!histVars) => H!HistTypes' /\ [RowsKept]_(H!histVars)
  BY HistStep
<1> QED BY <1>1, <1>2, PTL DEF H!Spec, H!RowsOutlive, RowsKept

-----------------------------------------------------------------------------
(* The address book.  Every write of the book starts from what is stored,   *)
(* but for an import, which keeps what it was previewed on.                 *)
Typed1 == <<"name", 1>>
Backups == {<<[address |-> y, alias |-> Typed1], [address |-> z, alias |-> <<"name", 2>>]>>,
            <<[address |-> x, alias |-> Typed1], [address |-> y, alias |-> Typed1]>>}

A == INSTANCE AddressBook WITH dialog <- bookDialog

\* A list of contacts that fits, and one that keeps every contact of another.
OneEach(rows) == \A i, j \in 1..Len(rows) : rows[i].address = rows[j].address => i = j
IsBook(rows) == rows \in Seq(A!Contact) /\ Len(rows) <= Capacity /\ OneEach(rows)
Keeps(rows, old) == \A i \in 1..Len(old) : \E j \in 1..Len(rows) : rows[j] = old[i]

Preview == [base : Seq(A!Contact), merge : Seq(A!Contact) \cup {Nil}, replace : Seq(A!Contact)]
Screen == [open : BOOLEAN, conflict : A!Conflict \cup {Nil}, preview : Preview \cup {Nil}]

BookFits ==
  /\ Capacity \in Nat \ {0} /\ Files \subseteq Seq(A!Contact)
  /\ Nil \notin {"update", "rename"} \cup A!Conflict \cup Preview \cup Seq(A!Contact)

ScreenFits(d) ==
  /\ d \in Screen
  /\ d.preview # Nil => /\ IsBook(d.preview.replace)
                        /\ d.preview.merge # Nil =>
                             IsBook(d.preview.merge) /\ Keeps(d.preview.merge, d.preview.base)
  /\ ~d.open => d = A!Closed

BookInv ==
  /\ format \in {"none", "legacy", "current", "newer"} /\ IsBook(book)
  /\ DOMAIN bookDialog = DialogTabs /\ bookDialog = [t \in DialogTabs |-> bookDialog[t]]
  /\ \A t \in DialogTabs : ScreenFits(bookDialog[t])

\* A contact is where it was, or the record was not one this build reads.
Stays == format = "newer" \/ Keeps(book', book)

LEMMA LoadIsBook ==
  ASSUME BookFits, BookInv
  PROVE  IsBook(A!Load) /\ Len(A!Load) \in Nat
<1>1. CASE format = "newer"
  <2>1. A!Load = <<>>
    BY <1>1 DEF A!Load
  <2>2. <<>> \in Seq(A!Contact) /\ Len(<<>>) = 0 /\ 0 <= Capacity
    BY DEF BookFits
  <2> QED BY <2>1, <2>2 DEF IsBook, OneEach
<1>2. CASE format # "newer"
  <2>1. A!Load = book
    BY <1>2 DEF A!Load
  <2> QED BY <2>1 DEF BookInv, IsBook
<1> QED BY <1>1, <1>2

LEMMA ScreenSet ==
  ASSUME BookInv, NEW t \in DialogTabs, NEW d, ScreenFits(d),
         bookDialog' = [bookDialog EXCEPT ![t] = d]
  PROVE  /\ DOMAIN bookDialog' = DialogTabs /\ bookDialog' = [u \in DialogTabs |-> bookDialog'[u]]
         /\ \A u \in DialogTabs : ScreenFits(bookDialog'[u])
BY DEF BookInv

\* A write lands whole or not at all.
LEMMA PersistFits ==
  ASSUME BookFits, BookInv, NEW t \in DialogTabs, NEW rows, IsBook(rows), NEW d, ScreenFits(d),
         A!Persist(t, rows, d)
  PROVE  BookInv' /\ (Keeps(rows, A!Load) => Stays)
<1>1. /\ \/ format' = "current" /\ book' = rows
         \/ UNCHANGED <<format, book>>
      /\ bookDialog' = [bookDialog EXCEPT ![t] = d]
  BY DEF A!Persist
<1>2. format' \in {"none", "legacy", "current", "newer"} /\ IsBook(book')
  BY <1>1 DEF BookInv
<1>3. BookInv'
  BY <1>1, <1>2, ScreenSet DEF BookInv, IsBook
<1>4. ASSUME Keeps(rows, A!Load), format # "newer"
      PROVE  Keeps(book', book)
  <2>1. A!Load = book
    BY <1>4 DEF A!Load
  <2>2. CASE book' = rows
    BY <1>4, <2>1, <2>2
  <2>3. CASE UNCHANGED book
    BY <2>3 DEF Keeps
  <2> QED BY <1>1, <2>2, <2>3
<1> QED BY <1>3, <1>4 DEF Stays

\* A step that writes nothing.
LEMMA NothingWritten ==
  ASSUME BookInv, NEW t \in DialogTabs, NEW d, ScreenFits(d),
         bookDialog' = [bookDialog EXCEPT ![t] = d], UNCHANGED book,
         format' = format \/ format' = "current"
  PROVE  BookInv' /\ Stays
<1>1. BookInv'
  BY ScreenSet DEF BookInv, IsBook
<1> QED BY <1>1 DEF Stays, Keeps

LEMMA UnconflictedFits ==
  ASSUME BookInv, NEW t \in DialogTabs
  PROVE  /\ ScreenFits(A!Unconflicted(t))
         /\ ScreenFits([A!Unconflicted(t) EXCEPT !.preview = Nil])
         /\ bookDialog[t].open => ScreenFits([bookDialog[t] EXCEPT !.preview = Nil])
<1> DEFINE d == bookDialog[t]
<1>1. ScreenFits(d)
  BY DEF BookInv
<1> HIDE DEF d
<1> DEFINE e == [d EXCEPT !.conflict = Nil]
<1>2. /\ e \in Screen /\ e.preview = d.preview /\ e.open = d.open
      /\ (~d.open => e = A!Closed)
  <2>1. d \in Screen /\ (~d.open => d = A!Closed)
    BY <1>1 DEF ScreenFits
  <2>2. e \in Screen /\ e.preview = d.preview /\ e.open = d.open
    BY <2>1 DEF Screen
  <2>3. d = A!Closed => e = A!Closed
    <3> SUFFICES ASSUME d = A!Closed PROVE e = A!Closed
      OBVIOUS
    <3>1. e.open = FALSE /\ e.conflict = Nil /\ e.preview = Nil
      BY DEF A!Closed
    <3> HIDE DEF e
    <3>2. e = [open |-> e.open, conflict |-> e.conflict, preview |-> e.preview]
      BY <2>2 DEF Screen
    <3> QED BY <3>1, <3>2 DEF A!Closed
  <2> QED BY <2>1, <2>2, <2>3
<1>3. ScreenFits(e)
  BY <1>1, <1>2 DEF ScreenFits
<1> HIDE DEF e
<1>4. ASSUME NEW s, ScreenFits(s)
      PROVE  ScreenFits([s EXCEPT !.preview = Nil])
  <2> DEFINE q == [s EXCEPT !.preview = Nil]
  <2>1. /\ q \in Screen /\ q.preview = Nil /\ q.open = s.open
        /\ (~s.open => q = A!Closed)
    <3>1. s \in Screen /\ (~s.open => s = A!Closed)
      BY <1>4 DEF ScreenFits
    <3>2. q \in Screen /\ q.preview = Nil /\ q.open = s.open
      BY <3>1 DEF Screen
    <3>3. s = A!Closed => q = A!Closed
      <4> SUFFICES ASSUME s = A!Closed PROVE q = A!Closed
        OBVIOUS
      <4>1. q.open = FALSE /\ q.conflict = Nil /\ q.preview = Nil
        BY DEF A!Closed
      <4> HIDE DEF q
      <4>2. q = [open |-> q.open, conflict |-> q.conflict, preview |-> q.preview]
        BY <3>2 DEF Screen
      <4> QED BY <4>1, <4>2 DEF A!Closed
    <3> QED BY <3>1, <3>2, <3>3
  <2> HIDE DEF q
  <2> QED BY <2>1 DEF ScreenFits, q
<1>5. A!Unconflicted(t) = e
  BY DEF A!Unconflicted, e, d
<1> QED BY <1>1, <1>3, <1>4, <1>5 DEF d

\* Of the suffixes there are, one is always free (suggestedAlias).
LEMMA SuffixIsFree ==
  ASSUME BookFits, BookInv, Len(A!Load) < Capacity, NEW l \in A!Alias
  PROVE  A!Suggested(l) \in A!Alias
<1> DEFINE ns == 2..(Capacity + 2)
           taken(n) == A!Aliased(A!Load, <<l[1], n>>)
           rows == A!Load
<1>1. l[1] \in Names /\ Capacity \in Nat
  BY DEF A!Alias, BookFits
<1>2. rows \in Seq(A!Contact) /\ Len(rows) \in Nat
  BY LoadIsBook DEF IsBook
<1>3. \E n \in ns : ~taken(n)
  <2> SUFFICES ASSUME \A n \in ns : taken(n) PROVE FALSE
    OBVIOUS
  <2> DEFINE at(n) == CHOOSE i \in 1..Len(rows) : rows[i].alias = <<l[1], n>>
             f == [n \in ns |-> at(n)]
  <2>1. ASSUME NEW n \in ns
        PROVE  at(n) \in 1..Len(rows) /\ rows[at(n)].alias = <<l[1], n>>
    <3>0. DOMAIN rows = 1..Len(rows)
      BY <1>2
    <3>1. \E i \in 1..Len(rows) : rows[i].alias = <<l[1], n>>
      <4>1. taken(n)
        OBVIOUS
      <4> HIDE DEF rows
      <4>2. A!Aliased(rows, <<l[1], n>>)
        BY <4>1 DEF rows
      <4> QED BY <3>0, <4>2 DEF A!Aliased
    <3> QED BY <3>1
  <2> HIDE DEF at
  <2>2. f \in [ns -> 1..Len(rows)]
    BY <2>1
  <2>3. IsFiniteSet(ns) /\ Cardinality(ns) = Capacity + 1
    BY <1>1, FS_Interval, SMTT(30)
  <2>4. IsFiniteSet(1..Len(rows)) /\ Cardinality(1..Len(rows)) = Len(rows)
    BY <1>2, FS_Interval, SMTT(30)
  <2>5. Cardinality(1..Len(rows)) < Cardinality(ns)
    BY <1>1, <1>2, <2>3, <2>4
  <2>6. PICK n1 \in ns, n2 \in ns : n1 # n2 /\ f[n1] = f[n2]
    <3> HIDE DEF f, ns
    <3> QED BY <2>2, <2>3, <2>4, <2>5, FS_PigeonHole
  <2>7. <<l[1], n1>> = <<l[1], n2>>
    BY <2>1, <2>6
  <2> QED BY <2>6, <2>7
<1> HIDE DEF taken
<1>4. PICK m \in ns : ~taken(m) /\ \A k \in 2..(m - 1) : taken(k)
  <2> DEFINE free == {n \in ns : ~taken(n)}
  <2>1. free \subseteq Nat /\ free # {}
    BY <1>1, <1>3
  <2>2. PICK m \in free : \A k \in free : m <= k
    <3> HIDE DEF free
    <3> QED BY <2>1, LeastNumber
  <2>3. ASSUME NEW k \in 2..(m - 1)
        PROVE  taken(k)
    <3>1. k \in ns /\ ~(m <= k)
      BY <1>1, <2>2
    <3> QED BY <2>2, <3>1
  <2> QED BY <2>2, <2>3
<1> DEFINE suffix == CHOOSE n \in ns : ~taken(n) /\ \A k \in 2..(n - 1) : taken(k)
<1>5. A!Suggested(l) = <<l[1], suffix>>
  BY DEF A!Suggested, taken
<1>6. suffix \in ns
  BY <1>4
<1> HIDE DEF suffix
<1>7. suffix \in 1..(Capacity + 2)
  BY <1>1, <1>6
<1> QED BY <1>1, <1>5, <1>7 DEF A!Alias

\* What leaves one contact out, and what puts one in front.
LEMMA WithoutIsBook ==
  ASSUME NEW rows, IsBook(rows), Capacity \in Nat, NEW a
  PROVE  /\ IsBook(A!Without(rows, a)) /\ Len(A!Without(rows, a)) <= Len(rows)
         /\ \A j \in 1..Len(A!Without(rows, a)) : \E i \in 1..Len(rows) : A!Without(rows, a)[j] = rows[i]
<1> DEFINE keep == {c \in A!Range(rows) : c.address # a}
<1>1. A!Without(rows, a) = H!Filtered(rows, keep)
  BY DEF A!Without, A!Filtered, H!Filtered
<1>2. rows \in Seq(A!Contact) /\ OneEach(rows) /\ Len(rows) \in Nat
  BY DEF IsBook
<1> HIDE DEF keep
<1>3. PICK left : left = H!Filtered(rows, keep)
  OBVIOUS
<1>4. left \in Seq(A!Contact) /\ Part(left, rows, Len(rows)) /\ Len(left) \in Nat
  BY <1>2, <1>3, FilterKeeps
<1>5. \A j \in 1..Len(left) : \E i \in 1..Len(rows) : left[j] = rows[i]
  <2> SUFFICES ASSUME NEW j \in 1..Len(left) PROVE \E i \in 1..Len(rows) : left[j] = rows[i]
    OBVIOUS
  <2>1. PICK i \in j..Len(rows) : rows[i] = left[j]
    BY <1>4 DEF Part
  <2> QED BY <1>2, <1>4, <2>1
<1>6. OneEach(left)
  <2>1. ASSUME NEW j \in 1..Len(left), NEW k \in 1..Len(left), j < k,
               left[j].address = left[k].address
        PROVE  FALSE
    <3>1. PICK i \in 1..Len(rows), m \in 1..Len(rows) :
            i < m /\ rows[i] = left[j] /\ rows[m] = left[k]
      BY <1>4, <2>1 DEF Part
    <3>2. i = m
      BY <1>2, <2>1, <3>1 DEF OneEach
    <3> QED BY <1>2, <3>1, <3>2
  <2> QED BY <1>4, <2>1 DEF OneEach
<1> QED BY <1>1, <1>2, <1>3, <1>4, <1>5, <1>6 DEF IsBook, Part

LEMMA InFront ==
  ASSUME NEW c \in A!Contact, NEW rows, IsBook(rows), Len(rows) < Capacity, Capacity \in Nat,
         \A i \in 1..Len(rows) : rows[i].address # c.address
  PROVE  IsBook(<<c>> \o rows) /\ Keeps(<<c>> \o rows, rows)
<1>1. rows \in Seq(A!Contact) /\ Len(rows) \in Nat /\ OneEach(rows)
  BY DEF IsBook
<1> DEFINE all == <<c>> \o rows
<1>2. all \in Seq(A!Contact) /\ Len(all) = Len(rows) + 1 /\ all[1] = c
  BY <1>1
<1>3. \A i \in 1..Len(rows) : i + 1 \in 1..Len(all) /\ all[i + 1] = rows[i]
  BY <1>1
<1> HIDE DEF all
<1>4. IsBook(all)
  <2>1. \A i \in 1..Len(all) : i = 1 \/ (i - 1 \in 1..Len(rows) /\ all[i] = rows[i - 1])
    BY <1>1, <1>2, <1>3
  <2>2. ASSUME NEW i \in 1..Len(all), NEW j \in 1..Len(all), all[i].address = all[j].address
        PROVE  i = j
    <3>1. CASE i = 1 \/ j = 1
      BY <1>2, <2>1, <2>2, <3>1
    <3>2. CASE i # 1 /\ j # 1
      <4>1. i - 1 = j - 1
        <5>1. PICK k \in 1..Len(rows), l \in 1..Len(rows) :
                k = i - 1 /\ l = j - 1 /\ all[i] = rows[k] /\ all[j] = rows[l]
          BY <2>1, <3>2
        <5>2. rows[k].address = rows[l].address
          BY <2>2, <5>1
        <5>3. k = l
          BY <1>1, <5>2 DEF OneEach
        <5> QED BY <5>1, <5>3
      <4> QED BY <1>1, <1>2, <4>1
    <3> QED BY <3>1, <3>2
  <2> QED BY <1>1, <1>2, <2>2 DEF IsBook, OneEach
<1>5. Keeps(all, rows)
  BY <1>3 DEF Keeps
<1> QED BY <1>4, <1>5 DEF all

\* A save: only a resolution that says "update" takes a contact away.
LEMMA SaveFits ==
  ASSUME BookFits, BookInv, NEW t \in DialogTabs, bookDialog[t].open,
         NEW a \in Addresses, NEW l \in A!Alias, NEW resolution \in {Nil, "rename", "update"},
         A!SaveContact(t, a, l, resolution)
  PROVE  BookInv' /\ (resolution # "update" => Stays)
<1> DEFINE rows == A!Load
           d == A!Unconflicted(t)
<1>1. /\ rows \in Seq(A!Contact) /\ Len(rows) \in Nat /\ Len(rows) <= Capacity /\ IsBook(rows)
      /\ Capacity \in Nat
  BY LoadIsBook DEF IsBook, BookFits
<1>2. ScreenFits(d)
  BY UnconflictedFits
<1>3. bookDialog' = [bookDialog EXCEPT ![t] = d] /\ UNCHANGED <<format, book>>
        => BookInv' /\ Stays
  BY <1>2, NothingWritten
<1>4. ASSUME NEW kind \in {"duplicate-address", "alias-conflict"}, A!Stop(t, a, l, kind)
      PROVE  BookInv' /\ Stays
  <2> DEFINE c == [address |-> a, alias |-> l, kind |-> kind]
             s == bookDialog[t]
             q == [s EXCEPT !.conflict = c]
  <2>1. c \in A!Conflict
    BY DEF A!Conflict
  <2> HIDE DEF c
  <2>2. ScreenFits(s) /\ s.open
    BY DEF BookInv
  <2>3. bookDialog' = [bookDialog EXCEPT ![t] = q] /\ UNCHANGED <<format, book>>
    BY <1>4 DEF A!Stop, c
  <2> HIDE DEF s
  <2>4. q \in Screen /\ q.preview = s.preview /\ q.open = s.open
    BY <2>1, <2>2 DEF ScreenFits, Screen
  <2> HIDE DEF q
  <2>5. ScreenFits(q)
    BY <2>2, <2>4 DEF ScreenFits
  <2> QED BY <2>3, <2>5, NothingWritten
<1>5. A!New(a, l) \in A!Contact
  BY DEF A!New, A!Contact
<1>6. CASE A!SaveKnown(t, a, l, resolution)
  <2>1. CASE resolution = "update" /\ A!Persist(t, A!Relabel(a, l), d)
    <3> DEFINE all == A!Relabel(a, l)
    <3>1. DOMAIN rows = 1..Len(rows)
      BY <1>1
    <3>2. all = [i \in 1..Len(rows) |-> IF rows[i].address = a THEN A!New(a, l) ELSE rows[i]]
      BY <3>1 DEF A!Relabel
    <3> HIDE DEF all, rows
    <3>3. \A i \in 1..Len(rows) : all[i] \in A!Contact
      BY <1>1, <1>5, <3>2
    <3>4. all \in Seq(A!Contact) /\ Len(all) = Len(rows)
      BY <1>1, <3>2, <3>3
    <3>5. IsBook(all)
      <4>1. A!New(a, l).address = a
        BY DEF A!New
      <4>2. \A i \in 1..Len(rows) : all[i].address = rows[i].address
        BY <3>2, <4>1
      <4> QED BY <1>1, <3>4, <4>2 DEF IsBook, OneEach
    <3> QED BY <1>2, <2>1, <3>5, PersistFits DEF all
  <2>2. CASE A!Stop(t, a, l, "duplicate-address")
    BY <1>4, <2>2
  <2> QED BY <1>3, <1>6, <2>1, <2>2 DEF A!SaveKnown
<1>7. CASE A!SaveNew(t, a, l, resolution)
  <2>1. CASE A!Stop(t, a, l, "alias-conflict")
    BY <1>4, <2>1
  <2>0. ASSUME NEW n, NEW i \in 1..Len(rows) PROVE rows[i].address # A!New(a, n).address
    <3>1. ~A!Has(rows, a) /\ DOMAIN rows = 1..Len(rows)
      BY <1>1, <1>7 DEF A!SaveNew
    <3>2. A!New(a, n).address = a
      BY DEF A!New
    <3> HIDE DEF rows
    <3> QED BY <3>1, <3>2 DEF A!Has
  <2>2. ASSUME Len(rows) < Capacity, NEW n, A!New(a, n) \in A!Contact,
               A!Persist(t, <<A!New(a, n)>> \o rows, d)
        PROVE  BookInv' /\ Stays
    <3>1. IsBook(<<A!New(a, n)>> \o rows) /\ Keeps(<<A!New(a, n)>> \o rows, rows)
      <4> HIDE DEF rows
      <4> QED BY <1>1, <2>0, <2>2, InFront
    <3> QED BY <1>2, <2>2, <3>1, PersistFits
  <2>3. CASE Len(rows) < Capacity /\ A!Persist(t, <<A!New(a, l)>> \o rows, d)
    BY <1>5, <2>2, <2>3
  <2>4. CASE Len(rows) < Capacity /\ A!Persist(t, <<A!New(a, A!Suggested(l))>> \o rows, d)
    <3>1. A!New(a, A!Suggested(l)) \in A!Contact
      BY <2>4, SuffixIsFree DEF A!New, A!Contact
    <3> QED BY <2>2, <2>4, <3>1
  <2>5. ASSUME Len(rows) < Capacity, resolution # Nil, resolution # "rename",
               NEW h, A!Persist(t, <<A!New(a, l)>> \o A!Without(rows, h), d)
        PROVE  BookInv'
    <3> DEFINE others == A!Without(rows, h)
    <3>1. /\ IsBook(others) /\ Len(others) <= Len(rows)
          /\ \A j \in 1..Len(others) : \E i \in 1..Len(rows) : others[j] = rows[i]
      <4> HIDE DEF rows
      <4> QED BY <1>1, WithoutIsBook
    <3> HIDE DEF others
    <3>2. Len(others) < Capacity
      BY <1>1, <2>5, <3>1 DEF IsBook
    <3>3. IsBook(<<A!New(a, l)>> \o others)
      <4>1. \A j \in 1..Len(others) : others[j].address # A!New(a, l).address
        BY <2>0, <3>1
      <4> HIDE DEF rows
      <4> QED BY <1>1, <1>5, <3>1, <3>2, <4>1, InFront
    <3> QED BY <1>2, <2>5, <3>3, PersistFits DEF others
  <2>6. \/ A!Stop(t, a, l, "alias-conflict")
        \/ Len(rows) < Capacity /\ A!Persist(t, <<A!New(a, l)>> \o rows, d)
        \/ Len(rows) < Capacity /\ A!Persist(t, <<A!New(a, A!Suggested(l))>> \o rows, d)
        \/ /\ Len(rows) < Capacity /\ resolution # Nil /\ resolution # "rename"
           /\ \E h : A!Persist(t, <<A!New(a, l)>> \o A!Without(rows, h), d)
    BY <1>7 DEF A!SaveNew
  <2> QED BY <2>1, <2>3, <2>4, <2>5, <2>6
<1> QED BY <1>6, <1>7 DEF A!SaveContact

\* The rows of a file that may be written are a list of contacts.
LEMMA ReplaceableIs ==
  ASSUME NEW file \in Seq(A!Contact)
  PROVE  A!Replaceable(file) \in Seq(A!Contact) /\ OneEach(A!Replaceable(file))
<1> DEFINE n == Len(file)
           next(i, s) == A!Adds(s, file[i])
           is(f) == f = [i \in 0..n |-> IF i = 0 THEN <<>> ELSE next(i, f[i - 1])]
           step == [i \in 1..n |-> [s \in Seq(A!Contact) |-> next(i, s)]]
<1>1. n \in Nat /\ <<>> \in Seq(A!Contact)
  OBVIOUS
<1>2. ASSUME NEW i \in 1..n, NEW s \in Seq(A!Contact)
      PROVE  next(i, s) \in Seq(A!Contact)
  BY <1>2 DEF A!Adds
<1>b. ASSUME NEW i \in 1..n, NEW s \in Seq(A!Contact), OneEach(s)
      PROVE  OneEach(next(i, s))
  <2>1. PICK c \in A!Contact : c = file[i]
    OBVIOUS
  <2>2. CASE next(i, s) = s
    BY <1>b, <2>2
  <2>3. CASE next(i, s) # s
    <3>1. ~A!Has(s, c.address) /\ next(i, s) = Append(s, c)
      BY <2>1, <2>3 DEF A!Adds
    <3>2. PICK all : all = Append(s, c)
      OBVIOUS
    <3>3. /\ Len(s) \in Nat /\ Len(all) = Len(s) + 1 /\ all[Len(s) + 1] = c
          /\ \A j \in 1..Len(s) : all[j] = s[j] /\ s[j].address # c.address
      BY <3>1, <3>2 DEF A!Has
    <3>4. OneEach(all)
      BY <1>b, <3>3 DEF OneEach
    <3> QED BY <3>1, <3>2, <3>4
  <2> QED BY <2>2, <2>3
<1>3. step \in Steps(n, Seq(A!Contact))
  <2> HIDE DEF next, n
  <2> QED BY <1>2 DEF Steps
<1>4. PICK f \in [0..n -> Seq(A!Contact)] :
        f[0] = <<>> /\ \A i \in 1..n : f[i] = step[i][f[i - 1]]
  <2> HIDE DEF step, n
  <2>1. PICK f : Computes(f, n, Seq(A!Contact), <<>>, step)
    BY <1>1, <1>3, StepByStep
  <2> QED BY <2>1 DEF Computes
<1>5. is(f)
  <2>1. ASSUME NEW i \in 1..n
        PROVE  f[i] = next(i, f[i - 1])
    <3>0. i - 1 \in 0..n
      BY <1>1
    <3>1. f[i - 1] \in Seq(A!Contact)
      BY <1>4, <3>0
    <3>2. step[i][f[i - 1]] = next(i, f[i - 1])
      BY <3>1
    <3> QED BY <1>4, <3>2
  <2> HIDE DEF next, n
  <2> QED BY <1>1, <1>4, <2>1
<1> DEFINE g == CHOOSE f1 : is(f1)
<1>6. is(g)
  <2> HIDE DEF is
  <2> QED BY <1>5
<1>7. A!Replaceable(file) = g[n]
  BY DEF A!Replaceable
<1>8. g[0] = <<>> /\ \A i \in 1..n : g[i] = next(i, g[i - 1])
  <2> HIDE DEF g, next, n
  <2> QED BY <1>1, <1>6
<1> DEFINE Q == {k \in Nat : g[k] \in Seq(A!Contact) /\ OneEach(g[k])}
<1> HIDE DEF g, next, n
<1>9. 0 \in Q
  <2>1. OneEach(<<>>)
    BY DEF OneEach
  <2> QED BY <1>1, <1>8, <2>1
<1>10. ASSUME NEW k \in 1..n, k - 1 \in Q
       PROVE  k \in Q
  <2>1. g[k - 1] \in Seq(A!Contact) /\ OneEach(g[k - 1]) /\ k \in Nat
    BY <1>10
  <2>2. g[k] \in Seq(A!Contact) /\ OneEach(g[k])
    BY <1>2, <1>b, <1>8, <2>1
  <2> QED BY <2>1, <2>2
<1> HIDE DEF Q
<1>11. \A k \in 1..n : k - 1 \in Q => k \in Q
  BY <1>10
<1>12. \A k \in 0..n : k \in Q
  BY <1>1, <1>9, <1>11, Induction
<1>13. n \in Q
  BY <1>1, <1>12
<1> QED BY <1>7, <1>13 DEF Q

LEMMA AtMostIsBook ==
  ASSUME NEW rows \in Seq(A!Contact), OneEach(rows), Capacity \in Nat
  PROVE  /\ IsBook(A!AtMost(rows))
         /\ Len(A!AtMost(rows)) = IF Len(rows) < Capacity THEN Len(rows) ELSE Capacity
         /\ \A i \in 1..Len(A!AtMost(rows)) : A!AtMost(rows)[i] = rows[i]
<1>1. CASE Len(rows) < Capacity
  <2>1. A!AtMost(rows) = SubSeq(rows, 1, Len(rows))
    BY <1>1 DEF A!AtMost
  <2>2. A!AtMost(rows) = rows
    BY <2>1
  <2> QED BY <1>1, <2>2 DEF IsBook
<1>2. CASE ~(Len(rows) < Capacity)
  <2>1. A!AtMost(rows) = SubSeq(rows, 1, Capacity)
    BY <1>2 DEF A!AtMost
  <2>2. SubSeq(rows, 1, Capacity) \in Seq(A!Contact) /\ Len(SubSeq(rows, 1, Capacity)) = Capacity
    BY <1>2
  <2>3. \A i \in 1..Capacity : SubSeq(rows, 1, Capacity)[i] = rows[i]
    BY <1>2
  <2>4. OneEach(SubSeq(rows, 1, Capacity))
    <3> SUFFICES ASSUME NEW i \in 1..Capacity, NEW j \in 1..Capacity,
                        SubSeq(rows, 1, Capacity)[i].address = SubSeq(rows, 1, Capacity)[j].address
                 PROVE  i = j
      BY <2>2 DEF OneEach
    <3>1. rows[i].address = rows[j].address
      BY <2>3
    <3>2. i \in 1..Len(rows) /\ j \in 1..Len(rows)
      BY <1>2
    <3> QED BY <3>1, <3>2 DEF OneEach
  <2> QED BY <1>2, <2>1, <2>2, <2>3, <2>4 DEF IsBook
<1> QED BY <1>1, <1>2

\* The limit takes nothing from what was in the book.
LEMMA MergeIsBook ==
  ASSUME BookFits, NEW rows, IsBook(rows), NEW more \in Seq(A!Contact), OneEach(more),
         \A j \in 1..Len(more) : ~A!Has(rows, more[j].address)
  PROVE  IsBook(A!AtMost(rows \o more)) /\ Keeps(A!AtMost(rows \o more), rows)
<1> DEFINE all == rows \o more
           some == A!AtMost(all)
<1>1. /\ rows \in Seq(A!Contact) /\ Len(rows) \in Nat /\ Len(rows) <= Capacity
      /\ Capacity \in Nat /\ OneEach(rows)
  BY DEF IsBook, BookFits
<1>2. /\ all \in Seq(A!Contact) /\ Len(all) = Len(rows) + Len(more) /\ Len(more) \in Nat
      /\ \A i \in 1..Len(rows) : all[i] = rows[i]
      /\ \A i \in Len(rows) + 1..Len(all) : /\ i - Len(rows) \in 1..Len(more)
                                            /\ all[i] = more[i - Len(rows)]
  BY <1>1
<1> HIDE DEF all
<1>a. ASSUME NEW i \in 1..Len(all), NEW j \in 1..Len(all), all[i].address = all[j].address
      PROVE  i = j
  <2>0. \A k \in 1..Len(all) : k \in 1..Len(rows) \/ k \in Len(rows) + 1..Len(all)
    BY <1>1, <1>2
  <2>1. \A k \in 1..Len(rows), l \in 1..Len(more) : rows[k].address # more[l].address
    <3>1. DOMAIN rows = 1..Len(rows)
      BY <1>1
    <3> QED BY <3>1 DEF A!Has
  <2>2. CASE i \in 1..Len(rows) /\ j \in 1..Len(rows)
    BY <1>1, <1>2, <1>a, <2>2 DEF OneEach
  <2>3. CASE i \in Len(rows) + 1..Len(all) /\ j \in Len(rows) + 1..Len(all)
    <3>1. i - Len(rows) = j - Len(rows)
      <4>1. PICK k \in 1..Len(more), l \in 1..Len(more) :
              k = i - Len(rows) /\ l = j - Len(rows) /\ all[i] = more[k] /\ all[j] = more[l]
        BY <1>2, <2>3
      <4>2. more[k].address = more[l].address
        BY <1>a, <4>1
      <4>3. k = l
        BY <1>1, <4>2 DEF OneEach
      <4> QED BY <4>1, <4>3
    <3> QED BY <1>1, <1>2, <2>3, <3>1
  <2>4. CASE i \in 1..Len(rows) /\ j \in Len(rows) + 1..Len(all)
    <3>1. PICK l \in 1..Len(more) : all[j] = more[l]
      BY <1>2, <2>4
    <3> QED BY <1>2, <1>a, <2>1, <2>4, <3>1
  <2>5. CASE j \in 1..Len(rows) /\ i \in Len(rows) + 1..Len(all)
    <3>1. PICK l \in 1..Len(more) : all[i] = more[l]
      BY <1>2, <2>5
    <3> QED BY <1>2, <1>a, <2>1, <2>5, <3>1
  <2> QED BY <2>0, <2>2, <2>3, <2>4, <2>5
<1>b. OneEach(all)
  BY <1>a DEF OneEach
<1>3. /\ IsBook(some)
      /\ Len(some) = IF Len(all) < Capacity THEN Len(all) ELSE Capacity
      /\ \A i \in 1..Len(some) : some[i] = all[i]
  BY <1>1, <1>2, <1>b, AtMostIsBook
<1> HIDE DEF some
<1>4. \A i \in 1..Len(rows) : i \in 1..Len(some) /\ some[i] = rows[i]
  BY <1>1, <1>2, <1>3
<1>5. Keeps(some, rows)
  BY <1>4 DEF Keeps
<1> QED BY <1>3, <1>5 DEF some, all

LEMMA PreviewFits ==
  ASSUME BookFits, BookInv, NEW t \in DialogTabs, NEW file \in Files, A!PreviewImport(t, file)
  PROVE  BookInv' /\ Stays
<1> DEFINE rows == A!Load
           more == A!Mergeable(file, rows)
           p == [base |-> rows,
                 merge |-> IF more = <<>> THEN Nil ELSE A!AtMost(rows \o more),
                 replace |-> A!AtMost(A!Replaceable(file))]
           s == bookDialog[t]
           q == [s EXCEPT !.preview = p]
<1>1. IsBook(rows) /\ rows \in Seq(A!Contact) /\ Capacity \in Nat
  BY LoadIsBook DEF IsBook, BookFits
<1>2. A!Replaceable(file) \in Seq(A!Contact) /\ OneEach(A!Replaceable(file))
  BY ReplaceableIs DEF BookFits
<1>3. /\ more \in Seq(A!Contact) /\ OneEach(more)
      /\ \A j \in 1..Len(more) : ~A!Has(rows, more[j].address)
  <2> DEFINE keep == {c \in A!Range(file) : ~A!Has(rows, c.address) /\ ~A!Aliased(rows, c.alias)}
             list == A!Replaceable(file)
  <2>1. more = H!Filtered(list, keep)
    BY DEF A!Mergeable, A!Filtered, H!Filtered
  <2>a. \A c \in keep : ~A!Has(rows, c.address)
    OBVIOUS
  <2> HIDE DEF keep, list, more
  <2>2. list \in Seq(A!Contact) /\ OneEach(list) /\ Len(list) \in Nat
    BY <1>2 DEF list
  <2>3. /\ more \in Seq(A!Contact) /\ Part(more, list, Len(list)) /\ Len(more) \in Nat
        /\ \A j \in 1..Len(more) : more[j] \in keep
    BY <2>1, <2>2, FilterKeeps
  <2>4. ASSUME NEW j \in 1..Len(more), NEW k \in 1..Len(more), j < k,
               more[j].address = more[k].address
        PROVE  FALSE
    <3>1. PICK i \in 1..Len(list), m \in 1..Len(list) :
            i < m /\ list[i] = more[j] /\ list[m] = more[k]
      BY <2>3, <2>4 DEF Part
    <3>2. i = m
      BY <2>2, <2>4, <3>1 DEF OneEach
    <3> QED BY <2>2, <3>1, <3>2
  <2>5. OneEach(more)
    BY <2>3, <2>4 DEF OneEach
  <2> QED BY <2>a, <2>3, <2>5
<1>4. q.open /\ s.open /\ ScreenFits(s)
  BY DEF A!PreviewImport, BookInv, ScreenFits, Screen
<1>5. bookDialog' = [bookDialog EXCEPT ![t] = q] /\ UNCHANGED <<format, book>>
  BY DEF A!PreviewImport
<1> HIDE DEF rows, more, s
<1>6. /\ IsBook(A!AtMost(rows \o more)) /\ Keeps(A!AtMost(rows \o more), rows)
      /\ IsBook(A!AtMost(A!Replaceable(file)))
  BY <1>1, <1>2, <1>3, MergeIsBook, AtMostIsBook
<1>7. p \in Preview
  BY <1>1, <1>6 DEF Preview, IsBook
<1>8. IsBook(p.replace) /\ (p.merge # Nil => IsBook(p.merge) /\ Keeps(p.merge, p.base))
  BY <1>6
<1> HIDE DEF p
<1>9. q \in Screen /\ q.preview = p
  BY <1>4, <1>7 DEF ScreenFits, Screen
<1> HIDE DEF q
<1>10. ScreenFits(q)
  BY <1>4, <1>8, <1>9 DEF ScreenFits
<1> QED BY <1>5, <1>10, NothingWritten

\* A contact goes by a decision that says so, or by a merge of another book.
BookKept ==
  \A i \in DOMAIN book :
    \/ \E j \in DOMAIN book' : book'[j] = book[i]
    \/ format = "newer" \/ A!ClearCategory \/ A!Elsewhere
    \/ \E t \in DialogTabs : A!Agreed(t) \/ A!StaleMerge(t)

LEMMA StaysIsKept ==
  ASSUME BookInv, BookInv', Stays
  PROVE  BookKept
<1>1. DOMAIN book = 1..Len(book)
  BY DEF BookInv, IsBook
<1>2. DOMAIN book' = 1..Len(book')
  BY DEF BookInv, IsBook
<1> QED BY <1>1, <1>2 DEF Stays, Keeps, BookKept

LEMMA ConfirmImportFits ==
  ASSUME BookFits, BookInv, NEW t \in DialogTabs, NEW m \in {"merge", "replace"},
         A!ConfirmImport(t, m)
  PROVE  BookInv' /\ BookKept
<1> DEFINE p == bookDialog[t].preview
           d == [A!Unconflicted(t) EXCEPT !.preview = Nil]
<1>1. p # Nil /\ p[m] # Nil /\ A!Persist(t, p[m], d)
  BY DEF A!ConfirmImport
<1>2. /\ p \in Preview /\ IsBook(p.replace)
      /\ p.merge # Nil => IsBook(p.merge) /\ Keeps(p.merge, p.base)
  <2>1. ScreenFits(bookDialog[t])
    BY DEF BookInv
  <2> QED BY <1>1, <2>1 DEF ScreenFits, Screen
<1>3. ScreenFits(d)
  BY UnconflictedFits
<1> HIDE DEF p, d
<1>4. IsBook(p[m])
  <2>1. CASE m = "merge"
    BY <1>1, <1>2, <2>1
  <2>2. CASE m = "replace"
    BY <1>2, <2>2
  <2> QED BY <2>1, <2>2
<1>5. BookInv' /\ (Keeps(p[m], A!Load) => Stays)
  BY <1>1, <1>3, <1>4, PersistFits
<1>6. CASE m = "replace"
  BY <1>5, <1>6 DEF A!Agreed, BookKept
<1>7. CASE m = "merge" /\ p.base = A!Load
  <2>1. Keeps(p[m], A!Load)
    BY <1>1, <1>2, <1>7
  <2> QED BY <1>5, <2>1, StaysIsKept
<1>8. CASE m = "merge" /\ p.base # A!Load
  <2>1. A!StaleMerge(t)
    BY <1>1, <1>8 DEF A!StaleMerge, p
  <2> QED BY <1>5, <2>1 DEF BookKept
<1> QED BY <1>6, <1>7, <1>8

LEMMA OpenBookFits ==
  ASSUME BookInv, NEW t \in DialogTabs,
         A!OpenBook(t) \/ A!CloseBook(t) \/ A!CancelConflict(t) \/ A!CancelImport(t)
  PROVE  BookInv' /\ Stays
<1> DEFINE s == bookDialog[t]
<1>1. ScreenFits(s)
  BY DEF BookInv
<1>2. CASE A!OpenBook(t)
  <2> DEFINE q == [A!Closed EXCEPT !.open = TRUE]
  <2>1. /\ bookDialog' = [bookDialog EXCEPT ![t] = q] /\ UNCHANGED book
        /\ format' = format \/ format' = "current"
    BY <1>2 DEF A!OpenBook
  <2>2. q \in Screen /\ q.preview = Nil /\ q.open
    BY DEF Screen, A!Closed
  <2> HIDE DEF q
  <2>3. ScreenFits(q)
    BY <2>2 DEF ScreenFits
  <2> QED BY <2>1, <2>3, NothingWritten
<1>3. CASE A!CloseBook(t)
  <2>1. A!Closed \in Screen /\ A!Closed.preview = Nil
    BY DEF Screen, A!Closed
  <2>2. ScreenFits(A!Closed)
    BY <2>1 DEF ScreenFits
  <2> QED BY <1>3, <2>2, NothingWritten DEF A!CloseBook
<1>4. CASE A!CancelConflict(t)
  BY <1>4, UnconflictedFits, NothingWritten DEF A!CancelConflict
<1>5. CASE A!CancelImport(t)
  <2>1. s.open
    <3>1. s.preview # Nil
      BY <1>5 DEF A!CancelImport
    <3>2. A!Closed.preview = Nil
      BY DEF A!Closed
    <3> HIDE DEF s
    <3> QED BY <1>1, <3>1, <3>2 DEF ScreenFits, Screen
  <2>2. ScreenFits([s EXCEPT !.preview = Nil])
    BY <2>1, UnconflictedFits
  <2>3. bookDialog' = [bookDialog EXCEPT ![t] = [s EXCEPT !.preview = Nil]]
        /\ UNCHANGED <<format, book>>
    BY <1>5 DEF A!CancelImport
  <2> HIDE DEF s
  <2> QED BY <2>2, <2>3, NothingWritten
<1> QED BY <1>2, <1>3, <1>4, <1>5

LEMMA DeleteFits ==
  ASSUME BookFits, BookInv, NEW t \in DialogTabs, NEW a \in Addresses, A!DeleteContact(t, a)
  PROVE  BookInv' /\ BookKept
<1> DEFINE d == IF bookDialog[t].conflict # Nil /\ bookDialog[t].conflict.address = a
                THEN A!Unconflicted(t) ELSE bookDialog[t]
<1>1. ScreenFits(d)
  BY UnconflictedFits DEF BookInv
<1>2. \/ A!Persist(t, A!Without(A!Load, a), d)
      \/ bookDialog' = [bookDialog EXCEPT ![t] = d] /\ UNCHANGED <<format, book>>
  BY DEF A!DeleteContact
<1> HIDE DEF d
<1>3. IsBook(A!Without(A!Load, a))
  BY LoadIsBook, WithoutIsBook DEF BookFits
<1>4. BookInv'
  BY <1>1, <1>2, <1>3, PersistFits, NothingWritten
<1>5. A!Agreed(t)
  BY DEF A!Agreed
<1> QED BY <1>4, <1>5 DEF BookKept

LEMMA ElsewhereFits ==
  ASSUME BookFits, BookInv, A!Elsewhere \/ A!ClearCategory
  PROVE  BookInv' /\ BookKept
<1>1. BookKept
  BY DEF BookKept
<1>2. UNCHANGED bookDialog /\ format' \in {"none", "current"}
  BY DEF A!Elsewhere, A!ClearCategory
<1>3. IsBook(book')
  <2>1. CASE A!ClearCategory
    <3>1. book' = <<>>
      BY <2>1 DEF A!ClearCategory
    <3>2. <<>> \in Seq(A!Contact) /\ Len(<<>>) = 0 /\ 0 <= Capacity
      BY DEF BookFits
    <3> QED BY <3>1, <3>2 DEF IsBook, OneEach
  <2>2. ASSUME NEW a \in Addresses, NEW n \in Names, Len(A!Load) < Capacity, ~A!Has(A!Load, a),
               book' = <<A!New(a, A!Typed(n))>> \o A!Load
        PROVE  IsBook(book')
    <3>1. A!New(a, A!Typed(n)) \in A!Contact
      <4>1. Capacity \in Nat
        BY DEF BookFits
      <4>2. A!Typed(n) \in A!Alias
        BY <4>1 DEF A!Typed, A!Alias
      <4> QED BY <4>2 DEF A!New, A!Contact
    <3>2. IsBook(<<A!New(a, A!Typed(n))>> \o A!Load)
      <4>1. PICK rows : rows = A!Load
        OBVIOUS
      <4>2. IsBook(rows) /\ DOMAIN rows = 1..Len(rows)
        BY <4>1, LoadIsBook DEF IsBook
      <4>3. \A i \in 1..Len(rows) : rows[i].address # A!New(a, A!Typed(n)).address
        BY <2>2, <4>1, <4>2 DEF A!Has, A!New
      <4> QED BY <2>2, <3>1, <4>1, <4>2, <4>3, InFront DEF BookFits
    <3> QED BY <2>2, <3>2
  <2>3. ASSUME NEW a \in Addresses, book' = A!Without(A!Load, a)
        PROVE  IsBook(book')
    <3>1. IsBook(A!Without(A!Load, a))
      BY LoadIsBook, WithoutIsBook DEF BookFits
    <3> QED BY <2>3, <3>1
  <2> QED BY <2>1, <2>2, <2>3 DEF A!Elsewhere
<1>4. BookInv'
  BY <1>2, <1>3 DEF BookInv, IsBook
<1> QED BY <1>1, <1>4

LEMMA BookStep ==
  ASSUME BookFits, BookInv, [A!Next]_(A!bookVars)
  PROVE  BookInv' /\ BookKept
<1>1. CASE UNCHANGED A!bookVars
  <2>1. BookInv'
    BY <1>1 DEF A!bookVars, BookInv, IsBook
  <2>2. Stays
    BY <1>1 DEF A!bookVars, Stays, Keeps
  <2> QED BY <2>1, <2>2, StaysIsKept
<1>2. ASSUME NEW t \in DialogTabs,
             A!OpenBook(t) \/ A!CloseBook(t) \/ A!CancelConflict(t) \/ A!CancelImport(t)
      PROVE  BookInv' /\ BookKept
  BY <1>2, OpenBookFits, StaysIsKept
<1>3. ASSUME NEW t \in DialogTabs, NEW a \in Addresses, NEW n \in Names, A!Save(t, a, n)
      PROVE  BookInv' /\ BookKept
  <2>1. A!Typed(n) \in A!Alias
    <3>1. Capacity \in Nat
      BY DEF BookFits
    <3> QED BY <3>1 DEF A!Typed, A!Alias
  <2>2. bookDialog[t].open /\ A!SaveContact(t, a, A!Typed(n), Nil)
    BY <1>3 DEF A!Save
  <2>3. BookInv' /\ Stays
    BY <2>1, <2>2, SaveFits DEF BookFits
  <2> QED BY <2>3, StaysIsKept
<1>4. ASSUME NEW t \in DialogTabs, NEW r \in {"rename", "update"}, A!ResolveConflict(t, r)
      PROVE  BookInv' /\ BookKept
  <2> DEFINE c == bookDialog[t].conflict
  <2>1. c # Nil /\ A!SaveContact(t, c.address, c.alias, r)
    BY <1>4 DEF A!ResolveConflict
  <2>2. ScreenFits(bookDialog[t])
    BY DEF BookInv
  <2>3. c \in A!Conflict
    BY <2>1, <2>2 DEF ScreenFits, Screen
  <2>4. bookDialog[t].open
    <3>1. A!Closed.conflict = Nil
      BY DEF A!Closed
    <3> QED BY <2>1, <2>2, <3>1 DEF ScreenFits, Screen
  <2> HIDE DEF c
  <2>5. c.address \in Addresses /\ c.alias \in A!Alias
    BY <2>3 DEF A!Conflict
  <2>6. BookInv' /\ (r # "update" => Stays)
    BY <2>1, <2>4, <2>5, SaveFits
  <2>7. CASE r = "update"
    <3>1. A!Agreed(t)
      BY <1>4, <2>7 DEF A!Agreed
    <3> QED BY <2>6, <3>1 DEF BookKept
  <2>8. CASE r # "update"
    BY <2>6, <2>8, StaysIsKept
  <2> QED BY <2>7, <2>8
<1>5. ASSUME NEW t \in DialogTabs, NEW file \in Files, A!PreviewImport(t, file)
      PROVE  BookInv' /\ BookKept
  BY <1>5, PreviewFits, StaysIsKept
<1> QED
  BY <1>1, <1>2, <1>3, <1>4, <1>5, DeleteFits, ConfirmImportFits, ElsewhereFits DEF A!Next

(* A contact goes or changes only by a decision that says so, for any       *)
(* contacts, files and limit: a save, a conflict resolved with a new name   *)
(* and a merge of the book that was previewed keep them all (saveContact,   *)
(* previewAddressBookImport and confirmImport).                             *)
THEOREM ContactsAreKept ==
  ASSUME BookFits
  PROVE  A!Spec => []BookInv /\ A!ContactsOutlive
<1>1. A!Init => BookInv
  <2> SUFFICES ASSUME A!Init PROVE BookInv
    OBVIOUS
  <2>1. Capacity \in Nat \ {0}
    BY DEF BookFits
  <2>2. IsBook(book)
    <3>1. CASE book = <<>>
      <4>1. book \in Seq(A!Contact) /\ Len(book) = 0
        BY <3>1
      <4> QED BY <2>1, <4>1 DEF IsBook, OneEach
    <3>2. ASSUME NEW a \in Addresses, NEW n \in Names, book = <<A!New(a, A!Typed(n))>>
          PROVE  IsBook(book)
      <4>1. A!Typed(n) \in A!Alias
        BY <2>1 DEF A!Typed, A!Alias
      <4>2. A!New(a, A!Typed(n)) \in A!Contact
        BY <4>1 DEF A!New, A!Contact
      <4>3. book \in Seq(A!Contact) /\ Len(book) = 1
        BY <3>2, <4>2
      <4> QED BY <2>1, <4>3 DEF IsBook, OneEach
    <3> QED BY <3>1, <3>2 DEF A!Init
  <2>3. ScreenFits(A!Closed)
    <3>1. A!Closed \in Screen /\ A!Closed.preview = Nil
      BY DEF Screen, A!Closed
    <3> QED BY <3>1 DEF ScreenFits
  <2> QED BY <2>2, <2>3 DEF A!Init, BookInv
<1>2. BookInv /\ [A!Next]_(A!bookVars) => BookInv' /\ [BookKept]_(A!bookVars)
  BY BookStep
<1> QED BY <1>1, <1>2, PTL DEF A!Spec, A!ContactsOutlive, BookKept

(* No address is in the book twice, however the saves, the deletions and    *)
(* the imports of the tabs interleave, for any contacts, files and limit,   *)
(* and a dialog that is closed shows nothing (saveContact,                  *)
(* previewAddressBookImport and confirmImport).                             *)
THEOREM AddressesAreUnique ==
  ASSUME BookFits
  PROVE  A!Spec => [](A!BookTypes /\ A!OneEntryEach)
<1>1. BookInv => A!BookTypes
  BY DEF BookInv, IsBook, ScreenFits, Screen, A!BookTypes
<1>2. BookInv => A!OneEntryEach
  BY DEF BookInv, IsBook, OneEach, A!OneEntryEach
<1> QED BY <1>1, <1>2, ContactsAreKept, PTL
-----------------------------------------------------------------------------
(* The toasts.  Each has an id of its own, and the timers are of those that *)
(* are timed: that is why a timer that fires takes no error that has none.  *)
N == INSTANCE Notices

Toast == [id : Nat, kind : {"error", "success"}, timed : BOOLEAN]

Own(queue) == \A i, j \in 1..Len(queue) : queue[i].id = queue[j].id => i = j

ToastInv ==
  /\ nextId \in Nat
  /\ toasts \in Seq(Toast) /\ Own(toasts)
  /\ \A i \in 1..Len(toasts) : toasts[i].id < nextId
  /\ N!TimersFit

\* An error goes unless the property lets it.
ErrorsKept ==
  \A i \in DOMAIN toasts :
    LET t == toasts[i]
    IN  N!Lasting(t) /\ ~N!Contains(toasts', t) =>
          \/ N!Dismiss(t.id) \/ (N!TimerFires(t.id) /\ t.timed) \/ N!ClearToasts
          \/ i = 1 /\ \A j \in DOMAIN toasts' : N!Lasting(toasts'[j])

\* What is left of the queue without one place.
LEMMA RemoveOne ==
  ASSUME NEW queue \in Seq(Toast), NEW v \in 1..Len(queue)
  PROVE  LET rest == N!RemoveAt(queue, v)
         IN /\ rest \in Seq(Toast) /\ Len(rest) = Len(queue) - 1
            /\ \A i \in 1..Len(rest) : rest[i] = IF i < v THEN queue[i] ELSE queue[i + 1]
BY WithoutOne DEF N!RemoveAt

\* The victim is the first that is no error, or the first of all.
LEMMA VictimIs ==
  ASSUME NEW queue \in Seq(Toast), Len(queue) > 0
  PROVE  /\ N!Victim(queue) \in 1..Len(queue)
         /\ \/ ~N!Lasting(queue[N!Victim(queue)])
            \/ N!Victim(queue) = 1 /\ \A i \in 1..Len(queue) : N!Lasting(queue[i])
<1> DEFINE noisy == {i \in 1..Len(queue) : ~N!Lasting(queue[i])}
           first == IF noisy # {} THEN N!Min(noisy) ELSE 0
<1>1. N!Victim(queue) = IF first > 0 THEN first ELSE 1
  BY DEF N!Victim, N!SelectInSeq
<1>2. CASE noisy = {}
  BY <1>1, <1>2
<1>3. CASE noisy # {}
  <2>1. noisy \subseteq Nat
    OBVIOUS
  <2>2. PICK m \in noisy : \A k \in noisy : m <= k
    <3> HIDE DEF noisy
    <3> QED BY <1>3, <2>1, LeastNumber
  <2>3. N!Min(noisy) \in noisy
    <3> HIDE DEF noisy
    <3> QED BY <2>2 DEF N!Min
  <2>4. first \in noisy
    BY <1>3, <2>3
  <2> HIDE DEF first
  <2>5. first \in 1..Len(queue) /\ ~N!Lasting(queue[first])
    BY <2>4
  <2> QED BY <1>1, <2>5
<1> QED BY <1>2, <1>3

\* What the cap leaves of the queue: all but the victim, in its order.
LEMMA CappedIs ==
  ASSUME NEW queue \in Seq(Toast), Own(queue), Visible \in Nat
  PROVE  LET left == N!Capped(queue)
         IN /\ left \in Seq(Toast) /\ Own(left)
            /\ \A j \in 1..Len(left) : \E i \in 1..Len(queue) : left[j] = queue[i]
            /\ \A i \in 1..Len(queue) :
                 \/ \E j \in 1..Len(left) : left[j] = queue[i]
                 \/ ~N!Lasting(queue[i])
                 \/ i = 1 /\ \A j \in 1..Len(queue) : N!Lasting(queue[j])
<1>1. CASE ~(Len(queue) > Visible)
  BY <1>1 DEF N!Capped
<1>2. CASE Len(queue) > Visible
  <2> DEFINE v == N!Victim(queue)
             left == N!RemoveAt(queue, v)
  <2>1. N!Capped(queue) = left
    BY <1>2 DEF N!Capped
  <2>2. /\ v \in 1..Len(queue)
        /\ \/ ~N!Lasting(queue[v])
           \/ v = 1 /\ \A i \in 1..Len(queue) : N!Lasting(queue[i])
    BY <1>2, VictimIs
  <2> HIDE DEF v
  <2>3. /\ left \in Seq(Toast) /\ Len(left) = Len(queue) - 1
        /\ \A i \in 1..Len(left) : left[i] = IF i < v THEN queue[i] ELSE queue[i + 1]
    BY <2>2, RemoveOne
  <2> HIDE DEF left
  <2> DEFINE place(j) == IF j < v THEN j ELSE j + 1
  <2>4. /\ \A j \in 1..Len(left) : place(j) \in 1..Len(queue) /\ left[j] = queue[place(j)]
        /\ \A j, k \in 1..Len(left) : place(j) = place(k) => j = k
    BY <2>2, <2>3
  <2>5. Own(left)
    <3> HIDE DEF place
    <3> QED BY <2>4 DEF Own
  <2>6. ASSUME NEW i \in 1..Len(queue), i # v
        PROVE  \E j \in 1..Len(left) : left[j] = queue[i]
    <3>1. CASE i < v
      <4>1. i \in 1..Len(left) /\ left[i] = queue[i]
        BY <2>2, <2>3, <3>1
      <4> QED BY <4>1
    <3>2. CASE ~(i < v)
      <4>1. i - 1 \in 1..Len(left) /\ left[i - 1] = queue[i]
        BY <2>2, <2>3, <2>6, <3>2
      <4> QED BY <4>1
    <3> QED BY <3>1, <3>2
  <2> HIDE DEF place
  <2>7. \A j \in 1..Len(left) : \E i \in 1..Len(queue) : left[j] = queue[i]
    BY <2>4
  <2> QED BY <2>1, <2>2, <2>3, <2>5, <2>6, <2>7
<1> QED BY <1>1, <1>2

\* The timers are of the toasts that are timed, said row by row.
Timed(queue, set) ==
  /\ \A n \in set : \E i \in 1..Len(queue) : queue[i].timed /\ n = queue[i].id
  /\ \A i \in 1..Len(queue) : queue[i].timed => queue[i].id \in set

LEMMA TimersAre ==
  ASSUME toasts \in Seq(Toast)
  PROVE  N!TimersFit <=> Timed(toasts, timers)
<1>1. DOMAIN toasts = 1..Len(toasts)
  OBVIOUS
<1>2. ASSUME N!TimersFit PROVE Timed(toasts, timers)
  BY <1>1, <1>2 DEF N!TimersFit, Timed
<1>3. ASSUME Timed(toasts, timers) PROVE N!TimersFit
  <2>1. ASSUME NEW n \in timers
        PROVE  n \in {toasts[i].id : i \in {j \in DOMAIN toasts : toasts[j].timed}}
    BY <1>1, <1>3, <2>1 DEF Timed
  <2>2. ASSUME NEW i \in {j \in DOMAIN toasts : toasts[j].timed}
        PROVE  toasts[i].id \in timers
    BY <1>1, <1>3, <2>2 DEF Timed
  <2> QED BY <2>1, <2>2 DEF N!TimersFit
<1> QED BY <1>2, <1>3

LEMMA DispatchFits ==
  ASSUME Visible \in Nat, MaxToasts \in Nat, ToastInv,
         NEW kind \in {"error", "success"}, NEW timed \in BOOLEAN, N!Dispatch(kind, timed)
  PROVE  ToastInv' /\ ErrorsKept
<1> DEFINE new == [id |-> nextId, kind |-> kind, timed |-> timed]
           line == Append(toasts, new)
           left == N!Capped(line)
<1>1. /\ nextId \in Nat /\ nextId' = nextId + 1
      /\ toasts' = left
      /\ timers' = (timers \cup (IF timed THEN {nextId} ELSE {})) \cap
                     {toasts'[i].id : i \in DOMAIN toasts'}
  BY DEF N!Dispatch, ToastInv
<1>2. new \in Toast /\ new.id = nextId /\ new.timed = timed
  BY <1>1 DEF Toast
<1> HIDE DEF new
<1>3. toasts \in Seq(Toast) /\ Own(toasts) /\ \A i \in 1..Len(toasts) : toasts[i].id < nextId
  BY DEF ToastInv
<1>4. /\ line \in Seq(Toast) /\ Len(line) = Len(toasts) + 1 /\ line[Len(toasts) + 1] = new
      /\ \A i \in 1..Len(toasts) : line[i] = toasts[i]
  BY <1>2, <1>3
<1> HIDE DEF line
<1>5. \A i \in 1..Len(line) : i \in 1..Len(toasts) \/ i = Len(toasts) + 1
  BY <1>3, <1>4
<1>6. Own(line) /\ \A i \in 1..Len(line) : line[i].id < nextId + 1
  <2>1. \A i \in 1..Len(toasts) : line[i].id \in Nat /\ line[i].id < nextId
    <3>1. \A i \in 1..Len(toasts) : toasts[i] \in Toast
      BY <1>3
    <3> QED BY <1>3, <1>4, <3>1 DEF Toast
  <2>2. \A i, j \in 1..Len(toasts) : line[i].id = line[j].id => i = j
    BY <1>3, <1>4 DEF Own
  <2>3. line[Len(toasts) + 1].id = nextId
    BY <1>2, <1>4
  <2>4. Own(line)
    <3> SUFFICES ASSUME NEW i \in 1..Len(line), NEW j \in 1..Len(line), line[i].id = line[j].id
                 PROVE  i = j
      BY DEF Own
    <3>1. CASE i \in 1..Len(toasts) /\ j \in 1..Len(toasts)
      BY <2>2, <3>1
    <3>2. CASE i = Len(toasts) + 1 /\ j \in 1..Len(toasts)
      BY <1>1, <2>1, <2>3, <3>2
    <3>3. CASE i \in 1..Len(toasts) /\ j = Len(toasts) + 1
      BY <1>1, <2>1, <2>3, <3>3
    <3> QED BY <1>5, <3>1, <3>2, <3>3
  <2> QED BY <1>1, <1>5, <2>1, <2>3, <2>4
<1>7. /\ left \in Seq(Toast) /\ Own(left)
      /\ \A j \in 1..Len(left) : \E i \in 1..Len(line) : left[j] = line[i]
      /\ \A i \in 1..Len(line) :
           \/ \E j \in 1..Len(left) : left[j] = line[i]
           \/ ~N!Lasting(line[i])
           \/ i = 1 /\ \A j \in 1..Len(line) : N!Lasting(line[j])
  BY <1>4, <1>6, CappedIs
<1> HIDE DEF left
<1>8. Timed(left, timers')
  <2>1. DOMAIN left = 1..Len(left)
    BY <1>7
  <2>2. ASSUME NEW n \in timers'
        PROVE  \E i \in 1..Len(left) : left[i].timed /\ n = left[i].id
    <3>1. PICK i \in 1..Len(left) : n = left[i].id
      BY <1>1, <2>1, <2>2
    <3>2. PICK k \in 1..Len(line) : left[i] = line[k]
      BY <1>7
    <3>3. CASE k \in 1..Len(toasts)
      <4>1. line[k] = toasts[k] /\ n = toasts[k].id /\ toasts[k] \in Toast
        BY <1>3, <1>4, <3>1, <3>2, <3>3
      <4>2. n # nextId
        <5>1. n < nextId /\ n \in Nat
          BY <1>3, <3>3, <4>1 DEF Toast
        <5> QED BY <1>1, <5>1
      <4>3. n \in timers
        BY <1>1, <2>2, <4>2
      <4>4. PICK m \in 1..Len(toasts) : toasts[m].timed /\ n = toasts[m].id
        BY <1>3, <4>3, TimersAre DEF ToastInv, Timed
      <4>5. m = k
        BY <1>3, <3>3, <4>1, <4>4 DEF Own
      <4> QED BY <3>1, <3>2, <4>1, <4>4, <4>5
    <3>4. CASE k = Len(toasts) + 1
      <4>1. left[i] = new /\ n = nextId
        BY <1>2, <1>4, <3>1, <3>2, <3>4
      <4>2. nextId \notin timers
        <5> SUFFICES ASSUME nextId \in timers PROVE FALSE
          OBVIOUS
        <5>1. PICK m \in 1..Len(toasts) : nextId = toasts[m].id
          BY <1>3, TimersAre DEF ToastInv, Timed
        <5> QED BY <1>1, <1>3, <5>1
      <4>3. timed
        BY <1>1, <2>2, <4>1, <4>2
      <4> QED BY <1>2, <3>1, <4>1, <4>3
    <3> QED BY <1>5, <3>3, <3>4
  <2>3. ASSUME NEW i \in 1..Len(left), left[i].timed
        PROVE  left[i].id \in timers'
    <3>1. PICK k \in 1..Len(line) : left[i] = line[k]
      BY <1>7
    <3>2. left[i].id \in {toasts'[j].id : j \in DOMAIN toasts'}
      BY <1>1, <2>1
    <3>3. CASE k \in 1..Len(toasts)
      <4>1. toasts[k].timed /\ left[i].id = toasts[k].id
        BY <1>4, <2>3, <3>1, <3>3
      <4>2. toasts[k].id \in timers
        BY <1>3, <3>3, <4>1, TimersAre DEF ToastInv, Timed
      <4> QED BY <1>1, <3>2, <4>1, <4>2
    <3>4. CASE k = Len(toasts) + 1
      <4>1. left[i] = new
        BY <1>4, <3>1, <3>4
      <4>2. timed /\ left[i].id = nextId
        BY <1>2, <2>3, <4>1
      <4> QED BY <1>1, <3>2, <4>2
    <3> QED BY <1>5, <3>3, <3>4
  <2> QED BY <2>2, <2>3 DEF Timed
<1>9. ToastInv'
  <2>1. \A i \in 1..Len(left) : left[i].id < nextId + 1
    BY <1>6, <1>7
  <2>2. toasts' \in Seq(Toast) /\ N!TimersFit'
    <3>1. toasts' \in Seq(Toast) /\ Timed(toasts', timers')
      BY <1>1, <1>7, <1>8
    <3>2. (toasts \in Seq(Toast) => (N!TimersFit <=> Timed(toasts, timers)))'
      BY TimersAre, PTL
    <3> QED BY <3>1, <3>2
  <2> QED BY <1>1, <1>7, <2>1, <2>2 DEF ToastInv
<1>10. ErrorsKept
  <2> SUFFICES ASSUME NEW i \in 1..Len(toasts), N!Lasting(toasts[i]),
                      ~N!Contains(toasts', toasts[i])
               PROVE  i = 1 /\ \A j \in DOMAIN toasts' : N!Lasting(toasts'[j])
    BY <1>3 DEF ErrorsKept
  <2>1. i \in 1..Len(line) /\ line[i] = toasts[i]
    BY <1>3, <1>4
  <2>2. ~\E j \in 1..Len(left) : left[j] = line[i]
    BY <1>1, <2>1 DEF N!Contains
  <2>3. i = 1 /\ \A j \in 1..Len(line) : N!Lasting(line[j])
    BY <1>7, <2>1, <2>2
  <2> QED BY <1>1, <1>7, <2>3
<1> QED BY <1>9, <1>10

LEMMA GoneFits ==
  ASSUME ToastInv, NEW n, N!Gone(n)
  PROVE  /\ ToastInv'
         /\ \A i \in 1..Len(toasts) : toasts[i].id # n => N!Contains(toasts', toasts[i])
<1> DEFINE keep == {t \in N!ToSet(toasts) : t.id # n}
           left == H!Filtered(toasts, keep)
<1>1. toasts \in Seq(Toast) /\ Own(toasts) /\ \A i \in 1..Len(toasts) : toasts[i].id < nextId
  BY DEF ToastInv
<1>2. toasts' = left /\ timers' = timers \ {n} /\ nextId' = nextId
  <2>1. N!Filtered(toasts, keep) = H!Filtered(toasts, keep)
    BY DEF N!Filtered, H!Filtered
  <2> QED BY <2>1 DEF N!Gone
<1>3. \A i \in 1..Len(toasts) : toasts[i] \in keep <=> toasts[i].id # n
  BY DEF N!ToSet
<1> HIDE DEF keep
<1>4. /\ left \in Seq(Toast) /\ Part(left, toasts, Len(toasts))
      /\ \A j \in 1..Len(left) : left[j] \in keep
      /\ \A i \in 1..Len(toasts) :
           toasts[i] \in keep => \E j \in 1..Len(left) : j <= i /\ left[j] = toasts[i]
  BY <1>1, FilterKeeps
<1> HIDE DEF left
<1>5. \A j \in 1..Len(left) : \E i \in 1..Len(toasts) : toasts[i] = left[j] /\ left[j].id # n
  <2> SUFFICES ASSUME NEW j \in 1..Len(left)
               PROVE  \E i \in 1..Len(toasts) : toasts[i] = left[j] /\ left[j].id # n
    OBVIOUS
  <2>1. PICK i \in j..Len(toasts) : toasts[i] = left[j]
    BY <1>4 DEF Part
  <2>2. i \in 1..Len(toasts)
    BY <1>1, <2>1
  <2> QED BY <1>3, <1>4, <2>1, <2>2
<1>6. Own(left)
  <2>1. ASSUME NEW j \in 1..Len(left), NEW k \in 1..Len(left), j < k, left[j].id = left[k].id
        PROVE  FALSE
    <3>1. PICK i \in 1..Len(toasts), m \in 1..Len(toasts) :
            i < m /\ toasts[i] = left[j] /\ toasts[m] = left[k]
      BY <1>4, <2>1 DEF Part
    <3>2. i = m
      BY <1>1, <2>1, <3>1 DEF Own
    <3> QED BY <3>1, <3>2
  <2>2. ASSUME NEW j \in 1..Len(left), NEW k \in 1..Len(left), left[j].id = left[k].id
        PROVE  j = k
    <3>1. ~(j < k) /\ ~(k < j)
      BY <2>1, <2>2
    <3> QED BY <3>1
  <2> QED BY <2>2 DEF Own
<1>7. Timed(left, timers')
  <2>1. Timed(toasts, timers)
    BY <1>1, TimersAre DEF ToastInv
  <2>2. ASSUME NEW k \in timers'
        PROVE  \E i \in 1..Len(left) : left[i].timed /\ k = left[i].id
    <3>1. PICK i \in 1..Len(toasts) : toasts[i].timed /\ k = toasts[i].id
      BY <1>2, <2>1, <2>2 DEF Timed
    <3>2. PICK j \in 1..Len(left) : left[j] = toasts[i]
      BY <1>2, <1>3, <1>4, <2>2, <3>1
    <3> QED BY <3>1, <3>2
  <2>3. ASSUME NEW j \in 1..Len(left), left[j].timed
        PROVE  left[j].id \in timers'
    BY <1>2, <1>5, <2>1, <2>3 DEF Timed
  <2> QED BY <2>2, <2>3 DEF Timed
<1>8. ToastInv'
  <2>1. (toasts \in Seq(Toast) => (N!TimersFit <=> Timed(toasts, timers)))'
    BY TimersAre, PTL
  <2>2. N!TimersFit'
    BY <1>2, <1>4, <1>7, <2>1
  <2>3. \A j \in 1..Len(left) : left[j].id < nextId
    BY <1>1, <1>5
  <2> QED BY <1>2, <1>4, <1>6, <2>2, <2>3 DEF ToastInv
<1>9. ASSUME NEW i \in 1..Len(toasts), toasts[i].id # n
      PROVE  N!Contains(toasts', toasts[i])
  BY <1>2, <1>3, <1>4, <1>9 DEF N!Contains
<1> QED BY <1>8, <1>9

LEMMA ToastStep ==
  ASSUME Visible \in Nat, MaxToasts \in Nat, ToastInv, [N!ToastNext \/ N!AlertNext]_(N!noticeVars)
  PROVE  ToastInv' /\ ErrorsKept
<1>1. toasts \in Seq(Toast) /\ DOMAIN toasts = 1..Len(toasts)
  BY DEF ToastInv
<1>2. CASE UNCHANGED N!toastVars
  <2>1. ToastInv'
    BY <1>2 DEF N!toastVars, ToastInv, N!TimersFit
  <2>2. \A i \in DOMAIN toasts : N!Contains(toasts', toasts[i])
    <3>1. toasts' = toasts
      BY <1>2, Zenon DEF N!toastVars
    <3> QED BY <1>1, <3>1, SMTT(30) DEF N!Contains
  <2> QED BY <2>1, <2>2 DEF ErrorsKept
<1>3. CASE UNCHANGED N!noticeVars \/ N!AlertNext
  BY <1>2, <1>3 DEF N!noticeVars, N!toastVars, N!AlertNext, N!Mount, N!Restore, N!Unmount,
     N!ToggleAudio, N!ToggleDesktop, N!Alert, N!Answered, N!SiteSettings
<1>4. ASSUME NEW n, N!Dismiss(n)
      PROVE  ToastInv' /\ ErrorsKept
  <2>1. N!Gone(n)
    BY <1>4 DEF N!Dismiss
  <2>2. \A i \in 1..Len(toasts) : toasts[i].id # n => N!Contains(toasts', toasts[i])
    BY <2>1, GoneFits
  <2>3. \A i \in 1..Len(toasts) : toasts[i].id = n => N!Dismiss(toasts[i].id)
    BY <1>4
  <2>4. ErrorsKept
    BY <1>1, <2>2, <2>3 DEF ErrorsKept
  <2> QED BY <2>1, <2>4, GoneFits
<1>5. ASSUME NEW n, N!TimerFires(n)
      PROVE  ToastInv' /\ ErrorsKept
  <2>1. N!Gone(n) /\ n \in timers
    BY <1>5 DEF N!TimerFires
  <2>2. \A i \in 1..Len(toasts) : toasts[i].id # n => N!Contains(toasts', toasts[i])
    BY <2>1, GoneFits
  <2>3. ASSUME NEW i \in 1..Len(toasts), toasts[i].id = n
        PROVE  N!TimerFires(toasts[i].id) /\ toasts[i].timed
    <3>1. PICK m \in 1..Len(toasts) : toasts[m].timed /\ n = toasts[m].id
      BY <1>1, <2>1, TimersAre DEF ToastInv, Timed
    <3>2. m = i
      BY <2>3, <3>1 DEF ToastInv, Own
    <3> QED BY <1>5, <2>3, <3>1, <3>2
  <2>4. ErrorsKept
    BY <1>1, <2>2, <2>3 DEF ErrorsKept
  <2> QED BY <2>1, <2>4, GoneFits
<1>6. CASE N!ClearToasts
  <2>1. ErrorsKept
    BY <1>6 DEF ErrorsKept
  <2>2. toasts' = <<>> /\ timers' = {} /\ nextId' = nextId
    BY <1>6 DEF N!ClearToasts
  <2>3. toasts' \in Seq(Toast) /\ Len(toasts') = 0 /\ DOMAIN toasts' = {}
    BY <2>2
  <2> QED BY <2>1, <2>2, <2>3 DEF ToastInv, Own, N!TimersFit
<1> QED BY <1>3, <1>4, <1>5, <1>6, DispatchFits DEF N!ToastNext

(* No error is evicted by noise, for any number of toasts and any cap: it   *)
(* leaves when it is dismissed, by a timer of its own, with all the others, *)
(* or as the oldest of errors alone (enforceCap and dismiss).               *)
THEOREM ErrorsAreKept ==
  ASSUME Visible \in Nat, MaxToasts \in Nat
  PROVE  N!Init /\ [][N!ToastNext \/ N!AlertNext]_(N!noticeVars)
           => []ToastInv /\ N!ErrorsStay
<1>1. N!Init => ToastInv
  <2> SUFFICES ASSUME N!Init PROVE ToastInv
    OBVIOUS
  <2>1. toasts = <<>> /\ timers = {} /\ nextId = 1
    BY DEF N!Init
  <2>2. toasts \in Seq(Toast) /\ Len(toasts) = 0 /\ DOMAIN toasts = {}
    BY <2>1
  <2> QED BY <2>1, <2>2 DEF ToastInv, Own, N!TimersFit
<1>2. /\ ToastInv
      /\ [N!ToastNext \/ N!AlertNext]_(N!noticeVars)
      => ToastInv' /\ [ErrorsKept]_(N!noticeVars)
  BY ToastStep
<1> QED BY <1>1, <1>2, PTL DEF N!ErrorsStay, ErrorsKept
-----------------------------------------------------------------------------
(* The alerts.  What plays was opened by a click on this panel, a panel     *)
(* shown is what is kept, and a prompt is one of a panel that is shown.     *)
AlertsFit == MaxClicks \in Nat /\ Nil \notin N!Settings

Contexts == {"idle", "ready", "unsupported"}
PanelSet ==
  [mounted : {TRUE}, settings : N!Settings, restored : N!Settings \cup {Nil},
   context : Contexts, known : N!Permissions, api : N!Permissions,
   clicked : BOOLEAN, asked : BOOLEAN]
PanelOf(s, r, c, k, a, pressed, wished) ==
  [mounted |-> TRUE, settings |-> s, restored |-> r, context |-> c, known |-> k, api |-> a,
   clicked |-> pressed, asked |-> wished]
Switches(loud, drawn) == [audio |-> loud, desktop |-> drawn]

PanelFits(p, asking, stays) ==
  /\ p \in PanelSet
  /\ p.context = "ready" => p.clicked
  /\ p.restored # Nil => ~p.asked /\ asking = 0
  /\ p.restored = Nil => stays = p.settings
  /\ p.asked /\ p.settings.desktop /\ asking = 0 => p.known = "granted"
LastFits ==
  last # Nil => /\ last.rang => last.clicked /\ last.wanted.audio
                /\ last.notified => last.wanted.desktop
AlertInv ==
  /\ permission \in N!Permissions /\ kept \in N!Settings \cup {Nil}
  /\ clicks \in 0..MaxClicks /\ prompts \in 0..clicks
  /\ (panel = N!Unmounted /\ prompts = 0) \/ PanelFits(panel, prompts, kept)
  /\ LastFits

LEMMA PanelParts ==
  ASSUME NEW p \in PanelSet
  PROVE  /\ p = PanelOf(p.settings, p.restored, p.context, p.known, p.api, p.clicked, p.asked)
         /\ p.settings = Switches(p.settings.audio, p.settings.desktop)
         /\ p.settings \in N!Settings /\ p.restored \in N!Settings \cup {Nil}
         /\ p.context \in Contexts /\ p.known \in N!Permissions /\ p.api \in N!Permissions
         /\ p.clicked \in BOOLEAN /\ p.asked \in BOOLEAN
         /\ p.settings.audio \in BOOLEAN /\ p.settings.desktop \in BOOLEAN /\ p.mounted = TRUE
<1>1. /\ p = PanelOf(p.settings, p.restored, p.context, p.known, p.api, p.clicked, p.asked)
      /\ p.settings \in N!Settings /\ p.restored \in N!Settings \cup {Nil}
      /\ p.context \in Contexts /\ p.known \in N!Permissions /\ p.api \in N!Permissions
      /\ p.clicked \in BOOLEAN /\ p.asked \in BOOLEAN /\ p.mounted = TRUE
  BY DEF PanelSet, PanelOf
<1>2. PICK s \in N!Settings : s = p.settings
  BY <1>1
<1>3. s = Switches(s.audio, s.desktop) /\ s.audio \in BOOLEAN /\ s.desktop \in BOOLEAN
  BY DEF N!Settings, Switches
<1> QED BY <1>1, <1>2, <1>3

LEMMA PanelMade ==
  ASSUME NEW a \in BOOLEAN, NEW b \in BOOLEAN, NEW r \in N!Settings \cup {Nil}, NEW c \in Contexts,
         NEW k \in N!Permissions, NEW i \in N!Permissions, NEW u \in BOOLEAN, NEW w \in BOOLEAN
  PROVE  LET p == PanelOf(Switches(a, b), r, c, k, i, u, w)
         IN /\ p \in PanelSet /\ p.settings = Switches(a, b) /\ p.settings.desktop = b
            /\ p.settings.audio = a
            /\ p.restored = r /\ p.context = c /\ p.known = k /\ p.clicked = u /\ p.asked = w
<1>1. Switches(a, b) \in N!Settings /\ Switches(a, b).desktop = b /\ Switches(a, b).audio = a
  BY DEF Switches, N!Settings
<1>2. PICK s \in N!Settings : s = Switches(a, b)
  BY <1>1
<1>3. LET p == PanelOf(s, r, c, k, i, u, w)
      IN /\ p \in PanelSet /\ p.settings = s
         /\ p.restored = r /\ p.context = c /\ p.known = k /\ p.clicked = u /\ p.asked = w
  BY DEF PanelOf, PanelSet
<1> QED BY <1>1, <1>2, <1>3

\* What the steps make of the panel.
Unlocked(p, v, c) == [p EXCEPT !.settings.audio = v, !.context = c, !.clicked = TRUE]
Heeded(p, n, v) == [p EXCEPT !.known = n, !.settings.desktop = v]
LEMMA PanelSteps ==
  ASSUME NEW p \in PanelSet, NEW v \in BOOLEAN, NEW c, NEW n, NEW s
  PROVE  /\ [p EXCEPT !.settings = s, !.restored = Nil]
              = PanelOf(s, Nil, p.context, p.known, p.api, p.clicked, p.asked)
         /\ [p EXCEPT !.settings.audio = FALSE]
              = PanelOf(Switches(FALSE, p.settings.desktop), p.restored, p.context, p.known, p.api,
                        p.clicked, p.asked)
         /\ Unlocked(p, v, c)
              = PanelOf(Switches(v, p.settings.desktop), p.restored, c, p.known, p.api, TRUE, p.asked)
         /\ [p EXCEPT !.settings.desktop = v, !.asked = TRUE]
              = PanelOf(Switches(p.settings.audio, v), p.restored, p.context, p.known, p.api,
                        p.clicked, TRUE)
         /\ Heeded(p, n, v)
              = PanelOf(Switches(p.settings.audio, v), p.restored, p.context, n, p.api,
                        p.clicked, p.asked)
<1>1. PICK q : q = p.settings
  OBVIOUS
<1>2. /\ p = PanelOf(q, p.restored, p.context, p.known, p.api, p.clicked, p.asked)
      /\ q = Switches(q.audio, q.desktop)
  BY <1>1, PanelParts
<1>3. PICK r, i, k, a, u, w : /\ p.restored = r /\ p.context = i /\ p.known = k /\ p.api = a
                              /\ p.clicked = u /\ p.asked = w
  OBVIOUS
<1>4. p = PanelOf(q, r, i, k, a, u, w)
  BY <1>2, <1>3
<1>5. PICK loud, drawn : loud = q.audio /\ drawn = q.desktop /\ q = Switches(loud, drawn)
  BY <1>2
<1>11. [q EXCEPT !.audio = v] = Switches(v, drawn)
  BY <1>5 DEF Switches
<1>12. [q EXCEPT !.desktop = v] = Switches(loud, v)
  BY <1>5 DEF Switches
<1>13. [q EXCEPT !.audio = FALSE] = Switches(FALSE, drawn)
  <2>1. PICK q1 : q1 = [q EXCEPT !.audio = FALSE]
    OBVIOUS
  <2>2. q1 = Switches(FALSE, drawn)
    BY <1>5, <2>1 DEF Switches
  <2> QED BY <2>1, <2>2
<1>6. [p EXCEPT !.settings = s, !.restored = Nil] = PanelOf(s, Nil, i, k, a, u, w)
  <2>1. PICK p1 : p1 = [p EXCEPT !.settings = s]
    OBVIOUS
  <2>2. p1 = PanelOf(s, r, i, k, a, u, w)
    BY <1>4, <2>1 DEF PanelOf
  <2>3. PICK p2 : p2 = [p1 EXCEPT !.restored = Nil]
    OBVIOUS
  <2>4. p2 = PanelOf(s, Nil, i, k, a, u, w)
    BY <2>2, <2>3 DEF PanelOf
  <2> QED BY <2>1, <2>3, <2>4
<1>7. [p EXCEPT !.settings.audio = FALSE] = PanelOf(Switches(FALSE, drawn), r, i, k, a, u, w)
  <2>1. PICK q1 : q1 = [p.settings EXCEPT !.audio = FALSE]
    OBVIOUS
  <2>2. q1 = Switches(FALSE, drawn)
    BY <1>1, <1>13, <2>1
  <2>3. PICK p1 : p1 = [p EXCEPT !.settings = q1]
    OBVIOUS
  <2>4. p1 = PanelOf(q1, r, i, k, a, u, w)
    BY <1>4, <2>3 DEF PanelOf
  <2> QED BY <2>1, <2>2, <2>3, <2>4
<1>8. Unlocked(p, v, c)
        = PanelOf(Switches(v, drawn), r, c, k, a, TRUE, w)
  <2>1. PICK q1 : q1 = [p.settings EXCEPT !.audio = v]
    OBVIOUS
  <2>2. PICK p1 : p1 = [p EXCEPT !.settings = q1]
    OBVIOUS
  <2>3. p1 = PanelOf(q1, r, i, k, a, u, w)
    BY <1>4, <2>2 DEF PanelOf
  <2>4. PICK p2 : p2 = [p1 EXCEPT !.context = c]
    OBVIOUS
  <2>5. p2 = PanelOf(q1, r, c, k, a, u, w)
    BY <2>3, <2>4 DEF PanelOf
  <2>6. PICK p3 : p3 = [p2 EXCEPT !.clicked = TRUE]
    OBVIOUS
  <2>7. p3 = PanelOf(q1, r, c, k, a, TRUE, w)
    BY <2>5, <2>6 DEF PanelOf
  <2>8. q1 = Switches(v, drawn)
    BY <1>1, <1>11, <2>1
  <2> QED BY <2>1, <2>2, <2>4, <2>6, <2>7, <2>8 DEF Unlocked
<1>9. [p EXCEPT !.settings.desktop = v, !.asked = TRUE]
        = PanelOf(Switches(loud, v), r, i, k, a, u, TRUE)
  <2>1. PICK q1 : q1 = [p.settings EXCEPT !.desktop = v]
    OBVIOUS
  <2>2. PICK p1 : p1 = [p EXCEPT !.settings = q1]
    OBVIOUS
  <2>3. p1 = PanelOf(q1, r, i, k, a, u, w)
    BY <1>4, <2>2 DEF PanelOf
  <2>4. PICK p2 : p2 = [p1 EXCEPT !.asked = TRUE]
    OBVIOUS
  <2>5. p2 = PanelOf(q1, r, i, k, a, u, TRUE)
    BY <2>3, <2>4 DEF PanelOf
  <2>6. q1 = Switches(loud, v)
    BY <1>1, <1>12, <2>1
  <2> QED BY <2>1, <2>2, <2>4, <2>5, <2>6
<1>10. Heeded(p, n, v)
        = PanelOf(Switches(loud, v), r, i, n, a, u, w)
  <2>1. PICK p1 : p1 = [p EXCEPT !.known = n]
    OBVIOUS
  <2>2. p1 = PanelOf(q, r, i, n, a, u, w)
    BY <1>4, <2>1 DEF PanelOf
  <2>3. PICK q1 : q1 = [p1.settings EXCEPT !.desktop = v]
    OBVIOUS
  <2>4. p1.settings = q
    BY <2>2 DEF PanelOf
  <2>5. q1 = Switches(loud, v)
    BY <1>12, <2>3, <2>4
  <2>6. PICK p2 : p2 = [p1 EXCEPT !.settings = q1]
    OBVIOUS
  <2>7. p2 = PanelOf(q1, r, i, n, a, u, w)
    BY <2>2, <2>6 DEF PanelOf
  <2> QED BY <2>1, <2>3, <2>5, <2>6, <2>7 DEF Heeded
<1> QED BY <1>1, <1>3, <1>5, <1>6, <1>7, <1>8, <1>9, <1>10, Zenon

LEMMA AlertStep == ASSUME AlertsFit, AlertInv, N!AlertNext PROVE AlertInv'
<1>0. /\ permission \in N!Permissions /\ kept \in N!Settings \cup {Nil}
      /\ clicks \in 0..MaxClicks /\ prompts \in 0..clicks /\ MaxClicks \in Nat
      /\ (panel = N!Unmounted /\ prompts = 0) \/ PanelFits(panel, prompts, kept)
      /\ LastFits
  BY DEF AlertInv, AlertsFit
<1>1. panel.mounted => PanelFits(panel, prompts, kept)
  BY <1>0 DEF N!Unmounted
<1>2. N!Off \in N!Settings /\ N!Off = Switches(FALSE, FALSE)
  BY DEF N!Off, N!Settings, Switches
<1>3. ASSUME N!Click PROVE clicks' \in 0..MaxClicks /\ clicks' = clicks + 1
  BY <1>0, <1>3 DEF N!Click
<1>4. CASE N!Mount
  <2>1. N!Loaded \in N!Settings
    BY <1>0, <1>2 DEF N!Loaded
  <2>2. panel' = PanelOf(N!Off, N!Loaded, "idle", permission, permission, FALSE, FALSE)
    BY <1>4 DEF N!Mount, PanelOf
  <2>3. prompts = 0
    BY <1>0, <1>4 DEF N!Mount, PanelFits, PanelSet
  <2>4. PICK r \in N!Settings : r = N!Loaded
    BY <2>1
  <2>5. PICK no \in BOOLEAN : no = FALSE
    BY Zenon
  <2>6. panel' = PanelOf(Switches(no, no), r, "idle", permission, permission, no, no)
        /\ "idle" \in Contexts /\ r \in N!Settings \cup {Nil}
    BY <1>2, <2>2, <2>4, <2>5 DEF Contexts
  <2>7. /\ panel' \in PanelSet /\ panel'.context = "idle" /\ panel'.restored = r
        /\ panel'.asked = no /\ panel'.settings.desktop = no
    BY <1>0, <2>6, PanelMade
  <2>8. PanelFits(panel', prompts', kept')
    BY <1>4, <2>3, <2>5, <2>7, AlertsFit DEF N!Mount, PanelFits, AlertsFit
  <2>9. /\ kept' \in N!Settings /\ clicks' \in 0..MaxClicks /\ prompts' \in 0..clicks'
        /\ UNCHANGED <<permission, last>>
    <3>1. N!Click /\ kept' = N!Off /\ UNCHANGED <<permission, prompts, last>>
      BY <1>4 DEF N!Mount
    <3>2. clicks' \in 0..MaxClicks /\ clicks' \in Nat
      BY <1>0, <1>3, <3>1
    <3>3. prompts' \in 0..clicks'
      BY <2>3, <3>1, <3>2
    <3> QED BY <1>2, <3>1, <3>2, <3>3, Zenon
  <2> QED BY <1>0, <2>8, <2>9 DEF AlertInv, LastFits
\* The panel that is shown, in its parts.
<1>5. ASSUME panel.mounted
      PROVE  /\ panel = PanelOf(panel.settings, panel.restored, panel.context, panel.known,
                                panel.api, panel.clicked, panel.asked)
             /\ panel \in PanelSet
             /\ panel.settings \in N!Settings /\ panel.restored \in N!Settings \cup {Nil}
             /\ panel.context \in Contexts /\ panel.known \in N!Permissions
             /\ panel.api \in N!Permissions
             /\ panel.clicked \in BOOLEAN /\ panel.asked \in BOOLEAN
             /\ panel.settings.audio \in BOOLEAN /\ panel.settings.desktop \in BOOLEAN
             /\ panel.settings = Switches(panel.settings.audio, panel.settings.desktop)
  BY <1>1, <1>5, PanelParts DEF PanelFits
<1>13. ASSUME panel.mounted, NEW a \in BOOLEAN, NEW b \in BOOLEAN, NEW c \in Contexts,
              NEW k \in N!Permissions, NEW u \in BOOLEAN, NEW w \in BOOLEAN,
              NEW r \in N!Settings \cup {Nil},
              panel' = PanelOf(Switches(a, b), r, c, k, panel.api, u, w)
       PROVE  /\ panel' \in PanelSet /\ panel'.settings = Switches(a, b)
              /\ panel'.settings.desktop = b /\ panel'.restored = r /\ panel'.context = c
              /\ panel'.known = k /\ panel'.clicked = u /\ panel'.asked = w
  <2>1. PICK i \in N!Permissions : i = panel.api
    BY <1>5, <1>13
  <2>2. PICK p : p = PanelOf(Switches(a, b), r, c, k, i, u, w)
    OBVIOUS
  <2>3. /\ p \in PanelSet /\ p.settings = Switches(a, b) /\ p.settings.desktop = b
        /\ p.restored = r /\ p.context = c /\ p.known = k /\ p.clicked = u /\ p.asked = w
    <3>1. PICK s \in N!Settings : s = Switches(a, b) /\ s.desktop = b
      <4>1. Switches(a, b) \in N!Settings /\ Switches(a, b).desktop = b
        BY DEF Switches, N!Settings
      <4> QED BY <4>1
    <3>2. p = PanelOf(s, r, c, k, i, u, w)
      BY <2>2, <3>1
    <3> QED BY <3>1, <3>2 DEF PanelOf, PanelSet
  <2>4. panel' = p
    BY <1>13, <2>1, <2>2
  <2> QED BY <2>3, <2>4
<1>6. CASE N!Restore
  <2>1. panel.mounted /\ panel.restored # Nil
    BY <1>6 DEF N!Restore
  <2>2. PICK s : s = panel.restored
    BY ZenonT(30)
  <2>3. panel' = PanelOf(s, Nil, panel.context, panel.known, panel.api,
                         panel.clicked, panel.asked)
    BY <1>5, <1>6, <2>1, <2>2, PanelSteps DEF N!Restore
  <2>4. s \in N!Settings /\ panel.asked = FALSE /\ (panel.context = "ready" => panel.clicked)
    BY <1>1, <1>5, <2>1, <2>2 DEF PanelFits
  <2>5. PICK a \in BOOLEAN, b \in BOOLEAN : s = Switches(a, b)
    BY <2>4 DEF N!Settings, Switches
  <2>6. /\ panel' \in PanelSet /\ panel'.context = panel.context /\ panel'.restored = Nil
        /\ panel'.asked = panel.asked /\ panel'.clicked = panel.clicked /\ panel'.settings = s
    <3>1. PICK nil \in N!Settings \cup {Nil} : nil = Nil
      OBVIOUS
    <3> QED BY <1>5, <1>13, <2>1, <2>3, <2>5, <3>1, SMTT(30)
  <2>7. PanelFits(panel', prompts', kept')
    BY <1>6, <2>2, <2>4, <2>6 DEF N!Restore, PanelFits
  <2> QED BY <1>0, <1>6, <2>2, <2>4, <2>7 DEF N!Restore, AlertInv, LastFits
<1>7. CASE N!Unmount
  BY <1>0, <1>7 DEF N!Unmount, AlertInv, LastFits
<1>8. CASE N!ToggleAudio
  <2>1. panel.mounted /\ panel.restored = Nil /\ N!Click /\ kept' = panel'.settings
        /\ UNCHANGED <<permission, prompts, last>>
    BY <1>8 DEF N!ToggleAudio, N!Shown, N!Keeps
  <2>2. PICK b : b = panel.settings.desktop
    OBVIOUS
  <2>3. PICK a \in BOOLEAN, c \in Contexts, u \in BOOLEAN :
          /\ panel' = PanelOf(Switches(a, b), panel.restored, c, panel.known, panel.api, u, panel.asked)
          /\ c = "ready" => u
    <3>1. CASE panel.settings.audio
      <4>1. panel' = PanelOf(Switches(FALSE, b), panel.restored, panel.context, panel.known,
                             panel.api, panel.clicked, panel.asked)
        BY <1>5, <1>8, <2>1, <2>2, <3>1, PanelSteps, Zenon DEF N!ToggleAudio
      <4>2. PICK no \in BOOLEAN : no = FALSE
        BY Zenon
      <4> QED BY <1>1, <1>5, <2>1, <4>1, <4>2, Zenon DEF PanelFits
    <3>2. CASE ~panel.settings.audio
      <4>1. PICK c \in Contexts :
              panel' = [panel EXCEPT !.settings.audio = c = "ready", !.context = c, !.clicked = TRUE]
        BY <1>5, <1>8, <2>1, <3>2 DEF N!ToggleAudio, Contexts
      <4>2. (c = "ready") \in BOOLEAN
        OBVIOUS
      <4>3. PICK a \in BOOLEAN : a = (c = "ready")
        BY <4>2
      <4>4. panel' = PanelOf(Switches(a, b), panel.restored, c, panel.known, panel.api, TRUE, panel.asked)
        <5>1. panel' = Unlocked(panel, a, c)
          BY <4>1, <4>3, Zenon DEF Unlocked
        <5>2. panel \in PanelSet
          BY <1>5, <2>1
        <5>3. Unlocked(panel, a, c)
                = PanelOf(Switches(a, panel.settings.desktop), panel.restored, c, panel.known,
                          panel.api, TRUE, panel.asked)
          BY <4>3, <5>2, PanelSteps, Zenon
        <5> QED BY <2>2, <5>1, <5>3, Zenon
      <4>5. PICK yes \in BOOLEAN : yes = TRUE
        BY Zenon
      <4> QED BY <4>4, <4>5
    <3> QED BY <3>1, <3>2
  <2>4. b \in BOOLEAN
    BY <1>5, <2>1, <2>2
  <2>5. /\ panel' \in PanelSet /\ panel'.settings = Switches(a, b) /\ panel'.settings.desktop = b
        /\ panel'.restored = panel.restored /\ panel'.context = c /\ panel'.known = panel.known
        /\ panel'.clicked = u /\ panel'.asked = panel.asked
    BY <1>5, <1>13, <2>1, <2>3, <2>4, SMTT(30)
  <2>6. PanelFits(panel', prompts', kept')
    BY <1>1, <2>1, <2>2, <2>3, <2>5 DEF PanelFits
  <2>7. kept' \in N!Settings
    BY <2>1, <2>5 DEF PanelSet
  <2> QED BY <1>0, <1>3, <2>1, <2>6, <2>7 DEF AlertInv, LastFits
<1>9. CASE N!ToggleDesktop
  <2>1. panel.mounted /\ panel.restored = Nil /\ N!Click /\ kept' = panel'.settings
        /\ UNCHANGED <<permission, last>>
        /\ panel' = [panel EXCEPT !.settings.desktop = ~panel.settings.desktop, !.asked = TRUE]
        /\ prompts' = IF panel.settings.desktop THEN prompts ELSE prompts + 1
    BY <1>9 DEF N!ToggleDesktop, N!Shown, N!Keeps
  <2>2. PICK a \in BOOLEAN, b \in BOOLEAN : a = panel.settings.audio /\ b = panel.settings.desktop
    BY <1>5, <2>1
  <2>3. PICK d \in BOOLEAN : d = ~b
    BY Zenon
  <2>4. PICK yes \in BOOLEAN : yes = TRUE
    BY Zenon
  <2>5. panel' = PanelOf(Switches(a, d), panel.restored, panel.context, panel.known, panel.api,
                         panel.clicked, yes)
    BY <1>5, <2>1, <2>2, <2>3, <2>4, PanelSteps, Zenon
  <2>6. /\ panel' \in PanelSet /\ panel'.settings = Switches(a, d) /\ panel'.settings.desktop = d
        /\ panel'.restored = panel.restored /\ panel'.context = panel.context
        /\ panel'.known = panel.known /\ panel'.clicked = panel.clicked
    <3>1. /\ panel.restored \in N!Settings \cup {Nil} /\ panel.context \in Contexts
          /\ panel.known \in N!Permissions /\ panel.clicked \in BOOLEAN
      BY <1>5, <2>1
    <3>2. PICK r \in N!Settings \cup {Nil}, c \in Contexts, k \in N!Permissions, u \in BOOLEAN :
            r = panel.restored /\ c = panel.context /\ k = panel.known /\ u = panel.clicked
      BY <3>1, Zenon
    <3>3. panel' = PanelOf(Switches(a, d), r, c, k, panel.api, u, yes)
      BY <2>5, <3>2, Zenon
    <3>4. panel.mounted
      BY <2>1
    <3>5. /\ panel' \in PanelSet /\ panel'.settings = Switches(a, d)
          /\ panel'.settings.desktop = d /\ panel'.restored = r /\ panel'.context = c
          /\ panel'.known = k /\ panel'.clicked = u /\ panel'.asked = yes
      BY <1>13, <3>3, <3>4, SMTT(30)
    <3> QED BY <3>2, <3>5, Zenon
  <2>7. prompts' \in 0..clicks' /\ (d => prompts' # 0)
    <3>1. clicks' = clicks + 1 /\ prompts \in Nat /\ clicks \in Nat /\ prompts <= clicks
      BY <1>0, <1>3, <2>1
    <3>2. CASE b
      <4>1. prompts' = prompts /\ d = FALSE
        BY <2>1, <2>2, <2>3, <3>2, Zenon
      <4> QED BY <3>1, <4>1
    <3>3. CASE ~b
      <4>1. prompts' = prompts + 1
        BY <2>1, <2>2, <3>3, Zenon
      <4> QED BY <3>1, <4>1
    <3> QED BY <3>2, <3>3
  <2>8. PanelFits(panel', prompts', kept')
    BY <1>1, <2>1, <2>6, <2>7 DEF PanelFits
  <2>9. kept' \in N!Settings
    BY <2>1, <2>6 DEF PanelSet
  <2> QED BY <1>0, <1>3, <2>1, <2>7, <2>8, <2>9 DEF AlertInv, LastFits
<1>10. ASSUME NEW answer \in N!Permissions, N!Answered(answer) PROVE AlertInv'
  <2>1. /\ prompts > 0 /\ prompts' = prompts - 1 /\ permission' = answer
        /\ panel' = [panel EXCEPT !.known = answer,
                                  !.settings.desktop = panel.settings.desktop /\ answer = "granted"]
        /\ kept' = panel'.settings /\ UNCHANGED <<last, clicks>>
    BY <1>10 DEF N!Answered, N!Keeps
  <2>2. PanelFits(panel, prompts, kept)
    BY <1>0, <2>1
  <2>3. panel.mounted /\ panel.restored = Nil
    <3>1. panel.mounted
      BY <2>2 DEF PanelFits, PanelSet
    <3>2. prompts # 0
      BY <1>0, <2>1
    <3> QED BY <2>2, <3>1, <3>2 DEF PanelFits
  <2>4. PICK a \in BOOLEAN, b \in BOOLEAN : a = panel.settings.audio /\ b = panel.settings.desktop
    BY <1>5, <2>3
  <2>5. (b /\ answer = "granted") \in BOOLEAN
    OBVIOUS
  <2>6. PICK d \in BOOLEAN : d = (b /\ answer = "granted")
    BY <2>5
  <2>7. panel' = PanelOf(Switches(a, d), panel.restored, panel.context, answer, panel.api,
                         panel.clicked, panel.asked)
    <3>1. panel' = Heeded(panel, answer, d)
      BY <2>1, <2>4, <2>6, Zenon DEF Heeded
    <3>2. panel \in PanelSet
      BY <1>5, <2>3
    <3>3. Heeded(panel, answer, d)
            = PanelOf(Switches(panel.settings.audio, d), panel.restored, panel.context, answer,
                      panel.api, panel.clicked, panel.asked)
      BY <2>6, <3>2, PanelSteps, Zenon
    <3> QED BY <2>4, <3>1, <3>3, Zenon
  <2>8. /\ panel' \in PanelSet /\ panel'.settings = Switches(a, d) /\ panel'.settings.desktop = d
        /\ panel'.restored = panel.restored /\ panel'.context = panel.context
        /\ panel'.known = answer /\ panel'.clicked = panel.clicked
    BY <1>5, <1>13, <2>3, <2>7
  <2>9. PanelFits(panel', prompts', kept')
    BY <2>1, <2>2, <2>3, <2>6, <2>8 DEF PanelFits
  <2>10. kept' \in N!Settings
    BY <2>1, <2>8 DEF PanelSet
  <2> QED BY <1>0, <2>1, <2>9, <2>10 DEF AlertInv, LastFits
<1>11. ASSUME NEW to, N!SiteSettings(to) PROVE AlertInv'
  <2>1. permission' \in N!Permissions /\ UNCHANGED <<kept, panel, prompts, last>> /\ N!Click
    BY <1>11 DEF N!SiteSettings, N!Permissions
  <2> QED BY <1>0, <1>3, <2>1 DEF AlertInv, LastFits
<1>12. CASE N!Alert
  <2>1. LastFits'
    BY <1>1, <1>12 DEF N!Alert, N!Plays, N!Notifies, LastFits, PanelFits
  <2> QED BY <1>0, <1>12, <2>1 DEF N!Alert, AlertInv
<1> QED BY <1>4, <1>6, <1>7, <1>8, <1>9, <1>10, <1>11, <1>12 DEF N!AlertNext

(* However a panel is opened and left, clicked, answered and overruled in   *)
(* the browser's own settings: nothing rings before a click or through a    *)
(* channel that is off, and what is shown on is kept and allowed            *)
(* (TelemetryAlerts.tsx, audioAlert.ts).                                    *)
THEOREM NobodyIsAmbushed ==
  ASSUME AlertsFit
  PROVE  N!Init /\ [][N!ToastNext \/ N!AlertNext]_(N!noticeVars)
           => [](N!NoAmbush /\ N!ChannelsAgree)
<1>1. N!Init => AlertInv
  BY DEF N!Init, AlertsFit, AlertInv, LastFits
<1>2. AlertInv /\ [N!ToastNext \/ N!AlertNext]_(N!noticeVars) => AlertInv'
  <2>1. ASSUME AlertInv, UNCHANGED <<kept, panel, permission, prompts, last, clicks>>
        PROVE  AlertInv'
    BY <2>1 DEF AlertInv, LastFits
  <2>2. ASSUME UNCHANGED N!noticeVars \/ N!ToastNext
        PROVE  UNCHANGED <<kept, panel, permission, prompts, last, clicks>>
    BY <2>2, Zenon DEF N!noticeVars, N!ToastNext, N!Dispatch, N!Dismiss, N!TimerFires, N!Gone,
       N!ClearToasts
  <2> QED BY <2>1, <2>2, AlertStep
<1>3. AlertInv => N!NoAmbush /\ N!ChannelsAgree
  BY DEF AlertInv, LastFits, PanelFits, N!NoAmbush, N!ChannelsAgree, N!Shown, N!Unmounted
<1> QED BY <1>1, <1>2, <1>3, PTL

-----------------------------------------------------------------------------
(* The shell.  A page loads the newest build there is, and no worker is     *)
(* newer than that: it is the claim of a worker that reloads what is older. *)
U == INSTANCE AppUpdates

ShellFits == MaxBuild \in Nat \ {0}

ShellInv ==
  /\ build \in 1..MaxBuild /\ worker \in 0..build /\ waiting \in 0..build
  /\ waiting # 0 => 0 < worker /\ worker < waiting
  /\ promoters # {} => waiting # 0
  /\ page = [t \in DOMAIN page |-> page[t]] /\ \A t \in DOMAIN page : page[t] \in U!Page
  /\ U!ShellMatches

\* Nothing but a claim replaces the worker, and what a page shows of it is not what it runs.
LEMMA PagesKeep ==
  ASSUME ShellFits, ShellInv, UNCHANGED worker,
         build' \in 1..MaxBuild, build' >= build, waiting' \in 0..build',
         waiting' # 0 => 0 < worker' /\ worker' < waiting', promoters' # {} => waiting' # 0,
         page' = [t \in DOMAIN page' |-> page'[t]],
         \A t \in DOMAIN page' :
           /\ page'[t] \in U!Page
           /\ \/ page'[t].reloaded
              \/ page'[t].under # "load"
              \/ page'[t].runs >= worker
  PROVE  ShellInv'
BY DEF ShellFits, ShellInv, U!ShellMatches

LEMMA LoadedFits ==
  ASSUME ShellFits, ShellInv, NEW forced \in BOOLEAN
  PROVE  U!Loaded(forced) \in U!Page /\ U!Loaded(forced).runs = build
<1>1. PICK way \in {"none", "load"} : way = IF worker # 0 /\ ~forced THEN "load" ELSE "none"
  OBVIOUS
<1>2. PICK no \in BOOLEAN : no = FALSE
  BY Zenon
<1>3. U!Loaded(forced) =
        [runs |-> build, under |-> way, watching |-> "no", held |-> 0, confirming |-> no,
         asked |-> no, reloaded |-> no, work |-> {}]
  BY <1>1, <1>2 DEF U!Loaded
<1>4. build \in 1..MaxBuild /\ 0 \in 0..MaxBuild /\ {} \in SUBSET U!Works
  BY DEF ShellFits, ShellInv
<1> QED BY <1>3, <1>4 DEF U!Page

LEMMA ShownFits ==
  ASSUME ShellFits, ShellInv, NEW t \in DOMAIN page, NEW watches \in {"no", "yes", "once"},
         NEW holds \in 0..MaxBuild, NEW confirms \in BOOLEAN, NEW asks \in BOOLEAN,
         NEW stays \in BOOLEAN, NEW works \in SUBSET U!Works
  PROVE  [runs |-> page[t].runs, under |-> page[t].under, watching |-> watches,
          held |-> holds, confirming |-> confirms, asked |-> asks, reloaded |-> stays,
          work |-> works] \in U!Page
<1>1. page[t] \in U!Page
  BY DEF ShellInv
<1> QED BY <1>1 DEF U!Page

LEMMA ClaimsFit ==
  ASSUME ShellFits, ShellInv, NEW stay, NEW t \in DOMAIN page
  PROVE  LET p == U!Claims(stay)[t]
         IN  /\ p \in U!Page
             /\ p.reloaded \/ p.under # "load" \/ p.runs = build
<1>1. page[t] \in U!Page
  BY DEF ShellInv
<1>2. PICK p : p = U!Claims(stay)[t]
  OBVIOUS
<1>3. p = IF ~U!Controlled(t) THEN [page[t] EXCEPT !.under = "claim"]
          ELSE IF page[t].reloaded THEN page[t]
          ELSE IF t \in stay THEN [page[t] EXCEPT !.reloaded = TRUE]
          ELSE U!Loaded(FALSE)
  BY <1>2 DEF U!Claims
<1>4. CASE ~U!Controlled(t)
  <2>1. p = [runs |-> page[t].runs, under |-> "claim", watching |-> page[t].watching,
             held |-> page[t].held, confirming |-> page[t].confirming, asked |-> page[t].asked,
             reloaded |-> page[t].reloaded, work |-> page[t].work]
    BY <1>1, <1>3, <1>4 DEF U!Page
  <2>2. p \in U!Page /\ p.under # "load"
    BY <1>1, <2>1 DEF U!Page
  <2> QED BY <1>2, <2>2
<1>5. CASE U!Controlled(t) /\ page[t].reloaded
  BY <1>1, <1>2, <1>3, <1>5
<1>6. CASE U!Controlled(t) /\ ~page[t].reloaded /\ t \in stay
  <2>1. PICK yes \in BOOLEAN : yes = TRUE
    BY Zenon
  <2>2. p = [runs |-> page[t].runs, under |-> page[t].under, watching |-> page[t].watching,
             held |-> page[t].held, confirming |-> page[t].confirming, asked |-> page[t].asked,
             reloaded |-> yes, work |-> page[t].work]
    BY <1>1, <1>3, <1>6, <2>1 DEF U!Page
  <2>3. p \in U!Page /\ p.reloaded
    <3>1. p \in U!Page
      BY <1>1, <2>2, ShownFits DEF U!Page
    <3>2. p.reloaded = yes
      BY <2>2
    <3> QED BY <2>1, <3>1, <3>2
  <2> QED BY <1>2, <2>3
<1>7. CASE U!Controlled(t) /\ ~page[t].reloaded /\ t \notin stay
  <2>1. p = U!Loaded(FALSE)
    BY <1>3, <1>7
  <2>2. FALSE \in BOOLEAN
    BY Zenon
  <2> QED BY <1>2, <2>1, <2>2, LoadedFits
<1> QED BY <1>4, <1>5, <1>6, <1>7

LEMMA ClaimKeeps ==
  ASSUME ShellFits, ShellInv, NEW stay, page' = U!Claims(stay),
         worker' \in 0..build, UNCHANGED build, waiting' \in 0..build,
         waiting' # 0 => 0 < worker' /\ worker' < waiting', promoters' # {} => waiting' # 0
  PROVE  ShellInv'
<1>1. page' = [t \in DOMAIN page' |-> page'[t]] /\ DOMAIN page' = DOMAIN page
  BY DEF U!Claims
<1>2. ASSUME NEW t \in DOMAIN page
      PROVE  /\ page'[t] \in U!Page
             /\ page'[t].reloaded \/ page'[t].under # "load" \/ page'[t].runs = build
  BY <1>2, ClaimsFit
<1>3. build >= worker'
  BY DEF ShellInv, ShellFits
<1> QED BY <1>1, <1>2, <1>3 DEF ShellInv, U!ShellMatches

LEMMA ShellStep == ASSUME ShellFits, ShellInv, U!Next PROVE ShellInv'
<1>0. /\ build \in 1..MaxBuild /\ worker \in 0..build /\ waiting \in 0..build
      /\ waiting # 0 => 0 < worker /\ worker < waiting
      /\ promoters # {} => waiting # 0
      /\ page = [t \in DOMAIN page |-> page[t]] /\ \A t \in DOMAIN page : page[t] \in U!Page
      /\ \A t \in DOMAIN page : page[t].under = "load" /\ ~page[t].reloaded => page[t].runs >= worker
      /\ MaxBuild \in Nat
  BY DEF ShellInv, ShellFits, U!ShellMatches
<1>1. CASE U!Release
  <2>1. build' = build + 1 /\ build < MaxBuild /\ UNCHANGED <<worker, waiting, promoters, page>>
    BY <1>1 DEF U!Release
  <2>2. build' \in 1..MaxBuild /\ worker' \in 0..build' /\ waiting' \in 0..build'
    BY <1>0, <2>1
  <2> QED BY <1>0, <2>1, <2>2 DEF ShellInv, U!ShellMatches
<1>2. CASE U!Install
  <2>1. CASE worker = 0
    <3>1. worker' = build /\ page' = U!Claims({}) /\ UNCHANGED <<build, waiting, promoters>>
          /\ build > waiting
      BY <1>2, <2>1 DEF U!Install
    <3>2. waiting = 0 /\ promoters = {} /\ worker' \in 0..build
      BY <1>0, <2>1, <3>1
    <3> QED BY <1>0, <3>1, <3>2, ClaimKeeps
  <2>2. CASE worker # 0
    <3>1. /\ waiting' = build /\ UNCHANGED <<build, worker>> /\ build > worker
          /\ page' = [t \in DOMAIN page |->
                        IF U!Hear(t) /\ U!Controlled(t)
                        THEN [page[t] EXCEPT !.held = build, !.confirming = FALSE] ELSE page[t]]
      BY <1>2, <2>2 DEF U!Install
    <3>2. ASSUME NEW t \in DOMAIN page
          PROVE  /\ page'[t] \in U!Page
                 /\ page'[t].reloaded \/ page'[t].under # "load" \/ page'[t].runs >= worker
      <4>1. CASE U!Hear(t) /\ U!Controlled(t)
        <5>1. PICK no \in BOOLEAN : no = FALSE
          BY Zenon
        <5>2. page'[t] = [runs |-> page[t].runs, under |-> page[t].under,
                          watching |-> page[t].watching, held |-> build, confirming |-> no,
                          asked |-> page[t].asked, reloaded |-> page[t].reloaded,
                          work |-> page[t].work]
          BY <1>0, <3>1, <4>1, <5>1, ZenonT(30) DEF U!Page
        <5>3. page[t] \in U!Page /\ build \in 0..MaxBuild
          BY <1>0
        <5>4. page'[t] \in U!Page
          BY <5>2, <5>3, ShownFits DEF U!Page
        <5> QED BY <1>0, <5>2, <5>4
      <4>2. CASE ~(U!Hear(t) /\ U!Controlled(t))
        BY <1>0, <3>1, <4>2
      <4> QED BY <4>1, <4>2
    <3>3. DOMAIN page' = DOMAIN page /\ page' = [t \in DOMAIN page' |-> page'[t]]
      BY <3>1
    <3>4. /\ build' \in 1..MaxBuild /\ build' >= build /\ waiting' \in 0..build'
          /\ 0 < worker' /\ worker' < waiting' /\ waiting' # 0
      <4>1. PICK b \in 1..MaxBuild, w \in Nat : b = build /\ w = worker
        BY <1>0
      <4>2. b > w /\ w # 0 /\ build' = b /\ waiting' = b /\ worker' = w
        BY <2>2, <3>1, <4>1
      <4>3. 0 < w /\ w < b /\ b # 0 /\ b >= b /\ b \in 0..b
        BY <1>0, <4>1, <4>2
      <4> QED BY <4>1, <4>2, <4>3
    <3> QED BY <3>1, <3>2, <3>3, <3>4, PagesKeep
  <2> QED BY <2>1, <2>2
<1>3. CASE U!Activate
  <2>1. PICK stay : page' = U!Claims(stay)
    BY <1>3 DEF U!Activate
  <2>2. worker' = waiting /\ waiting' = 0 /\ promoters' = {} /\ UNCHANGED build
    BY <1>3 DEF U!Activate
  <2> QED BY <1>0, <2>1, <2>2, ClaimKeeps
<1>4. ASSUME NEW t, NEW forced \in BOOLEAN, page' = U!With(t, U!Loaded(forced)),
             UNCHANGED <<build, worker, waiting, promoters>>
      PROVE  ShellInv'
  <2>1. U!Loaded(forced) \in U!Page /\ U!Loaded(forced).runs = build
    BY LoadedFits
  <2>2. \A u \in DOMAIN page' : page'[u] = U!Loaded(forced) \/ (u \in DOMAIN page /\ page'[u] = page[u])
    BY <1>4 DEF U!With
  <2>3. page' = [u \in DOMAIN page' |-> page'[u]]
    BY <1>4 DEF U!With
  <2> QED BY <1>0, <1>4, <2>1, <2>2, <2>3, PagesKeep
<1>5. ASSUME NEW t \in DOMAIN page, U!ClosePage(t) PROVE ShellInv'
  BY <1>0, <1>5, PagesKeep DEF U!ClosePage
<1>6. ASSUME NEW t \in DOMAIN page, NEW p \in U!Page, page' = [page EXCEPT ![t] = p],
             p.runs = page[t].runs, p.under = page[t].under,
             p.reloaded \/ ~page[t].reloaded,
             UNCHANGED <<build, worker, waiting>>, promoters' # {} => waiting' # 0
      PROVE  ShellInv'
  <2>1. DOMAIN page' = DOMAIN page /\ page' = [u \in DOMAIN page' |-> page'[u]]
    BY <1>0, <1>6
  <2>2. \A u \in DOMAIN page : page'[u] = IF u = t THEN p ELSE page[u]
    BY <1>0, <1>6
  <2> QED BY <1>0, <1>6, <2>1, <2>2, PagesKeep
<1>8. ASSUME NEW t \in DOMAIN page
      PROVE  /\ page[t] = [runs |-> page[t].runs, under |-> page[t].under,
                           watching |-> page[t].watching, held |-> page[t].held,
                           confirming |-> page[t].confirming, asked |-> page[t].asked,
                           reloaded |-> page[t].reloaded, work |-> page[t].work]
             /\ page[t].watching \in {"no", "yes", "once"} /\ page[t].held \in 0..MaxBuild
             /\ page[t].confirming \in BOOLEAN /\ page[t].asked \in BOOLEAN
             /\ page[t].reloaded \in BOOLEAN /\ page[t].work \in SUBSET U!Works
             /\ page[t] \in U!Page
  BY <1>0 DEF U!Page
<1>9. PICK yes \in BOOLEAN, no \in BOOLEAN : yes = TRUE /\ no = FALSE
  BY Zenon
<1>10. ASSUME NEW t \in DOMAIN page, U!Register(t) PROVE ShellInv'
  <2>1. PICK watches \in {"no", "yes", "once"} : watches = IF waiting = 0 THEN "yes" ELSE "once"
    OBVIOUS
  <2>2. PICK holds \in 0..MaxBuild : holds = IF U!Controlled(t) THEN waiting ELSE 0
    <3>1. waiting \in 0..MaxBuild /\ 0 \in 0..MaxBuild
      BY <1>0
    <3> QED BY <3>1
  <2>3. page' = [page EXCEPT ![t].watching = watches, ![t].held = holds]
    BY <1>10, <2>1, <2>2 DEF U!Register
  <2>4. PICK heard1 : heard1 = [page[t] EXCEPT !.watching = watches]
    OBVIOUS
  <2>5. PICK p : p = [heard1 EXCEPT !.held = holds]
    OBVIOUS
  <2>6. p = [runs |-> page[t].runs, under |-> page[t].under, watching |-> watches,
             held |-> holds, confirming |-> page[t].confirming, asked |-> page[t].asked,
             reloaded |-> page[t].reloaded, work |-> page[t].work]
    <3>1. heard1 = [runs |-> page[t].runs, under |-> page[t].under, watching |-> watches,
                    held |-> page[t].held, confirming |-> page[t].confirming,
                    asked |-> page[t].asked, reloaded |-> page[t].reloaded,
                    work |-> page[t].work]
      BY <1>8, <2>4
    <3> QED BY <2>5, <3>1
  <2>7. page' = [page EXCEPT ![t] = p]
    <3>1. PICK first : first = [page EXCEPT ![t] = heard1]
      OBVIOUS
    <3>2. page' = [first EXCEPT ![t] = [first[t] EXCEPT !.held = holds]] /\ first[t] = heard1
      BY <2>3, <2>4, <3>1
    <3> QED BY <2>5, <3>1, <3>2
  <2>8. UNCHANGED <<build, worker, waiting>> /\ (promoters' # {} => waiting' # 0)
    BY <1>0, <1>10 DEF U!Register
  <2>9. p \in U!Page
    BY <1>8, <2>6, ShownFits
  <2> QED BY <1>6, <1>8, <2>6, <2>7, <2>8, <2>9
<1>11. ASSUME NEW t \in DOMAIN page, NEW v \in BOOLEAN, UNCHANGED <<build, worker, waiting>>,
              promoters' # {} => waiting' # 0,
              \/ page' = [page EXCEPT ![t].confirming = v]
              \/ page' = [page EXCEPT ![t].asked = v]
              \/ page' = [page EXCEPT ![t].reloaded = v] /\ v
       PROVE  ShellInv'
  <2>1. CASE page' = [page EXCEPT ![t].confirming = v]
    <3>1. PICK p : p = [page[t] EXCEPT !.confirming = v]
      OBVIOUS
    <3>2. p = [runs |-> page[t].runs, under |-> page[t].under, watching |-> page[t].watching,
               held |-> page[t].held, confirming |-> v, asked |-> page[t].asked,
               reloaded |-> page[t].reloaded, work |-> page[t].work]
      BY <1>8, <3>1
    <3>3. p \in U!Page
      BY <1>8, <3>2, ShownFits
    <3>4. page' = [page EXCEPT ![t] = p] /\ p.runs = page[t].runs /\ p.under = page[t].under
          /\ p.reloaded = page[t].reloaded
      BY <2>1, <3>1, <3>2
    <3>5. p.reloaded \/ ~page[t].reloaded
      BY <1>8, <3>4
    <3> QED BY <1>6, <1>11, <3>3, <3>4, <3>5, Zenon
  <2>2. CASE page' = [page EXCEPT ![t].asked = v]
    <3>1. PICK p : p = [page[t] EXCEPT !.asked = v]
      OBVIOUS
    <3>2. p = [runs |-> page[t].runs, under |-> page[t].under, watching |-> page[t].watching,
               held |-> page[t].held, confirming |-> page[t].confirming, asked |-> v,
               reloaded |-> page[t].reloaded, work |-> page[t].work]
      BY <1>8, <3>1
    <3>3. p \in U!Page
      BY <1>8, <3>2, ShownFits
    <3>4. page' = [page EXCEPT ![t] = p] /\ p.runs = page[t].runs /\ p.under = page[t].under
          /\ p.reloaded = page[t].reloaded
      BY <2>2, <3>1, <3>2
    <3>5. p.reloaded \/ ~page[t].reloaded
      BY <1>8, <3>4
    <3> QED BY <1>6, <1>11, <3>3, <3>4, <3>5, Zenon
  <2>3. CASE page' = [page EXCEPT ![t].reloaded = v] /\ v
    <3>1. PICK p : p = [page[t] EXCEPT !.reloaded = v]
      OBVIOUS
    <3>2. p = [runs |-> page[t].runs, under |-> page[t].under, watching |-> page[t].watching,
               held |-> page[t].held, confirming |-> page[t].confirming, asked |-> page[t].asked,
               reloaded |-> v, work |-> page[t].work]
      BY <1>8, <3>1
    <3>3. p \in U!Page
      BY <1>8, <3>2, ShownFits
    <3>4. page' = [page EXCEPT ![t] = p] /\ p.runs = page[t].runs /\ p.under = page[t].under
          /\ p.reloaded = v
      BY <2>3, <3>1, <3>2
    <3>5. p.reloaded \/ ~page[t].reloaded
      BY <2>3, <3>4
    <3> QED BY <1>6, <1>11, <3>3, <3>4, <3>5, Zenon
  <2> QED BY <1>11, <2>1, <2>2, <2>3
<1>13. ASSUME NEW t \in DOMAIN page, U!ReloadNow(t) PROVE ShellInv'
  <2>1. CASE U!Deferred(t) /\ ~page[t].confirming
    <3>1. page' = [page EXCEPT ![t].confirming = yes]
          /\ UNCHANGED <<promoters, build, worker, waiting>>
      BY <1>9, <1>13, <2>1 DEF U!ReloadNow
    <3> QED BY <1>0, <1>11, <3>1
  <2>2. CASE ~(U!Deferred(t) /\ ~page[t].confirming)
    <3>1. page' = [page EXCEPT ![t].asked = yes] /\ UNCHANGED <<build, worker, waiting>>
      BY <1>9, <1>13, <2>2 DEF U!ReloadNow
    <3>2. promoters' # {} => waiting' # 0
      BY <1>0, <1>13, <2>2, <3>1 DEF U!ReloadNow
    <3> QED BY <1>11, <3>1, <3>2
  <2> QED BY <2>1, <2>2
<1>14. ASSUME NEW t \in DOMAIN page, U!KeepWorking(t) PROVE ShellInv'
  <2>1. page' = [page EXCEPT ![t].confirming = no]
        /\ UNCHANGED <<promoters, build, worker, waiting>>
    BY <1>9, <1>14 DEF U!KeepWorking
  <2> QED BY <1>0, <1>11, <2>1
<1>15. ASSUME NEW t \in DOMAIN page, U!ReloadTimer(t) PROVE ShellInv'
  <2>1. CASE page' = U!With(t, U!Loaded(FALSE))
    <3>1. UNCHANGED <<build, worker, waiting, promoters>> /\ page' = U!With(t, U!Loaded(no))
      BY <1>9, <1>15, <2>1 DEF U!ReloadTimer
    <3> QED BY <1>4, <3>1
  <2>2. CASE page' = [page EXCEPT ![t].reloaded = TRUE]
    <3>1. UNCHANGED <<build, worker, waiting, promoters>>
          /\ page' = [page EXCEPT ![t].reloaded = yes]
      BY <1>9, <1>15, <2>2 DEF U!ReloadTimer
    <3> QED BY <1>0, <1>9, <1>11, <3>1
  <2> QED BY <1>15, <2>1, <2>2 DEF U!ReloadTimer
<1>16. ASSUME NEW t \in DOMAIN page, NEW works \in SUBSET U!Works,
              page' = [page EXCEPT ![t].work = works],
              UNCHANGED <<build, worker, waiting, promoters>>
       PROVE  ShellInv'
  <2>1. PICK p : p = [page[t] EXCEPT !.work = works]
    OBVIOUS
  <2>2. p = [runs |-> page[t].runs, under |-> page[t].under, watching |-> page[t].watching,
             held |-> page[t].held, confirming |-> page[t].confirming, asked |-> page[t].asked,
             reloaded |-> page[t].reloaded, work |-> works]
    BY <1>8, <2>1
  <2>3. p \in U!Page
    BY <1>8, <2>2, ShownFits
  <2>4. page' = [page EXCEPT ![t] = p] /\ p.runs = page[t].runs /\ p.under = page[t].under
        /\ p.reloaded = page[t].reloaded
    BY <1>16, <2>1, <2>2
  <2>5. p.reloaded \/ ~page[t].reloaded
    BY <1>8, <2>4
  <2>6. promoters' # {} => waiting' # 0
    BY <1>0, <1>16
  <2> QED BY <1>6, <1>16, <2>3, <2>4, <2>5, <2>6, Zenon
<1>17. ASSUME NEW t \in DOMAIN page, NEW w \in U!Works, U!Begin(t, w) \/ U!Finish(t, w)
       PROVE  ShellInv'
  <2>1. PICK works \in SUBSET U!Works : page' = [page EXCEPT ![t].work = works]
    <3>1. page[t].work \cup {w} \in SUBSET U!Works /\ page[t].work \ {w} \in SUBSET U!Works
      BY <1>8
    <3> QED BY <1>17, <3>1 DEF U!Begin, U!Finish
  <2>2. UNCHANGED <<build, worker, waiting, promoters>>
    BY <1>17 DEF U!Begin, U!Finish
  <2> QED BY <1>16, <2>1, <2>2
<1>18. ASSUME NEW t \in DOMAIN page, U!LeavePanel(t) PROVE ShellInv'
  <2>1. PICK works \in SUBSET U!Works : page' = [page EXCEPT ![t].work = works]
    <3>1. {"leftWrite"} \in SUBSET U!Works /\ {} \in SUBSET U!Works
      BY DEF U!Works
    <3> QED BY <1>18, <3>1 DEF U!LeavePanel
  <2>2. UNCHANGED <<build, worker, waiting, promoters>>
    BY <1>18 DEF U!LeavePanel
  <2> QED BY <1>16, <2>1, <2>2
<1>19. ASSUME NEW t, NEW forced \in BOOLEAN, U!OpenPage(t, forced) PROVE ShellInv'
  BY <1>4, <1>19 DEF U!OpenPage
<1> QED
  BY <1>1, <1>2, <1>3, <1>5, <1>10, <1>13, <1>14, <1>15, <1>17, <1>18, <1>19 DEF U!Next

\* Who is open and who told the worker is a tab.
ShellNamed == DOMAIN page \subseteq Pages /\ promoters \subseteq Pages
LEMMA PagesNamed == ShellNamed /\ [U!Next]_(U!shellVars) => ShellNamed'
<1> SUFFICES ASSUME ShellNamed, U!Next \/ UNCHANGED U!shellVars PROVE ShellNamed'
  OBVIOUS
<1>1. CASE U!Install \/ U!Activate \/ U!Release \/ UNCHANGED U!shellVars
  BY <1>1 DEF ShellNamed, U!Install, U!Activate, U!Release, U!shellVars, U!Claims
<1>2. ASSUME NEW t \in Pages, NEW forced \in BOOLEAN, U!OpenPage(t, forced) PROVE ShellNamed'
  BY <1>2 DEF ShellNamed, U!OpenPage, U!With
<1>3. ASSUME NEW t \in DOMAIN page,
             \/ U!ClosePage(t) \/ U!Register(t) \/ U!ReloadNow(t) \/ U!KeepWorking(t)
             \/ U!ReloadTimer(t) \/ U!LeavePanel(t)
             \/ \E w \in U!Works : U!Begin(t, w) \/ U!Finish(t, w)
      PROVE  ShellNamed'
  BY <1>3 DEF ShellNamed, U!ClosePage, U!Register, U!ReloadNow, U!KeepWorking, U!ReloadTimer,
              U!LeavePanel, U!Begin, U!Finish, U!With
<1> QED BY <1>1, <1>2, <1>3 DEF U!Next

(* However many pages are open and whatever they work at: a page that was   *)
(* controlled from its load runs no older build than its worker, unless its *)
(* operator chose to stay (evaluatePwaUpdate and the reload of a claim).    *)
THEOREM ShellIsMatched ==
  ASSUME ShellFits
  PROVE  U!Spec => [](U!ShellTypes /\ U!ShellMatches)
<1>1. U!Init => ShellInv
  <2> SUFFICES ASSUME U!Init PROVE ShellInv
    OBVIOUS
  <2>1. build = 1 /\ worker = 0 /\ waiting = 0 /\ promoters = {}
        /\ page = [t \in {} |-> 0] /\ DOMAIN page = {}
    BY DEF U!Init
  <2> QED BY <2>1 DEF ShellInv, ShellFits, U!ShellMatches
<1>2. ShellInv /\ [U!Next]_(U!shellVars) => ShellInv'
  <2>1. ASSUME ShellInv, UNCHANGED U!shellVars PROVE ShellInv'
    BY <2>1 DEF ShellInv, U!shellVars, U!ShellMatches
  <2> QED BY <2>1, ShellStep
<1>3. U!Init => ShellNamed
  BY DEF U!Init, ShellNamed
<1>4. ShellNamed /\ [U!Next]_(U!shellVars) => ShellNamed'
  BY PagesNamed
<1>5. ShellInv /\ ShellNamed => U!ShellTypes /\ U!ShellMatches
  BY DEF ShellInv, ShellNamed, U!ShellTypes
<1> QED BY <1>1, <1>2, <1>3, <1>4, <1>5, PTL DEF U!Spec

-----------------------------------------------------------------------------
(* The names beside the caps.  An asset of the form is described, on its    *)
(* way, or asked for by the timer: a change of the rows sets the timer for  *)
(* all that is missing, and an answer leaves a description.                 *)
FileRow(shaped, asset, cap, symbol) ==
  [shaped |-> shaped, asset |-> asset, cap |-> cap, symbol |-> symbol]
CapRow(asset, cap) == [asset |-> asset, cap |-> cap, symbol |-> "s"]
CapFiles ==
  {<<>>,
   <<FileRow(TRUE, x, 1, "s"), FileRow(TRUE, y, 2, "s")>>,
   <<FileRow(TRUE, x, 0, "s"), FileRow(TRUE, x, 2, "s"), FileRow(TRUE, x, 1, "s")>>,
   <<FileRow(TRUE, y, TooMuch, "s"), FileRow(FALSE, Nil, 0, "")>>,
   <<FileRow(TRUE, y, 2, "")>>}

C == INSTANCE AssetCaps WITH caps <- capRows, Contracts <- {x, y}, Files <- CapFiles,
       Tables <- {<<CapRow(x, 1)>>, <<CapRow(y, 1), CapRow(x, 2), CapRow(y, 2)>>},
       MaxReads <- MaxFetches

CapAssets == {x, y}
CapLists == [asset : CapAssets \cup {Nil}, cap : C!Amounts, symbol : {"s", ""}]
Labels == [source : {"live", "fallback"}, at : Nat]
LabelReads ==
  [asset : CapAssets, at : Nat, cached : {"live", "fallback", Nil}, forced : BOOLEAN, no : Nat,
   here : BOOLEAN]
LabelFits == Nil \notin Labels /\ \A wanted \in SUBSET CapAssets : wanted # Nil

LabelsTyped ==
  /\ timer = Nil \/ timer \subseteq CapAssets
  /\ labels \in [CapAssets -> Labels \cup {Nil}] /\ cache \in [CapAssets -> Labels \cup {Nil}]
  /\ pending \subseteq LabelReads /\ now \in Nat /\ begun \in Nat
LabelInv == capRows \in Seq(CapLists) /\ LabelsTyped /\ C!NothingForgotten

LEMMA AssetsOf ==
  ASSUME NEW rows \in Seq(CapLists)
  PROVE  C!Assets(rows) \subseteq CapAssets
<1>1. \A i \in DOMAIN rows : rows[i].asset \in CapAssets \cup {Nil}
  <2>1. \A i \in DOMAIN rows : rows[i] \in CapLists
    BY SMT
  <2> QED BY <2>1 DEF CapLists
<1> QED BY <1>1 DEF C!Assets

LEMMA SetCapsFits ==
  ASSUME LabelFits, LabelInv, NEW rows \in Seq(CapLists), C!SetCaps(rows), UNCHANGED C!labelOnly
  PROVE  LabelInv'
<1>1. capRows' = rows /\ UNCHANGED <<inFlight, labels, cache, pending, now, begun>>
  BY DEF C!SetCaps, C!labelOnly
<1> DEFINE wanted == C!Assets(rows)
           missing == {a \in wanted : labels[a] = Nil /\ a \notin inFlight}
<1>2. IF wanted = C!Assets(capRows) THEN UNCHANGED timer
      ELSE timer' = IF missing = {} THEN Nil ELSE missing
  BY DEF C!SetCaps, C!Awaits
<1>3. wanted \subseteq CapAssets /\ missing \subseteq wanted
  BY AssetsOf
<1>4. \A a \in wanted : labels[a] = Nil /\ a \notin inFlight => a \in missing
  OBVIOUS
<1>5. C!Assets(capRows)' = wanted
  BY <1>1 DEF C!Assets
<1> HIDE DEF missing, wanted
<1>6. LabelsTyped'
  BY <1>1, <1>2, <1>3 DEF LabelInv, LabelsTyped
<1>7. ASSUME NEW a \in wanted
      PROVE  labels[a] # Nil \/ a \in inFlight \/ (timer' # Nil /\ a \in timer')
  <2>1. CASE wanted = C!Assets(capRows)
    BY <1>2, <1>7, <2>1 DEF LabelInv, C!NothingForgotten
  <2>2. CASE wanted # C!Assets(capRows)
    BY <1>2, <1>3, <1>4, <1>7, <2>2 DEF LabelFits
  <2> QED BY <2>1, <2>2
<1>8. C!NothingForgotten'
  BY <1>1, <1>5, <1>7 DEF C!NothingForgotten
<1> QED BY <1>1, <1>6, <1>8 DEF LabelInv

LEMMA FetchFits ==
  ASSUME LabelInv, NEW set \in SUBSET CapAssets, NEW forced \in BOOLEAN, C!Fetch(set, forced)
  PROVE  pending' \subseteq LabelReads /\ begun' \in Nat
<1>1. pending \subseteq LabelReads /\ now \in Nat /\ begun \in Nat
      /\ cache \in [CapAssets -> Labels \cup {Nil}]
  BY DEF LabelInv, LabelsTyped
<1> DEFINE young(a) == ~forced /\ C!Fresh(cache[a])
           asked(a) == [asset |-> a, at |-> IF young(a) THEN cache[a].at ELSE now,
                        cached |-> IF young(a) THEN cache[a].source ELSE Nil,
                        forced |-> forced, no |-> begun, here |-> TRUE]
<1>2. pending' = pending \cup {asked(a) : a \in set} /\ begun' = begun + 1
  BY DEF C!Fetch
<1>3. ASSUME NEW a \in set PROVE asked(a) \in LabelReads
  <2>1. young(a) => cache[a] \in Labels
    BY <1>1, <1>3 DEF C!Fresh
  <2>2. PICK at \in Nat : at = IF young(a) THEN cache[a].at ELSE now
    BY <1>1, <2>1 DEF Labels
  <2>3. PICK told \in {"live", "fallback", Nil} : told = IF young(a) THEN cache[a].source ELSE Nil
    BY <2>1 DEF Labels
  <2>4. PICK yes \in BOOLEAN : yes = TRUE
    BY Zenon
  <2>5. asked(a) = [asset |-> a, at |-> at, cached |-> told, forced |-> forced, no |-> begun,
                    here |-> yes]
    BY <2>2, <2>3, <2>4
  <2> HIDE DEF asked, young
  <2>6. a \in CapAssets
    BY <1>3
  <2> QED BY <1>1, <2>5, <2>6 DEF LabelReads
<1> HIDE DEF asked
<1> QED BY <1>1, <1>2, <1>3

\* A cell that is typed, a row removed or a whole draft leave rows like the others.
LEMMA EditsFit ==
  ASSUME capRows \in Seq(CapLists), C!Whole \/ C!Readdress \/ C!Retype
  PROVE  \E rows \in Seq(CapLists) :
           C!SetCaps(rows) /\ UNCHANGED <<picked, preview>> /\ UNCHANGED C!labelOnly
<1>1. CASE C!Whole
  <2>1. PICK rows : /\ rows \in {<<CapRow(x, 1)>>, <<CapRow(y, 1), CapRow(x, 2), CapRow(y, 2)>>}
                    /\ C!ImportDraft(rows)
    BY <1>1 DEF C!Whole
  <2>2. rows \in Seq(CapLists)
    <3>1. ASSUME NEW a \in CapAssets, NEW c \in {1, 2} PROVE CapRow(a, c) \in CapLists
      BY DEF CapRow, CapLists, C!Amounts
    <3>2. PICK r1 \in CapLists, r2 \in CapLists, r3 \in CapLists, r4 \in CapLists :
            r1 = CapRow(x, 1) /\ r2 = CapRow(y, 1) /\ r3 = CapRow(x, 2) /\ r4 = CapRow(y, 2)
      BY <3>1 DEF CapAssets
    <3>3. <<r1>> \in Seq(CapLists) /\ <<r2, r3, r4>> \in Seq(CapLists)
      OBVIOUS
    <3> QED BY <2>1, <3>2, <3>3
  <2>3. C!SetCaps(rows) /\ UNCHANGED <<picked, preview>> /\ UNCHANGED C!labelOnly
    BY <2>1 DEF C!ImportDraft
  <2> QED BY <2>2, <2>3
<1> DEFINE fits(rows) == /\ rows \in Seq(CapLists)
                         /\ C!SetCaps(rows) /\ UNCHANGED <<picked, preview>> /\ UNCHANGED C!labelOnly
\* A row with another cell.
<1>2. ASSUME NEW i \in DOMAIN capRows, NEW row \in CapLists, C!EditRow(i, row)
      PROVE  fits([capRows EXCEPT ![i] = row])
  <2>1. [capRows EXCEPT ![i] = row] \in Seq(CapLists)
    OBVIOUS
  <2> QED BY <1>2, <2>1 DEF C!EditRow
<1>3. \A i \in DOMAIN capRows : capRows[i] \in CapLists
  OBVIOUS
<1>4. ASSUME NEW old \in CapLists
      PROVE  /\ \A a \in CapAssets \cup {Nil} : [old EXCEPT !.asset = a] \in CapLists
             /\ \A c \in C!Amounts : [old EXCEPT !.cap = c] \in CapLists
             /\ \A s \in {"s", ""} : [old EXCEPT !.symbol = s] \in CapLists
  BY DEF CapLists
<1>5. CASE C!Readdress
  <2>1. PICK i \in DOMAIN capRows :
          \/ \E a \in CapAssets \cup {Nil} : C!EditRow(i, [capRows[i] EXCEPT !.asset = a])
          \/ C!RemoveRow(i)
    BY <1>5 DEF C!Readdress, CapAssets
  <2>2. ASSUME NEW a \in CapAssets \cup {Nil}, C!EditRow(i, [capRows[i] EXCEPT !.asset = a])
        PROVE  \E rows : fits(rows)
    <3>a. PICK old \in CapLists : old = capRows[i]
      BY <1>3
    <3>b. PICK row : row = [old EXCEPT !.asset = a]
      OBVIOUS
    <3>c. row \in CapLists
      BY <1>4, <3>b
    <3>1. row = [capRows[i] EXCEPT !.asset = a]
      BY <3>a, <3>b
    <3>2. C!EditRow(i, row)
      BY <2>2, <3>1
    <3> HIDE DEF fits
    <3> QED BY <1>2, <3>c, <3>2
  <2>3. ASSUME C!RemoveRow(i) PROVE \E rows : fits(rows)
    <3> DEFINE left == SubSeq(capRows, 1, i - 1) \o SubSeq(capRows, i + 1, Len(capRows))
    <3>1. C!SetCaps(left) /\ UNCHANGED <<picked, preview>> /\ UNCHANGED C!labelOnly
      BY <2>3 DEF C!RemoveRow
    <3>2. i \in 1..Len(capRows)
      OBVIOUS
    <3>3. SubSeq(capRows, 1, i - 1) \in Seq(CapLists)
          /\ SubSeq(capRows, i + 1, Len(capRows)) \in Seq(CapLists)
      BY <3>2
    <3>4. left \in Seq(CapLists)
      BY <3>3
    <3> HIDE DEF left
    <3> QED BY <3>1, <3>4
  <2>4. PICK rows : fits(rows)
    <3> HIDE DEF fits
    <3> QED BY <2>1, <2>2, <2>3
  <2> QED BY <2>4
<1>6. CASE C!Retype
  <2>1. PICK i \in DOMAIN capRows :
          \/ \E c \in C!Amounts : C!EditRow(i, [capRows[i] EXCEPT !.cap = c])
          \/ C!EditRow(i, [capRows[i] EXCEPT !.symbol = ""])
    BY <1>6 DEF C!Retype
  <2>2. ASSUME NEW c \in C!Amounts, C!EditRow(i, [capRows[i] EXCEPT !.cap = c])
        PROVE  \E rows : fits(rows)
    <3>a. PICK old \in CapLists : old = capRows[i]
      BY <1>3
    <3>b. PICK row : row = [old EXCEPT !.cap = c]
      OBVIOUS
    <3>c. row \in CapLists
      BY <1>4, <3>b
    <3>1. row = [capRows[i] EXCEPT !.cap = c]
      BY <3>a, <3>b
    <3>2. C!EditRow(i, row)
      BY <2>2, <3>1
    <3> HIDE DEF fits
    <3> QED BY <1>2, <3>c, <3>2
  <2>3. ASSUME C!EditRow(i, [capRows[i] EXCEPT !.symbol = ""])
        PROVE  \E rows : fits(rows)
    <3>1. PICK none \in {"s", ""} : none = ""
      OBVIOUS
    <3>a. PICK old \in CapLists : old = capRows[i]
      BY <1>3
    <3>b. PICK row : row = [old EXCEPT !.symbol = none]
      OBVIOUS
    <3>c. row \in CapLists
      BY <1>4, <3>b
    <3>2. row = [capRows[i] EXCEPT !.symbol = none]
      BY <3>a, <3>b
    <3>3. C!EditRow(i, row)
      BY <2>3, <3>1, <3>2
    <3> HIDE DEF fits
    <3> QED BY <1>2, <3>c, <3>3
  <2>4. PICK rows : fits(rows)
    <3> HIDE DEF fits
    <3> QED BY <2>1, <2>2, <2>3
  <2> QED BY <2>4
<1> QED BY <1>1, <1>5, <1>6

LEMMA LabelStep == ASSUME LabelFits, LabelInv, C!LabelNext PROVE LabelInv'
<1>0. capRows \in Seq(CapLists) /\ LabelsTyped /\ C!NothingForgotten
  BY DEF LabelInv
<1>1. CASE C!Whole \/ C!Readdress
  <2>1. PICK rows \in Seq(CapLists) : C!SetCaps(rows) /\ UNCHANGED C!labelOnly
    BY <1>0, <1>1, EditsFit
  <2> QED BY <2>1, SetCapsFits
<1>2. CASE C!TimerFires
  <2>1. /\ timer # Nil /\ timer' = Nil /\ inFlight' = inFlight \cup timer
        /\ C!Fetch(timer, FALSE) /\ UNCHANGED <<capRows, labels, cache, now>>
    BY <1>2 DEF C!TimerFires
  <2>2. pending' \subseteq LabelReads /\ begun' \in Nat
    <3>1. timer \in SUBSET CapAssets
      BY <1>0, <2>1 DEF LabelsTyped
    <3>2. PICK no \in BOOLEAN : no = FALSE
      BY Zenon
    <3>3. C!Fetch(timer, no)
      BY <2>1, <3>2
    <3> QED BY <3>1, <3>3, FetchFits
  <2>3. LabelsTyped'
    BY <1>0, <2>1, <2>2 DEF LabelsTyped
  <2>4. C!NothingForgotten'
    BY <1>0, <2>1 DEF C!NothingForgotten, C!Assets
  <2> QED BY <1>0, <2>1, <2>3, <2>4 DEF LabelInv
<1>3. CASE C!Remount
  <2>1. /\ capRows' = <<>> /\ timer' = Nil /\ labels' = [a \in CapAssets |-> Nil]
        /\ pending' = {[r EXCEPT !.here = FALSE] : r \in pending} /\ UNCHANGED <<cache, now, begun>>
    BY <1>3 DEF C!Remount, CapAssets
  <2>2. ASSUME NEW r \in LabelReads PROVE [r EXCEPT !.here = FALSE] \in LabelReads
    <3>1. PICK no \in BOOLEAN : no = FALSE
      BY Zenon
    <3>2. PICK s : s = [r EXCEPT !.here = no]
      OBVIOUS
    <3>3. s \in LabelReads
      BY <3>2 DEF LabelReads
    <3> QED BY <3>1, <3>2, <3>3
  <2>3. pending' \subseteq LabelReads
    BY <1>0, <2>1, <2>2 DEF LabelsTyped
  <2>4. LabelsTyped'
    BY <1>0, <2>1, <2>3 DEF LabelsTyped
  <2>5. <<>> \in Seq(CapLists) /\ C!NothingForgotten'
    BY <2>1 DEF C!NothingForgotten, C!Assets
  <2> QED BY <2>1, <2>4, <2>5 DEF LabelInv
<1>4. CASE C!Passes
  <2>1. now' = now + 1 /\ UNCHANGED <<capRows, timer, inFlight, labels, cache, pending, begun>>
    BY <1>4 DEF C!Passes
  <2>2. LabelsTyped' /\ C!NothingForgotten'
    BY <1>0, <2>1 DEF LabelsTyped, C!NothingForgotten, C!Assets
  <2> QED BY <1>0, <2>1, <2>2 DEF LabelInv
<1>5. ASSUME NEW a \in CapAssets, C!Refresh(a) PROVE LabelInv'
  <2>1. C!Fetch({a}, TRUE) /\ UNCHANGED <<capRows, timer, inFlight, labels, cache, now>>
    BY <1>5 DEF C!Refresh
  <2>2. pending' \subseteq LabelReads /\ begun' \in Nat
    <3>1. PICK yes \in BOOLEAN : yes = TRUE
      BY Zenon
    <3>2. C!Fetch({a}, yes) /\ {a} \in SUBSET CapAssets
      BY <2>1, <3>1
    <3> QED BY <3>2, FetchFits
  <2>3. LabelsTyped' /\ C!NothingForgotten'
    BY <1>0, <2>1, <2>2 DEF LabelsTyped, C!NothingForgotten, C!Assets
  <2> QED BY <1>0, <2>1, <2>3 DEF LabelInv
<1>6. ASSUME NEW r \in pending, NEW source \in {"live", "fallback"}, C!Answer(r, source)
      PROVE  LabelInv'
  <2>1. r.asset \in CapAssets /\ r.at \in Nat
    BY <1>0 DEF LabelsTyped, LabelReads
  <2>2. PICK record : record = [source |-> source, at |-> r.at]
    OBVIOUS
  <2>3. record \in Labels
    BY <2>1, <2>2 DEF Labels
  <2>4. /\ pending' = pending \ {r}
        /\ cache' \in {cache, [cache EXCEPT ![r.asset] = record]}
        /\ labels' = IF r.here THEN [labels EXCEPT ![r.asset] = record] ELSE labels
        /\ inFlight' = IF r.here /\ ~r.forced THEN inFlight \ {r.asset} ELSE inFlight
        /\ UNCHANGED <<capRows, timer, now, begun>>
    BY <1>6, <2>2 DEF C!Answer
  <2>5. LabelsTyped'
    BY <1>0, <2>1, <2>3, <2>4 DEF LabelsTyped
  <2>6. ASSUME NEW a \in C!Assets(capRows)
        PROVE  labels'[a] # Nil \/ a \in inFlight' \/ (timer' # Nil /\ a \in timer')
    <3>1. a \in CapAssets
      BY <1>0, AssetsOf
    <3>2. CASE r.here /\ a = r.asset
      <4>1. labels'[a] = record
        BY <1>0, <2>1, <2>4, <3>2 DEF LabelsTyped
      <4> QED BY <2>3, <4>1 DEF LabelFits
    <3>3. CASE ~(r.here /\ a = r.asset)
      <4>1. labels'[a] = labels[a] /\ (a \in inFlight => a \in inFlight')
        BY <1>0, <2>1, <2>4, <3>1, <3>3 DEF LabelsTyped
      <4> QED BY <1>0, <2>4, <4>1 DEF C!NothingForgotten
    <3> QED BY <3>2, <3>3
  <2>7. C!NothingForgotten'
    BY <2>4, <2>6 DEF C!NothingForgotten, C!Assets
  <2> QED BY <1>0, <2>4, <2>5, <2>7 DEF LabelInv
<1> QED BY <1>1, <1>2, <1>3, <1>4, <1>5, <1>6 DEF C!LabelNext, CapAssets

(* Whatever rows come and go while descriptions are asked for, answered and *)
(* remembered: no asset of the form is forgotten (PolicyForm's effect on    *)
(* the addresses, fetchTokenMetadata).                                      *)
THEOREM AssetsAreDescribed ==
  ASSUME LabelFits PROVE C!Init /\ [][C!LabelNext]_(C!capVars) => []C!NothingForgotten
<1>1. C!Init => LabelInv
  <2> SUFFICES ASSUME C!Init PROVE LabelInv
    OBVIOUS
  <2>1. capRows = <<>> /\ <<>> \in Seq(CapLists) /\ C!NothingForgotten
    BY DEF C!Init, C!NothingForgotten, C!Assets
  <2>2. /\ labels = [a \in CapAssets |-> Nil] /\ cache = labels /\ timer = Nil /\ pending = {}
        /\ now = 0 /\ begun = 0
    BY DEF C!Init, CapAssets
  <2>3. LabelsTyped
    BY <2>2 DEF LabelsTyped
  <2> QED BY <2>1, <2>3 DEF LabelInv
<1>2. LabelInv /\ [C!LabelNext]_(C!capVars) => LabelInv'
  <2>1. ASSUME LabelInv, UNCHANGED C!capVars PROVE LabelInv'
    BY <2>1 DEF LabelInv, LabelsTyped, C!capVars, C!NothingForgotten, C!Assets
  <2> QED BY <2>1, LabelStep
<1>3. LabelInv => C!NothingForgotten
  BY DEF LabelInv
<1> QED BY <1>1, <1>2, <1>3, PTL

-----------------------------------------------------------------------------
(* The file of caps.  A row is taken when it is the first sound one of its  *)
(* address, and the rows of the draft are changed by those alone: true of   *)
(* nothing read, and kept by each row.                                      *)
CapFile == [shaped : BOOLEAN, asset : CapAssets \cup {Nil}, cap : C!Amounts, symbol : {"s", ""}]
TakenRows ==
  [no : Nat, row : CapLists, change : {"added", "updated", "unchanged"}, before : CapLists \cup {Nil}]
Marks == UNION {[Q -> {"added", "updated"}] : Q \in SUBSET CapAssets}
Previews ==
  [accepted : Seq(TakenRows), rejected : Seq(Nat), duplicates : Seq([row : Nat, first : Nat]),
   merged : Seq(CapLists), changes : Marks]
RowOf(row) == C!Row(row.asset, row.cap, row.symbol)

LEMMA EarliestIs ==
  ASSUME NEW Q, Q \subseteq Nat \ {0}
  PROVE  /\ Q = {} => C!Earliest(Q) = 0
         /\ Q # {} => C!Earliest(Q) \in Q /\ \A j \in Q : C!Earliest(Q) <= j
<1>1. Q = {} => C!Earliest(Q) = 0
  BY DEF C!Earliest
<1>2. ASSUME Q # {} PROVE C!Earliest(Q) \in Q /\ \A j \in Q : C!Earliest(Q) <= j
  <2>1. \E i \in Q : \A j \in Q : i <= j
    BY <1>2, LeastNumber
  <2>2. C!Earliest(Q) = CHOOSE i \in Q : \A j \in Q : i <= j
    BY <1>2 DEF C!Earliest
  <2> QED BY <2>1, <2>2, Zenon
<1> QED BY <1>1, <1>2

LEMMA PositionIs ==
  ASSUME NEW rows \in Seq(CapLists), NEW asset
  PROVE  LET at == C!Position(rows, asset)
         IN  \/ at = 0 /\ \A i \in 1..Len(rows) : rows[i].asset # asset
             \/ /\ at \in 1..Len(rows) /\ rows[at].asset = asset
                /\ \A i \in 1..at - 1 : rows[i].asset # asset
<1> DEFINE Q == {i \in DOMAIN rows : rows[i].asset = asset}
<1>1. PICK at : at = C!Position(rows, asset)
  OBVIOUS
<1>2. at = C!Earliest(Q)
  BY <1>1 DEF C!Position
<1>3. DOMAIN rows = 1..Len(rows) /\ Len(rows) \in Nat
  OBVIOUS
<1>4. Q \subseteq Nat \ {0}
  BY <1>3
<1>5. CASE Q = {}
  <2>1. at = 0
    <3> HIDE DEF Q
    <3> QED BY <1>2, <1>4, <1>5, EarliestIs
  <2> QED BY <1>1, <1>3, <1>5, <2>1
<1>6. CASE Q # {}
  <2>1. at \in Q /\ \A j \in Q : at <= j
    <3> HIDE DEF Q
    <3> QED BY <1>2, <1>4, <1>6, EarliestIs
  <2>2. \A i \in 1..at - 1 : rows[i].asset # asset
    BY <1>3, <2>1
  <2> QED BY <1>1, <1>3, <2>1, <2>2
<1> QED BY <1>5, <1>6

LEMMA RowOfIs == ASSUME NEW row \in CapFile PROVE RowOf(row) \in CapLists /\ RowOf(row).asset = row.asset
BY DEF RowOf, C!Row, CapFile, CapLists

\* A row that is not sound, or whose address is taken, is refused.
LEMMA RefusedIs ==
  ASSUME NEW p \in Previews, NEW row \in CapFile, NEW n \in Nat,
         ~C!Sound(row) \/ \E k \in 1..Len(p.accepted) : p.accepted[k].row.asset = row.asset
  PROVE  LET q == C!Read(p, row, n)
         IN  /\ q \in Previews /\ q.accepted = p.accepted /\ q.rejected = Append(p.rejected, n)
             /\ q.merged = p.merged /\ q.changes = p.changes
<1>0. PICK acc \in Seq(TakenRows), rej \in Seq(Nat), dup \in Seq([row : Nat, first : Nat]),
           rows \in Seq(CapLists), marks \in Marks :
             p = [accepted |-> acc, rejected |-> rej, duplicates |-> dup, merged |-> rows, changes |-> marks]
  BY DEF Previews
<1>1. PICK q : q = C!Read(p, row, n)
  OBVIOUS
<1>a. PICK rej1 : rej1 = Append(rej, n)
  OBVIOUS
<1>2. rej1 \in Seq(Nat) /\ rej1 = Append(rej, n)
  BY <1>a
<1>3. PICK p1 : p1 = [p EXCEPT !.rejected = Append(@, n)]
  OBVIOUS
<1>4. p1 = [accepted |-> acc, rejected |-> rej1, duplicates |-> dup, merged |-> rows, changes |-> marks]
  BY <1>0, <1>2, <1>3
<1>5. CASE ~C!Sound(row)
  <2>1. q = p1
    BY <1>1, <1>3, <1>5 DEF C!Read
  <2>2. q \in Previews
    BY <1>2, <1>4, <2>1 DEF Previews
  <2>3. q.accepted = acc /\ q.rejected = rej1 /\ q.merged = rows /\ q.changes = marks
    BY <1>4, <2>1
  <2>4. p.accepted = acc /\ p.rejected = rej /\ p.merged = rows /\ p.changes = marks
    BY <1>0
  <2> QED BY <1>1, <1>2, <2>2, <2>3, <2>4
<1>6. CASE C!Sound(row) /\ \E k \in 1..Len(acc) : acc[k].row.asset = row.asset
  <2> DEFINE Q == {k \in DOMAIN acc : acc[k].row.asset = row.asset}
  <2>0. DOMAIN acc = 1..Len(acc) /\ Len(acc) \in Nat
    OBVIOUS
  <2>1. Q \subseteq Nat \ {0} /\ Q # {}
    <3>1. Q \subseteq Nat \ {0}
      BY <2>0
    <3>2. PICK k \in 1..Len(acc) : acc[k].row.asset = row.asset
      BY <1>6
    <3>3. k \in Q
      BY <2>0, <3>2
    <3> QED BY <3>1, <3>3
  <2>2. PICK first : first = C!Earliest(Q)
    OBVIOUS
  <2>3. first \in Q
    <3> HIDE DEF Q
    <3> QED BY <2>1, <2>2, EarliestIs
  <2>4. PICK e \in TakenRows : e = acc[first]
    BY <2>0, <2>3
  <2>5. PICK d : d = [row |-> n, first |-> e.no]
    OBVIOUS
  <2>6. PICK dup1 : dup1 = Append(dup, d)
    OBVIOUS
  <2>7. dup1 \in Seq([row : Nat, first : Nat])
    <3>1. d \in [row : Nat, first : Nat]
      BY <2>4, <2>5 DEF TakenRows
    <3> QED BY <2>6, <3>1
  <2>8. first > 0
    BY <2>0, <2>3
  <2>9. q = [p EXCEPT !.rejected = Append(@, n), !.duplicates = Append(@, d)]
    <3>1. p.accepted = acc
      BY <1>0
    <3>2. C!Earliest({k \in DOMAIN p.accepted : p.accepted[k].row.asset = row.asset}) = first
      BY <2>2, <3>1
    <3> QED BY <1>1, <1>6, <2>4, <2>5, <2>8, <3>1, <3>2 DEF C!Read
  <2>10. q = [p1 EXCEPT !.duplicates = Append(@, d)]
    BY <1>0, <1>3, <2>9
  <2>11. q = [accepted |-> acc, rejected |-> rej1, duplicates |-> dup1, merged |-> rows, changes |-> marks]
    BY <1>4, <2>6, <2>10
  <2>12. q \in Previews
    BY <1>2, <2>7, <2>11 DEF Previews
  <2>13. q.accepted = acc /\ q.rejected = rej1 /\ q.merged = rows /\ q.changes = marks
    BY <2>11
  <2>14. p.accepted = acc /\ p.rejected = rej /\ p.merged = rows /\ p.changes = marks
    BY <1>0
  <2> QED BY <1>1, <1>2, <2>12, <2>13, <2>14
<1> QED BY <1>0, <1>5, <1>6

\* The marks after one more.
LEMMA MarkedIs ==
  ASSUME NEW marks \in Marks, NEW asset \in CapAssets, NEW kind \in {"added", "updated"}
  PROVE  C!Changed(marks, asset, kind) \in Marks /\ DOMAIN C!Changed(marks, asset, kind) = DOMAIN marks \cup {asset}
<1>1. PICK Q \in SUBSET CapAssets : marks \in [Q -> {"added", "updated"}]
  BY DEF Marks
<1>2. PICK R1 \in SUBSET CapAssets : R1 = Q \cup {asset}
  OBVIOUS
<1>3. PICK more : more = C!Changed(marks, asset, kind)
  OBVIOUS
<1>4. more = [a \in R1 |-> IF a = asset THEN kind ELSE marks[a]]
  BY <1>1, <1>2, <1>3 DEF C!Changed
<1>5. more \in [R1 -> {"added", "updated"}]
  BY <1>1, <1>2, <1>4
<1> QED BY <1>1, <1>2, <1>3, <1>5 DEF Marks

\* A sound row of an address nobody took is taken.
TakesOne(acc, acc1, row, n) ==
  \E e \in TakenRows : e.no = n /\ e.row = RowOf(row) /\ acc1 = Append(acc, e)
LEMMA AcceptedIs ==
  ASSUME NEW p \in Previews, NEW row \in CapFile, NEW n \in Nat, C!Sound(row),
         \A k \in 1..Len(p.accepted) : p.accepted[k].row.asset # row.asset
  PROVE  LET q == C!Read(p, row, n)
             at == C!Position(p.merged, row.asset)
         IN  /\ q \in Previews /\ q.rejected = p.rejected
             /\ TakesOne(p.accepted, q.accepted, row, n)
             /\ at = 0 => /\ q.merged = Append(p.merged, RowOf(row))
                          /\ q.changes = C!Changed(p.changes, row.asset, "added")
             /\ at # 0 => /\ q.merged = [p.merged EXCEPT ![at] = RowOf(row)]
                          /\ q.changes = IF p.merged[at] = RowOf(row) THEN p.changes
                                         ELSE C!Changed(p.changes, row.asset, "updated")
<1>0. PICK acc \in Seq(TakenRows), rej \in Seq(Nat), dup \in Seq([row : Nat, first : Nat]),
           rows \in Seq(CapLists), marks \in Marks :
             p = [accepted |-> acc, rejected |-> rej, duplicates |-> dup, merged |-> rows, changes |-> marks]
  BY DEF Previews
<1>1. PICK q : q = C!Read(p, row, n)
  OBVIOUS
<1>2. PICK k1 \in CapLists : k1 = RowOf(row) /\ k1.asset = row.asset
  BY RowOfIs
<1>3. C!Earliest({k \in DOMAIN p.accepted : p.accepted[k].row.asset = row.asset}) = 0
  <2>1. PICK Q : Q = {k \in DOMAIN p.accepted : p.accepted[k].row.asset = row.asset}
    OBVIOUS
  <2>2. DOMAIN p.accepted = 1..Len(p.accepted)
    BY <1>0
  <2>3. Q = {}
    BY <2>1, <2>2
  <2> QED BY <2>1, <2>3, EarliestIs
<1>4. PICK at : at = C!Position(p.merged, row.asset)
  OBVIOUS
<1>5. at = 0 \/ at \in 1..Len(rows)
  BY <1>0, <1>4, PositionIs
<1>6. row.asset \in CapAssets
  BY DEF C!Sound, CapFile
<1>7. PICK change : change = IF at = 0 THEN "added" ELSE IF rows[at] = k1 THEN "unchanged" ELSE "updated"
  OBVIOUS
<1>8. PICK before \in CapLists \cup {Nil} : before = IF at = 0 THEN Nil ELSE rows[at]
  BY <1>5
<1>9. PICK e : e = [no |-> n, row |-> k1, change |-> change, before |-> before]
  OBVIOUS
<1>10. e \in TakenRows /\ e.no = n /\ e.row = k1
  BY <1>7, <1>9 DEF TakenRows
<1>11. PICK rows1 : rows1 = IF at = 0 THEN Append(rows, k1) ELSE [rows EXCEPT ![at] = k1]
  OBVIOUS
<1>12. rows1 \in Seq(CapLists)
  BY <1>5, <1>11
<1>13. PICK marks1 : marks1 = IF change = "unchanged" THEN marks ELSE C!Changed(marks, row.asset, change)
  OBVIOUS
<1>14. marks1 \in Marks
  <2>1. change \in {"added", "updated"} \/ change = "unchanged"
    BY <1>7
  <2> QED BY <1>6, <1>13, <2>1, MarkedIs
<1>a. PICK acc1 : acc1 = Append(acc, e)
  OBVIOUS
<1>15. acc1 \in Seq(TakenRows) /\ acc1 = Append(acc, e)
  BY <1>10, <1>a
<1>16. q = [p EXCEPT !.accepted = Append(@, e), !.merged = rows1, !.changes = marks1]
  <2>1. q = [p EXCEPT !.accepted = Append(@, [no |-> n, row |-> k1, change |-> change,
                                              before |-> IF at = 0 THEN Nil ELSE p.merged[at]]),
                      !.merged = IF at = 0 THEN Append(@, k1) ELSE [@ EXCEPT ![at] = k1],
                      !.changes = IF change = "unchanged" THEN @ ELSE C!Changed(@, row.asset, change)]
    BY <1>0, <1>1, <1>2, <1>3, <1>4, <1>7 DEF C!Read, RowOf
  <2>2. p.merged = rows /\ p.changes = marks
    BY <1>0
  <2> QED BY <1>8, <1>9, <1>11, <1>13, <2>1, <2>2
<1>17. q = [accepted |-> acc1, rejected |-> rej, duplicates |-> dup, merged |-> rows1, changes |-> marks1]
  <2>1. PICK p1 : p1 = [p EXCEPT !.accepted = acc1]
    OBVIOUS
  <2>2. p1 = [accepted |-> acc1, rejected |-> rej, duplicates |-> dup, merged |-> rows, changes |-> marks]
    BY <1>0, <2>1
  <2>3. PICK p2 : p2 = [p1 EXCEPT !.merged = rows1]
    OBVIOUS
  <2>4. p2 = [accepted |-> acc1, rejected |-> rej, duplicates |-> dup, merged |-> rows1, changes |-> marks]
    BY <2>2, <2>3
  <2>5. q = [p2 EXCEPT !.changes = marks1]
    BY <1>0, <1>15, <1>16, <2>1, <2>3
  <2> QED BY <2>4, <2>5
<1>18. q \in Previews
  BY <1>12, <1>14, <1>15, <1>17 DEF Previews
<1>19. at # 0 => marks1 = IF rows[at] = k1 THEN marks ELSE C!Changed(marks, row.asset, "updated")
  BY <1>7, <1>13
<1>20. at = 0 => marks1 = C!Changed(marks, row.asset, "added")
  BY <1>7, <1>13
<1>21. /\ p.accepted = acc /\ p.rejected = rej /\ p.merged = rows /\ p.changes = marks
       /\ q.accepted = acc1 /\ q.rejected = rej /\ q.merged = rows1 /\ q.changes = marks1
  BY <1>0, <1>17
<1>22. TakesOne(p.accepted, q.accepted, row, n)
  BY <1>2, <1>10, <1>15, <1>21 DEF TakesOne
<1> QED BY <1>1, <1>2, <1>4, <1>11, <1>18, <1>19, <1>20, <1>21, <1>22

\* A row is the first sound one of its address.
First(file, i) == C!Sound(file[i]) /\ \A j \in 1..i - 1 : C!Sound(file[j]) => file[j].asset # file[i].asset
Named(rows, asset) == \E k \in 1..Len(rows) : rows[k].asset = asset
\* The row would change the draft it is read into.
Alters(rows, row) ==
  LET at == C!Position(rows, row.asset) IN at = 0 \/ rows[at] # RowOf(row)

\* What is so of a review after the first n rows of a file: what is taken and refused,
TakesThose(file, n, p) ==
  /\ \A k \in 1..Len(p.accepted) :
       /\ p.accepted[k].no \in 1..n /\ First(file, p.accepted[k].no)
       /\ p.accepted[k].row = RowOf(file[p.accepted[k].no])
  /\ \A i \in 1..n : First(file, i) => \E k \in 1..Len(p.accepted) : p.accepted[k].no = i
RefusesThose(file, n, p) ==
  /\ \A k \in 1..Len(p.rejected) : p.rejected[k] \in 1..n /\ ~First(file, p.rejected[k])
  /\ \A i \in 1..n : ~First(file, i) => \E k \in 1..Len(p.rejected) : p.rejected[k] = i
\* the rows of the draft, changed by what is taken and by nothing else,
KeepsOthers(current, file, n, rows) ==
  /\ Len(current) <= Len(rows)
  /\ \A k \in 1..Len(current) : rows[k].asset = current[k].asset
  /\ \A k \in 1..Len(current) :
       \/ rows[k] = current[k]
       \/ /\ \E i \in 1..n : First(file, i) /\ rows[k] = RowOf(file[i])
          /\ \A j \in 1..k - 1 : current[j].asset # current[k].asset
ChangesThose(current, file, n, rows) ==
  \A k \in 1..Len(current), i \in 1..n :
    /\ First(file, i) /\ file[i].asset = current[k].asset
    /\ \A j \in 1..k - 1 : current[j].asset # current[k].asset
    => rows[k] = RowOf(file[i])
\* the rows behind them, each of an address the draft had not,
AddsThose(current, file, n, rows) ==
  \A k \in Len(current) + 1..Len(rows) :
    /\ ~Named(current, rows[k].asset)
    /\ \E i \in 1..n : First(file, i) /\ rows[k] = RowOf(file[i])
    /\ \A l \in Len(current) + 1..Len(rows) : rows[k].asset = rows[l].asset => k = l
\* and the marks, of the addresses whose row is another.
MarksThose(current, file, n, marks) ==
  DOMAIN marks = {file[i].asset : i \in {j \in 1..n : First(file, j) /\ Alters(current, file[j])}}

ReviewFits(current, file, n, p) ==
  /\ TakesThose(file, n, p) /\ RefusesThose(file, n, p)
  /\ KeepsOthers(current, file, n, p.merged) /\ ChangesThose(current, file, n, p.merged)
  /\ AddsThose(current, file, n, p.merged)
  /\ MarksThose(current, file, n, p.changes)

\* A sound row is the first of its address, or somebody was before it.
LEMMA FirstOf ==
  ASSUME NEW file \in Seq(CapFile), NEW n \in 1..Len(file), C!Sound(file[n])
  PROVE  First(file, n) \/ \E i \in 1..n - 1 : First(file, i) /\ file[i].asset = file[n].asset
<1>0. Len(file) \in Nat
  OBVIOUS
<1> DEFINE Q == {j \in 1..n : C!Sound(file[j]) /\ file[j].asset = file[n].asset}
<1>1. Q \subseteq Nat /\ n \in Q
  BY <1>0
<1>2. PICK m \in Q : \A j \in Q : m <= j
  <2> HIDE DEF Q
  <2> QED BY <1>1, LeastNumber
<1>3. m \in 1..n /\ C!Sound(file[m]) /\ file[m].asset = file[n].asset
  BY <1>2
<1>4. First(file, m)
  <2> SUFFICES ASSUME NEW j \in 1..m - 1, C!Sound(file[j]) PROVE file[j].asset # file[m].asset
    BY <1>3 DEF First
  <2>1. j \in 1..n /\ ~(m <= j)
    BY <1>0, <1>3
  <2> QED BY <1>2, <1>3, <2>1
<1> QED BY <1>0, <1>3, <1>4

\* No two rows of one address are both the first.
LEMMA FirstOnce ==
  ASSUME NEW file \in Seq(CapFile), NEW i \in 1..Len(file), NEW j \in 1..Len(file),
         First(file, i), First(file, j), file[i].asset = file[j].asset
  PROVE  i = j
<1>0. Len(file) \in Nat
  OBVIOUS
<1>1. CASE i < j
  <2>1. i \in 1..j - 1
    BY <1>0, <1>1
  <2> QED BY <2>1 DEF First
<1>2. CASE j < i
  <2>1. j \in 1..i - 1
    BY <1>0, <1>2
  <2> QED BY <2>1 DEF First
<1> QED BY <1>0, <1>1, <1>2

\* A row is taken exactly when it is the first of its address.
LEMMA TakenAre ==
  ASSUME NEW file \in Seq(CapFile), NEW n \in 1..Len(file), NEW p \in Previews,
         TakesThose(file, n - 1, p)
  PROVE  First(file, n) <=> /\ C!Sound(file[n])
                            /\ \A k \in 1..Len(p.accepted) : p.accepted[k].row.asset # file[n].asset
<1>0. Len(file) \in Nat /\ \A i \in 1..Len(file) : file[i] \in CapFile
  OBVIOUS
<1>1. \A k \in 1..Len(p.accepted) :
        /\ p.accepted[k].no \in 1..n - 1 /\ First(file, p.accepted[k].no)
        /\ p.accepted[k].row.asset = file[p.accepted[k].no].asset
  <2> SUFFICES ASSUME NEW k \in 1..Len(p.accepted)
               PROVE  /\ p.accepted[k].no \in 1..n - 1 /\ First(file, p.accepted[k].no)
                      /\ p.accepted[k].row.asset = file[p.accepted[k].no].asset
    OBVIOUS
  <2>1. PICK i \in 1..n - 1 : i = p.accepted[k].no /\ First(file, i) /\ p.accepted[k].row = RowOf(file[i])
    BY DEF TakesThose
  <2>2. file[i] \in CapFile
    BY <1>0
  <2> QED BY <2>1, <2>2, RowOfIs
<1>2. ASSUME First(file, n)
      PROVE  C!Sound(file[n]) /\ \A k \in 1..Len(p.accepted) : p.accepted[k].row.asset # file[n].asset
  <2>1. C!Sound(file[n]) /\ \A j \in 1..n - 1 : C!Sound(file[j]) => file[j].asset # file[n].asset
    BY <1>2 DEF First
  <2> QED BY <1>1, <2>1 DEF First
<1>3. ASSUME C!Sound(file[n]), \A k \in 1..Len(p.accepted) : p.accepted[k].row.asset # file[n].asset
      PROVE  First(file, n)
  <2>1. ASSUME NEW i \in 1..n - 1, First(file, i), file[i].asset = file[n].asset PROVE FALSE
    <3>1. PICK k \in 1..Len(p.accepted) : p.accepted[k].no = i
      BY <2>1 DEF TakesThose
    <3> QED BY <1>1, <1>3, <2>1, <3>1
  <2> QED BY <1>3, <2>1, FirstOf
<1> QED BY <1>2, <1>3

\* One more row, refused: it is in the list of those, and nothing else changes.
LEMMA RefusalFits ==
  ASSUME NEW current \in Seq(CapLists), NEW file \in Seq(CapFile), NEW n \in 1..Len(file),
         NEW p \in Previews, ReviewFits(current, file, n - 1, p), ~First(file, n)
  PROVE  C!Read(p, file[n], n) \in Previews /\ ReviewFits(current, file, n, C!Read(p, file[n], n))
<1>0. Len(file) \in Nat /\ file[n] \in CapFile /\ n \in Nat /\ \A i \in 1..n : i = n \/ i \in 1..n - 1
  OBVIOUS
<1>a. \A i \in 1..n - 1 : i \in 1..n
  BY <1>0
<1>1. PICK q : q = C!Read(p, file[n], n)
  OBVIOUS
<1>2. /\ q \in Previews /\ q.accepted = p.accepted /\ q.rejected = Append(p.rejected, n)
      /\ q.merged = p.merged /\ q.changes = p.changes
  <2>1. ~C!Sound(file[n]) \/ \E k \in 1..Len(p.accepted) : p.accepted[k].row.asset = file[n].asset
    BY TakenAre DEF ReviewFits
  <2> QED BY <1>0, <1>1, <2>1, RefusedIs
<1>3. TakesThose(file, n, q)
  <2>1. PICK acc : acc = p.accepted /\ acc = q.accepted
    BY <1>2
  <2>2. /\ \A k \in 1..Len(acc) : /\ acc[k].no \in 1..n - 1 /\ First(file, acc[k].no)
                                  /\ acc[k].row = RowOf(file[acc[k].no])
        /\ \A i \in 1..n - 1 : First(file, i) => \E k \in 1..Len(acc) : acc[k].no = i
    BY <2>1 DEF ReviewFits, TakesThose
  <2>3. \A k \in 1..Len(acc) : acc[k].no \in 1..n
    BY <1>a, <2>2
  <2>4. \A i \in 1..n : First(file, i) => \E k \in 1..Len(acc) : acc[k].no = i
    BY <1>0, <2>2
  <2> QED BY <2>1, <2>2, <2>3, <2>4 DEF TakesThose
<1>4. RefusesThose(file, n, q)
  <2>1. PICK rej \in Seq(Nat) : rej = p.rejected
    BY DEF Previews
  <2>2. PICK len \in Nat : len = Len(rej)
    OBVIOUS
  <2>3. /\ Len(q.rejected) = len + 1 /\ q.rejected[len + 1] = n
        /\ \A k \in 1..len : q.rejected[k] = rej[k]
    BY <1>2, <2>1, <2>2
  <2>4. /\ \A k \in 1..len : rej[k] \in 1..n - 1 /\ ~First(file, rej[k])
        /\ \A i \in 1..n - 1 : ~First(file, i) => \E k \in 1..len : rej[k] = i
    BY <2>1, <2>2 DEF ReviewFits, RefusesThose
  <2>5. ASSUME NEW k \in 1..len + 1 PROVE q.rejected[k] \in 1..n /\ ~First(file, q.rejected[k])
    <3>1. CASE k = len + 1
      BY <2>3, <3>1
    <3>2. CASE k # len + 1
      <4>1. k \in 1..len
        BY <3>2
      <4> QED BY <1>a, <2>3, <2>4, <4>1
    <3> QED BY <3>1, <3>2
  <2>6. ASSUME NEW i \in 1..n, ~First(file, i) PROVE \E k \in 1..len + 1 : q.rejected[k] = i
    <3>1. CASE i = n
      <4>1. len + 1 \in 1..len + 1
        OBVIOUS
      <4> QED BY <2>3, <3>1, <4>1
    <3>2. CASE i \in 1..n - 1
      <4>1. PICK k \in 1..len : rej[k] = i
        BY <2>4, <2>6, <3>2
      <4>2. k \in 1..len + 1
        OBVIOUS
      <4> QED BY <2>3, <4>1, <4>2
    <3> QED BY <1>0, <3>1, <3>2
  <2> QED BY <2>3, <2>5, <2>6 DEF RefusesThose
<1>5. KeepsOthers(current, file, n, q.merged)
  <2>1. KeepsOthers(current, file, n - 1, p.merged)
    BY DEF ReviewFits
  <2> QED BY <1>0, <1>2, <2>1 DEF KeepsOthers
<1>6. AddsThose(current, file, n, q.merged)
  <2>1. AddsThose(current, file, n - 1, p.merged)
    BY DEF ReviewFits
  <2>2. PICK rows : rows = p.merged
    BY Zenon
  <2>3. q.merged = rows
    BY <1>2, <2>2
  <2>4. \A i \in 1..n - 1 : i \in 1..n
    BY <1>0
  <2>5. AddsThose(current, file, n, rows)
    BY <2>1, <2>2, <2>4, SMTT(30) DEF AddsThose
  <2> QED BY <2>3, <2>5
<1>7. MarksThose(current, file, n, q.changes)
  <2>1. MarksThose(current, file, n - 1, p.changes)
    BY DEF ReviewFits
  <2>2. \A i : i \in 1..n /\ First(file, i) <=> i \in 1..n - 1 /\ First(file, i)
    BY <1>0
  <2>3. {j \in 1..n : First(file, j) /\ Alters(current, file[j])}
          = {j \in 1..n - 1 : First(file, j) /\ Alters(current, file[j])}
    BY <2>2
  <2> QED BY <1>2, <2>1, <2>3 DEF MarksThose
<1>8. ChangesThose(current, file, n, q.merged)
  <2>1. ChangesThose(current, file, n - 1, p.merged)
    BY DEF ReviewFits
  <2> QED BY <1>0, <1>2, <2>1 DEF ChangesThose
<1> QED BY <1>1, <1>2, <1>3, <1>4, <1>5, <1>6, <1>7, <1>8 DEF ReviewFits

\* Where the rows have the address of a row that is the first of its own, the draft
\* had it, and it is as it was.
LEMMA PlaceIsOld ==
  ASSUME NEW current \in Seq(CapLists), NEW file \in Seq(CapFile), NEW n \in 1..Len(file),
         NEW rows \in Seq(CapLists), First(file, n),
         KeepsOthers(current, file, n - 1, rows), AddsThose(current, file, n - 1, rows)
  PROVE  LET at == C!Position(rows, file[n].asset)
         IN  /\ at = C!Position(current, file[n].asset)
             /\ at = 0 \/ /\ at \in 1..Len(current) /\ rows[at] = current[at]
                          /\ \A j \in 1..at - 1 : current[j].asset # current[at].asset
<1>0. /\ Len(file) \in Nat /\ Len(current) \in Nat /\ Len(rows) \in Nat
      /\ \A i \in 1..Len(file) : file[i] \in CapFile
  OBVIOUS
<1>1. PICK at : at = C!Position(rows, file[n].asset)
  OBVIOUS
<1>2. PICK was : was = C!Position(current, file[n].asset)
  OBVIOUS
<1>3. \/ at = 0 /\ \A i \in 1..Len(rows) : rows[i].asset # file[n].asset
      \/ /\ at \in 1..Len(rows) /\ rows[at].asset = file[n].asset
         /\ \A i \in 1..at - 1 : rows[i].asset # file[n].asset
  BY <1>1, PositionIs
<1>4. \/ was = 0 /\ \A i \in 1..Len(current) : current[i].asset # file[n].asset
      \/ /\ was \in 1..Len(current) /\ current[was].asset = file[n].asset
         /\ \A i \in 1..was - 1 : current[i].asset # file[n].asset
  BY <1>2, PositionIs
<1>5. ASSUME NEW k \in 1..Len(rows), NEW i \in 1..n - 1, First(file, i), rows[k] = RowOf(file[i])
      PROVE  rows[k].asset # file[n].asset
  <2>1. i \in 1..Len(file) /\ i # n
    BY <1>0
  <2>2. rows[k].asset = file[i].asset
    BY <1>0, <1>5, <2>1, RowOfIs
  <2> QED BY <1>5, <2>1, <2>2, FirstOnce
<1>6. Len(current) <= Len(rows) /\ \A k \in 1..Len(current) : rows[k].asset = current[k].asset
  BY DEF KeepsOthers
<1>7. CASE at = 0
  <2>1. \A k \in 1..Len(current) : k \in 1..Len(rows)
    BY <1>0, <1>6
  <2>2. \A k \in 1..Len(current) : current[k].asset # file[n].asset
    BY <1>0, <1>3, <1>6, <1>7, <2>1
  <2>3. was = 0
    BY <1>4, <2>2
  <2> QED BY <1>1, <1>2, <1>7, <2>3
<1>8. CASE at # 0
  <2>1. /\ at \in 1..Len(rows) /\ rows[at].asset = file[n].asset
        /\ \A i \in 1..at - 1 : rows[i].asset # file[n].asset
    BY <1>3, <1>8
  <2>2. at \in 1..Len(current)
    <3> SUFFICES ASSUME at \in Len(current) + 1..Len(rows) PROVE FALSE
      BY <1>0, <2>1
    <3>1. PICK i \in 1..n - 1 : First(file, i) /\ rows[at] = RowOf(file[i])
      BY DEF AddsThose
    <3> QED BY <1>5, <2>1, <3>1
  <2>3. rows[at] = current[at]
    <3>1. rows[at] = current[at] \/ \E i \in 1..n - 1 : First(file, i) /\ rows[at] = RowOf(file[i])
      BY <2>2 DEF KeepsOthers
    <3> QED BY <1>5, <2>1, <3>1
  <2>4. \A i \in 1..at - 1 : i \in 1..Len(current)
    BY <1>0, <2>2
  <2>5. \A i \in 1..at - 1 : current[i].asset # file[n].asset
    BY <1>6, <2>1, <2>4
  <2>6. current[at].asset = file[n].asset
    BY <2>1, <2>3
  <2>7. was \in 1..Len(current) /\ current[was].asset = file[n].asset
        /\ \A i \in 1..was - 1 : current[i].asset # file[n].asset
    BY <1>4, <2>2, <2>6
  <2>8. ~(was < at) /\ ~(at < was)
    <3>1. was < at => was \in 1..at - 1
      BY <1>0, <2>2, <2>7
    <3>2. at < was => at \in 1..was - 1
      BY <1>0, <2>2, <2>7
    <3> QED BY <2>5, <2>6, <2>7, <3>1, <3>2
  <2>9. at = was
    BY <1>0, <2>2, <2>7, <2>8
  <2> QED BY <1>1, <1>2, <2>2, <2>3, <2>5, <2>6, <2>9
<1> QED BY <1>7, <1>8

\* One more row, taken: it stands in the place of its address, or behind the others.
LEMMA AcceptanceFits ==
  ASSUME NEW current \in Seq(CapLists), NEW file \in Seq(CapFile), NEW n \in 1..Len(file),
         NEW p \in Previews, ReviewFits(current, file, n - 1, p), First(file, n)
  PROVE  C!Read(p, file[n], n) \in Previews /\ ReviewFits(current, file, n, C!Read(p, file[n], n))
<1>0. /\ Len(file) \in Nat /\ n \in Nat /\ Len(current) \in Nat
      /\ \A i \in 1..n : i = n \/ i \in 1..n - 1
  OBVIOUS
<1>a. \A i \in 1..n - 1 : i \in 1..n /\ i \in 1..Len(file) /\ i # n
  BY <1>0
<1>b. n \in 1..n /\ \A i \in 1..Len(file) : file[i] \in CapFile
  BY <1>0
<1>c. TakesThose(file, n - 1, p) /\ RefusesThose(file, n - 1, p)
  BY DEF ReviewFits
<1>1. PICK q : q = C!Read(p, file[n], n)
  OBVIOUS
<1>m. PICK rows \in Seq(CapLists) : rows = p.merged
  BY DEF Previews
<1>n. PICK at : at = C!Position(rows, file[n].asset)
  OBVIOUS
<1>2. rows \in Seq(CapLists) /\ rows = p.merged /\ at = C!Position(rows, file[n].asset)
  BY <1>m, <1>n
<1>3. PICK new \in CapLists : new = RowOf(file[n]) /\ new.asset = file[n].asset
  BY <1>b, RowOfIs
<1>4. KeepsOthers(current, file, n - 1, rows) /\ AddsThose(current, file, n - 1, rows)
  BY <1>2 DEF ReviewFits
<1>5. C!Sound(file[n]) /\ file[n].asset \in CapAssets
  BY <1>b DEF First, C!Sound, CapFile
<1>6. /\ q \in Previews /\ q.rejected = p.rejected
      /\ \E e \in TakenRows : e.no = n /\ e.row = new /\ q.accepted = Append(p.accepted, e)
      /\ at = 0 => /\ q.merged = Append(rows, new)
                   /\ q.changes = C!Changed(p.changes, file[n].asset, "added")
      /\ at # 0 => /\ q.merged = [rows EXCEPT ![at] = new]
                   /\ q.changes = IF rows[at] = new THEN p.changes
                                  ELSE C!Changed(p.changes, file[n].asset, "updated")
  <2>1. \A k \in 1..Len(p.accepted) : p.accepted[k].row.asset # file[n].asset
    BY <1>c, TakenAre
  <2>2. PICK row \in CapFile : row = file[n]
    BY <1>b
  <2>3. /\ q \in Previews /\ q.rejected = p.rejected
        /\ TakesOne(p.accepted, q.accepted, row, n)
        /\ at = 0 => /\ q.merged = Append(p.merged, RowOf(row))
                     /\ q.changes = C!Changed(p.changes, row.asset, "added")
        /\ at # 0 => /\ q.merged = [p.merged EXCEPT ![at] = RowOf(row)]
                     /\ q.changes = IF p.merged[at] = RowOf(row) THEN p.changes
                                    ELSE C!Changed(p.changes, row.asset, "updated")
    <3>1. at = C!Position(p.merged, row.asset) /\ q = C!Read(p, row, n) /\ n \in Nat
      BY <1>0, <1>1, <1>2, <2>2
    <3>2. C!Sound(row) /\ \A k \in 1..Len(p.accepted) : p.accepted[k].row.asset # row.asset
      BY <1>5, <2>1, <2>2
    <3>0. n \in Nat
      BY <1>0
    <3>3. PICK q1, at1 : q1 = C!Read(p, row, n) /\ at1 = C!Position(p.merged, row.asset)
      OBVIOUS
    <3>4. /\ q1 \in Previews /\ q1.rejected = p.rejected
          /\ TakesOne(p.accepted, q1.accepted, row, n)
      BY <3>0, <3>2, <3>3, AcceptedIs
    <3>5. at1 = 0 => /\ q1.merged = Append(p.merged, RowOf(row))
                     /\ q1.changes = C!Changed(p.changes, row.asset, "added")
      BY <3>0, <3>2, <3>3, AcceptedIs
    <3>6. at1 # 0 => /\ q1.merged = [p.merged EXCEPT ![at1] = RowOf(row)]
                     /\ q1.changes = IF p.merged[at1] = RowOf(row) THEN p.changes
                                     ELSE C!Changed(p.changes, row.asset, "updated")
      BY <3>0, <3>2, <3>3, AcceptedIs
    <3>7. q1 = q /\ at1 = at
      BY <3>1, <3>3
    <3> QED BY <3>4, <3>5, <3>6, <3>7
  <2> QED BY <1>2, <1>3, <2>2, <2>3 DEF TakesOne
<1>7. /\ at = C!Position(current, file[n].asset)
      /\ at = 0 \/ /\ at \in 1..Len(current) /\ rows[at] = current[at]
                   /\ \A j \in 1..at - 1 : current[j].asset # current[at].asset
  BY <1>2, <1>4, PlaceIsOld
<1>8. TakesThose(file, n, q)
  <2>1. PICK acc \in Seq(TakenRows) : acc = p.accepted
    BY DEF Previews
  <2>2. PICK e \in TakenRows : e.no = n /\ e.row = new /\ q.accepted = Append(acc, e)
    BY <1>6, <2>1
  <2>3. PICK len \in Nat : len = Len(acc)
    OBVIOUS
  <2>4. PICK acc1 : acc1 = q.accepted
    OBVIOUS
  <2>5. /\ Len(acc1) = len + 1 /\ acc1[len + 1] = e /\ \A k \in 1..len : acc1[k] = acc[k]
    BY <2>2, <2>3, <2>4
  <2>6. /\ \A k \in 1..len : /\ acc[k].no \in 1..n - 1 /\ First(file, acc[k].no)
                             /\ acc[k].row = RowOf(file[acc[k].no])
        /\ \A i \in 1..n - 1 : First(file, i) => \E k \in 1..len : acc[k].no = i
    BY <1>c, <2>1, <2>3 DEF TakesThose
  <2>7. ASSUME NEW k \in 1..len + 1
        PROVE  acc1[k].no \in 1..n /\ First(file, acc1[k].no) /\ acc1[k].row = RowOf(file[acc1[k].no])
    <3>1. CASE k = len + 1
      BY <1>b, <1>3, <2>2, <2>5, <3>1
    <3>2. CASE k # len + 1
      <4>1. k \in 1..len
        BY <3>2
      <4> QED BY <1>a, <2>5, <2>6, <4>1
    <3> QED BY <3>1, <3>2
  <2>8. ASSUME NEW i \in 1..n, First(file, i) PROVE \E k \in 1..len + 1 : acc1[k].no = i
    <3>1. CASE i = n
      <4>1. len + 1 \in 1..len + 1
        OBVIOUS
      <4> QED BY <2>2, <2>5, <3>1, <4>1
    <3>2. CASE i \in 1..n - 1
      <4>1. PICK k \in 1..len : acc[k].no = i
        BY <2>6, <2>8, <3>2
      <4>2. k \in 1..len + 1
        OBVIOUS
      <4> QED BY <2>5, <4>1, <4>2
    <3> QED BY <1>0, <3>1, <3>2
  <2> QED BY <2>4, <2>5, <2>7, <2>8 DEF TakesThose
<1>9. RefusesThose(file, n, q)
  <2>1. PICK rej : rej = p.rejected /\ rej = q.rejected
    BY <1>6
  <2>2. /\ \A k \in 1..Len(rej) : rej[k] \in 1..n - 1 /\ ~First(file, rej[k])
        /\ \A i \in 1..n - 1 : ~First(file, i) => \E k \in 1..Len(rej) : rej[k] = i
    BY <1>c, <2>1 DEF RefusesThose
  <2>3. \A k \in 1..Len(rej) : rej[k] \in 1..n
    BY <1>a, <2>2
  <2>4. \A i \in 1..n : ~First(file, i) => \E k \in 1..Len(rej) : rej[k] = i
    BY <1>0, <2>2
  <2> QED BY <2>1, <2>2, <2>3, <2>4 DEF RefusesThose
<1>10. PICK rows1 : rows1 = q.merged
  OBVIOUS
<1>11. PICK len \in Nat : len = Len(rows) /\ Len(current) <= len
  BY <1>4 DEF KeepsOthers
<1>d. \A k \in 1..Len(current) : k \in 1..len /\ k \in 1..len + 1
  BY <1>0, <1>11
\* Each row is what it was, or the new one in the place of its address.
<1>12. /\ Len(rows1) = IF at = 0 THEN len + 1 ELSE len
       /\ \A k \in 1..len : rows1[k] = IF k = at THEN new ELSE rows[k]
       /\ at = 0 => rows1[len + 1] = new
  <2>1. CASE at = 0
    <3>1. rows1 = Append(rows, new)
      BY <1>6, <1>10, <2>1
    <3>2. Len(rows1) = len + 1 /\ rows1[len + 1] = new /\ \A k \in 1..len : rows1[k] = rows[k]
      BY <1>11, <3>1
    <3>3. \A k \in 1..len : k # at
      BY <2>1
    <3> QED BY <2>1, <3>2, <3>3
  <2>2. CASE at # 0
    <3>1. rows1 = [rows EXCEPT ![at] = new]
      BY <1>6, <1>10, <2>2
    <3>2. Len(rows1) = len /\ DOMAIN rows = 1..len
      BY <1>11, <3>1
    <3>3. \A k \in 1..len : rows1[k] = IF k = at THEN new ELSE rows[k]
      BY <3>1, <3>2
    <3> QED BY <2>2, <3>2, <3>3
  <2> QED BY <2>1, <2>2
<1>13. KeepsOthers(current, file, n, rows1)
  <2>1. Len(current) <= Len(rows1)
    BY <1>0, <1>11, <1>12
  <2>2. ASSUME NEW k \in 1..Len(current)
        PROVE  /\ rows1[k].asset = current[k].asset
               /\ \/ rows1[k] = current[k]
                  \/ /\ \E i \in 1..n : First(file, i) /\ rows1[k] = RowOf(file[i])
                     /\ \A j \in 1..k - 1 : current[j].asset # current[k].asset
    <3>1. CASE k = at
      <4>1. rows1[k] = new /\ at # 0
        BY <1>0, <1>d, <1>12, <3>1
      <4>2. current[k].asset = file[n].asset
        <5>1. at \in 1..Len(rows) /\ rows[at].asset = file[n].asset
          BY <1>2, <4>1, PositionIs
        <5> QED BY <1>7, <3>1, <4>1, <5>1
      <4>3. \A j \in 1..k - 1 : current[j].asset # current[k].asset
        BY <1>7, <3>1, <4>1
      <4> QED BY <1>b, <1>3, <4>1, <4>2, <4>3
    <3>2. CASE k # at
      <4>1. rows1[k] = rows[k]
        BY <1>d, <1>12, <3>2
      <4>2. /\ rows[k].asset = current[k].asset
            /\ \/ rows[k] = current[k]
               \/ /\ \E i \in 1..n - 1 : First(file, i) /\ rows[k] = RowOf(file[i])
                  /\ \A j \in 1..k - 1 : current[j].asset # current[k].asset
        BY <1>4 DEF KeepsOthers
      <4> QED BY <1>a, <4>1, <4>2
    <3> QED BY <3>1, <3>2
  <2> QED BY <2>1, <2>2 DEF KeepsOthers
<1>14. AddsThose(current, file, n, rows1)
  <2> DEFINE c == Len(current)
  <2>1. ASSUME NEW k \in c + 1..len
        PROVE  /\ rows1[k] = rows[k] /\ ~Named(current, rows[k].asset)
               /\ rows[k].asset # new.asset
               /\ \E i \in 1..n : First(file, i) /\ rows[k] = RowOf(file[i])
               /\ \A l \in c + 1..len : rows[k].asset = rows[l].asset => k = l
    <3>1. k \in 1..len /\ k # at
      BY <1>0, <1>7, <1>11
    <3>2. PICK i \in 1..n - 1 : First(file, i) /\ rows[k] = RowOf(file[i])
      BY <1>4, <1>11 DEF AddsThose
    <3>3. rows[k].asset = file[i].asset
      BY <1>a, <1>b, <3>2, RowOfIs
    <3>4. rows[k].asset # new.asset
      BY <1>a, <1>3, <3>2, <3>3, FirstOnce
    <3>5. ~Named(current, rows[k].asset) /\ \A l \in c + 1..len : rows[k].asset = rows[l].asset => k = l
      BY <1>4, <1>11 DEF AddsThose
    <3> QED BY <1>a, <1>12, <3>1, <3>2, <3>4, <3>5
  <2>2. at = 0 => ~Named(current, new.asset)
    <3>1. at = 0 => \A k \in 1..Len(rows) : rows[k].asset # new.asset
      <4>1. \/ at = 0 /\ \A k \in 1..Len(rows) : rows[k].asset # new.asset
            \/ at \in 1..Len(rows)
        BY <1>2, <1>3, PositionIs
      <4> QED BY <4>1
    <3>2. \A k \in 1..Len(current) : rows[k].asset = current[k].asset
      BY <1>4 DEF KeepsOthers
    <3> QED BY <1>d, <1>11, <3>1, <3>2 DEF Named
  <2> SUFFICES ASSUME NEW k \in c + 1..Len(rows1)
               PROVE  /\ ~Named(current, rows1[k].asset)
                      /\ \E i \in 1..n : First(file, i) /\ rows1[k] = RowOf(file[i])
                      /\ \A l \in c + 1..Len(rows1) : rows1[k].asset = rows1[l].asset => k = l
    BY DEF AddsThose
  <2>3. \A l \in c + 1..Len(rows1) : l \in c + 1..len \/ (at = 0 /\ l = len + 1)
    BY <1>0, <1>11, <1>12
  <2> HIDE DEF c
  <2>4. CASE k \in c + 1..len
    <3>1. /\ rows1[k] = rows[k] /\ ~Named(current, rows[k].asset) /\ rows[k].asset # new.asset
          /\ \E i \in 1..n : First(file, i) /\ rows[k] = RowOf(file[i])
          /\ \A l \in c + 1..len : rows[k].asset = rows[l].asset => k = l
      BY <2>1, <2>4
    <3>2. ASSUME NEW l \in c + 1..Len(rows1), rows1[k].asset = rows1[l].asset PROVE k = l
      <4>1. CASE l \in c + 1..len
        BY <2>1, <3>1, <3>2, <4>1
      <4>2. CASE at = 0 /\ l = len + 1
        BY <1>12, <3>1, <3>2, <4>2
      <4> QED BY <2>3, <4>1, <4>2
    <3> QED BY <3>1, <3>2
  <2>5. CASE at = 0 /\ k = len + 1
    <3>1. rows1[k] = new
      BY <1>12, <2>5
    <3>2. ASSUME NEW l \in c + 1..Len(rows1), rows1[k].asset = rows1[l].asset PROVE k = l
      <4>1. CASE l \in c + 1..len
        BY <2>1, <3>1, <3>2, <4>1
      <4>2. CASE at = 0 /\ l = len + 1
        BY <2>5, <4>2
      <4> QED BY <2>3, <4>1, <4>2
    <3> QED BY <1>b, <1>3, <2>2, <2>5, <3>1, <3>2
  <2> QED BY <2>3, <2>4, <2>5
<1>15. MarksThose(current, file, n, q.changes)
  <2>1. PICK old : old = {j \in 1..n - 1 : First(file, j) /\ Alters(current, file[j])}
    OBVIOUS
  <2>2. PICK marks \in Marks : marks = p.changes
    BY DEF Previews
  <2>3. DOMAIN marks = {file[i].asset : i \in old}
    BY <2>1, <2>2 DEF ReviewFits, MarksThose
  <2>4. Alters(current, file[n]) <=> at = 0 \/ rows[at] # new
    BY <1>3, <1>7 DEF Alters
  <2>5. PICK now1 : now1 = {j \in 1..n : First(file, j) /\ Alters(current, file[j])}
    OBVIOUS
  <2>6. CASE Alters(current, file[n])
    <3>1. DOMAIN q.changes = DOMAIN marks \cup {file[n].asset}
      <4>1. CASE at = 0
        <5>1. q.changes = C!Changed(marks, file[n].asset, "added")
          BY <1>6, <2>2, <4>1
        <5> QED BY <1>5, <5>1, MarkedIs
      <4>2. CASE at # 0
        BY <1>5, <1>6, <2>2, <2>4, <2>6, <4>2, MarkedIs, ZenonT(30)
      <4> QED BY <4>1, <4>2
    <3>2. now1 = old \cup {n}
      BY <1>0, <1>a, <1>b, <2>1, <2>5, <2>6
    <3>3. {file[i].asset : i \in now1} = {file[i].asset : i \in old} \cup {file[n].asset}
      BY <3>2
    <3> QED BY <2>3, <2>5, <3>1, <3>3 DEF MarksThose
  <2>7. CASE ~Alters(current, file[n])
    <3>1. q.changes = marks
      BY <1>6, <2>2, <2>4, <2>7
    <3>2. now1 = old
      BY <1>0, <1>a, <2>1, <2>5, <2>7
    <3> QED BY <2>3, <2>5, <3>1, <3>2 DEF MarksThose
  <2> QED BY <2>6, <2>7
<1>16. ChangesThose(current, file, n, rows1)
  <2> SUFFICES ASSUME NEW k \in 1..Len(current), NEW i \in 1..n, First(file, i),
                      file[i].asset = current[k].asset,
                      \A j \in 1..k - 1 : current[j].asset # current[k].asset
               PROVE  rows1[k] = RowOf(file[i])
    BY DEF ChangesThose
  <2>1. CASE i = n
    <3>1. current[k].asset = new.asset
      BY <1>3, <2>1
    <3>2. \/ at = 0 /\ \A j \in 1..Len(current) : current[j].asset # new.asset
          \/ /\ at \in 1..Len(current) /\ current[at].asset = new.asset
             /\ \A j \in 1..at - 1 : current[j].asset # new.asset
      BY <1>3, <1>7, PositionIs
    <3>3. at \in 1..Len(current) /\ current[at].asset = new.asset
          /\ \A j \in 1..at - 1 : current[j].asset # new.asset
      BY <3>1, <3>2
    <3>4. ~(at < k) /\ ~(k < at)
      <4>1. at < k => at \in 1..k - 1
        BY <1>0, <3>3
      <4>2. k < at => k \in 1..at - 1
        BY <1>0, <3>3
      <4> QED BY <3>1, <3>3, <4>1, <4>2
    <3>5. k = at
      BY <1>0, <3>3, <3>4
    <3> QED BY <1>3, <1>d, <1>12, <2>1, <3>5
  <2>2. CASE i \in 1..n - 1
    <3>1. rows[k] = RowOf(file[i])
      BY <1>2, <2>2 DEF ReviewFits, ChangesThose
    <3>2. file[i].asset # file[n].asset
      BY <1>a, <2>2, FirstOnce
    <3>3. k # at
      <4>1. at \in 1..Len(rows) => rows[at].asset = file[n].asset
        <5>1. at = 0 \/ (at \in 1..Len(rows) /\ rows[at].asset = file[n].asset)
          BY <1>2, PositionIs
        <5> QED BY <5>1
      <4>2. rows[k].asset = current[k].asset
        BY <1>4 DEF KeepsOthers
      <4> QED BY <1>11, <1>d, <3>2, <4>1, <4>2
    <3> QED BY <1>d, <1>12, <3>1, <3>3
  <2> QED BY <1>0, <2>1, <2>2
<1> QED BY <1>1, <1>6, <1>8, <1>9, <1>10, <1>13, <1>14, <1>15, <1>16 DEF ReviewFits

\* Of no rows, the draft as it is.
LEMMA NothingFits ==
  ASSUME NEW current \in Seq(CapLists), NEW file
  PROVE  C!Nothing(current) \in Previews /\ ReviewFits(current, file, 0, C!Nothing(current))
<1>1. PICK p : p = C!Nothing(current)
  OBVIOUS
<1>2. p = [accepted |-> <<>>, rejected |-> <<>>, duplicates |-> <<>>, merged |-> current, changes |-> <<>>]
  BY <1>1 DEF C!Nothing
<1>3. /\ <<>> \in Seq(TakenRows) /\ <<>> \in Seq(Nat) /\ <<>> \in Seq([row : Nat, first : Nat])
      /\ Len(<<>>) = 0 /\ DOMAIN <<>> = {}
  OBVIOUS
<1>4. <<>> \in Marks
  <2>1. <<>> \in [{} -> {"added", "updated"}]
    BY <1>3
  <2> QED BY <2>1 DEF Marks
<1>5. p \in Previews
  BY <1>2, <1>3, <1>4 DEF Previews
<1>6. TakesThose(file, 0, p) /\ RefusesThose(file, 0, p)
  BY <1>2, <1>3 DEF TakesThose, RefusesThose
<1>7. KeepsOthers(current, file, 0, current)
  <2>1. Len(current) \in Nat
    OBVIOUS
  <2> QED BY <2>1 DEF KeepsOthers
<1>8. AddsThose(current, file, 0, current)
  <2>1. Len(current) \in Nat
    OBVIOUS
  <2> QED BY <2>1 DEF AddsThose
<1>9. MarksThose(current, file, 0, <<>>)
  <2>1. {file[i].asset : i \in {j \in 1..0 : First(file, j) /\ Alters(current, file[j])}} = {}
    OBVIOUS
  <2> QED BY <1>3, <2>1 DEF MarksThose
<1>10. ChangesThose(current, file, 0, current)
  BY DEF ChangesThose
<1> QED BY <1>1, <1>2, <1>5, <1>6, <1>7, <1>8, <1>9, <1>10 DEF ReviewFits

\* The review of a file, row for row, and what it makes of the whole of it.
IsReview(f, current, file) ==
  /\ f[0] = C!Nothing(current) /\ \A i \in 1..Len(file) : f[i] = C!Read(f[i - 1], file[i], i)
  /\ \A i \in 0..Len(file) : f[i] \in Previews /\ ReviewFits(current, file, i, f[i])
  /\ f[Len(file)] = C!PreviewAssetCapImport(current, file)

LEMMA ReviewIs ==
  ASSUME NEW current \in Seq(CapLists), NEW file \in Seq(CapFile)
  PROVE  \E f : IsReview(f, current, file)
<1> DEFINE n == Len(file)
           next(i, p) == C!Read(p, file[i], i)
           is(f) == f = [i \in 0..n |-> IF i = 0 THEN C!Nothing(current) ELSE next(i, f[i - 1])]
           step == [i \in 1..n |-> [p \in Previews |-> next(i, p)]]
<1>1. n \in Nat /\ C!Nothing(current) \in Previews /\ \A i \in 1..n : file[i] \in CapFile
  <2>1. n \in Nat /\ \A i \in 1..n : file[i] \in CapFile
    OBVIOUS
  <2> QED BY <2>1, NothingFits
<1>2. ASSUME NEW i \in 1..n, NEW p \in Previews PROVE next(i, p) \in Previews
  <2>1. PICK row \in CapFile : row = file[i]
    BY <1>1
  <2>2. i \in Nat
    BY <1>1
  <2>3. C!Read(p, row, i) \in Previews
    <3>1. CASE ~C!Sound(row) \/ \E k \in 1..Len(p.accepted) : p.accepted[k].row.asset = row.asset
      BY <2>2, <3>1, RefusedIs
    <3>2. CASE C!Sound(row) /\ \A k \in 1..Len(p.accepted) : p.accepted[k].row.asset # row.asset
      BY <2>2, <3>2, AcceptedIs
    <3> QED BY <3>1, <3>2
  <2> QED BY <2>1, <2>3
<1>3. step \in Steps(n, Previews)
  <2> HIDE DEF next, n
  <2> QED BY <1>2 DEF Steps
<1>4. PICK f \in [0..n -> Previews] :
        f[0] = C!Nothing(current) /\ \A i \in 1..n : f[i] = step[i][f[i - 1]]
  <2> HIDE DEF step, n
  <2>1. PICK f : Computes(f, n, Previews, C!Nothing(current), step)
    BY <1>1, <1>3, StepByStep
  <2> QED BY <2>1 DEF Computes
<1>5. \A i \in 1..n : f[i] = next(i, f[i - 1])
  <2>1. ASSUME NEW i \in 1..n
        PROVE  f[i] = next(i, f[i - 1])
    <3>0. i - 1 \in 0..n
      BY <1>1
    <3>1. f[i - 1] \in Previews
      BY <1>4, <3>0
    <3>2. step[i][f[i - 1]] = next(i, f[i - 1])
      BY <3>1
    <3> QED BY <1>4, <3>2
  <2> QED BY <2>1
<1> DEFINE g == CHOOSE f1 : is(f1)
<1>6. is(g)
  <2>1. is(f)
    <3> HIDE DEF next, n
    <3> QED BY <1>1, <1>4, <1>5
  <2> HIDE DEF is
  <2> QED BY <2>1
<1>7. C!PreviewAssetCapImport(current, file) = g[n]
  BY DEF C!PreviewAssetCapImport
<1>8. g[0] = C!Nothing(current) /\ \A i \in 1..n : g[i] = next(i, g[i - 1])
  <2> HIDE DEF g, next, n
  <2> QED BY <1>1, <1>6
<1> DEFINE good(k, p) == p \in Previews /\ ReviewFits(current, file, k, p)
           Q == {k \in Nat : good(k, g[k])}
<1> HIDE DEF g
<1>9. 0 \in Q
  BY <1>8, NothingFits
<1>10. ASSUME NEW k \in 1..n, k - 1 \in Q
       PROVE  k \in Q
  <2>1. PICK p \in Previews : p = g[k - 1] /\ ReviewFits(current, file, k - 1, p)
    BY <1>10
  <2>2. g[k] = C!Read(p, file[k], k) /\ k \in Nat /\ k \in 1..Len(file)
    BY <1>1, <1>8, <2>1
  <2>3. C!Read(p, file[k], k) \in Previews /\ ReviewFits(current, file, k, C!Read(p, file[k], k))
    BY <2>1, <2>2, RefusalFits, AcceptanceFits
  <2> QED BY <2>2, <2>3
<1> HIDE DEF Q
<1>11. \A k \in 1..n : k - 1 \in Q => k \in Q
  BY <1>10
<1>12. \A k \in 0..n : k \in Q
  <2> HIDE DEF n
  <2> QED BY <1>1, <1>9, <1>11, Induction
<1>13. \A i \in 0..n : g[i] \in Previews /\ ReviewFits(current, file, i, g[i])
  BY <1>12 DEF Q
<1> HIDE DEF n
<1>14. \A i \in 1..Len(file) : g[i] = C!Read(g[i - 1], file[i], i)
  BY <1>8 DEF n
<1>15. \A i \in 0..Len(file) : g[i] \in Previews /\ ReviewFits(current, file, i, g[i])
  BY <1>13 DEF n
<1>16. g[Len(file)] = C!PreviewAssetCapImport(current, file) /\ g[0] = C!Nothing(current)
  BY <1>7, <1>8 DEF n
<1> QED BY <1>14, <1>15, <1>16 DEF IsReview

\* What is so of the whole review is what it shows.
Review(file, current) == [file |-> file, current |-> current, result |-> C!PreviewAssetCapImport(current, file)]

LEMMA ReviewOf ==
  ASSUME NEW current \in Seq(CapLists), NEW file \in Seq(CapFile)
  PROVE  /\ C!PreviewAssetCapImport(current, file) \in Previews
         /\ ReviewFits(current, file, Len(file), C!PreviewAssetCapImport(current, file))
<1>1. PICK f : IsReview(f, current, file)
  BY ReviewIs
<1>2. Len(file) \in 0..Len(file)
  OBVIOUS
<1> QED BY <1>1, <1>2 DEF IsReview

\* A draft nothing is wrong with, and one after a review of it.
Objected(rows, i) ==
  \/ rows[i].asset = Nil \/ rows[i].cap \in {0, TooMuch} \/ rows[i].symbol = ""
  \/ \E j \in 1..i - 1 : rows[j].asset = rows[i].asset

LEMMA ProblemsAre ==
  ASSUME NEW rows \in Seq(CapLists)
  PROVE  /\ C!Problems(rows) \subseteq 1..Len(rows)
         /\ \A i \in 1..Len(rows) : i \in C!Problems(rows) <=> Objected(rows, i)
<1>1. DOMAIN rows = 1..Len(rows)
  OBVIOUS
<1>2. C!Problems(rows) = {i \in DOMAIN rows : Objected(rows, i)}
  BY Zenon DEF C!Problems, Objected
<1> QED BY <1>1, <1>2

LEMMA StaysInOrder ==
  ASSUME NEW current \in Seq(CapLists), NEW file \in Seq(CapFile), NEW rows \in Seq(CapLists),
         KeepsOthers(current, file, Len(file), rows), AddsThose(current, file, Len(file), rows),
         C!Problems(current) = {}
  PROVE  C!Problems(rows) = {k \in DOMAIN rows : rows[k].cap = TooMuch}
<1>0. /\ Len(file) \in Nat /\ Len(current) \in Nat /\ Len(rows) \in Nat /\ DOMAIN rows = 1..Len(rows)
      /\ \A i \in 1..Len(file) : file[i] \in CapFile
  OBVIOUS
<1>1. \A k \in 1..Len(current) :
        /\ current[k].asset # Nil /\ current[k].cap \notin {0, TooMuch} /\ current[k].symbol # ""
        /\ \A j \in 1..k - 1 : current[j].asset # current[k].asset
  <2>1. \A k \in 1..Len(current) : ~Objected(current, k)
    BY ProblemsAre
  <2> QED BY <2>1 DEF Objected
<1>2. Len(current) <= Len(rows) /\ \A k \in 1..Len(current) : k \in 1..Len(rows) /\ rows[k].asset = current[k].asset
  BY <1>0 DEF KeepsOthers
\* Each row is one of the draft as it was, or a sound one of the file.
<1>3. ASSUME NEW i \in 1..Len(file), First(file, i), NEW k \in 1..Len(rows), rows[k] = RowOf(file[i])
      PROVE  rows[k].asset # Nil /\ rows[k].cap # 0 /\ rows[k].symbol # "" /\ rows[k].asset = file[i].asset
  <2>1. file[i].asset # Nil /\ file[i].cap > 0 /\ file[i].symbol # ""
    BY <1>3 DEF First, C!Sound
  <2>2. ASSUME file[i].cap = 0 PROVE FALSE
    <3>1. 0 > 0
      BY <2>1, <2>2, Zenon
    <3> QED BY <3>1
  <2>3. /\ RowOf(file[i]).asset = file[i].asset /\ RowOf(file[i]).cap = file[i].cap
        /\ RowOf(file[i]).symbol = file[i].symbol
    BY DEF RowOf, C!Row
  <2> QED BY <1>3, <2>1, <2>2, <2>3
<1>4. ASSUME NEW k \in 1..Len(rows)
      PROVE  /\ rows[k].asset # Nil /\ rows[k].cap # 0 /\ rows[k].symbol # ""
             /\ \A j \in 1..k - 1 : rows[j].asset # rows[k].asset
  <2>1. CASE k \in 1..Len(current)
    <3>1. rows[k] = current[k] \/ \E i \in 1..Len(file) : First(file, i) /\ rows[k] = RowOf(file[i])
      BY <2>1 DEF KeepsOthers
    <3>2. rows[k].asset # Nil /\ rows[k].cap # 0 /\ rows[k].symbol # ""
      BY <1>1, <1>3, <2>1, <3>1
    <3>3. \A j \in 1..k - 1 : j \in 1..Len(current)
      BY <1>0, <2>1
    <3> QED BY <1>1, <1>2, <2>1, <3>2, <3>3
  <2>2. CASE k \in Len(current) + 1..Len(rows)
    <3>1. /\ ~Named(current, rows[k].asset)
          /\ \E i \in 1..Len(file) : First(file, i) /\ rows[k] = RowOf(file[i])
          /\ \A l \in Len(current) + 1..Len(rows) : rows[k].asset = rows[l].asset => k = l
      BY <2>2 DEF AddsThose
    <3>2. rows[k].asset # Nil /\ rows[k].cap # 0 /\ rows[k].symbol # ""
      BY <1>3, <3>1
    <3>3. ASSUME NEW j \in 1..k - 1 PROVE rows[j].asset # rows[k].asset
      <4>1. j \in 1..Len(current) \/ j \in Len(current) + 1..Len(rows)
        BY <1>0, <2>2
      <4>2. CASE j \in 1..Len(current)
        BY <1>2, <3>1, <4>2 DEF Named
      <4>3. CASE j \in Len(current) + 1..Len(rows)
        <5>1. j # k
          BY <1>0
        <5> QED BY <3>1, <4>3, <5>1
      <4> QED BY <4>1, <4>2, <4>3
    <3> QED BY <3>2, <3>3
  <2>3. k \in 1..Len(current) \/ k \in Len(current) + 1..Len(rows)
    BY <1>0
  <2> QED BY <2>1, <2>2, <2>3
<1>5. ASSUME NEW k \in 1..Len(rows)
      PROVE  k \in C!Problems(rows) <=> rows[k].cap = TooMuch
  <2>1. Objected(rows, k) <=> rows[k].cap = TooMuch
    BY <1>4 DEF Objected
  <2> QED BY <2>1, ProblemsAre
<1>6. C!Problems(rows) \subseteq 1..Len(rows)
  BY ProblemsAre
<1> QED BY <1>0, <1>5, <1>6

\* A row of the draft is the first of its address when nobody before it has that.
LEMMA OwnPlace ==
  ASSUME NEW rows \in Seq(CapLists), NEW k \in 1..Len(rows)
  PROVE  C!Position(rows, rows[k].asset) < k <=> \E j \in 1..k - 1 : rows[j].asset = rows[k].asset
<1>0. Len(rows) \in Nat
  OBVIOUS
<1>1. PICK at : at = C!Position(rows, rows[k].asset)
  OBVIOUS
<1>2. /\ at \in 1..Len(rows) /\ rows[at].asset = rows[k].asset
      /\ \A i \in 1..at - 1 : rows[i].asset # rows[k].asset
  BY <1>1, PositionIs
<1>3. at < k => at \in 1..k - 1
  BY <1>0, <1>2
<1>4. ASSUME NEW j \in 1..k - 1, rows[j].asset = rows[k].asset PROVE at < k
  <2>1. ~(j \in 1..at - 1) /\ j \in 1..Len(rows)
    BY <1>0, <1>2, <1>4
  <2> QED BY <1>0, <1>2, <2>1
<1> QED BY <1>1, <1>2, <1>3, <1>4

LEMMA ReviewShows ==
  ASSUME NEW current \in Seq(CapLists), NEW file \in Seq(CapFile), preview = Review(file, current)
  PROVE  C!PreviewExact
<1>0. /\ Len(file) \in Nat /\ Len(current) \in Nat /\ DOMAIN file = 1..Len(file)
  OBVIOUS
<1>1. PICK p \in Previews : p = C!PreviewAssetCapImport(current, file) /\ ReviewFits(current, file, Len(file), p)
  BY ReviewOf
<1>2. preview = [file |-> file, current |-> current, result |-> p]
  BY <1>1 DEF Review
<1>3. PICK taken : taken = {i \in DOMAIN file : First(file, i)}
  OBVIOUS
<1>4. /\ TakesThose(file, Len(file), p) /\ RefusesThose(file, Len(file), p)
      /\ KeepsOthers(current, file, Len(file), p.merged) /\ ChangesThose(current, file, Len(file), p.merged)
      /\ AddsThose(current, file, Len(file), p.merged) /\ MarksThose(current, file, Len(file), p.changes)
  BY <1>1 DEF ReviewFits
<1>5. PICK acc, rej, rows, marks :
        acc = p.accepted /\ rej = p.rejected /\ rows = p.merged /\ marks = p.changes
  OBVIOUS
<1>a. acc \in Seq(TakenRows) /\ rej \in Seq(Nat) /\ rows \in Seq(CapLists)
  BY <1>5 DEF Previews
<1>6. /\ DOMAIN rows = 1..Len(rows) /\ Len(rows) \in Nat
      /\ DOMAIN acc = 1..Len(acc) /\ DOMAIN rej = 1..Len(rej)
  BY <1>a
<1>7. {acc[k].no : k \in DOMAIN acc} = taken
  <2>1. \A k \in DOMAIN acc : acc[k].no \in taken
    BY <1>0, <1>3, <1>4, <1>5, <1>6 DEF TakesThose
  <2>2. \A i \in taken : \E k \in DOMAIN acc : acc[k].no = i
    BY <1>0, <1>3, <1>4, <1>5, <1>6 DEF TakesThose
  <2> QED BY <2>1, <2>2, Zenon
<1>8. C!Range(rej) = DOMAIN file \ taken
  <2>1. \A k \in DOMAIN rej : rej[k] \in DOMAIN file \ taken
    BY <1>0, <1>3, <1>4, <1>5, <1>6 DEF RefusesThose
  <2>2. \A i \in DOMAIN file \ taken : \E k \in DOMAIN rej : rej[k] = i
    BY <1>0, <1>3, <1>4, <1>5, <1>6 DEF RefusesThose
  <2> QED BY <2>1, <2>2, Zenon DEF C!Range
<1>9. ASSUME NEW k \in DOMAIN rows
      PROVE  IF k <= Len(current) /\ (\/ current[k].asset \notin {file[i].asset : i \in taken}
                                      \/ C!Position(current, current[k].asset) < k)
             THEN rows[k] = current[k]
             ELSE \E i \in taken : rows[k] = C!Row(file[i].asset, file[i].cap, file[i].symbol)
  <2>0. k \in 1..Len(rows)
    BY <1>6
  <2>1. CASE k \in 1..Len(current)
    <3>1. \/ rows[k] = current[k]
          \/ /\ \E i \in 1..Len(file) : First(file, i) /\ rows[k] = RowOf(file[i])
             /\ \A j \in 1..k - 1 : current[j].asset # current[k].asset
      BY <1>4, <1>5, <2>1 DEF KeepsOthers
    <3>2. rows[k].asset = current[k].asset
      BY <1>4, <1>5, <2>1 DEF KeepsOthers
    <3>3. CASE C!Position(current, current[k].asset) < k
      BY <2>1, <3>1, <3>3, OwnPlace
    <3>4. CASE current[k].asset \notin {file[i].asset : i \in taken}
      <4>1. ASSUME NEW i \in 1..Len(file), First(file, i), rows[k] = RowOf(file[i]) PROVE FALSE
        <5>1. rows[k].asset = file[i].asset
          BY <4>1 DEF RowOf, C!Row
        <5> QED BY <1>0, <1>3, <3>2, <3>4, <4>1, <5>1
      <4> QED BY <2>1, <3>1, <3>4, <4>1
    <3>5. CASE /\ current[k].asset \in {file[i].asset : i \in taken}
               /\ ~(C!Position(current, current[k].asset) < k)
      <4>1. PICK i \in taken : file[i].asset = current[k].asset
        BY <3>5
      <4>2. \A j \in 1..k - 1 : current[j].asset # current[k].asset
        BY <2>1, <3>5, OwnPlace
      <4>3. i \in 1..Len(file) /\ First(file, i)
        BY <1>0, <1>3
      <4>4. rows[k] = RowOf(file[i])
        BY <1>4, <1>5, <2>1, <4>1, <4>2, <4>3 DEF ChangesThose
      <4> QED BY <3>5, <4>1, <4>4 DEF RowOf
    <3>6. k <= Len(current)
      BY <1>0, <2>1
    <3> QED BY <3>3, <3>4, <3>5, <3>6
  <2>2. CASE k \in Len(current) + 1..Len(rows)
    <3>1. PICK i \in 1..Len(file) : First(file, i) /\ rows[k] = RowOf(file[i])
      BY <1>4, <1>5, <2>2 DEF AddsThose
    <3>2. ~(k <= Len(current)) /\ i \in taken
      BY <1>0, <1>3, <2>2, <3>1
    <3> QED BY <3>1, <3>2 DEF RowOf
  <2> QED BY <1>0, <1>6, <2>0, <2>1, <2>2
<1>10. DOMAIN marks =
         {file[i].asset : i \in {j \in taken :
            LET at == C!Position(current, file[j].asset)
            IN  at = 0 \/ current[at] # C!Row(file[j].asset, file[j].cap, file[j].symbol)}}
  <2>1. {j \in taken : LET at == C!Position(current, file[j].asset)
                       IN  at = 0 \/ current[at] # C!Row(file[j].asset, file[j].cap, file[j].symbol)}
          = {j \in 1..Len(file) : First(file, j) /\ Alters(current, file[j])}
    BY <1>0, <1>3 DEF Alters, RowOf
  <2> QED BY <1>4, <1>5, <2>1 DEF MarksThose
<1>11. C!Problems(current) = {} => C!Problems(rows) = {k \in DOMAIN rows : rows[k].cap = TooMuch}
  <2>1. KeepsOthers(current, file, Len(file), rows) /\ AddsThose(current, file, Len(file), rows)
    BY <1>4, <1>5
  <2> QED BY <1>a, <2>1, StaysInOrder
<1>12. taken = {i \in DOMAIN file : /\ C!Sound(file[i])
                                    /\ \A j \in 1..i - 1 : C!Sound(file[j]) => file[j].asset # file[i].asset}
  BY <1>3 DEF First
<1>13. /\ preview.file = file /\ preview.current = current
       /\ preview.result.accepted = acc /\ preview.result.rejected = rej
       /\ preview.result.merged = rows /\ preview.result.changes = marks
  BY <1>2, <1>5
<1> QED BY <1>7, <1>8, <1>9, <1>10, <1>11, <1>12, <1>13 DEF C!PreviewExact

\* Of a file whose every row is taken, the other reader makes the same.
Sum(p) == [rows |-> p.merged, changes |-> p.changes]
MergedWith(m, row) ==
  LET at == C!Position(m.rows, row.asset)
  IN  IF at = 0 THEN [rows |-> Append(m.rows, row), changes |-> C!Changed(m.changes, row.asset, "added")]
      ELSE [rows |-> [m.rows EXCEPT ![at] = row],
            changes |-> IF m.rows[at] = row THEN m.changes ELSE C!Changed(m.changes, row.asset, "updated")]

LEMMA TakenIsMerged ==
  ASSUME NEW file \in Seq(CapFile), NEW n \in 1..Len(file), First(file, n), NEW p \in Previews,
         TakesThose(file, n - 1, p)
  PROVE  Sum(C!Read(p, file[n], n)) = MergedWith(Sum(p), RowOf(file[n]))
<1>1. PICK row \in CapFile : row = file[n]
  OBVIOUS
<1>2. PICK q : q = C!Read(p, row, n)
  OBVIOUS
<1>3. C!Sound(row) /\ \A k \in 1..Len(p.accepted) : p.accepted[k].row.asset # row.asset
  BY <1>1, TakenAre
<1>4. PICK at : at = C!Position(p.merged, row.asset)
  OBVIOUS
<1>5. n \in Nat
  OBVIOUS
<1>6. PICK k1 : k1 = RowOf(row) /\ k1.asset = row.asset
  BY RowOfIs
<1>7. /\ at = 0 => /\ q.merged = Append(p.merged, k1)
                   /\ q.changes = C!Changed(p.changes, row.asset, "added")
      /\ at # 0 => /\ q.merged = [p.merged EXCEPT ![at] = k1]
                   /\ q.changes = IF p.merged[at] = k1 THEN p.changes
                                  ELSE C!Changed(p.changes, row.asset, "updated")
  BY <1>2, <1>3, <1>4, <1>5, <1>6, AcceptedIs
<1>8. PICK m : m = Sum(p)
  OBVIOUS
<1>9. m.rows = p.merged /\ m.changes = p.changes
  BY <1>8 DEF Sum
<1>10. CASE at = 0
  <2>1. MergedWith(m, k1) = [rows |-> Append(p.merged, k1), changes |-> C!Changed(p.changes, row.asset, "added")]
    BY <1>4, <1>6, <1>9, <1>10 DEF MergedWith
  <2> QED BY <1>1, <1>2, <1>6, <1>7, <1>8, <1>10, <2>1 DEF Sum
<1>11. CASE at # 0
  <2>1. MergedWith(m, k1) =
          [rows |-> [p.merged EXCEPT ![at] = k1],
           changes |-> IF p.merged[at] = k1 THEN p.changes ELSE C!Changed(p.changes, row.asset, "updated")]
    BY <1>4, <1>6, <1>9, <1>11 DEF MergedWith
  <2> QED BY <1>1, <1>2, <1>6, <1>7, <1>8, <1>11, <2>1 DEF Sum
<1> QED BY <1>10, <1>11

LEMMA MergedIs ==
  ASSUME NEW current \in Seq(CapLists), NEW file \in Seq(CapFile), \A i \in 1..Len(file) : First(file, i),
         NEW rows, rows = [i \in DOMAIN file |-> RowOf(file[i])]
  PROVE  C!Merged(current, rows) = Sum(C!PreviewAssetCapImport(current, file))
<1>1. PICK f : IsReview(f, current, file)
  BY ReviewIs
<1> DEFINE n == Len(rows)
           none == [rows |-> current, changes |-> <<>>]
           next(k, m) == MergedWith(m, rows[k])
           is(g) == g = [k \in 0..n |-> IF k = 0 THEN none ELSE next(k, g[k - 1])]
           h == [k \in 0..n |-> Sum(f[k])]
           g0 == CHOOSE g : is(g)
<1>2. n = Len(file) /\ n \in Nat /\ \A i \in 1..n : rows[i] = RowOf(file[i])
  OBVIOUS
<1>3. Sum(f[0]) = none
  BY <1>1 DEF IsReview, C!Nothing, Sum
<1>4. ASSUME NEW k \in 1..n
      PROVE  Sum(f[k]) = next(k, Sum(f[k - 1]))
  <2>1. PICK p \in Previews : p = f[k - 1] /\ ReviewFits(current, file, k - 1, p)
    BY <1>1, <1>2 DEF IsReview
  <2>2. f[k] = C!Read(p, file[k], k)
    BY <1>1, <1>2, <2>1 DEF IsReview
  <2>3. k \in 1..Len(file) /\ First(file, k) /\ TakesThose(file, k - 1, p)
    BY <1>2, <2>1 DEF ReviewFits
  <2>4. Sum(C!Read(p, file[k], k)) = MergedWith(Sum(p), RowOf(file[k]))
    BY <2>3, TakenIsMerged
  <2> QED BY <1>2, <2>1, <2>2, <2>4
<1>5. is(g0)
  <2>1. \A k \in 1..n : k - 1 \in 0..n /\ k \in 0..n
    BY <1>2
  <2>2. is(h)
    <3> HIDE DEF n, none, next
    <3> QED BY <1>3, <1>4, <2>1, SMTT(30)
  <2> HIDE DEF is
  <2> QED BY <2>2
<1>6. C!Merged(current, rows) = g0[n]
  BY DEF C!Merged, MergedWith
<1>7. g0[0] = none /\ \A k \in 1..n : g0[k] = next(k, g0[k - 1])
  <2> HIDE DEF g0, n, none, next
  <2> QED BY <1>2, <1>5, SMTT(30)
<1> DEFINE Q == {k \in 0..n : g0[k] = Sum(f[k])}
<1> HIDE DEF g0, none, n, next
<1>8. 0 \in Q
  BY <1>2, <1>3, <1>7
<1>9. ASSUME NEW k \in 1..n, k - 1 \in Q
      PROVE  k \in Q
  BY <1>2, <1>4, <1>7, <1>9
<1> HIDE DEF Q
<1>10. \A k \in 1..n : k - 1 \in Q => k \in Q
  BY <1>9
<1>11. \A k \in 0..n : k \in Q
  BY <1>2, <1>8, <1>10, Induction
<1>12. g0[n] = Sum(f[n])
  BY <1>2, <1>11 DEF Q
<1>13. f[n] = C!PreviewAssetCapImport(current, file)
  BY <1>1, <1>2 DEF IsReview
<1> QED BY <1>6, <1>12, <1>13

LEMMA ReadersSame ==
  ASSUME NEW current \in Seq(CapLists), NEW file \in Seq(CapFile), preview = Review(file, current)
  PROVE  C!ReadersAgree
<1> SUFFICES ASSUME C!Parsed(file) # Nil
             PROVE  LET other == C!Merged(current, C!Parsed(file))
                        p == C!PreviewAssetCapImport(current, file)
                    IN  p.rejected = <<>> /\ p.merged = other.rows /\ p.changes = other.changes
  BY DEF C!ReadersAgree, Review
<1>0. DOMAIN file = 1..Len(file) /\ Len(file) \in Nat
  OBVIOUS
<1>1. PICK p \in Previews : p = C!PreviewAssetCapImport(current, file) /\ ReviewFits(current, file, Len(file), p)
  BY ReviewOf
<1>2. \A i \in DOMAIN file : C!Sound(file[i]) /\ \A j \in 1..i - 1 : file[j].asset # file[i].asset
  BY DEF C!Parsed
<1>3. C!Parsed(file) = [i \in DOMAIN file |-> C!Row(file[i].asset, file[i].cap, file[i].symbol)]
  BY DEF C!Parsed
<1>4. \A i \in 1..Len(file) : First(file, i)
  BY <1>0, <1>2 DEF First
<1>5. PICK rows : rows = [i \in DOMAIN file |-> RowOf(file[i])]
  OBVIOUS
<1>6. C!Parsed(file) = rows
  BY <1>3, <1>5 DEF RowOf
<1>7. C!Merged(current, rows) = Sum(p)
  BY <1>1, <1>4, <1>5, MergedIs
<1>8. Sum(p).rows = p.merged /\ Sum(p).changes = p.changes
  BY DEF Sum
<1>9. p.rejected = <<>>
  <2>1. PICK rej \in Seq(Nat) : rej = p.rejected
    BY DEF Previews
  <2>2. \A k \in 1..Len(rej) : FALSE
    <3>1. \A k \in 1..Len(rej) : rej[k] \in 1..Len(file) /\ ~First(file, rej[k])
      BY <1>1, <2>1 DEF ReviewFits, RefusesThose
    <3> QED BY <1>4, <3>1
  <2>3. Len(rej) = 0
    <3>1. Len(rej) \in Nat /\ ~(1 \in 1..Len(rej))
      BY <2>2
    <3> QED BY <3>1
  <2> QED BY <2>1, <2>3
<1> QED BY <1>1, <1>6, <1>7, <1>8, <1>9

\* The rows, the files being read and the review are of a form, and the review is of its file.
FilePicks == [file : Seq(CapFile), current : Seq(CapLists)]
CapInv ==
  /\ capRows \in Seq(CapLists) /\ picked \subseteq FilePicks
  /\ preview = Nil \/ \E p \in FilePicks : preview = Review(p.file, p.current)

LEMMA ShownAsRead == CapInv => C!PreviewExact /\ C!ReadersAgree
<1> SUFFICES ASSUME CapInv PROVE C!PreviewExact /\ C!ReadersAgree
  OBVIOUS
<1>1. CASE preview = Nil
  BY <1>1 DEF C!PreviewExact, C!ReadersAgree
<1>2. ASSUME NEW p \in FilePicks, preview = Review(p.file, p.current)
      PROVE  C!PreviewExact /\ C!ReadersAgree
  <2>1. p.file \in Seq(CapFile) /\ p.current \in Seq(CapLists)
    BY DEF FilePicks
  <2> QED BY <1>2, <2>1, ReviewShows, ReadersSame
<1> QED BY <1>1, <1>2 DEF CapInv

LEMMA FilesFit == CapFiles \subseteq Seq(CapFile)
<1> SUFFICES ASSUME NEW file \in CapFiles PROVE file \in Seq(CapFile)
  OBVIOUS
<1>1. ASSUME NEW a \in CapAssets \cup {Nil}, NEW c \in C!Amounts, NEW s \in {"s", ""}, NEW b \in BOOLEAN
      PROVE  FileRow(b, a, c, s) \in CapFile
  BY DEF FileRow, CapFile
<1>2. PICK yes \in BOOLEAN, no \in BOOLEAN : yes = TRUE /\ no = FALSE
  BY Zenon
<1>3. x \in CapAssets \cup {Nil} /\ y \in CapAssets \cup {Nil} /\ Nil \in CapAssets \cup {Nil}
  BY DEF CapAssets
<1>4. 0 \in C!Amounts /\ 1 \in C!Amounts /\ 2 \in C!Amounts /\ TooMuch \in C!Amounts
  BY DEF C!Amounts
<1>5. PICK r1 \in CapFile, r2 \in CapFile, r3 \in CapFile, r4 \in CapFile, r5 \in CapFile :
        /\ r1 = FileRow(yes, x, 1, "s") /\ r2 = FileRow(yes, y, 2, "s") /\ r3 = FileRow(yes, x, 0, "s")
        /\ r4 = FileRow(yes, x, 2, "s") /\ r5 = FileRow(yes, y, TooMuch, "s")
  BY <1>1, <1>3, <1>4
<1>6. PICK r6 \in CapFile, r7 \in CapFile : r6 = FileRow(no, Nil, 0, "") /\ r7 = FileRow(yes, y, 2, "")
  BY <1>1, <1>3, <1>4
<1>7. file \in {<<>>, <<r1, r2>>, <<r3, r4, r1>>, <<r5, r6>>, <<r7>>}
  BY <1>2, <1>5, <1>6 DEF CapFiles
<1>8. /\ <<>> \in Seq(CapFile) /\ <<r1, r2>> \in Seq(CapFile) /\ <<r3, r4, r1>> \in Seq(CapFile)
      /\ <<r5, r6>> \in Seq(CapFile) /\ <<r7>> \in Seq(CapFile)
  OBVIOUS
<1> QED BY <1>7, <1>8

LEMMA CapStep == ASSUME CapInv, C!ImportNext PROVE CapInv'
<1>0. /\ capRows \in Seq(CapLists) /\ picked \subseteq FilePicks
      /\ preview = Nil \/ \E p \in FilePicks : preview = Review(p.file, p.current)
  BY DEF CapInv
<1>1. CASE C!Whole \/ C!Readdress \/ C!Retype
  <2>1. PICK rows \in Seq(CapLists) : C!SetCaps(rows) /\ UNCHANGED <<picked, preview>>
    BY <1>0, <1>1, EditsFit
  <2>2. capRows' = rows
    BY <2>1 DEF C!SetCaps
  <2> QED BY <1>0, <2>1, <2>2 DEF CapInv, Review
<1>2. CASE C!ConfirmImport
  <2>1. preview # Nil /\ capRows' = preview.result.merged /\ preview' = Nil /\ UNCHANGED picked
    BY <1>2 DEF C!ConfirmImport, C!SetCaps
  <2>2. PICK p \in FilePicks : preview = Review(p.file, p.current)
    BY <1>0, <2>1
  <2>3. p.file \in Seq(CapFile) /\ p.current \in Seq(CapLists)
    BY DEF FilePicks
  <2>4. PICK q \in Previews : q = C!PreviewAssetCapImport(p.current, p.file)
    BY <2>3, ReviewOf
  <2>5. preview.result = q /\ q.merged \in Seq(CapLists)
    <3>1. preview.result = q
      BY <2>2, <2>4 DEF Review
    <3> QED BY <3>1 DEF Previews
  <2> QED BY <1>0, <2>1, <2>5 DEF CapInv
<1>3. CASE C!CancelImport
  BY <1>0, <1>3 DEF C!CancelImport, CapInv
<1>4. ASSUME NEW file \in CapFiles, C!PickFile(file) PROVE CapInv'
  <2>1. PICK p : p = [file |-> file, current |-> capRows]
    OBVIOUS
  <2>2. p \in FilePicks
    BY <1>0, <2>1, FilesFit DEF FilePicks
  <2>3. picked' = picked \cup {p} /\ UNCHANGED <<capRows, preview>>
    BY <1>4, <2>1 DEF C!PickFile
  <2> QED BY <1>0, <2>2, <2>3 DEF CapInv, Review
<1>5. ASSUME NEW f \in picked, C!FileRead(f) PROVE CapInv'
  <2>1. /\ picked' \subseteq picked /\ UNCHANGED capRows /\ f \in FilePicks
        /\ preview' = Review(f.file, f.current)
    BY <1>0, <1>5 DEF C!FileRead, Review
  <2>2. \E p \in FilePicks : preview' = Review(p.file, p.current)
    BY <2>1
  <2> QED BY <1>0, <2>1, <2>2 DEF CapInv, Review
<1>6. ASSUME NEW f \in picked, C!FileFails(f) PROVE CapInv'
  BY <1>0, <1>6 DEF C!FileFails, CapInv
<1> QED BY <1>1, <1>2, <1>3, <1>4, <1>5, <1>6 DEF C!ImportNext

(* Whatever file is picked, for whatever rows, and whatever is edited while *)
(* it is read: the review shows what each of its rows does, the rows nobody *)
(* named are as they were, a draft in order stays so but for a cap that is  *)
(* too much, and a file that parseAssetCapsCsv takes whole is taken here as *)
(* mergeAssetCapOverrides would merge it (previewAssetCapImport).           *)
THEOREM ReviewsAreExact ==
  C!Init /\ [][C!ImportNext]_(C!capVars) => [](C!PreviewExact /\ C!ReadersAgree)
<1>1. C!Init => CapInv
  <2>1. <<>> \in Seq(CapLists) /\ {} \subseteq FilePicks
    OBVIOUS
  <2> QED BY <2>1 DEF C!Init, CapInv
<1>2. CapInv /\ [C!ImportNext]_(C!capVars) => CapInv'
  <2>1. CapInv /\ UNCHANGED C!capVars => CapInv'
    BY DEF CapInv, C!capVars, Review
  <2> QED BY <2>1, CapStep
<1> QED BY <1>1, <1>2, ShownAsRead, PTL

=============================================================================

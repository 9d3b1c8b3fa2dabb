----------------------------- MODULE MCFeedTail -----------------------------
(* A guard with events, one or two quiet ones, and a chain of a few        *)
(* ledgers.  Feed objects are told apart only by what refers to them and   *)
(* any free one may be the next, so permuting them is sound, and so it is  *)
(* for quiet guards (neither is used under fairness).                      *)
(*                                                                         *)
(* And, for any guards, feeds, events and bounds: the types, OwnCursor and *)
(* NoSilentLoss always hold, and only a feed's first polls jump.           *)
EXTENDS FeedTail, FiniteSetTheorems, WellFoundedInduction, TLAPS
CONSTANTS g1, g2, g3, f1, f2, f3

MCGuards == {g1, g2, g3}
FewGuards == {g1, g2}
MCFeeds == {f1, f2, f3}
MCSymmetry == Permutations(MCFeeds) \cup Permutations({g2, g3})
\* Two events in one ledger, and one no longer retained.
MCEvents == {<<g1, 1, 0>>, <<g1, MaxLedger - 1, 0>>, <<g1, MaxLedger - 1, 1>>}
FewEvents == {<<g1, MaxLedger, 0>>, <<g1, MaxLedger, 1>>}

\* Bounds the chain by one ledger less while more guards are saved than are tailed.
MCBounds == Cardinality(registry) > Cap => head < MaxLedger

-----------------------------------------------------------------------------
(* The inductive invariant.                                                *)
Polls(rs, lt) == {rs[i].poll : i \in DOMAIN rs} \cup lt

Shapes ==
  /\ registry \subseteq Guards /\ IsFiniteSet(registry)
  /\ plan \in Seq(Guards) /\ Len(plan) \in 1..Cap
  /\ watching \in BOOLEAN /\ ticker \in BOOLEAN /\ super \in BOOLEAN
  /\ coord \in Feeds \cup {None} /\ runners \in [Guards -> Feeds \cup {None}]
  /\ rounds \in Seq(Round) /\ Len(rounds) <= MaxRounds
  /\ late \subseteq Poll /\ pushed \subseteq Events

\* Every head a tab has heard of was the chain's.
Heads ==
  /\ head \in FirstHead..MaxLedger
  /\ known \in {0} \cup FirstHead..head
  /\ \A i \in DOMAIN rounds : rounds[i].seen \in {0} \cup FirstHead..head
  /\ \A p \in Polls(rounds, late) : p.since \in FirstHead..head

\* Only a tab that watches polls, and the wipe leaves no interval behind.
Watched ==
  /\ super => watching
  /\ \A g \in Guards : runners[g] # None => super
  /\ ~watching => rounds = <<>> /\ ~ticker
  /\ ticker => \A i \in DOMAIN rounds : ~rounds[i].cancelled

\* What something refers to is there.
Held(fs, co, run, rs, lt) == \A f \in Referenced(co, run, rs, lt) : fs[f] # None

OwnFeeds(fs, run) ==
  \A g \in Guards : run[g] # None =>
    fs[run[g]].guard = g /\ \A d \in Guards : run[d] = run[g] => d = g

\* A poll's answer can move only a tailed feed, and one that is not behind
\* where the poll asked from.
Asked(fs, run, ps) ==
  \A p \in ps : ~fs[p.feed].stopped =>
    /\ p.feed \in Tailed(run)
    /\ p.from # None => fs[p.feed].next # None /\ p.from <= fs[p.feed].next

Overdue(fs, lt) == \A p \in lt : fs[p.feed].overrun \/ fs[p.feed].stopped

\* A feed knows from which ledger on it is owed events once it has begun, and
\* drops a notice only from a full list.
Tidy(feed) ==
  /\ feed.expected = None <=> feed.next = None
  /\ feed.next = None => feed.cut = {} /\ feed.dropped = {}
  /\ Len(feed.lost) <= GapLimit
  /\ feed.dropped # {} => Len(feed.lost) = GapLimit

\* A feed that has begun is tailed, until it is stopped.
Settled(fs, run) ==
  \A f \in Feeds : fs[f] # None =>
    /\ fs[f].base = None <=> fs[f].next = None
    /\ fs[f].next # None /\ ~fs[f].stopped => f \in Tailed(run)
    /\ Tidy(fs[f])

\* What a feed has read up to, and that it comes from a page's last event in
\* shown unless it is a ledger's start.
Ends(g, next, expected, shown) ==
  \/ next = Start(expected)
  \/ \E e \in shown : /\ e \in Events /\ e[1] = g
                      /\ next = Place(e) + 1 /\ expected = e[2] + 1

\* The rows a feed has passed are in shown.
Complete(feed, shown) ==
  /\ \A e \in Passed(feed) : e \in shown \/ Told(feed, e) \/ Unread(feed, e)
  /\ \A p \in feed.cut : \E e \in shown :
       e[1] = feed.guard /\ Place(e) < p /\ p < Start(e[2] + 1)
  /\ Ends(feed.guard, feed.next, feed.expected, shown)

Accounted(fs, run, got, psh) ==
  \A g \in Guards : run[g] # None =>
    LET feed == fs[run[g]]
    IN feed.next # None /\ ~feed.overrun /\ ~feed.stopped => Complete(feed, psh \cup got)

Got(rs) == UNION {rs[i].got : i \in DOMAIN rs}

FeedsRight(fs, co, run, rs, lt, psh, tick) ==
  /\ fs \in [Feeds -> Feed \cup {None}]
  /\ Held(fs, co, run, rs, lt)
  /\ OwnFeeds(fs, run)
  /\ Asked(fs, run, Polls(rs, lt)) /\ Overdue(fs, lt)
  /\ Settled(fs, run)
  /\ tick => Accounted(fs, run, Got(rs), psh)

IInv ==
  /\ Shapes /\ Heads /\ Watched
  /\ FeedsRight(feeds, coord, runners, rounds, late, pushed, ticker)

-----------------------------------------------------------------------------
LEMMA LeastNumber ==
  ASSUME NEW Q, Q \subseteq Nat, Q # {}
  PROVE  \E m \in Q : \A k \in Q : m <= k
<1>1. PICK m \in Q : \A k \in Q : ~(<<k, m>> \in OpToRel(<, Nat))
  BY NatLessThanWellFounded, WFMin
<1>2. \A k \in Q : ~(k < m)
  BY <1>1 DEF OpToRel
<1> QED BY <1>2

LEMMA GreatestNumber ==
  ASSUME NEW Q, Q \subseteq Nat, Q # {}, NEW top \in Nat, \A k \in Q : k <= top
  PROVE  \E m \in Q : \A k \in Q : k <= m
<1> DEFINE below == {top - k : k \in Q}
<1>1. below \subseteq Nat /\ below # {}
  <2>1. \A k \in Q : top - k \in Nat
    OBVIOUS
  <2> QED BY <2>1
<1>2. PICK m \in below : \A k \in below : m <= k
  BY <1>1, LeastNumber
<1>3. PICK n \in Q : m = top - n
  BY <1>2
<1>4. \A k \in Q : top - k \in below
  OBVIOUS
<1>5. \A k \in Q : k <= n
  BY <1>2, <1>3, <1>4
<1> QED BY <1>5

(* Places.                                                                 *)
LEMMA StartFacts ==
  ASSUME NEW l \in Nat, NEW m \in Nat
  PROVE  Start(l) \in Nat /\ (l <= m => Start(l) <= Start(m)) /\ (Start(l) < Start(m) => l < m)
<1>1. Width \in Nat /\ Width > 0
  BY FeedAssumption
<1>2. \A a, b \in Nat : a * b \in Nat
  OBVIOUS
<1>3. ASSUME NEW a \in Nat, NEW b \in Nat, a <= b
      PROVE  a * Width <= b * Width
  <2>1. b - a \in Nat /\ (b - a) * Width \in Nat
    BY <1>1, <1>2, <1>3
  <2>2. (b - a) * Width = b * Width - a * Width
    BY <1>1
  <2> QED BY <1>1, <1>2, <2>1, <2>2
<1> QED BY <1>1, <1>2, <1>3 DEF Start

LEMMA EventFacts ==
  ASSUME NEW e \in Events
  PROVE  /\ e = <<e[1], e[2], e[3]>> /\ e[1] \in Guards /\ e[2] \in Nat
         /\ e[3] \in 0..(Width - 1) /\ Place(e) \in Nat /\ Place(e) = Start(e[2]) + e[3]
         /\ Start(e[2]) <= Place(e) /\ Place(e) < Start(e[2] + 1)
<1>1. /\ e = <<e[1], e[2], e[3]>> /\ e[1] \in Guards /\ e[2] \in Nat
      /\ e[3] \in 0..(Width - 1) /\ Width \in Nat
  BY FeedAssumption
<1>2. Start(e[2]) \in Nat
  BY <1>1, StartFacts
<1>3. Place(e) = Start(e[2]) + e[3] /\ Start(e[2] + 1) = Start(e[2]) + Width
  BY <1>1 DEF Place, Start
<1> QED BY <1>1, <1>2, <1>3

LEMMA OnePlace ==
  ASSUME NEW d \in Events, NEW e \in Events, d[1] = e[1], Place(d) = Place(e)
  PROVE  d = e
<1>1. d[2] + 1 \in Nat /\ e[2] + 1 \in Nat /\ d[2] \in Nat /\ e[2] \in Nat
  BY EventFacts
<1>2. Start(d[2]) < Start(e[2] + 1) /\ Start(e[2]) < Start(d[2] + 1)
  <2>1. /\ Start(d[2]) <= Place(d) /\ Place(d) < Start(d[2] + 1) /\ Place(d) \in Nat
        /\ Start(e[2]) <= Place(e) /\ Place(e) < Start(e[2] + 1)
    BY EventFacts
  <2>2. /\ Start(d[2]) \in Nat /\ Start(e[2]) \in Nat
        /\ Start(d[2] + 1) \in Nat /\ Start(e[2] + 1) \in Nat
    BY <1>1, StartFacts
  <2> QED BY <2>1, <2>2
<1>3. d[2] = e[2]
  BY <1>1, <1>2, StartFacts
<1>4. d[3] = e[3]
  <2>1. Place(d) = Start(d[2]) + d[3] /\ Place(e) = Start(d[2]) + e[3] /\ Start(d[2]) \in Nat
        /\ d[3] \in Int /\ e[3] \in Int
    BY <1>1, <1>3, EventFacts, StartFacts
  <2> DEFINE start == Start(d[2])
             i == d[3]
             j == e[3]
  <2>2. start + i = start + j /\ start \in Nat /\ i \in Int /\ j \in Int
    BY <2>1
  <2> HIDE DEF start, i, j
  <2>3. i = j
    BY <2>2
  <2> QED BY <2>3 DEF i, j
<1> QED BY <1>3, <1>4, EventFacts

(* What ends at a place owes the ledgers from there on, and no earlier one *)
(* but the one the place is in.                                            *)
LEMMA EndsFacts ==
  ASSUME NEW g, NEW next \in Nat, NEW expected \in Nat, NEW shown, Ends(g, next, expected, shown)
  PROVE  next <= Start(expected) /\ \A m \in Nat : next <= Start(m) => expected <= m
<1>1. CASE next = Start(expected)
  <2>1. \A m \in Nat : Start(m) \in Nat /\ (Start(m) < Start(expected) => m < expected)
                       /\ (m + 1 <= expected => Start(m) <= Start(expected))
    BY StartFacts
  <2>2. ASSUME NEW m \in Nat, next <= Start(m), ~(expected <= m)
        PROVE  FALSE
    <3>1. Start(m) = Start(expected) /\ m + 1 <= expected /\ m + 1 \in Nat
      BY <1>1, <2>1, <2>2
    <3>2. Start(m + 1) <= Start(expected)
      BY <3>1, StartFacts
    <3>3. Start(m + 1) = Start(m) + Width /\ Width \in Nat /\ Width > 0
      BY FeedAssumption DEF Start
    <3> QED BY <2>1, <3>1, <3>2, <3>3
  <2> QED BY <1>1, <2>1, <2>2
<1>2. CASE next # Start(expected)
  <2>1. PICK e \in shown : e \in Events /\ next = Place(e) + 1 /\ expected = e[2] + 1
    BY <1>2 DEF Ends
  <2>2. /\ e[2] \in Nat /\ Start(e[2]) \in Nat /\ Place(e) \in Nat /\ Start(expected) \in Nat
        /\ Start(e[2]) <= Place(e) /\ Place(e) < Start(expected)
    BY <2>1, EventFacts, StartFacts
  <2>3. ASSUME NEW m \in Nat, next <= Start(m)
        PROVE  expected <= m
    <3>1. Start(e[2]) < Start(m) /\ Start(m) \in Nat
      BY <2>1, <2>2, <2>3, StartFacts
    <3> QED BY <2>1, <2>2, <3>1, StartFacts
  <2> QED BY <2>1, <2>2, <2>3
<1> QED BY <1>1, <1>2

-----------------------------------------------------------------------------
(* Pages.                                                                  *)

(* A full page ends at its last event; one that is not full holds all its  *)
(* range has.                                                              *)
LEMMA PageWhole ==
  ASSUME NEW g \in Guards, NEW from \in Nat \cup {None}, NEW h \in Nat
  PROVE  LET page == Page(g, from, h)
         IN /\ page.rows \subseteq Events
            /\ page.first \in Nat /\ page.next \in Nat /\ page.expected \in Nat
            /\ \A e \in Events :
                 e[1] = g /\ page.first <= Place(e) /\ Place(e) < page.next => e \in page.rows
            /\ page.first = IF from = None THEN Start(h) ELSE Maximum(from, Start(Oldest(h)))
            /\ Ends(g, page.next, page.expected, page.rows)
<1> DEFINE first == IF from = None THEN Start(h) ELSE Maximum(from, Start(Oldest(h)))
           open == {e \in Events : e[1] = g /\ Place(e) >= first /\ e[2] <= h}
           upto(n) == {d \in open : Place(d) <= n}
           rows == {e \in open : Cardinality(upto(Place(e))) <= Limit}
           last == CHOOSE e \in rows : \A d \in rows : Place(d) <= Place(e)
           page == Page(g, from, h)
<1>1. /\ Start(h) \in Nat /\ Start(h + 1) \in Nat /\ Start(Oldest(h)) \in Nat
      /\ first \in Nat /\ Limit \in Nat \ {0} /\ IsFiniteSet(Events)
  <2>1. Oldest(h) \in Nat /\ h + 1 \in Nat
    BY FeedAssumption DEF Oldest
  <2>2. Start(h) \in Nat /\ Start(h + 1) \in Nat /\ Start(Oldest(h)) \in Nat
    BY <2>1, StartFacts
  <2> QED BY <2>2, FeedAssumption DEF Maximum
<1>2. /\ \A e \in open : e \in Events /\ e[1] = g /\ e[2] \in Nat
      /\ \A e \in open : Place(e) \in Nat /\ Place(e) < Start(h + 1)
      /\ rows \subseteq open /\ rows \subseteq Events
  <2>1. ASSUME NEW e \in open
        PROVE  e[2] \in Nat /\ Place(e) \in Nat /\ Place(e) < Start(h + 1)
    <3>1. /\ e \in Events /\ e[2] <= h /\ e[2] \in Nat /\ Place(e) \in Nat
          /\ Place(e) < Start(e[2] + 1)
      BY EventFacts
    <3>2. Start(e[2] + 1) <= Start(h + 1) /\ Start(e[2] + 1) \in Nat
      BY <3>1, StartFacts
    <3> QED BY <1>1, <3>1, <3>2
  <2> QED BY <2>1
<1>3. IsFiniteSet(open)
  BY <1>1, FS_Subset
<1>4. \A s \in SUBSET open : IsFiniteSet(s) /\ Cardinality(s) \in Nat
                             /\ \A u \in SUBSET s : Cardinality(u) <= Cardinality(s)
  BY <1>3, FS_Subset, FS_CardinalityType
<1>5. /\ page.rows = rows /\ page.first = first
      /\ page.next = IF Cardinality(rows) = Limit THEN Place(last) + 1 ELSE Start(h + 1)
      /\ page.expected = IF Cardinality(rows) = Limit THEN last[2] + 1 ELSE h + 1
  BY DEF Page
<1> HIDE DEF page, first
<1>0. SUFFICES /\ page.next \in Nat /\ page.expected \in Nat
               /\ \A e \in Events :
                    e[1] = g /\ first <= Place(e) /\ Place(e) < page.next => e \in rows
               /\ Ends(g, page.next, page.expected, rows)
  BY <1>1, <1>2, <1>5 DEF first, page
<1>6. ASSUME rows # {}
      PROVE  \E m \in rows : (\A e \in rows : Place(e) <= Place(m)) /\ Cardinality(rows) <= Limit
  <2> DEFINE places == {Place(e) : e \in rows}
  <2>0. \A e \in rows : Place(e) \in Nat /\ Place(e) <= Start(h + 1)
    BY <1>1, <1>2
  <2>1. places \subseteq Nat /\ places # {} /\ \A k \in places : k <= Start(h + 1)
    <3> HIDE DEF rows
    <3> QED BY <1>6, <2>0
  <2>2. PICK top \in places : \A k \in places : k <= top
    BY <1>1, <2>1, GreatestNumber
  <2>3. PICK m \in rows : top = Place(m)
    OBVIOUS
  <2>4. \A e \in rows : Place(e) <= Place(m)
    BY <2>2, <2>3
  <2>5. rows \in SUBSET upto(Place(m)) /\ upto(Place(m)) \in SUBSET open
    BY <2>4
  <2>6. Cardinality(rows) <= Cardinality(upto(Place(m))) /\ Cardinality(upto(Place(m))) <= Limit
    BY <1>4, <2>3, <2>5
  <2>7. Cardinality(rows) \in Nat /\ Cardinality(upto(Place(m))) \in Nat
    BY <1>4, <2>5
  <2>8. Limit \in Int /\ Cardinality(rows) <= Limit
    BY <1>1, <2>6, <2>7
  <2> QED BY <2>3, <2>4, <2>8
<1>7. CASE Cardinality(rows) = Limit
  <2>1. rows # {}
    BY <1>1, <1>7, FS_EmptySet
  <2>2. PICK m \in rows : \A e \in rows : Place(e) <= Place(m)
    BY <1>6, <2>1
  <2>3. last \in rows /\ \A e \in rows : Place(e) <= Place(last)
    BY <2>2
  <2> HIDE DEF last
  <2>4. /\ page.next = Place(last) + 1 /\ page.expected = last[2] + 1
        /\ last \in open /\ last \in Events /\ last[1] = g
        /\ Place(last) \in Nat /\ last[2] \in Nat /\ last[2] <= h
    BY <1>2, <1>5, <1>7, <2>3 DEF last
  <2>5. ASSUME NEW e \in Events, e[1] = g, first <= Place(e), Place(e) < page.next
        PROVE  e \in rows
    <3>1. Place(e) <= Place(last) /\ Place(e) \in Nat
      BY <2>4, <2>5, EventFacts
    <3>2. e[2] <= h
      <4>1. /\ e[2] \in Nat /\ Start(e[2]) <= Place(e) /\ Place(last) < Start(last[2] + 1)
        BY <2>4, EventFacts
      <4>2. Start(e[2]) \in Nat /\ Start(last[2] + 1) \in Nat /\ last[2] + 1 \in Nat
        BY <2>4, <4>1, StartFacts
      <4>3. Start(e[2]) < Start(last[2] + 1)
        BY <2>4, <3>1, <4>1, <4>2
      <4>4. e[2] < last[2] + 1
        BY <4>1, <4>2, <4>3, StartFacts
      <4> QED BY <2>4, <4>1, <4>4
    <3>3. e \in open
      BY <1>1, <2>5, <3>1, <3>2
    <3>4. upto(Place(e)) \in SUBSET upto(Place(last)) /\ upto(Place(last)) \in SUBSET open
      BY <1>2, <2>4, <3>1
    <3>5. Cardinality(upto(Place(e))) <= Cardinality(upto(Place(last)))
          /\ Cardinality(upto(Place(last))) <= Limit
      BY <1>4, <2>3, <3>4
    <3>6. Cardinality(upto(Place(e))) \in Nat /\ Cardinality(upto(Place(last))) \in Nat
      BY <1>4, <3>4
    <3> QED BY <1>1, <3>3, <3>5, <3>6
  <2> HIDE DEF rows, open, upto
  <2> QED BY <2>3, <2>4, <2>5 DEF Ends
<1>8. CASE Cardinality(rows) # Limit
  <2>1. ASSUME NEW o \in open \ rows
        PROVE  FALSE
    <3> DEFINE missed == {Place(e) : e \in open \ rows}
    <3>1. missed \subseteq Nat /\ missed # {}
      <4>1. \A e \in open \ rows : Place(e) \in Nat
        BY <1>2
      <4> QED BY <2>1, <4>1
    <3>2. PICK low \in missed : \A k \in missed : low <= k
      BY <3>1, LeastNumber
    <3>3. PICK m \in open \ rows : low = Place(m)
      OBVIOUS
    <3> DEFINE lower == {d \in open : Place(d) < Place(m)}
    <3>4. lower \in SUBSET rows /\ lower \in SUBSET open /\ rows \in SUBSET open
      <4>1. \A d \in open \ rows : low <= Place(d)
        BY <3>2
      <4> QED BY <1>2, <3>3, <4>1
    <3>5. upto(Place(m)) = lower \cup {m} /\ m \notin lower
      <4>1. \A d \in open : Place(d) = Place(m) => d = m
        BY <1>2, <3>3, OnePlace
      <4> QED BY <1>2, <3>3, <4>1
    <3>6. Cardinality(upto(Place(m))) = Cardinality(lower) + 1
      BY <1>4, <3>4, <3>5, FS_AddElement
    <3>7. Cardinality(lower) <= Cardinality(rows) /\ Cardinality(lower) \in Nat
          /\ Cardinality(rows) \in Nat
      BY <1>4, <3>4
    <3>8. ~(Cardinality(upto(Place(m))) <= Limit)
      BY <3>3
    <3>9. Cardinality(rows) <= Limit
      <4> HIDE DEF rows
      <4>1. CASE rows = {}
        BY <1>1, <4>1, FS_EmptySet
      <4>2. CASE rows # {}
        BY <1>6, <4>2
      <4> QED BY <4>1, <4>2
    <3> HIDE DEF rows, lower, upto
    <3> QED BY <1>1, <1>8, <3>6, <3>7, <3>8, <3>9
  <2>2. page.next = Start(h + 1) /\ page.expected = h + 1
    BY <1>5, <1>8
  <2>3. ASSUME NEW e \in Events, e[1] = g, first <= Place(e), Place(e) < Start(h + 1)
        PROVE  e \in open
    <3>1. e[2] \in Nat /\ Start(e[2]) <= Place(e) /\ Place(e) \in Nat /\ Start(e[2]) \in Nat
          /\ h + 1 \in Nat
      BY EventFacts, StartFacts
    <3>2. e[2] < h + 1
      <4>1. Start(e[2]) < Start(h + 1)
        BY <1>1, <2>3, <3>1
      <4> QED BY <3>1, <4>1, StartFacts
    <3> QED BY <1>1, <2>3, <3>1, <3>2
  <2> HIDE DEF rows, open, upto
  <2> QED BY <1>1, <2>1, <2>2, <2>3 DEF Ends
<1> QED BY <1>7, <1>8

(* A list of notices grows until it is full, and then lets the oldest go.  *)
LEMMA RecordedFacts ==
  ASSUME NEW lost \in Seq(Nat \X Nat), Len(lost) <= GapLimit, NEW gap \in Nat \X Nat
  PROVE  LET now == Recorded(lost, gap)
         IN /\ now \in Seq(Nat \X Nat) /\ Len(now) <= GapLimit
            /\ Len(lost) = GapLimit => Len(now) = GapLimit
            /\ \/ Len(now) = GapLimit
               \/ Noticed(lost) \cup (gap[1]..gap[2]) \subseteq Noticed(now)
<1> DEFINE now == Recorded(lost, gap)
<1>1. GapLimit \in Nat \ {0} /\ Len(lost) \in Nat
  BY FeedAssumption
<1>2. CASE gap \in ToSet(lost)
  <2>1. now = lost
    BY <1>2 DEF Recorded
  <2>2. PICK k \in DOMAIN lost : gap = lost[k]
    BY <1>2 DEF ToSet
  <2>3. gap[1]..gap[2] \subseteq Noticed(lost)
    BY <2>2 DEF Noticed
  <2> QED BY <2>1, <2>3
<1>3. CASE gap \notin ToSet(lost) /\ Len(lost) < GapLimit
  <2>1. now = Append(lost, gap)
    BY <1>3 DEF Recorded
  <2>2. now \in Seq(Nat \X Nat) /\ Len(now) = Len(lost) + 1 /\ now[Len(lost) + 1] = gap
        /\ \A k \in DOMAIN lost : k \in DOMAIN now /\ now[k] = lost[k]
    BY <2>1
  <2>3. Len(lost) + 1 \in DOMAIN now
    BY <1>1, <2>2
  <2> HIDE DEF now
  <2>4. Noticed(lost) \cup (gap[1]..gap[2]) \subseteq Noticed(now)
    <3>1. \A k \in DOMAIN now : now[k][1]..now[k][2] \subseteq Noticed(now)
      BY DEF Noticed
    <3>2. gap[1]..gap[2] \subseteq Noticed(now)
      BY <2>2, <2>3, <3>1
    <3>3. \A k \in DOMAIN lost : lost[k][1]..lost[k][2] \subseteq Noticed(now)
      BY <2>2, <3>1
    <3>4. Noticed(lost) \subseteq Noticed(now)
      BY <3>3 DEF Noticed
    <3> QED BY <3>2, <3>4
  <2> QED BY <1>1, <1>3, <2>2, <2>4 DEF now
<1>4. CASE gap \notin ToSet(lost) /\ ~(Len(lost) < GapLimit)
  <2>1. now = Append(Tail(lost), gap)
    BY <1>4 DEF Recorded
  <2>2. Len(lost) = GapLimit /\ lost # <<>>
    BY <1>1, <1>4
  <2>3. Tail(lost) \in Seq(Nat \X Nat) /\ Len(Tail(lost)) = GapLimit - 1
    BY <1>1, <2>2
  <2>4. now \in Seq(Nat \X Nat) /\ Len(now) = GapLimit
    BY <1>1, <2>1, <2>3
  <2> QED BY <1>1, <2>4
<1> QED BY <1>2, <1>3, <1>4

(* What one answer does to its feed: it goes forward and is the same feed. *)
Moves(feed, moved) ==
  /\ moved \in Feed /\ moved.guard = feed.guard
  /\ moved.stopped = feed.stopped /\ moved.overrun = feed.overrun
  /\ feed.stopped => moved = feed
  /\ feed.next # None =>
       moved.next # None /\ feed.next <= moved.next /\ moved.base = feed.base
  /\ (feed.base = None <=> feed.next = None) => (moved.base = None <=> moved.next = None)
  /\ Tidy(moved)

LEMMA AdvancedMoves ==
  ASSUME NEW feed \in Feed, Tidy(feed), NEW from \in Nat \cup {None}, NEW h \in Nat
  PROVE  Moves(feed, Advanced(feed, from, Page(feed.guard, from, h), h))
<1> DEFINE page == Page(feed.guard, from, h)
           moved == Advanced(feed, from, page, h)
<1>1. /\ feed.guard \in Guards /\ feed.next \in Nat \cup {None} /\ feed.base \in Nat \cup {None}
      /\ feed.expected \in Nat \cup {None} /\ feed.lost \in Seq(Nat \X Nat)
      /\ feed.dropped \in SUBSET Nat /\ feed.cut \in SUBSET Nat /\ feed.jumped \in SUBSET Nat
      /\ feed.regressed \in BOOLEAN /\ feed.stopped \in BOOLEAN /\ feed.overrun \in BOOLEAN
  BY DEF Feed
<1>2. page.first \in Nat /\ page.next \in Nat /\ page.expected \in Nat
  BY <1>1, PageWhole
<1>3. None \notin Nat /\ Oldest(h) \in Nat /\ Oldest(h) >= 1
  BY FeedAssumption DEF Oldest
<1> HIDE DEF page
<1>4. CASE feed.stopped
  <2>1. moved = feed
    BY <1>4 DEF Advanced
  <2>2. feed.next # None => feed.next <= moved.next
    BY <1>1, <2>1
  <2> HIDE DEF moved
  <2> QED BY <1>1, <1>4, <2>1, <2>2 DEF page, moved, Moves
<1>5. CASE ~feed.stopped
  <2> DEFINE begun == feed.next # None
             back == begun /\ page.next < feed.next
             pruned == IF begun THEN feed.expected..(Oldest(h) - 1) ELSE {}
             lost == IF pruned = {} THEN feed.lost
                     ELSE Recorded(feed.lost, <<feed.expected, Oldest(h) - 1>>)
             silent == IF ~begun THEN {}
                       ELSE {p \in feed.next..(page.first - 1) :
                               p < Start(feed.expected) \/ p >= Start(Oldest(h))}
             next == IF back THEN feed.next ELSE page.next
             expected == IF begun THEN Maximum(feed.expected, page.expected) ELSE page.expected
             base == IF begun THEN feed.base ELSE page.first
             dropped == feed.dropped \cup ((Noticed(feed.lost) \cup pruned) \ Noticed(lost))
             cut == IF from = None THEN feed.cut ELSE feed.cut \cup silent
             jumped == IF from = None THEN feed.jumped \cup silent ELSE feed.jumped
  <2>1. moved = [guard |-> feed.guard, next |-> next, expected |-> expected, base |-> base,
                 lost |-> lost, dropped |-> dropped, cut |-> cut, jumped |-> jumped,
                 regressed |-> back, stopped |-> FALSE, overrun |-> feed.overrun]
    BY <1>5 DEF Advanced
  <2>2. begun => feed.expected \in Nat /\ feed.next \in Nat
    BY <1>1, <1>3 DEF Tidy
  <2>3. /\ lost \in Seq(Nat \X Nat) /\ Len(lost) <= GapLimit
        /\ feed.dropped # {} => Len(lost) = GapLimit
        /\ Len(lost) = GapLimit \/ Noticed(feed.lost) \cup pruned \subseteq Noticed(lost)
    <3>1. Len(feed.lost) <= GapLimit /\ (feed.dropped # {} => Len(feed.lost) = GapLimit)
      BY DEF Tidy
    <3>2. CASE pruned = {}
      <4>1. lost = feed.lost
        BY <3>2
      <4> HIDE DEF lost
      <4> QED BY <1>1, <3>1, <3>2, <4>1
    <3>3. CASE pruned # {}
      <4> DEFINE gap == <<feed.expected, Oldest(h) - 1>>
      <4>1. begun /\ lost = Recorded(feed.lost, gap)
        BY <3>3
      <4>2. gap \in Nat \X Nat /\ pruned = gap[1]..gap[2]
        BY <1>3, <2>2, <4>1
      <4> HIDE DEF lost, gap, pruned
      <4> QED BY <1>1, <3>1, <4>1, <4>2, RecordedFacts
    <3> QED BY <3>2, <3>3
  <2>4. pruned \subseteq Nat /\ silent \subseteq Nat
    BY <1>2, <1>3, <2>2
  <2>5. Noticed(feed.lost) \subseteq Nat
    <3>1. \A k \in DOMAIN feed.lost : feed.lost[k] \in Nat \X Nat
      BY <1>1
    <3>2. \A k \in DOMAIN feed.lost : feed.lost[k][1] \in Nat /\ feed.lost[k][2] \in Nat
      BY <3>1
    <3>3. \A k \in DOMAIN feed.lost : feed.lost[k][1]..feed.lost[k][2] \subseteq Nat
      BY <3>2
    <3> QED BY <3>3 DEF Noticed
  <2>6. next \in Nat /\ expected \in Nat /\ base \in Nat \cup {None} /\ back \in BOOLEAN
        /\ (begun => feed.next <= next /\ base = feed.base) /\ (~begun => base \in Nat)
    BY <1>1, <1>2, <2>2 DEF Maximum
  <2>7. dropped \in SUBSET Nat /\ cut \in SUBSET Nat /\ jumped \in SUBSET Nat
    <3> HIDE DEF pruned, lost, silent
    <3> QED BY <1>1, <2>4, <2>5
  <2>8. dropped # {} => Len(lost) = GapLimit
    <3> HIDE DEF pruned, lost
    <3> QED BY <2>3
  <2> HIDE DEF moved, next, expected, base, lost, dropped, cut, jumped, back, pruned, silent
  <2>9. moved \in Feed
    <3>1. FALSE \in BOOLEAN /\ next \in Nat \cup {None} /\ expected \in Nat \cup {None}
      BY <2>6
    <3> QED BY <1>1, <2>1, <2>3, <2>6, <2>7, <3>1, Zenon DEF Feed
  <2>10. /\ moved.next = next /\ moved.base = base /\ moved.expected = expected
         /\ moved.lost = lost /\ moved.dropped = dropped
         /\ moved.guard = feed.guard /\ moved.overrun = feed.overrun /\ moved.stopped = FALSE
    BY <2>1
  <2>11. Tidy(moved)
    BY <1>3, <2>3, <2>6, <2>8, <2>10 DEF Tidy
  <2> QED BY <1>1, <1>3, <1>5, <2>6, <2>9, <2>10, <2>11 DEF page, moved, Moves
<1> QED BY <1>1, <1>4, <1>5

(* What the answer of a feed's own question passes is in the page or told, *)
(* or is the rest of a ledger a full page ended in, or was jumped.         *)
LEMMA AdvancedComplete ==
  ASSUME NEW feed \in Feed, Tidy(feed), ~feed.stopped,
         NEW from \in Nat \cup {None}, NEW h \in Nat,
         from # None => feed.next # None /\ from <= feed.next,
         NEW shown, feed.next # None => Complete(feed, shown), feed.next # None => feed.base # None,
         NEW more, shown \subseteq more, Page(feed.guard, from, h).rows \subseteq more
  PROVE  Complete(Advanced(feed, from, Page(feed.guard, from, h), h), more)
<1> DEFINE page == Page(feed.guard, from, h)
           moved == Advanced(feed, from, page, h)
<1>1. /\ feed.guard \in Guards /\ feed.next \in Nat \cup {None} /\ feed.base \in Nat \cup {None}
      /\ feed.expected \in Nat \cup {None} /\ feed.cut \in SUBSET Nat
  BY DEF Feed
<1>2. /\ page.first \in Nat /\ page.next \in Nat /\ page.expected \in Nat
      /\ \A e \in Events :
           e[1] = feed.guard /\ page.first <= Place(e) /\ Place(e) < page.next => e \in more
      /\ page.first = IF from = None THEN Start(h) ELSE Maximum(from, Start(Oldest(h)))
      /\ Ends(feed.guard, page.next, page.expected, more)
  <2>1. /\ page.first \in Nat /\ page.next \in Nat /\ page.expected \in Nat
        /\ \A e \in Events :
             e[1] = feed.guard /\ page.first <= Place(e) /\ Place(e) < page.next => e \in page.rows
        /\ page.first = IF from = None THEN Start(h) ELSE Maximum(from, Start(Oldest(h)))
        /\ Ends(feed.guard, page.next, page.expected, page.rows)
    BY <1>1, PageWhole
  <2>2. page.rows \subseteq more
    OBVIOUS
  <2> HIDE DEF page
  <2>3. Ends(feed.guard, page.next, page.expected, more)
    BY <2>1, <2>2 DEF Ends
  <2> QED BY <2>1, <2>2, <2>3
<1>3. None \notin Nat /\ Oldest(h) \in Nat /\ Start(Oldest(h)) \in Nat
  BY FeedAssumption, StartFacts DEF Oldest
<1> HIDE DEF page
<1> DEFINE begun == feed.next # None
           back == begun /\ page.next < feed.next
           pruned == IF begun THEN feed.expected..(Oldest(h) - 1) ELSE {}
           lost == IF pruned = {} THEN feed.lost
                   ELSE Recorded(feed.lost, <<feed.expected, Oldest(h) - 1>>)
           silent == IF ~begun THEN {}
                     ELSE {p \in feed.next..(page.first - 1) :
                             p < Start(feed.expected) \/ p >= Start(Oldest(h))}
<1>4. /\ moved.guard = feed.guard
      /\ moved.next = IF back THEN feed.next ELSE page.next
      /\ moved.expected = IF begun THEN Maximum(feed.expected, page.expected) ELSE page.expected
      /\ moved.base = IF begun THEN feed.base ELSE page.first
      /\ moved.lost = lost
      /\ moved.dropped = feed.dropped \cup ((Noticed(feed.lost) \cup pruned) \ Noticed(lost))
      /\ moved.cut = IF from = None THEN feed.cut ELSE feed.cut \cup silent
      /\ moved.jumped = IF from = None THEN feed.jumped \cup silent ELSE feed.jumped
  BY DEF Advanced
<1>5. /\ Noticed(feed.lost) \cup feed.dropped \cup pruned \subseteq Noticed(moved.lost) \cup moved.dropped
      /\ feed.cut \cup feed.jumped \cup silent \subseteq moved.cut \cup moved.jumped
  <2> HIDE DEF moved, lost, pruned, silent
  <2> QED BY <1>4
<1> HIDE DEF moved, lost
<1>6. begun => /\ feed.next \in Nat /\ feed.expected \in Nat /\ feed.base \in Nat
               /\ Complete(feed, shown) /\ Start(feed.expected) \in Nat
               /\ Ends(feed.guard, feed.next, feed.expected, more)
  BY <1>1, <1>3, StartFacts DEF Tidy, Complete, Ends
<1>7. ASSUME NEW e \in Passed(moved)
      PROVE  e \in more \/ Told(moved, e) \/ Unread(moved, e)
  <2>1. /\ e \in Events /\ e[1] = feed.guard /\ moved.base <= Place(e) /\ Place(e) < moved.next
        /\ Place(e) \in Nat /\ e[2] \in Nat
    BY <1>4, EventFacts DEF Passed
  <2>2. CASE ~begun
    BY <1>2, <1>4, <2>1, <2>2
  <2>3. CASE begun /\ Place(e) < feed.next
    <3>1. e \in Passed(feed)
      BY <1>4, <2>1, <2>3 DEF Passed
    <3>2. e \in shown \/ Told(feed, e) \/ Unread(feed, e)
      BY <1>6, <2>3, <3>1 DEF Complete
    <3> QED BY <1>5, <3>2 DEF Told, Unread
  <2>4. CASE begun /\ Place(e) >= feed.next
    <3>1. Place(e) < page.next
      BY <1>2, <1>4, <1>6, <2>1, <2>4
    <3>2. CASE page.first <= Place(e)
      BY <1>2, <2>1, <3>1, <3>2
    <3>3. CASE ~(page.first <= Place(e))
      <4>1. Place(e) \in feed.next..(page.first - 1)
        BY <1>2, <1>6, <2>1, <2>4, <3>3
      <4>2. CASE Place(e) < Start(feed.expected) \/ Place(e) >= Start(Oldest(h))
        <5>1. Place(e) \in silent
          BY <2>4, <4>1, <4>2
        <5> QED BY <1>5, <5>1 DEF Unread
      <4>3. CASE ~(Place(e) < Start(feed.expected) \/ Place(e) >= Start(Oldest(h)))
        <5>1. /\ Start(feed.expected) <= Place(e) /\ Place(e) < Start(Oldest(h))
              /\ Start(e[2]) <= Place(e) /\ Place(e) < Start(e[2] + 1)
          BY <1>3, <1>6, <2>1, <2>4, <4>3, EventFacts
        <5>2. /\ Start(e[2]) \in Nat /\ Start(e[2] + 1) \in Nat /\ e[2] + 1 \in Nat
              /\ Start(feed.expected) \in Nat /\ feed.expected \in Nat
          BY <1>6, <2>1, <2>4, StartFacts
        <5>3. Start(feed.expected) < Start(e[2] + 1) /\ Start(e[2]) < Start(Oldest(h))
          BY <1>3, <2>1, <5>1, <5>2
        <5>4. feed.expected < e[2] + 1 /\ e[2] < Oldest(h)
          BY <1>3, <2>1, <5>2, <5>3, StartFacts
        <5>5. e[2] \in pruned
          BY <1>3, <2>1, <2>4, <5>2, <5>4
        <5> QED BY <1>5, <5>5 DEF Told
      <4> QED BY <4>2, <4>3
    <3> QED BY <3>2, <3>3
  <2> QED BY <1>6, <2>1, <2>2, <2>3, <2>4
<1>8. ASSUME NEW p \in moved.cut
      PROVE  \E e \in more : e[1] = moved.guard /\ Place(e) < p /\ p < Start(e[2] + 1)
  <2>1. CASE p \in feed.cut
    <3>1. begun
      BY <2>1 DEF Tidy
    <3> QED BY <1>4, <1>6, <2>1, <3>1 DEF Complete
  <2>2. CASE p \notin feed.cut
    <3>1. from # None /\ begun /\ p \in silent
      BY <1>4, <1>8, <2>2
    <3>2. /\ p \in feed.next..(page.first - 1) /\ from \in Nat /\ from <= feed.next
          /\ p < Start(feed.expected) \/ p >= Start(Oldest(h))
          /\ page.first = Maximum(from, Start(Oldest(h)))
      BY <1>2, <3>1
    <3>3. p \in Nat /\ feed.next <= p /\ p < Start(feed.expected)
      BY <1>2, <1>3, <1>6, <3>1, <3>2 DEF Maximum
    <3>4. feed.next # Start(feed.expected)
      BY <1>6, <3>1, <3>3
    <3>5. PICK e \in more : /\ e \in Events /\ e[1] = feed.guard
                            /\ feed.next = Place(e) + 1 /\ feed.expected = e[2] + 1
      BY <1>6, <3>1, <3>4 DEF Ends
    <3>6. Place(e) \in Nat
      BY <3>5, EventFacts
    <3> QED BY <1>4, <3>3, <3>5, <3>6
  <2> QED BY <2>1, <2>2
<1>9. Ends(moved.guard, moved.next, moved.expected, more)
  <2>1. CASE ~begun
    BY <1>2, <1>4, <2>1
  <2>2. CASE begun
    <3>1. /\ feed.next <= Start(feed.expected)
          /\ \A m \in Nat : feed.next <= Start(m) => feed.expected <= m
      BY <1>6, <2>2, EndsFacts
    <3>2. /\ page.next <= Start(page.expected) /\ Start(page.expected) \in Nat
          /\ \A m \in Nat : page.next <= Start(m) => page.expected <= m
      BY <1>2, EndsFacts, StartFacts
    <3>3. CASE back
      <4>1. page.expected <= feed.expected
        BY <1>2, <1>6, <2>2, <3>1, <3>2, <3>3
      <4>2. moved.expected = feed.expected /\ moved.next = feed.next
        BY <1>2, <1>4, <1>6, <2>2, <3>3, <4>1 DEF Maximum
      <4> QED BY <1>4, <1>6, <2>2, <4>2
    <3>4. CASE ~back
      <4>1. feed.expected <= page.expected
        BY <1>2, <1>6, <2>2, <3>1, <3>2, <3>4
      <4>2. moved.expected = page.expected /\ moved.next = page.next
        BY <1>2, <1>4, <1>6, <2>2, <3>4, <4>1 DEF Maximum
      <4> QED BY <1>2, <1>4, <4>2
    <3> QED BY <3>3, <3>4
  <2> QED BY <2>1, <2>2
<1> QED BY <1>7, <1>8, <1>9 DEF Complete, moved, page

LEMMA CompleteMore ==
  ASSUME NEW feed, NEW shown, NEW more, shown \subseteq more, Complete(feed, shown)
  PROVE  Complete(feed, more)
BY DEF Complete, Ends

-----------------------------------------------------------------------------
(* Feeds nothing refers to go.                                             *)
LEMMA Referencing ==
  ASSUME NEW co \in Feeds \cup {None}, NEW run \in [Guards -> Feeds \cup {None}],
         NEW rs \in Seq(Round), NEW lt \in SUBSET Poll
  PROVE  /\ Referenced(co, run, rs, lt) \subseteq Feeds /\ Tailed(run) \subseteq Feeds
         /\ Polls(rs, lt) \subseteq Poll
         /\ \A g \in Guards : run[g] # None => run[g] \in Referenced(co, run, rs, lt) /\ run[g] \in Tailed(run)
         /\ co # None => co \in Referenced(co, run, rs, lt)
         /\ \A p \in Polls(rs, lt) : p.feed \in Referenced(co, run, rs, lt)
         /\ \A i \in DOMAIN rs : rs[i] \in Round /\ rs[i].visited \subseteq Referenced(co, run, rs, lt)
                                 /\ rs[i].poll \in Poll /\ rs[i].poll \in Polls(rs, lt)
<1>1. \A i \in DOMAIN rs : rs[i] \in Round /\ rs[i].visited \subseteq Feeds
                           /\ rs[i].poll \in Poll /\ rs[i] \in ToSet(rs)
  <2>1. \A i \in DOMAIN rs : rs[i] \in Round /\ rs[i] \in ToSet(rs)
    BY DEF ToSet
  <2>2. \A r \in Round : r.visited \subseteq Feeds /\ r.poll \in Poll
    BY DEF Round
  <2> QED BY <2>1, <2>2
<1>2. \A p \in Poll : p.feed \in Feeds
  BY DEF Poll
<1>3. \A r \in ToSet(rs) : \E i \in DOMAIN rs : r = rs[i]
  BY DEF ToSet
<1>4. Tailed(run) \subseteq Feeds /\ \A g \in Guards : run[g] # None => run[g] \in Tailed(run)
  BY DEF Tailed
<1> DEFINE mine == UNION {{r.poll.feed} \cup r.visited : r \in ToSet(rs)}
<1>5. mine \subseteq Feeds
      /\ \A i \in DOMAIN rs : rs[i].poll.feed \in mine /\ rs[i].visited \subseteq mine
  <2>1. \A r \in ToSet(rs) : {r.poll.feed} \cup r.visited \subseteq Feeds
    BY <1>1, <1>2, <1>3
  <2> QED BY <1>1, <2>1
<1>6. Referenced(co, run, rs, lt) = Tailed(run) \cup ({co} \ {None}) \cup {p.feed : p \in lt} \cup mine
  BY DEF Referenced
<1>7. /\ Polls(rs, lt) \subseteq Poll /\ \A i \in DOMAIN rs : rs[i].poll \in Polls(rs, lt)
      /\ \A p \in Polls(rs, lt) : p \in lt \/ \E i \in DOMAIN rs : p = rs[i].poll
  BY <1>1 DEF Polls
<1> HIDE DEF mine
<1>8. {p.feed : p \in lt} \subseteq Feeds /\ \A p \in lt : p.feed \in {q.feed : q \in lt}
  BY <1>2
<1>9. \A p \in Polls(rs, lt) : p.feed \in Referenced(co, run, rs, lt)
  BY <1>5, <1>6, <1>7, <1>8
<1> QED BY <1>1, <1>4, <1>5, <1>6, <1>7, <1>8, <1>9

LEMMA ReferencedBy ==
  ASSUME NEW co, NEW run, NEW rs, NEW lt, NEW f
  PROVE  f \in Referenced(co, run, rs, lt) <=>
           \/ f \in Tailed(run)
           \/ f = co /\ co # None
           \/ \E p \in lt : f = p.feed
           \/ \E i \in DOMAIN rs : f = rs[i].poll.feed \/ f \in rs[i].visited
<1>1. \A r : r \in ToSet(rs) <=> \E i \in DOMAIN rs : r = rs[i]
  BY DEF ToSet
<1> DEFINE mine == UNION {{r.poll.feed} \cup r.visited : r \in ToSet(rs)}
<1>2. f \in mine <=> \E i \in DOMAIN rs : f = rs[i].poll.feed \/ f \in rs[i].visited
  BY <1>1
<1>3. f \in {p.feed : p \in lt} <=> \E p \in lt : f = p.feed
  OBVIOUS
<1> HIDE DEF mine
<1>4. Referenced(co, run, rs, lt) = Tailed(run) \cup ({co} \ {None}) \cup {p.feed : p \in lt} \cup mine
  BY DEF Referenced, mine
<1> QED BY <1>2, <1>3, <1>4

LEMMA CollectedRight ==
  ASSUME NEW co \in Feeds \cup {None}, NEW run \in [Guards -> Feeds \cup {None}],
         NEW rs \in Seq(Round), NEW lt \in SUBSET Poll, NEW psh, NEW tick, NEW fs,
         FeedsRight(fs, co, run, rs, lt, psh, tick)
  PROVE  FeedsRight(Collected(fs, co, run, rs, lt), co, run, rs, lt, psh, tick)
<1> DEFINE left == Collected(fs, co, run, rs, lt)
           ref == Referenced(co, run, rs, lt)
<1>1. /\ fs \in [Feeds -> Feed \cup {None}]
      /\ ref \subseteq Feeds
      /\ left \in [Feeds -> Feed \cup {None}]
      /\ \A f \in ref : left[f] = fs[f]
      /\ \A f \in Feeds : left[f] # None => left[f] = fs[f]
  BY Referencing DEF FeedsRight, Collected
<1>2. /\ \A g \in Guards : run[g] # None => run[g] \in ref
      /\ \A p \in Polls(rs, lt) : p.feed \in ref
      /\ lt \subseteq Polls(rs, lt)
  BY Referencing DEF Polls
<1> HIDE DEF left, ref
<1>3. Held(left, co, run, rs, lt)
  BY <1>1 DEF FeedsRight, Held, ref
<1>4. OwnFeeds(left, run)
  BY <1>1, <1>2 DEF FeedsRight, OwnFeeds
<1>5. Asked(left, run, Polls(rs, lt)) /\ Overdue(left, lt)
  BY <1>1, <1>2 DEF FeedsRight, Asked, Overdue
<1>6. Settled(left, run)
  BY <1>1 DEF FeedsRight, Settled
<1>7. tick => Accounted(left, run, Got(rs), psh)
  BY <1>1, <1>2 DEF FeedsRight, Accounted
<1> QED BY <1>1, <1>3, <1>4, <1>5, <1>6, <1>7 DEF FeedsRight, left

LEMMA RemovedAt ==
  ASSUME NEW rs \in Seq(Round), NEW i \in DOMAIN rs
  PROVE  LET left == RemoveAt(rs, i)
         IN /\ left \in Seq(Round) /\ Len(left) = Len(rs) - 1
            /\ \A k \in DOMAIN left : \E j \in DOMAIN rs \ {i} : left[k] = rs[j]
            /\ \A j \in DOMAIN rs \ {i} : \E k \in DOMAIN left : left[k] = rs[j]
<1> DEFINE left == RemoveAt(rs, i)
<1>1. i \in 1..Len(rs) /\ Len(rs) \in Nat
  OBVIOUS
<1>2. left = SubSeq(rs, 1, i - 1) \o SubSeq(rs, i + 1, Len(rs))
  BY DEF RemoveAt
<1> DEFINE before == SubSeq(rs, 1, i - 1)
           after == SubSeq(rs, i + 1, Len(rs))
<1>a. /\ before \in Seq(Round) /\ Len(before) = i - 1
      /\ after \in Seq(Round) /\ Len(after) = Len(rs) - i
  BY <1>1
<1>b. \A k \in 1..(i - 1) : before[k] = rs[k]
  BY <1>1
<1>c. \A k \in 1..(Len(rs) - i) : after[k] = rs[k + i]
  BY <1>1
<1> HIDE DEF left, before, after
<1>d. left = before \o after
  BY <1>2 DEF before, after
<1>e. \A k \in 1..(Len(before) + Len(after)) :
        left[k] = IF k <= Len(before) THEN before[k] ELSE after[k - Len(before)]
  <2>1. \A k \in 1..(Len(before) + Len(after)) :
          (before \o after)[k] = IF k <= Len(before) THEN before[k] ELSE after[k - Len(before)]
    <3>1. before \in Seq(Round) /\ after \in Seq(Round)
      BY <1>a
    <3> QED BY <3>1
  <2> QED BY <1>d, <2>1
<1>3. left \in Seq(Round) /\ Len(left) = Len(rs) - 1
  BY <1>1, <1>a, <1>d
<1>4. ASSUME NEW k \in 1..(Len(rs) - 1)
      PROVE  left[k] = IF k < i THEN rs[k] ELSE rs[k + 1]
  <2>1. CASE k < i
    <3>1. k \in 1..(i - 1)
      BY <1>1, <2>1
    <3>2. k \in 1..(Len(before) + Len(after)) /\ k <= Len(before)
      BY <1>1, <1>a, <3>1
    <3>3. left[k] = before[k]
      BY <1>e, <3>2
    <3> QED BY <1>b, <2>1, <3>1, <3>3
  <2>2. CASE ~(k < i)
    <3>1. k - (i - 1) \in 1..(Len(rs) - i) /\ k > i - 1 /\ k - (i - 1) + i = k + 1
      BY <1>1, <2>2
    <3>2. k \in 1..(Len(before) + Len(after)) /\ ~(k <= Len(before))
      BY <1>1, <1>a, <2>2
    <3>3. left[k] = after[k - Len(before)]
      BY <1>e, <3>2
    <3>4. left[k] = after[k - (i - 1)]
      BY <1>a, <3>3
    <3> QED BY <1>c, <2>2, <3>1, <3>4
  <2> QED BY <2>1, <2>2
<1>5. ASSUME NEW k \in DOMAIN left
      PROVE  \E j \in DOMAIN rs \ {i} : left[k] = rs[j]
  <2>1. k \in 1..(Len(rs) - 1)
    BY <1>3
  <2>2. CASE k < i
    BY <1>1, <1>4, <2>1, <2>2
  <2>3. CASE ~(k < i)
    <3>1. k + 1 \in DOMAIN rs \ {i} /\ left[k] = rs[k + 1]
      BY <1>1, <1>4, <2>1, <2>3
    <3> QED BY <3>1
  <2> QED BY <2>2, <2>3
<1>6. ASSUME NEW j \in DOMAIN rs \ {i}
      PROVE  \E k \in DOMAIN left : left[k] = rs[j]
  <2>1. j \in 1..Len(rs) /\ j # i
    BY <1>6
  <2>2. CASE j < i
    <3>1. j \in DOMAIN left /\ left[j] = rs[j]
      BY <1>1, <1>3, <1>4, <2>1, <2>2
    <3> QED BY <3>1
  <2>3. CASE ~(j < i)
    <3>1. j - 1 \in DOMAIN left /\ left[j - 1] = rs[j]
      BY <1>1, <1>3, <1>4, <2>1, <2>3
    <3> QED BY <3>1
  <2> QED BY <2>2, <2>3
<1> QED BY <1>3, <1>5, <1>6 DEF left

(* What a round hands on when its poll is over: the feeds fs and the late  *)
(* polls lt, with what it has got by then.                                 *)
HandsOn(i, r, fs, lt) ==
  /\ r \in Round /\ r.cancelled = rounds[i].cancelled
  /\ r.visited = rounds[i].visited /\ r.seen \in {0} \cup FirstHead..head
  /\ lt \subseteq late \cup {rounds[i].poll}
  /\ FeedsRight(fs, coord, runners, [rounds EXCEPT ![i] = r], lt, pushed, ticker)
  /\ \A f \in Feeds : feeds[f] # None => fs[f] # None
  /\ r.poll = rounds[i].poll

LEMMA FewerRight ==
  ASSUME NEW co, NEW run, NEW rs, NEW lt, NEW psh, NEW tick, NEW fs,
         FeedsRight(fs, co, run, rs, lt, psh, tick),
         NEW co2, NEW rs2, NEW lt2, NEW psh2, NEW tick2,
         Referenced(co2, run, rs2, lt2) \subseteq Referenced(co, run, rs, lt),
         Polls(rs2, lt2) \subseteq Polls(rs, lt), lt2 \subseteq lt,
         tick2 => tick /\ psh \cup Got(rs) \subseteq psh2 \cup Got(rs2)
  PROVE  FeedsRight(fs, co2, run, rs2, lt2, psh2, tick2)
<1>1. Held(fs, co2, run, rs2, lt2)
  BY DEF FeedsRight, Held
<1>2. Asked(fs, run, Polls(rs2, lt2)) /\ Overdue(fs, lt2)
  BY DEF FeedsRight, Asked, Overdue
<1>3. tick2 => Accounted(fs, run, Got(rs2), psh2)
  <2> SUFFICES ASSUME tick2, NEW g \in Guards, run[g] # None, fs[run[g]].next # None,
                      ~fs[run[g]].overrun, ~fs[run[g]].stopped
               PROVE  Complete(fs[run[g]], psh2 \cup Got(rs2))
    BY Zenon DEF Accounted
  <2>1. Complete(fs[run[g]], psh \cup Got(rs))
    BY DEF FeedsRight, Accounted
  <2>2. psh \cup Got(rs) \subseteq psh2 \cup Got(rs2)
    OBVIOUS
  <2> QED BY <2>1, <2>2, CompleteMore
<1> QED BY <1>1, <1>2, <1>3 DEF FeedsRight

LEMMA Continued ==
  ASSUME IInv, NEW i \in DOMAIN rounds, NEW r, NEW fs, NEW lt, HandsOn(i, r, fs, lt),
         Continue(i, r, fs, lt), UNCHANGED <<chainVars, planVars, tailVars, watching, ticker>>
  PROVE  IInv'
<1> DEFINE rs == [rounds EXCEPT ![i] = r]
<1>1. /\ Shapes /\ Heads /\ Watched
      /\ FeedsRight(fs, coord, runners, rs, lt, pushed, ticker)
      /\ r \in Round /\ r.cancelled = rounds[i].cancelled /\ r.visited = rounds[i].visited
      /\ r.poll = rounds[i].poll
      /\ r.seen \in {0} \cup FirstHead..head
      /\ lt \subseteq late \cup {rounds[i].poll}
  BY DEF IInv, HandsOn
<1>2. /\ rounds \in Seq(Round) /\ Len(rounds) <= MaxRounds /\ late \subseteq Poll
      /\ coord \in Feeds \cup {None} /\ runners \in [Guards -> Feeds \cup {None}]
      /\ pushed \subseteq Events /\ MaxRounds \in Nat /\ FirstHead \in Nat
      /\ \A j \in DOMAIN rounds : rounds[j] \in Round /\ rounds[j].poll \in Poll
                                  /\ rounds[j].poll \in Polls(rounds, late)
  BY <1>1, Referencing, FeedAssumption DEF Shapes
<1>3. /\ rs \in Seq(Round) /\ Len(rs) = Len(rounds) /\ DOMAIN rs = DOMAIN rounds
      /\ rs[i] = r /\ \A j \in DOMAIN rounds \ {i} : rs[j] = rounds[j]
      /\ lt \subseteq Poll /\ late' = lt
  <2>1. late' = lt
    BY DEF Continue
  <2>2. lt \subseteq Poll
    BY <1>1, <1>2
  <2>3. rs \in Seq(Round)
    BY <1>1, <1>2
  <2> QED BY <1>1, <1>2, <2>1, <2>2, <2>3
<1>4. /\ head' = head /\ registry' = registry /\ plan' = plan /\ watching' = watching
      /\ ticker' = ticker /\ super' = super /\ coord' = coord /\ runners' = runners
  BY DEF chainVars, planVars, tailVars
<1>5. \A j \in DOMAIN rs : /\ rs[j].seen \in {0} \cup FirstHead..head
                           /\ rs[j].poll \in Polls(rounds, late)
                           /\ ticker => ~rs[j].cancelled
  BY <1>1, <1>2, <1>3 DEF Heads, Watched
<1>6. \A p \in Polls(rs, lt) : p.since \in FirstHead..head
  <2>1. \A p \in lt : p \in Polls(rounds, late)
    BY <1>1, <1>2 DEF Polls
  <2> QED BY <1>1, <1>5, <2>1 DEF Polls, Heads
<1> HIDE DEF rs
<1>7. CASE \E f \in Unvisited(r) :
             /\ rounds' = [rounds EXCEPT ![i] =
                  [r EXCEPT !.visited = @ \cup {f},
                            !.poll = [feed |-> f, from |-> fs[f].next, since |-> head]]]
             /\ feeds' = fs
             /\ UNCHANGED <<pushed, known>>
  <2>1. PICK f \in Unvisited(r) :
             /\ rounds' = [rounds EXCEPT ![i] =
                  [r EXCEPT !.visited = @ \cup {f},
                            !.poll = [feed |-> f, from |-> fs[f].next, since |-> head]]]
             /\ feeds' = fs
             /\ UNCHANGED <<pushed, known>>
    BY <1>7
  <2> DEFINE poll == [feed |-> f, from |-> fs[f].next, since |-> head]
             q == [r EXCEPT !.visited = @ \cup {f}, !.poll = poll]
  <2>2. f \in Tailed(runners) /\ f \in Feeds
    BY <1>2, <2>1, Referencing DEF Unvisited
  <2>3. fs[f] \in Feed /\ fs[f].next \in Nat \cup {None}
    <3>1. f \in Referenced(coord, runners, rs, lt)
      BY <2>2 DEF Referenced
    <3>2. fs[f] \in Feed
      BY <1>1, <2>2, <3>1 DEF FeedsRight, Held
    <3> QED BY <3>2 DEF Feed
  <2>4. poll \in Poll /\ head \in FirstHead..head
    BY <1>1, <2>2, <2>3, FeedAssumption DEF Poll, Heads
  <2>5. q \in Round /\ q.poll = poll /\ q.visited = r.visited \cup {f} /\ q.got = r.got
        /\ q.seen = r.seen /\ q.cancelled = r.cancelled
    <3> HIDE DEF poll
    <3> QED BY <1>1, <2>2, <2>4 DEF Round
  <2> HIDE DEF q
  <2>6. rounds' = [rounds EXCEPT ![i] = q] /\ feeds' = fs /\ pushed' = pushed /\ known' = known
    BY <2>1 DEF q
  <2> HIDE DEF poll
  <2>7. /\ rounds' \in Seq(Round) /\ Len(rounds') = Len(rounds) /\ DOMAIN rounds' = DOMAIN rs
        /\ rounds'[i] = q /\ \A j \in DOMAIN rounds \ {i} : rounds'[j] = rs[j]
    BY <1>2, <1>3, <2>5, <2>6
  <2>8. Shapes'
    BY <1>1, <1>2, <1>3, <1>4, <2>6, <2>7 DEF Shapes
  <2>9. \A p \in Polls(rounds', late') : p = poll \/ p \in Polls(rs, lt)
    BY <1>3, <2>5, <2>7 DEF Polls
  <2>10. Heads'
    <3>1. \A p \in Polls(rounds', late') : p.since \in FirstHead..head
      BY <1>6, <2>4, <2>9 DEF poll
    <3>2. \A j \in DOMAIN rounds' : rounds'[j].seen \in {0} \cup FirstHead..head
      BY <1>1, <1>3, <1>5, <2>5, <2>7
    <3> QED BY <1>1, <1>4, <2>6, <3>1, <3>2 DEF Heads
  <2>11. Watched'
    <3>1. ticker => \A j \in DOMAIN rounds' : ~rounds'[j].cancelled
      BY <1>3, <1>5, <2>5, <2>7
    <3>2. ~watching => FALSE
      BY <1>1, <1>2 DEF Watched
    <3> QED BY <1>1, <1>4, <3>1, <3>2 DEF Watched
  <2>12. Referenced(coord', runners', rounds', late') \subseteq Referenced(coord, runners, rs, lt)
    <3> SUFFICES ASSUME NEW e \in Referenced(coord', runners', rounds', late')
                 PROVE  e \in Referenced(coord, runners, rs, lt)
      OBVIOUS
    <3>1. \/ e \in Tailed(runners)
          \/ e = coord /\ coord # None
          \/ \E p \in lt : e = p.feed
          \/ \E j \in DOMAIN rs : e = rounds'[j].poll.feed \/ e \in rounds'[j].visited
      BY <1>3, <1>4, <2>7, ReferencedBy
    <3>2. ASSUME NEW j \in DOMAIN rs, e = rounds'[j].poll.feed \/ e \in rounds'[j].visited
          PROVE  e = f \/ e = rs[j].poll.feed \/ e \in rs[j].visited
      BY <1>3, <2>5, <2>7, <3>2 DEF poll
    <3> QED BY <1>3, <2>2, <3>1, <3>2, ReferencedBy
  <2>13. FeedsRight(fs, coord, runners, rounds', late', pushed, ticker)
    <3>1. Held(fs, coord, runners, rounds', late')
      BY <1>1, <1>4, <2>12 DEF FeedsRight, Held
    <3>2. Asked(fs, runners, Polls(rounds', late'))
      <4>1. \A p \in Polls(rounds', late') : p = poll \/ p \in Polls(rs, lt)
        BY <2>9
      <4>2. poll.feed = f /\ poll.from = fs[f].next
        BY DEF poll
      <4> QED BY <1>1, <2>2, <2>3, <4>1, <4>2, FeedAssumption DEF FeedsRight, Asked
    <3>3. Got(rounds') = Got(rs)
      <4>1. \A j \in DOMAIN rs : rounds'[j].got = rs[j].got
        BY <1>3, <2>5, <2>7
      <4> QED BY <2>7, <4>1 DEF Got
    <3> QED BY <1>1, <1>3, <3>1, <3>2, <3>3 DEF FeedsRight
  <2> QED BY <1>4, <2>6, <2>8, <2>10, <2>11, <2>13 DEF IInv
<1>8. CASE /\ rounds' = RemoveAt(rounds, i)
           /\ feeds' = Collected(fs, coord, runners, rounds', lt)
           /\ IF r.cancelled
                THEN UNCHANGED <<pushed, known>>
                ELSE pushed' = pushed \cup r.got /\ known' = Maximum(known, r.seen)
  <2>1. /\ rounds' \in Seq(Round) /\ Len(rounds') <= MaxRounds
        /\ \A k \in DOMAIN rounds' : \E j \in DOMAIN rounds \ {i} : rounds'[k] = rs[j]
        /\ \A j \in DOMAIN rounds \ {i} : \E k \in DOMAIN rounds' : rounds'[k] = rs[j]
    <3> DEFINE left == RemoveAt(rounds, i)
    <3>1. /\ left \in Seq(Round) /\ Len(left) = Len(rounds) - 1
          /\ \A k \in DOMAIN left : \E j \in DOMAIN rounds \ {i} : left[k] = rounds[j]
          /\ \A j \in DOMAIN rounds \ {i} : \E k \in DOMAIN left : left[k] = rounds[j]
      BY <1>2, RemovedAt
    <3> HIDE DEF left
    <3>2. rounds' = left
      BY <1>8 DEF left
    <3>3. Len(rounds) \in Nat
      BY <1>2
    <3> QED BY <1>2, <1>3, <3>1, <3>2, <3>3
  <2>2. r.got \subseteq Events
    BY <1>1 DEF Round
  <2>3. Shapes'
    BY <1>1, <1>2, <1>3, <1>4, <1>8, <2>1, <2>2 DEF Shapes
  <2>4. \A p \in Polls(rounds', late') : p \in Polls(rs, lt)
    BY <1>3, <2>1 DEF Polls
  <2>5. Heads'
    <3>1. known' \in {0} \cup FirstHead..head
      BY <1>1, <1>2, <1>8 DEF Heads, Maximum
    <3>2. \A k \in DOMAIN rounds' : rounds'[k].seen \in {0} \cup FirstHead..head
      BY <1>3, <1>5, <2>1
    <3> QED BY <1>1, <1>4, <1>6, <2>4, <3>1, <3>2 DEF Heads
  <2>6. Watched'
    <3>1. ticker => \A k \in DOMAIN rounds' : ~rounds'[k].cancelled
      BY <1>3, <1>5, <2>1
    <3>2. ~watching => FALSE
      BY <1>1, <1>2 DEF Watched
    <3> QED BY <1>1, <1>4, <3>1, <3>2 DEF Watched
  <2>7. Referenced(coord, runners, rounds', lt) \subseteq Referenced(coord, runners, rs, lt)
    <3> SUFFICES ASSUME NEW e \in Referenced(coord, runners, rounds', lt)
                 PROVE  e \in Referenced(coord, runners, rs, lt)
      OBVIOUS
    <3>1. \/ e \in Tailed(runners)
          \/ e = coord /\ coord # None
          \/ \E p \in lt : e = p.feed
          \/ \E k \in DOMAIN rounds' : e = rounds'[k].poll.feed \/ e \in rounds'[k].visited
      BY ReferencedBy
    <3> QED BY <1>3, <2>1, <3>1, ReferencedBy
  <2>8. ticker => pushed \cup Got(rs) \subseteq pushed' \cup Got(rounds')
    <3> SUFFICES ASSUME ticker, NEW e \in pushed \cup Got(rs)
                 PROVE  e \in pushed' \cup Got(rounds')
      OBVIOUS
    <3>1. ~r.cancelled /\ pushed' = pushed \cup r.got
      BY <1>3, <1>5, <1>8
    <3>2. CASE e \in pushed
      BY <3>1, <3>2
    <3>3. CASE e \in Got(rs)
      <4>1. PICK j \in DOMAIN rs : e \in rs[j].got
        BY <3>3 DEF Got
      <4>2. j = i \/ \E k \in DOMAIN rounds' : rounds'[k] = rs[j]
        BY <1>3, <2>1
      <4> QED BY <1>3, <3>1, <4>1, <4>2 DEF Got
    <3> QED BY <3>2, <3>3
  <2>9. FeedsRight(fs, coord, runners, rounds', lt, pushed', ticker)
    <3>1. Polls(rounds', lt) \subseteq Polls(rs, lt)
      BY <1>3, <2>4
    <3> QED BY <1>1, <2>7, <2>8, <3>1, FewerRight
  <2>10. FeedsRight(feeds', coord, runners, rounds', lt, pushed', ticker)
    BY <1>2, <1>3, <1>8, <2>1, <2>9, CollectedRight
  <2> QED BY <1>3, <1>4, <2>3, <2>5, <2>6, <2>10 DEF IInv
<1> QED BY <1>7, <1>8 DEF Continue

(* An answer keeps the feeds right, when its rows are taken or its feed is *)
(* known to have run over its time.                                        *)
LEMMA AnsweredRight ==
  ASSUME IInv, NEW p \in Polls(rounds, late), NEW h \in p.since..head, NEW got,
         Got(rounds) \subseteq got,
         \/ Page(feeds[p.feed].guard, p.from, h).rows \subseteq got
         \/ feeds[p.feed].overrun \/ feeds[p.feed].stopped
  PROVE  LET fs == [feeds EXCEPT ![p.feed] =
                      Advanced(@, p.from, Page(feeds[p.feed].guard, p.from, h), h)]
         IN /\ fs \in [Feeds -> Feed \cup {None}]
            /\ \A f \in Feeds : fs[f] = None <=> feeds[f] = None
            /\ OwnFeeds(fs, runners) /\ Settled(fs, runners)
            /\ Asked(fs, runners, Polls(rounds, late)) /\ Overdue(fs, late)
            /\ ticker => Accounted(fs, runners, got, pushed)
<1> DEFINE page == Page(feeds[p.feed].guard, p.from, h)
           moved == Advanced(feeds[p.feed], p.from, page, h)
           fs == [feeds EXCEPT ![p.feed] = Advanced(@, p.from, page, h)]
<1>1. /\ Shapes /\ Heads
      /\ FeedsRight(feeds, coord, runners, rounds, late, pushed, ticker)
      /\ feeds \in [Feeds -> Feed \cup {None}]
  BY DEF IInv, FeedsRight
<1>2. /\ p \in Poll /\ p.feed \in Referenced(coord, runners, rounds, late)
      /\ \A q \in Polls(rounds, late) : q \in Poll
      /\ late \subseteq Polls(rounds, late)
  <2>1. /\ coord \in Feeds \cup {None} /\ runners \in [Guards -> Feeds \cup {None}]
        /\ rounds \in Seq(Round) /\ late \subseteq Poll
    BY <1>1 DEF Shapes
  <2>2. Polls(rounds, late) \subseteq Poll
        /\ \A q \in Polls(rounds, late) : q.feed \in Referenced(coord, runners, rounds, late)
    BY <2>1, Referencing
  <2> QED BY <2>2 DEF Polls
<1>3. /\ p.feed \in Feeds /\ p.from \in Nat \cup {None} /\ p.since \in Nat
      /\ \A q \in Poll : q.feed \in Feeds /\ q.from \in Nat \cup {None}
  BY <1>2 DEF Poll
<1>4. feeds[p.feed] \in Feed /\ h \in Nat /\ None \notin Feed /\ None \notin Nat
  BY <1>1, <1>2, <1>3, NoneIsNoFeed, FeedAssumption DEF FeedsRight, Held, Heads
<1>5. (feeds[p.feed].base = None <=> feeds[p.feed].next = None) /\ Tidy(feeds[p.feed])
  BY <1>1, <1>3, <1>4 DEF FeedsRight, Settled
<1>6. /\ moved \in Feed /\ moved.guard = feeds[p.feed].guard
      /\ moved.stopped = feeds[p.feed].stopped /\ moved.overrun = feeds[p.feed].overrun
      /\ feeds[p.feed].stopped => moved = feeds[p.feed]
      /\ feeds[p.feed].next # None => moved.next # None /\ feeds[p.feed].next <= moved.next
                             /\ moved.base = feeds[p.feed].base
      /\ moved.base = None <=> moved.next = None
      /\ Tidy(moved)
  <2>1. Moves(feeds[p.feed], moved)
    BY <1>3, <1>4, <1>5, AdvancedMoves, Zenon
  <2> HIDE DEF page, moved
  <2> QED BY <1>5, <2>1 DEF Moves
<1> HIDE DEF page, moved
<1>7. /\ fs \in [Feeds -> Feed \cup {None}]
      /\ fs[p.feed] = moved /\ \A f \in Feeds : f # p.feed => fs[f] = feeds[f]
  BY <1>1, <1>3, <1>6 DEF moved
<1> HIDE DEF fs
<1>8. \A f \in Feeds : fs[f] = None <=> feeds[f] = None
  BY <1>4, <1>6, <1>7
<1>9. runners \in [Guards -> Feeds \cup {None}]
  BY <1>1 DEF Shapes
<1>10. OwnFeeds(fs, runners)
  BY <1>1, <1>6, <1>7, <1>9 DEF FeedsRight, OwnFeeds
<1>11. Overdue(fs, late)
  BY <1>1, <1>2, <1>3, <1>6, <1>7 DEF FeedsRight, Overdue
<1>12. Settled(fs, runners)
  <2>1. ASSUME NEW f \in Feeds, fs[f] # None
        PROVE  /\ fs[f].base = None <=> fs[f].next = None
               /\ fs[f].next # None /\ ~fs[f].stopped => f \in Tailed(runners)
               /\ Tidy(fs[f])
    <3>1. CASE f # p.feed
      BY <1>1, <1>7, <2>1, <3>1 DEF FeedsRight, Settled
    <3>2. CASE f = p.feed
      BY <1>1, <1>6, <1>7, <3>2 DEF FeedsRight, Asked
    <3> QED BY <3>1, <3>2
  <2> QED BY <2>1 DEF Settled
<1>13. Asked(fs, runners, Polls(rounds, late))
  <2>1. ASSUME NEW q \in Polls(rounds, late), ~fs[q.feed].stopped
        PROVE  /\ q.feed \in Tailed(runners)
               /\ q.from # None => fs[q.feed].next # None /\ q.from <= fs[q.feed].next
    <3>1. ~feeds[q.feed].stopped /\ q.feed \in Feeds /\ q.from \in Nat \cup {None}
      BY <1>2, <1>3, <1>6, <1>7, <2>1
    <3>2. /\ q.feed \in Tailed(runners)
          /\ q.from # None => feeds[q.feed].next # None /\ q.from <= feeds[q.feed].next
      BY <1>1, <3>1 DEF FeedsRight, Asked
    <3>3. CASE q.feed # p.feed
      BY <1>7, <3>1, <3>2, <3>3
    <3>4. CASE q.feed = p.feed
      <4>1. moved.next \in Nat \cup {None} /\ feeds[p.feed].next \in Nat \cup {None}
        BY <1>4, <1>6 DEF Feed
      <4> QED BY <1>4, <1>6, <1>7, <3>1, <3>2, <3>4, <4>1
    <3> QED BY <3>3, <3>4
  <2> QED BY <2>1 DEF Asked
<1>14. ticker => Accounted(fs, runners, got, pushed)
  <2> SUFFICES ASSUME ticker, NEW g \in Guards, runners[g] # None,
                      fs[runners[g]].next # None, ~fs[runners[g]].overrun,
                      ~fs[runners[g]].stopped
               PROVE  Complete(fs[runners[g]], pushed \cup got)
    BY Zenon DEF Accounted
  <2>1. runners[g] \in Feeds /\ Accounted(feeds, runners, Got(rounds), pushed)
    BY <1>1, <1>9 DEF FeedsRight
  <2>2. pushed \cup Got(rounds) \subseteq pushed \cup got
    OBVIOUS
  <2>3. CASE runners[g] # p.feed
    <3>1. fs[runners[g]] = feeds[runners[g]]
      BY <1>7, <2>1, <2>3
    <3>2. Complete(feeds[runners[g]], pushed \cup Got(rounds))
      BY <2>1, <3>1 DEF Accounted
    <3> QED BY <2>2, <3>1, <3>2, CompleteMore
  <2>4. CASE runners[g] = p.feed
    <3>1. ~feeds[p.feed].stopped /\ ~feeds[p.feed].overrun /\ page.rows \subseteq pushed \cup got
      BY <1>6, <1>7, <2>4 DEF page
    <3>2. feeds[p.feed].next # None => Complete(feeds[p.feed], pushed \cup Got(rounds))
      BY <2>1, <2>4, <3>1 DEF Accounted
    <3>3. p.from # None => feeds[p.feed].next # None /\ p.from <= feeds[p.feed].next
      BY <1>1, <3>1 DEF FeedsRight, Asked
    <3>4. Complete(moved, pushed \cup got)
      BY <1>3, <1>4, <1>5, <2>2, <3>1, <3>2, <3>3, AdvancedComplete DEF moved, page
    <3> QED BY <1>7, <2>4, <3>4
  <2> QED BY <2>3, <2>4
<1> QED BY <1>7, <1>8, <1>10, <1>11, <1>12, <1>13, <1>14 DEF fs, page

LEMMA SamePolls ==
  ASSUME NEW i \in DOMAIN rounds, NEW r,
         r.poll = rounds[i].poll, r.visited = rounds[i].visited, rounds[i].got \subseteq r.got,
         NEW ss, DOMAIN ss = DOMAIN rounds, ss[i] = r, \A j \in DOMAIN rounds \ {i} : ss[j] = rounds[j]
  PROVE  /\ Referenced(coord, runners, ss, late) = Referenced(coord, runners, rounds, late)
         /\ Polls(ss, late) = Polls(rounds, late)
         /\ Got(ss) = Got(rounds) \cup r.got
<1>1. DOMAIN ss = DOMAIN rounds /\ ss[i] = r /\ \A j \in DOMAIN rounds \ {i} : ss[j] = rounds[j]
  OBVIOUS
<1>2. \A j \in DOMAIN rounds : ss[j].poll = rounds[j].poll /\ ss[j].visited = rounds[j].visited
  BY <1>1
<1>3. Referenced(coord, runners, ss, late) = Referenced(coord, runners, rounds, late)
  <2>1. ASSUME NEW f
        PROVE  f \in Referenced(coord, runners, ss, late) <=> f \in Referenced(coord, runners, rounds, late)
    <3>1. (\E j \in DOMAIN ss : f = ss[j].poll.feed \/ f \in ss[j].visited)
            <=> (\E j \in DOMAIN rounds : f = rounds[j].poll.feed \/ f \in rounds[j].visited)
      BY <1>1, <1>2
    <3>2. f \in Referenced(coord, runners, ss, late) <=>
            \/ f \in Tailed(runners)
            \/ f = coord /\ coord # None
            \/ \E p \in late : f = p.feed
            \/ \E j \in DOMAIN ss : f = ss[j].poll.feed \/ f \in ss[j].visited
      BY ReferencedBy
    <3>3. f \in Referenced(coord, runners, rounds, late) <=>
            \/ f \in Tailed(runners)
            \/ f = coord /\ coord # None
            \/ \E p \in late : f = p.feed
            \/ \E j \in DOMAIN rounds : f = rounds[j].poll.feed \/ f \in rounds[j].visited
      BY ReferencedBy
    <3> QED BY <3>1, <3>2, <3>3, Zenon
  <2> QED BY <2>1
<1>4. Polls(ss, late) = Polls(rounds, late)
  BY <1>1, <1>2 DEF Polls
<1>5. Got(ss) = Got(rounds) \cup r.got
  <2>1. ASSUME NEW e \in Got(ss)
        PROVE  e \in Got(rounds) \cup r.got
    <3>1. PICK j \in DOMAIN ss : e \in ss[j].got
      BY DEF Got
    <3> QED BY <1>1, <3>1 DEF Got
  <2>2. ASSUME NEW e \in Got(rounds) \cup r.got
        PROVE  e \in Got(ss)
    <3>1. CASE e \in r.got
      BY <1>1, <3>1 DEF Got
    <3>2. CASE e \in Got(rounds)
      <4>1. PICK j \in DOMAIN rounds : e \in rounds[j].got
        BY <3>2 DEF Got
      <4> QED BY <1>1, <4>1 DEF Got
    <3> QED BY <3>1, <3>2
  <2> QED BY <2>1, <2>2
<1> QED BY <1>3, <1>4, <1>5

-----------------------------------------------------------------------------
(* The steps of polling.                                                   *)
LEMMA PollFacts ==
  ASSUME IInv, NEW i \in DOMAIN rounds
  PROVE  /\ rounds[i] \in Round /\ rounds[i].poll \in Poll /\ rounds[i].poll \in Polls(rounds, late)
         /\ rounds[i].seen \in {0} \cup FirstHead..head /\ rounds[i].got \subseteq Events
         /\ rounds[i].got \subseteq Got(rounds)
         /\ rounds[i].poll.since \in FirstHead..head /\ rounds[i].poll.feed \in Feeds
         /\ rounds[i].poll.from \in Nat \cup {None}
         /\ feeds[rounds[i].poll.feed] \in Feed
         /\ rounds \in Seq(Round) /\ late \subseteq Poll
         /\ FirstHead \in Nat /\ head \in Nat
<1>1. /\ coord \in Feeds \cup {None} /\ runners \in [Guards -> Feeds \cup {None}]
      /\ rounds \in Seq(Round) /\ late \subseteq Poll
  BY DEF IInv, Shapes
<1>2. /\ rounds[i] \in Round /\ rounds[i].poll \in Poll /\ rounds[i].poll \in Polls(rounds, late)
      /\ rounds[i].poll.feed \in Referenced(coord, runners, rounds, late)
  BY <1>1, Referencing
<1>3. rounds[i].got \subseteq Events /\ rounds[i].poll.feed \in Feeds
      /\ rounds[i].poll.from \in Nat \cup {None}
  BY <1>2 DEF Round, Poll
<1>4. feeds[rounds[i].poll.feed] \in Feed
  BY <1>2, <1>3 DEF IInv, FeedsRight, Held
<1>5. /\ rounds[i].seen \in {0} \cup FirstHead..head
      /\ rounds[i].poll.since \in FirstHead..head /\ FirstHead \in Nat /\ head \in Nat
  BY <1>2, FeedAssumption DEF IInv, Heads
<1>6. rounds[i].got \subseteq Got(rounds)
  BY DEF Got
<1> QED BY <1>1, <1>2, <1>3, <1>4, <1>5, <1>6

LEMMA ArriveStep ==
  ASSUME IInv, NEW i \in DOMAIN rounds, Arrive(i)
  PROVE  IInv'
<1> DEFINE p == rounds[i].poll
           page(h) == Page(feeds[p.feed].guard, p.from, h)
           r(h) == [rounds[i] EXCEPT !.got = @ \cup page(h).rows, !.seen = Maximum(@, h)]
           fs(h) == [feeds EXCEPT ![p.feed] = Advanced(@, p.from, page(h), h)]
<1>1. PICK h \in p.since..head : Continue(i, r(h), fs(h), late)
  BY DEF Arrive
<1>2. /\ rounds[i] \in Round /\ p \in Poll /\ p \in Polls(rounds, late)
      /\ rounds[i].seen \in {0} \cup FirstHead..head /\ rounds[i].got \subseteq Events
      /\ rounds[i].got \subseteq Got(rounds)
      /\ p.since \in FirstHead..head /\ p.feed \in Feeds /\ p.from \in Nat \cup {None}
      /\ feeds[p.feed] \in Feed /\ rounds \in Seq(Round) /\ FirstHead \in Nat /\ head \in Nat
  BY PollFacts
<1>3. h \in FirstHead..head /\ h \in Nat /\ page(h).rows \subseteq Events
  <2>1. h \in FirstHead..head /\ h \in Nat
    BY <1>2
  <2>2. feeds[p.feed].guard \in Guards
    BY <1>2 DEF Feed
  <2>3. p.from \in Nat \cup {None}
    BY <1>2
  <2>4. page(h).rows \subseteq Events
    <3> HIDE DEF p
    <3> QED BY <2>1, <2>2, <2>3, PageWhole
  <2> QED BY <2>1, <2>4
<1> DEFINE rows == page(h).rows
           ss == [rounds EXCEPT ![i] = r(h)]
<1>4. /\ r(h) \in Round /\ r(h).poll = p /\ r(h).visited = rounds[i].visited
      /\ r(h).cancelled = rounds[i].cancelled
      /\ r(h).got = rounds[i].got \cup rows /\ r(h).seen \in {0} \cup FirstHead..head
  <2> HIDE DEF rows
  <2>1. Maximum(rounds[i].seen, h) \in FirstHead..head
    BY <1>2, <1>3 DEF Maximum
  <2>2. r(h) = [rounds[i] EXCEPT !.got = @ \cup rows, !.seen = Maximum(@, h)]
    BY DEF rows
  <2>3. rows \subseteq Events
    BY <1>3 DEF rows
  <2> DEFINE top == Maximum(rounds[i].seen, h)
             all == rounds[i].got \cup rows
             q == [rounds[i] EXCEPT !.got = all]
  <2> HIDE DEF p, r
  <2>4. all \subseteq Events /\ top \in Nat
    BY <1>2, <1>3, <2>1, <2>3
  <2> HIDE DEF top, all
  <2>5. /\ q \in Round /\ q.poll = rounds[i].poll /\ q.visited = rounds[i].visited
        /\ q.cancelled = rounds[i].cancelled /\ q.got = all
    BY <1>2, <2>4 DEF Round
  <2>6. r(h) = [q EXCEPT !.seen = top]
    BY <2>2 DEF top, all
  <2> HIDE DEF q
  <2>7. /\ r(h) \in Round /\ r(h).poll = q.poll /\ r(h).visited = q.visited
        /\ r(h).cancelled = q.cancelled /\ r(h).got = q.got /\ r(h).seen = top
    BY <2>4, <2>5, <2>6 DEF Round
  <2> QED BY <2>1, <2>5, <2>7 DEF p, top, all
<1>5. FeedsRight(fs(h), coord, runners, ss, late, pushed, ticker)
      /\ \A f \in Feeds : feeds[f] # None => fs(h)[f] # None
  <2> DEFINE got == Got(rounds) \cup rows
  <2>1. /\ fs(h) \in [Feeds -> Feed \cup {None}]
        /\ \A f \in Feeds : fs(h)[f] = None <=> feeds[f] = None
        /\ OwnFeeds(fs(h), runners) /\ Settled(fs(h), runners)
        /\ Asked(fs(h), runners, Polls(rounds, late)) /\ Overdue(fs(h), late)
        /\ ticker => Accounted(fs(h), runners, got, pushed)
    BY <1>2, AnsweredRight
  <2> HIDE DEF p, rows, fs, r
  <2>2. /\ Referenced(coord, runners, ss, late) = Referenced(coord, runners, rounds, late)
        /\ Polls(ss, late) = Polls(rounds, late)
        /\ Got(ss) = got
    <3>1. Got(ss) = Got(rounds) \cup r(h).got
          /\ Referenced(coord, runners, ss, late) = Referenced(coord, runners, rounds, late)
          /\ Polls(ss, late) = Polls(rounds, late)
      <4> DEFINE q == r(h)
      <4>1. q \in Round /\ q.poll = rounds[i].poll /\ q.visited = rounds[i].visited
            /\ rounds[i].got \subseteq q.got /\ rounds \in Seq(Round)
        BY <1>2, <1>4 DEF p
      <4>2. DOMAIN ss = DOMAIN rounds /\ ss[i] = q /\ \A j \in DOMAIN rounds \ {i} : ss[j] = rounds[j]
        OBVIOUS
      <4> HIDE DEF q, ss
      <4>3. Got(ss) = Got(rounds) \cup q.got
            /\ Referenced(coord, runners, ss, late) = Referenced(coord, runners, rounds, late)
            /\ Polls(ss, late) = Polls(rounds, late)
        BY <4>1, <4>2, SamePolls
      <4> QED BY <4>3 DEF q
    <3> QED BY <1>2, <1>4, <3>1
  <2>3. Held(fs(h), coord, runners, ss, late)
    <3>1. Referenced(coord, runners, rounds, late) \subseteq Feeds
      BY Referencing DEF IInv, Shapes
    <3> QED BY <2>1, <2>2, <3>1 DEF IInv, FeedsRight, Held
  <2> HIDE DEF ss, got
  <2> QED BY <2>1, <2>2, <2>3 DEF FeedsRight
<1>6. HandsOn(i, r(h), fs(h), late)
  <2> HIDE DEF r, fs
  <2> QED BY <1>4, <1>5 DEF HandsOn
<1> HIDE DEF r, fs
<1> QED BY <1>1, <1>6, Continued, SMTT(30) DEF Arrive

LEMMA FailPollStep ==
  ASSUME IInv, NEW i \in DOMAIN rounds, FailPoll(i)
  PROVE  IInv'
<1>1. HandsOn(i, rounds[i], feeds, late)
  <2>1. [rounds EXCEPT ![i] = rounds[i]] = rounds
    BY PollFacts
  <2> QED BY <2>1, PollFacts DEF HandsOn, IInv
<1> QED BY <1>1, Continued DEF FailPoll

LEMMA TimeoutPollStep ==
  ASSUME IInv, NEW i \in DOMAIN rounds, TimeoutPoll(i)
  PROVE  IInv'
<1> DEFINE p == rounds[i].poll
           fs == [feeds EXCEPT ![p.feed].overrun = TRUE]
           lt == late \cup {p}
<1>1. Continue(i, rounds[i], fs, lt)
  BY DEF TimeoutPoll
<1>2. /\ p \in Polls(rounds, late) /\ p.feed \in Feeds /\ feeds[p.feed] \in Feed
      /\ rounds[i] \in Round /\ rounds[i].seen \in {0} \cup FirstHead..head
      /\ rounds \in Seq(Round) /\ p \in Poll /\ late \subseteq Poll
  BY PollFacts
<1>3. /\ FeedsRight(feeds, coord, runners, rounds, late, pushed, ticker)
      /\ feeds \in [Feeds -> Feed \cup {None}] /\ None \notin Feed
  BY NoneIsNoFeed DEF IInv, FeedsRight
<1> DEFINE over == [feeds[p.feed] EXCEPT !.overrun = TRUE]
<1>4. /\ over \in Feed /\ over.overrun = TRUE
      /\ over.guard = feeds[p.feed].guard /\ over.next = feeds[p.feed].next
      /\ over.base = feeds[p.feed].base /\ over.stopped = feeds[p.feed].stopped
      /\ Tidy(feeds[p.feed]) => Tidy(over)
  BY <1>2 DEF Feed, Tidy
<1>5. /\ fs \in [Feeds -> Feed \cup {None}]
      /\ fs[p.feed] = over /\ \A f \in Feeds : f # p.feed => fs[f] = feeds[f]
  BY <1>2, <1>3, <1>4
<1> HIDE DEF fs, over
<1>6. \A f \in Feeds : /\ fs[f] = None <=> feeds[f] = None
                       /\ fs[f].guard = feeds[f].guard /\ fs[f].stopped = feeds[f].stopped
                       /\ fs[f].next = feeds[f].next /\ fs[f].base = feeds[f].base
                       /\ Tidy(feeds[f]) => Tidy(fs[f])
  BY <1>2, <1>3, <1>4, <1>5
<1>7. runners \in [Guards -> Feeds \cup {None}] /\ coord \in Feeds \cup {None}
  BY DEF IInv, Shapes
<1>8. Polls(rounds, lt) = Polls(rounds, late) /\ \A q \in Polls(rounds, late) : q.feed \in Feeds
  <2>1. Polls(rounds, lt) = Polls(rounds, late)
    BY <1>2 DEF Polls
  <2>2. Polls(rounds, late) \subseteq Poll
    BY <1>2, <1>7, Referencing
  <2> QED BY <2>1, <2>2 DEF Poll
<1>9. Held(fs, coord, runners, rounds, lt)
  <2>1. Referenced(coord, runners, rounds, lt) \subseteq Referenced(coord, runners, rounds, late)
    <3> SUFFICES ASSUME NEW e \in Referenced(coord, runners, rounds, lt)
                 PROVE  e \in Referenced(coord, runners, rounds, late)
      OBVIOUS
    <3>1. \/ e \in Tailed(runners)
          \/ e = coord /\ coord # None
          \/ \E q \in lt : e = q.feed
          \/ \E j \in DOMAIN rounds : e = rounds[j].poll.feed \/ e \in rounds[j].visited
      BY ReferencedBy
    <3> QED BY <3>1, ReferencedBy
  <2>2. Referenced(coord, runners, rounds, late) \subseteq Feeds
    BY <1>2, <1>7, Referencing
  <2> QED BY <1>3, <1>6, <2>1, <2>2 DEF FeedsRight, Held
<1>10. OwnFeeds(fs, runners) /\ Settled(fs, runners)
  BY <1>3, <1>6, <1>7 DEF FeedsRight, OwnFeeds, Settled
<1>11. Asked(fs, runners, Polls(rounds, lt))
  BY <1>3, <1>6, <1>8 DEF FeedsRight, Asked
<1>12. Overdue(fs, lt)
  <2>1. \A q \in late : q.feed \in Feeds
    BY <1>2 DEF Poll
  <2> QED BY <1>3, <1>4, <1>5, <2>1 DEF FeedsRight, Overdue
<1>13. ticker => Accounted(fs, runners, Got(rounds), pushed)
  <2> SUFFICES ASSUME ticker PROVE Accounted(fs, runners, Got(rounds), pushed)
    OBVIOUS
  <2>1. \A f \in Feeds : f = p.feed => fs[f].overrun = TRUE
    BY <1>4, <1>5
  <2> QED BY <1>3, <1>5, <1>7, <2>1 DEF FeedsRight, Accounted
<1>14. HandsOn(i, rounds[i], fs, lt)
  <2>1. [rounds EXCEPT ![i] = rounds[i]] = rounds
    BY <1>2
  <2>2. FeedsRight(fs, coord, runners, rounds, lt, pushed, ticker)
    BY <1>5, <1>9, <1>10, <1>11, <1>12, <1>13 DEF FeedsRight
  <2> QED BY <1>2, <1>6, <2>1, <2>2 DEF HandsOn
<1> HIDE DEF lt
<1> QED BY <1>1, <1>14, Continued DEF TimeoutPoll

LEMMA AnswerLateStep ==
  ASSUME IInv, NEW p \in late, AnswerLate(p)
  PROVE  IInv'
<1> DEFINE page(h) == Page(feeds[p.feed].guard, p.from, h)
           fs(h) == [feeds EXCEPT ![p.feed] = Advanced(@, p.from, page(h), h)]
<1>1. /\ Shapes /\ Heads /\ Watched
      /\ FeedsRight(feeds, coord, runners, rounds, late, pushed, ticker)
      /\ p \in Polls(rounds, late) /\ late' = late \ {p}
      /\ coord \in Feeds \cup {None} /\ runners \in [Guards -> Feeds \cup {None}]
      /\ rounds \in Seq(Round) /\ late \subseteq Poll
  BY DEF IInv, AnswerLate, Polls, Shapes
<1>2. PICK h \in p.since..head : feeds' = Collected(fs(h), coord, runners, rounds, late')
  BY DEF AnswerLate
<1>3. /\ fs(h) \in [Feeds -> Feed \cup {None}]
      /\ \A f \in Feeds : fs(h)[f] = None <=> feeds[f] = None
      /\ OwnFeeds(fs(h), runners) /\ Settled(fs(h), runners)
      /\ Asked(fs(h), runners, Polls(rounds, late)) /\ Overdue(fs(h), late)
      /\ ticker => Accounted(fs(h), runners, Got(rounds), pushed)
  <2>1. feeds[p.feed].overrun \/ feeds[p.feed].stopped
    BY <1>1 DEF FeedsRight, Overdue
  <2> QED BY <1>1, <2>1, AnsweredRight
<1> HIDE DEF fs
<1>4. FeedsRight(fs(h), coord, runners, rounds, late, pushed, ticker)
  <2>1. Held(fs(h), coord, runners, rounds, late)
    <3>1. Referenced(coord, runners, rounds, late) \subseteq Feeds
      BY <1>1, Referencing
    <3> QED BY <1>1, <1>3, <3>1 DEF FeedsRight, Held
  <2> QED BY <1>3, <2>1 DEF FeedsRight
<1>5. /\ Polls(rounds, late') \subseteq Polls(rounds, late) /\ late' \subseteq late
      /\ Referenced(coord, runners, rounds, late') \subseteq Referenced(coord, runners, rounds, late)
  <2>1. \A q \in late' : q \in late
    BY <1>1
  <2>2. \A f : f \in Referenced(coord, runners, rounds, late')
                 => f \in Referenced(coord, runners, rounds, late)
    BY <2>1, ReferencedBy
  <2> QED BY <2>1, <2>2 DEF Polls
<1>6. FeedsRight(fs(h), coord, runners, rounds, late', pushed, ticker)
  BY <1>4, <1>5, FewerRight
<1>7. FeedsRight(feeds', coord, runners, rounds, late', pushed, ticker)
  BY <1>1, <1>2, <1>5, <1>6, CollectedRight
<1>8. UNCHANGED <<chainVars, planVars, tailVars, watching, ticker, known, rounds, pushed>>
  BY DEF AnswerLate
<1>9. Shapes' /\ Watched'
  BY <1>1, <1>5, <1>8 DEF Shapes, Watched, chainVars, planVars, tailVars
<1>10. Heads'
  BY <1>1, <1>5, <1>8 DEF Heads, chainVars
<1> QED BY <1>7, <1>8, <1>9, <1>10 DEF IInv, tailVars

(* Rounds that are kept with less to do refer to no more.                  *)
LEMMA RoundsKept ==
  ASSUME NEW ss, DOMAIN ss = DOMAIN rounds,
         \A j \in DOMAIN rounds : /\ ss[j].poll = rounds[j].poll /\ ss[j].got = rounds[j].got
                                  /\ ss[j].visited \subseteq rounds[j].visited
  PROVE  /\ Polls(ss, late) = Polls(rounds, late) /\ Got(ss) = Got(rounds)
         /\ Referenced(coord, runners, ss, late) \subseteq Referenced(coord, runners, rounds, late)
<1>1. Polls(ss, late) = Polls(rounds, late) /\ Got(ss) = Got(rounds)
  BY DEF Polls, Got
<1>2. ASSUME NEW f \in Referenced(coord, runners, ss, late)
      PROVE  f \in Referenced(coord, runners, rounds, late)
  <2>1. \/ f \in Tailed(runners)
        \/ f = coord /\ coord # None
        \/ \E p \in late : f = p.feed
        \/ \E j \in DOMAIN ss : f = ss[j].poll.feed \/ f \in ss[j].visited
    BY ReferencedBy
  <2> QED BY <2>1, ReferencedBy
<1> QED BY <1>1, <1>2

LEMMA WipeStep ==
  ASSUME IInv, Wipe
  PROVE  IInv'
<1>1. /\ Shapes /\ Heads /\ Watched /\ rounds \in Seq(Round)
      /\ FeedsRight(feeds, coord, runners, rounds, late, pushed, ticker)
      /\ \A i \in DOMAIN rounds : rounds[i] \in Round
  BY DEF IInv, Shapes
<1>2. /\ ticker' = FALSE /\ rounds' = [i \in DOMAIN rounds |-> [rounds[i] EXCEPT !.cancelled = TRUE]]
      /\ UNCHANGED <<chainVars, planVars, tailVars, watching, feeds, known, late, pushed>>
  BY DEF Wipe
<1>3. \A i \in DOMAIN rounds :
        LET r == [rounds[i] EXCEPT !.cancelled = TRUE]
        IN /\ r \in Round /\ r.poll = rounds[i].poll /\ r.got = rounds[i].got
           /\ r.visited = rounds[i].visited /\ r.seen = rounds[i].seen
  BY <1>1 DEF Round
<1>4. /\ rounds' \in Seq(Round) /\ Len(rounds') = Len(rounds) /\ DOMAIN rounds' = DOMAIN rounds
      /\ \A i \in DOMAIN rounds :
           /\ rounds'[i].poll = rounds[i].poll /\ rounds'[i].got = rounds[i].got
           /\ rounds'[i].visited = rounds[i].visited /\ rounds'[i].seen = rounds[i].seen
  <2> DEFINE r(i) == [rounds[i] EXCEPT !.cancelled = TRUE]
  <2>1. rounds' = [i \in DOMAIN rounds |-> r(i)]
    BY <1>2
  <2>2. \A i \in DOMAIN rounds : /\ r(i) \in Round /\ r(i).poll = rounds[i].poll
                                 /\ r(i).got = rounds[i].got /\ r(i).visited = rounds[i].visited
                                 /\ r(i).seen = rounds[i].seen
    BY <1>3
  <2>3. Len(rounds) \in Nat /\ DOMAIN rounds = 1..Len(rounds)
    BY <1>1
  <2> HIDE DEF r
  <2> QED BY <2>1, <2>2, <2>3
<1>5. /\ Polls(rounds', late) = Polls(rounds, late)
      /\ Referenced(coord, runners, rounds', late) \subseteq Referenced(coord, runners, rounds, late)
  BY <1>4, RoundsKept
<1>6. FeedsRight(feeds', coord', runners', rounds', late', pushed', ticker')
  <2>1. FeedsRight(feeds, coord, runners, rounds', late, pushed, FALSE)
    BY <1>1, <1>5, FewerRight
  <2> QED BY <1>2, <2>1 DEF tailVars
<1>7. Shapes'
  BY <1>1, <1>2, <1>4 DEF Shapes, planVars, tailVars
<1>8. Heads'
  BY <1>1, <1>2, <1>4, <1>5 DEF Heads, chainVars
<1>9. Watched'
  <2>1. rounds = <<>> => rounds' = <<>>
    BY <1>4
  <2> QED BY <1>1, <1>2, <2>1 DEF Watched, tailVars
<1> QED BY <1>6, <1>7, <1>8, <1>9 DEF IInv

LEMMA CloseLedgerStep ==
  ASSUME IInv, CloseLedger
  PROVE  IInv'
<1>1. /\ head < MaxLedger /\ head' = head + 1
      /\ UNCHANGED <<planVars, tailVars, pollVars, watching, ticker, feeds>>
  BY DEF CloseLedger
<1>2. Shapes' /\ Watched' /\ FeedsRight(feeds', coord', runners', rounds', late', pushed', ticker')
  BY <1>1 DEF IInv, Shapes, Watched, planVars, tailVars, pollVars
<1>3. Heads'
  <2>1. FirstHead \in Nat /\ MaxLedger \in Nat /\ head \in FirstHead..MaxLedger
    BY FeedAssumption DEF IInv, Heads
  <2> QED BY <1>1, <2>1 DEF IInv, Heads, pollVars
<1> QED BY <1>2, <1>3 DEF IInv

LEMMA StartRoundStep ==
  ASSUME IInv, StartRound
  PROVE  IInv'
<1>1. /\ Shapes /\ Heads /\ Watched /\ rounds \in Seq(Round) /\ Len(rounds) <= MaxRounds
      /\ FeedsRight(feeds, coord, runners, rounds, late, pushed, ticker)
      /\ coord \in Feeds \cup {None} /\ runners \in [Guards -> Feeds \cup {None}]
      /\ late \subseteq Poll /\ MaxRounds \in Nat
  BY FeedAssumption DEF IInv, Shapes
<1> DEFINE poll(f) == [feed |-> f, from |-> feeds[f].next, since |-> head]
           r(f) == [live |-> TRUE, cancelled |-> FALSE, visited |-> {f}, got |-> {}, seen |-> 0,
                    poll |-> poll(f)]
<1>2. PICK f \in Tailed(runners) : rounds' = Append(rounds, r(f))
  BY DEF StartRound
<1>3. /\ watching /\ Len(rounds) < MaxRounds
      /\ UNCHANGED <<chainVars, planVars, tailVars, watching, ticker, feeds, known, late, pushed>>
  BY DEF StartRound
<1>4. f \in Feeds /\ f \in Referenced(coord, runners, rounds, late)
  BY <1>1, Referencing DEF Referenced
<1>5. feeds[f] \in Feed /\ feeds[f].next \in Nat \cup {None}
  <2>1. feeds[f] \in Feed
    BY <1>1, <1>4 DEF FeedsRight, Held
  <2> QED BY <2>1 DEF Feed
<1>6. poll(f) \in Poll /\ head \in FirstHead..head
  BY <1>1, <1>4, <1>5, FeedAssumption DEF Poll, Heads
<1>7. /\ r(f) \in Round /\ r(f).poll = poll(f) /\ r(f).visited = {f} /\ r(f).got = {}
      /\ r(f).seen = 0 /\ r(f).cancelled = FALSE
  <2> HIDE DEF poll
  <2> QED BY <1>4, <1>6 DEF Round
<1> DEFINE n == Len(rounds) + 1
<1> HIDE DEF r
<1>8. /\ rounds' \in Seq(Round) /\ Len(rounds') = n /\ DOMAIN rounds' = DOMAIN rounds \cup {n}
      /\ rounds'[n] = r(f) /\ \A j \in DOMAIN rounds : rounds'[j] = rounds[j]
  BY <1>1, <1>2, <1>7
<1> HIDE DEF n
<1>9. Shapes'
  <2>1. Len(rounds') <= MaxRounds
    BY <1>1, <1>3, <1>8 DEF n
  <2> QED BY <1>1, <1>3, <1>8, <2>1 DEF Shapes, planVars, tailVars
<1>10. \A p \in Polls(rounds', late) : p = poll(f) \/ p \in Polls(rounds, late)
  BY <1>7, <1>8 DEF Polls
<1>11. Heads'
  <2>1. \A p \in Polls(rounds', late) : p.since \in FirstHead..head
    BY <1>1, <1>6, <1>10 DEF Heads
  <2>2. \A j \in DOMAIN rounds' : rounds'[j].seen \in {0} \cup FirstHead..head
    BY <1>1, <1>7, <1>8 DEF Heads
  <2> QED BY <1>1, <1>3, <2>1, <2>2 DEF Heads, chainVars
<1>12. Watched'
  <2>1. ticker => \A j \in DOMAIN rounds' : ~rounds'[j].cancelled
    BY <1>1, <1>7, <1>8 DEF Watched
  <2> QED BY <1>1, <1>3, <2>1 DEF Watched, tailVars
<1>13. FeedsRight(feeds, coord, runners, rounds', late, pushed, ticker)
  <2>1. Held(feeds, coord, runners, rounds', late)
    <3> SUFFICES ASSUME NEW e \in Referenced(coord, runners, rounds', late)
                 PROVE  e \in Referenced(coord, runners, rounds, late)
      BY <1>1 DEF FeedsRight, Held
    <3>1. \/ e \in Tailed(runners)
          \/ e = coord /\ coord # None
          \/ \E p \in late : e = p.feed
          \/ \E j \in DOMAIN rounds' : e = rounds'[j].poll.feed \/ e \in rounds'[j].visited
      BY ReferencedBy
    <3>2. poll(f).feed = f
      OBVIOUS
    <3> HIDE DEF poll
    <3>3. ASSUME NEW j \in DOMAIN rounds', e = rounds'[j].poll.feed \/ e \in rounds'[j].visited
          PROVE  \/ e = f
                 \/ \E k \in DOMAIN rounds : e = rounds[k].poll.feed \/ e \in rounds[k].visited
      BY <1>7, <1>8, <3>2, <3>3
    <3> QED BY <1>4, <3>1, <3>3, ReferencedBy
  <2>2. Asked(feeds, runners, Polls(rounds', late))
    <3>1. poll(f).feed = f /\ poll(f).from = feeds[f].next
      OBVIOUS
    <3> HIDE DEF poll
    <3> QED BY <1>1, <1>2, <1>5, <1>10, <3>1, FeedAssumption DEF FeedsRight, Asked
  <2>3. Got(rounds') = Got(rounds)
    BY <1>7, <1>8 DEF Got
  <2> QED BY <1>1, <2>1, <2>2, <2>3 DEF FeedsRight
<1> QED BY <1>3, <1>9, <1>11, <1>12, <1>13 DEF IInv, tailVars

-----------------------------------------------------------------------------
(* Stopping.  A stopped feed is settled, and its polls move it no more.    *)
LEMMA NewFeedIsFeed ==
  ASSUME NEW g \in Guards
  PROVE  /\ NewFeed(g) \in Feed /\ NewFeed(g) # None
         /\ NewFeed(g).guard = g /\ NewFeed(g).next = None /\ NewFeed(g).base = None
         /\ ~NewFeed(g).stopped /\ NewFeed(g).cut = {} /\ Tidy(NewFeed(g))
<1>1. NewFeed(g) \in Feed
  <2>1. <<>> \in Seq(Nat \X Nat)
    OBVIOUS
  <2> QED BY <2>1 DEF NewFeed, Feed
<1>2. Tidy(NewFeed(g))
  BY FeedAssumption DEF NewFeed, Tidy
<1> QED BY <1>1, <1>2, NoneIsNoFeed DEF NewFeed

LEMMA StoppedFacts ==
  ASSUME NEW fs \in [Feeds -> Feed \cup {None}], NEW gone \in SUBSET Feeds,
         \A f \in gone : fs[f] # None
  PROVE  /\ Stopped(fs, gone) \in [Feeds -> Feed \cup {None}]
         /\ \A f \in Feeds : Stopped(fs, gone)[f] = None <=> fs[f] = None
         /\ \A f \in Feeds \ gone : Stopped(fs, gone)[f] = fs[f]
         /\ \A f \in gone : /\ Stopped(fs, gone)[f].stopped
                            /\ Stopped(fs, gone)[f].guard = fs[f].guard
                            /\ Stopped(fs, gone)[f].next = None
                            /\ Stopped(fs, gone)[f].base = None
                            /\ Tidy(Stopped(fs, gone)[f])
<1> DEFINE put(f) == [NewFeed(fs[f].guard) EXCEPT !.stopped = TRUE]
<1>1. ASSUME NEW f \in gone
      PROVE  /\ put(f) \in Feed /\ put(f) # None /\ put(f).stopped = TRUE
             /\ put(f).guard = fs[f].guard /\ put(f).next = None /\ put(f).base = None
             /\ Tidy(put(f))
  <2> DEFINE new == NewFeed(fs[f].guard)
  <2>1. fs[f].guard \in Guards
    BY <1>1 DEF Feed
  <2>2. new \in Feed /\ new.guard = fs[f].guard /\ new.next = None /\ new.base = None /\ Tidy(new)
    BY <2>1, NewFeedIsFeed
  <2>3. put(f) = [new EXCEPT !.stopped = TRUE]
    OBVIOUS
  <2> HIDE DEF new, put
  <2>4. put(f) \in Feed /\ put(f).stopped = TRUE /\ put(f).guard = new.guard
        /\ put(f).next = new.next /\ put(f).base = new.base
        /\ put(f).expected = new.expected /\ put(f).cut = new.cut
        /\ put(f).lost = new.lost /\ put(f).dropped = new.dropped
    BY <2>2, <2>3 DEF Feed
  <2> QED BY <2>2, <2>4, NoneIsNoFeed DEF Tidy
<1>2. Stopped(fs, gone) = [f \in Feeds |-> IF f \in gone THEN put(f) ELSE fs[f]]
  BY DEF Stopped
<1> HIDE DEF put
<1> QED BY <1>1, <1>2

LEMMA StopAllRight ==
  ASSUME IInv, NEW heard \in {rounds, <<>>}, StopAll(heard), coord' \in {coord, None}
  PROVE  /\ rounds' \in Seq(Round) /\ Len(rounds') <= MaxRounds
         /\ heard = <<>> => rounds' = <<>>
         /\ \A j \in DOMAIN rounds' :
              j \in DOMAIN rounds /\ rounds'[j].poll = rounds[j].poll
                /\ rounds'[j].seen = rounds[j].seen /\ rounds'[j].cancelled = rounds[j].cancelled
         /\ runners' \in [Guards -> Feeds \cup {None}] /\ \A g \in Guards : runners'[g] = None
         /\ late' \subseteq late /\ super' = FALSE
         /\ \A psh, tick : FeedsRight(feeds', coord', runners', rounds', late', psh, tick)
<1> DEFINE gone == Tailed(runners)
           fs == Stopped(feeds, gone)
<1>1. /\ Shapes /\ rounds \in Seq(Round) /\ Len(rounds) <= MaxRounds /\ MaxRounds \in Nat
      /\ FeedsRight(feeds, coord, runners, rounds, late, pushed, ticker)
      /\ feeds \in [Feeds -> Feed \cup {None}]
      /\ coord \in Feeds \cup {None} /\ runners \in [Guards -> Feeds \cup {None}]
      /\ late \subseteq Poll
  BY FeedAssumption DEF IInv, Shapes, FeedsRight
<1>2. /\ super' = FALSE /\ runners' = [g \in Guards |-> None]
      /\ rounds' = [i \in DOMAIN heard |-> [heard[i] EXCEPT !.live = FALSE, !.visited = {}]]
      /\ late' = {p \in late : p.feed \notin gone}
      /\ feeds' = Collected(fs, coord', runners', rounds', late')
  BY DEF StopAll
<1>3. \A r \in Round :
        LET s == [r EXCEPT !.live = FALSE, !.visited = {}]
        IN /\ s \in Round /\ s.poll = r.poll /\ s.got = r.got /\ s.visited = {}
           /\ s.seen = r.seen /\ s.cancelled = r.cancelled
  <2> SUFFICES ASSUME NEW r \in Round
               PROVE  LET s == [r EXCEPT !.live = FALSE, !.visited = {}]
                      IN /\ s \in Round /\ s.poll = r.poll /\ s.got = r.got /\ s.visited = {}
                         /\ s.seen = r.seen /\ s.cancelled = r.cancelled
    OBVIOUS
  <2> DEFINE q == [r EXCEPT !.live = FALSE]
             s == [q EXCEPT !.visited = {}]
  <2>1. q \in Round /\ q.poll = r.poll /\ q.got = r.got /\ q.seen = r.seen
        /\ q.cancelled = r.cancelled
    BY DEF Round
  <2> HIDE DEF q
  <2>2. /\ s \in Round /\ s.poll = q.poll /\ s.got = q.got /\ s.visited = {}
        /\ s.seen = q.seen /\ s.cancelled = q.cancelled
    BY <2>1 DEF Round
  <2>3. s = [r EXCEPT !.live = FALSE, !.visited = {}]
    BY DEF q
  <2> HIDE DEF s
  <2> QED BY <2>1, <2>2, <2>3
<1>4. /\ rounds' \in Seq(Round) /\ Len(rounds') <= MaxRounds
      /\ heard = <<>> => rounds' = <<>>
      /\ \A j \in DOMAIN rounds' :
           /\ j \in DOMAIN rounds /\ rounds'[j].poll = rounds[j].poll
           /\ rounds'[j].seen = rounds[j].seen /\ rounds'[j].cancelled = rounds[j].cancelled
           /\ rounds'[j].visited = {}
  <2> DEFINE q(i) == [heard[i] EXCEPT !.live = FALSE, !.visited = {}]
  <2>1. /\ heard \in Seq(Round) /\ Len(heard) \in Nat /\ DOMAIN heard = 1..Len(heard)
        /\ Len(heard) <= MaxRounds
        /\ heard = <<>> => Len(heard) = 0
        /\ \A i \in DOMAIN heard : i \in DOMAIN rounds /\ heard[i] = rounds[i]
    <3>1. CASE heard = rounds
      BY <1>1, <3>1
    <3>2. CASE heard = <<>>
      BY <1>1, <3>2
    <3> QED BY <3>1, <3>2
  <2>2. rounds' = [i \in DOMAIN heard |-> q(i)]
    BY <1>2
  <2>3. \A i \in DOMAIN heard : heard[i] \in Round
    BY <2>1
  <2>4. \A i \in DOMAIN heard : /\ q(i) \in Round /\ q(i).poll = heard[i].poll
                                /\ q(i).visited = {} /\ q(i).seen = heard[i].seen
                                /\ q(i).cancelled = heard[i].cancelled
    BY <1>3, <2>3
  <2> HIDE DEF q
  <2>5. rounds' \in Seq(Round) /\ Len(rounds') = Len(heard) /\ DOMAIN rounds' = DOMAIN heard
    BY <2>1, <2>2, <2>4
  <2>6. Len(heard) = 0 => rounds' = <<>>
    BY <2>5
  <2> QED BY <2>1, <2>2, <2>4, <2>5, <2>6
<1>5. /\ runners' \in [Guards -> Feeds \cup {None}] /\ \A g \in Guards : runners'[g] = None
      /\ Tailed(runners') = {} /\ late' \subseteq late
  BY <1>2 DEF Tailed
<1>6. /\ gone \subseteq Feeds /\ \A f \in gone : feeds[f] # None
      /\ Referenced(coord, runners, rounds, late) \subseteq Feeds
      /\ Polls(rounds, late) \subseteq Poll
  <2>1. /\ Referenced(coord, runners, rounds, late) \subseteq Feeds /\ gone \subseteq Feeds
        /\ Polls(rounds, late) \subseteq Poll
    BY <1>1, Referencing
  <2>2. gone \subseteq Referenced(coord, runners, rounds, late)
    BY DEF Referenced
  <2> QED BY <1>1, <2>1, <2>2 DEF FeedsRight, Held
<1> HIDE DEF gone
<1>7. /\ fs \in [Feeds -> Feed \cup {None}]
      /\ \A f \in Feeds : fs[f] = None <=> feeds[f] = None
      /\ \A f \in Feeds \ gone : fs[f] = feeds[f]
      /\ \A f \in gone : fs[f].stopped /\ fs[f].next = None /\ fs[f].base = None /\ Tidy(fs[f])
  BY <1>1, <1>6, StoppedFacts
<1> HIDE DEF fs
<1>8. Referenced(coord', runners', rounds', late') \subseteq Referenced(coord, runners, rounds, late)
  <2> SUFFICES ASSUME NEW f \in Referenced(coord', runners', rounds', late')
               PROVE  f \in Referenced(coord, runners, rounds, late)
    OBVIOUS
  <2>1. \/ f \in Tailed(runners')
        \/ f = coord' /\ coord' # None
        \/ \E p \in late' : f = p.feed
        \/ \E j \in DOMAIN rounds' : f = rounds'[j].poll.feed \/ f \in rounds'[j].visited
    BY ReferencedBy
  <2> QED BY <1>4, <1>5, <2>1, ReferencedBy
<1>9. Held(fs, coord', runners', rounds', late')
  BY <1>1, <1>6, <1>7, <1>8 DEF FeedsRight, Held
<1>10. \A p \in Polls(rounds', late') : p \in Polls(rounds, late) /\ p.feed \in Feeds
  <2>1. Polls(rounds', late') \subseteq Polls(rounds, late)
    BY <1>4, <1>5 DEF Polls
  <2> QED BY <1>6, <2>1 DEF Poll
<1>11. Asked(fs, runners', Polls(rounds', late'))
  BY <1>1, <1>7, <1>10 DEF FeedsRight, Asked, gone
<1>12. Overdue(fs, late')
  BY <1>1, <1>2, <1>7, <1>10 DEF FeedsRight, Overdue, Polls
<1>13. Settled(fs, runners')
  BY <1>1, <1>7 DEF FeedsRight, Settled, gone
<1>14. OwnFeeds(fs, runners') /\ \A psh : Accounted(fs, runners', Got(rounds'), psh)
  BY <1>5 DEF OwnFeeds, Accounted
<1>15. ASSUME NEW psh, NEW tick
       PROVE  FeedsRight(feeds', coord', runners', rounds', late', psh, tick)
  <2>1. FeedsRight(fs, coord', runners', rounds', late', psh, tick)
    BY <1>7, <1>9, <1>11, <1>12, <1>13, <1>14 DEF FeedsRight
  <2>2. coord' \in Feeds \cup {None} /\ late' \subseteq Poll
    BY <1>1, <1>5
  <2>3. FeedsRight(Collected(fs, coord', runners', rounds', late'),
                   coord', runners', rounds', late', psh, tick)
    BY <1>4, <1>5, <2>1, <2>2, CollectedRight
  <2> QED BY <1>2, <2>3
<1> QED BY <1>2, <1>4, <1>5, <1>15

LEMMA PlansFacts ==
  ASSUME NEW reg \in SUBSET Guards, IsFiniteSet(reg), NEW act \in Guards,
         NEW p \in Plans(reg, act)
  PROVE  p \in Seq(Guards) /\ Len(p) \in 1..Cap
<1> DEFINE others == reg \ {act}
           places == 1 + Minimum(Cap - 1, Cardinality(others))
<1>1. Cardinality(others) \in Nat /\ Cap \in Nat \ {0}
  BY FS_RemoveElement, FS_CardinalityType, FeedAssumption
<1>2. places \in 1..Cap
  BY <1>1 DEF Minimum
<1>3. p \in [1..places -> others \cup {act}]
  BY DEF Plans
<1> HIDE DEF places, others
<1>4. p \in [1..places -> Guards]
  BY <1>3 DEF others
<1> QED BY <1>2, <1>4

LEMMA HaltedHeads ==
  ASSUME Heads, rounds' \in Seq(Round), late' \subseteq late, head' = head, known' = known,
         \A j \in DOMAIN rounds' :
           j \in DOMAIN rounds /\ rounds'[j].poll = rounds[j].poll
             /\ rounds'[j].seen = rounds[j].seen
  PROVE  Heads'
<1>1. \A p \in Polls(rounds', late') : p \in Polls(rounds, late)
  BY DEF Polls
<1> QED BY <1>1 DEF Heads

LEMMA StopWatchingStep ==
  ASSUME IInv, StopWatching
  PROVE  IInv'
<1>1. /\ watching' = FALSE /\ ticker' = FALSE /\ coord' = coord /\ StopAll(<<>>)
      /\ UNCHANGED <<chainVars, planVars, known, pushed>>
  BY DEF StopWatching
<1>2. /\ rounds' \in Seq(Round) /\ Len(rounds') <= MaxRounds /\ rounds' = <<>>
      /\ \A j \in DOMAIN rounds' :
           j \in DOMAIN rounds /\ rounds'[j].poll = rounds[j].poll
             /\ rounds'[j].seen = rounds[j].seen /\ rounds'[j].cancelled = rounds[j].cancelled
      /\ runners' \in [Guards -> Feeds \cup {None}] /\ \A g \in Guards : runners'[g] = None
      /\ late' \subseteq late /\ super' = FALSE
      /\ \A psh, tick : FeedsRight(feeds', coord', runners', rounds', late', psh, tick)
  BY <1>1, StopAllRight
<1>3. FeedsRight(feeds', coord', runners', rounds', late', pushed', ticker')
  BY <1>2
<1>4. Shapes'
  BY <1>1, <1>2 DEF IInv, Shapes, planVars
<1>5. Heads'
  BY <1>1, <1>2, HaltedHeads DEF IInv, chainVars
<1>6. Watched'
  BY <1>1, <1>2 DEF Watched
<1> QED BY <1>3, <1>4, <1>5, <1>6 DEF IInv

LEMMA ShowGuardStep ==
  ASSUME IInv, NEW g \in Guards, ShowGuard(g), registry' \subseteq Guards, IsFiniteSet(registry'),
         UNCHANGED <<chainVars, watching, ticker, known>>
  PROVE  IInv'
<1>1. /\ plan' \in Plans(registry', g) /\ coord' = None /\ StopAll(rounds) /\ pushed' = {}
  BY DEF ShowGuard
<1>2. plan' \in Seq(Guards) /\ Len(plan') \in 1..Cap
  BY <1>1, PlansFacts
<1>3. /\ rounds' \in Seq(Round) /\ Len(rounds') <= MaxRounds
      /\ \A j \in DOMAIN rounds' :
           j \in DOMAIN rounds /\ rounds'[j].poll = rounds[j].poll
             /\ rounds'[j].seen = rounds[j].seen /\ rounds'[j].cancelled = rounds[j].cancelled
      /\ runners' \in [Guards -> Feeds \cup {None}] /\ \A d \in Guards : runners'[d] = None
      /\ late' \subseteq late /\ super' = FALSE
      /\ \A psh, tick : FeedsRight(feeds', coord', runners', rounds', late', psh, tick)
  BY <1>1, StopAllRight
<1>4. FeedsRight(feeds', coord', runners', rounds', late', pushed', ticker')
  BY <1>3
<1>5. Shapes'
  BY <1>1, <1>2, <1>3 DEF IInv, Shapes
<1>6. Heads'
  BY <1>3, HaltedHeads DEF IInv, chainVars
<1>7. Watched'
  <2>1. rounds = <<>> => rounds' = <<>>
    <3>1. DOMAIN rounds' = 1..Len(rounds') /\ Len(rounds') \in Nat
      BY <1>3
    <3>2. ASSUME rounds = <<>> PROVE Len(rounds') = 0
      <4>1. 1 \notin DOMAIN rounds'
        BY <1>3, <3>2
      <4> QED BY <3>1, <4>1
    <3> QED BY <1>3, <3>2
  <2> QED BY <1>3, <2>1 DEF IInv, Watched
<1> QED BY <1>4, <1>5, <1>6, <1>7 DEF IInv

LEMMA SwitchGuardStep ==
  ASSUME IInv, NEW g \in Guards, SwitchGuard(g)
  PROVE  IInv'
<1>1. registry' = registry /\ ShowGuard(g) /\ UNCHANGED <<chainVars, watching, ticker, known>>
  BY DEF SwitchGuard
<1>2. registry \subseteq Guards /\ IsFiniteSet(registry)
  BY DEF IInv, Shapes
<1> QED BY <1>1, <1>2, ShowGuardStep

-----------------------------------------------------------------------------
(* Listening.  A listener that is created finds a new feed, or one of its  *)
(* guard that has not begun or has stopped.                                *)
TailRight(t, tick) ==
  /\ t.coord \in Feeds \cup {None} /\ t.runners \in [Guards -> Feeds \cup {None}]
  /\ FeedsRight(t.feeds, t.coord, t.runners, rounds, late, pushed, tick)

Free(fs) == {f \in Feeds : fs[f] = None}

LEMMA FreeFacts ==
  ASSUME NEW fs
  PROVE  Free(fs) \subseteq Feeds /\ IsFiniteSet(Free(fs)) /\ Cardinality(Free(fs)) \in Nat
<1>1. Free(fs) \in SUBSET Feeds
  BY DEF Free
<1> QED BY <1>1, FS_Subset, FS_CardinalityType, FeedAssumption

LEMMA EnsureRight ==
  ASSUME IInv, NEW t, NEW tick, TailRight(t, tick), NEW g \in Guards, Cardinality(Free(t.feeds)) >= 1
  PROVE  LET e == Ensure(t, g)
         IN /\ TailRight(e, tick) /\ e.coord # None /\ e.feeds[e.coord].guard = g
            /\ e.feeds[e.coord] \in Feed /\ e.runners = t.runners
            /\ Cardinality(Free(e.feeds)) >= Cardinality(Free(t.feeds)) - 1
<1>1. /\ t.coord \in Feeds \cup {None} /\ t.runners \in [Guards -> Feeds \cup {None}]
      /\ t.feeds \in [Feeds -> Feed \cup {None}]
      /\ FeedsRight(t.feeds, t.coord, t.runners, rounds, late, pushed, tick)
      /\ Held(t.feeds, t.coord, t.runners, rounds, late)
      /\ rounds \in Seq(Round) /\ late \subseteq Poll
  BY DEF TailRight, FeedsRight, IInv, Shapes
<1>2. /\ Referenced(t.coord, t.runners, rounds, late) \subseteq Feeds
      /\ t.coord # None => t.coord \in Referenced(t.coord, t.runners, rounds, late)
      /\ \A p \in Polls(rounds, late) : p.feed \in Referenced(t.coord, t.runners, rounds, late)
      /\ \A d \in Guards : t.runners[d] # None =>
           t.runners[d] \in Referenced(t.coord, t.runners, rounds, late)
  BY <1>1, Referencing
<1>3. Cardinality(Free(t.feeds)) \in Nat /\ IsFiniteSet(Free(t.feeds))
  BY FreeFacts
<1>4. CASE t.coord # None /\ t.feeds[t.coord].guard = g
  <2>1. Ensure(t, g) = t
    BY <1>4 DEF Ensure
  <2>2. t.feeds[t.coord] \in Feed
    BY <1>1, <1>2, <1>4 DEF Held
  <2> QED BY <1>3, <1>4, <2>1, <2>2
<1>5. CASE ~(t.coord # None /\ t.feeds[t.coord].guard = g)
  <2> DEFINE f == CHOOSE f \in Feeds : t.feeds[f] = None
             fs == [t.feeds EXCEPT ![f] = NewFeed(g)]
             e == Ensure(t, g)
  <2>1. Free(t.feeds) # {}
    BY <1>3, FS_EmptySet
  <2>2. f \in Feeds /\ t.feeds[f] = None
    BY <2>1 DEF Free
  <2>3. e.feeds = fs /\ e.coord = f /\ e.runners = t.runners
    BY <1>5 DEF Ensure, Anew
  <2> HIDE DEF f, e
  <2>4. /\ NewFeed(g) \in Feed /\ NewFeed(g) # None /\ NewFeed(g).guard = g
        /\ NewFeed(g).next = None /\ NewFeed(g).base = None /\ Tidy(NewFeed(g))
    BY NewFeedIsFeed
  <2>5. /\ fs \in [Feeds -> Feed \cup {None}] /\ fs[f] = NewFeed(g)
        /\ \A d \in Feeds : d # f => fs[d] = t.feeds[d]
    BY <1>1, <2>2, <2>4
  <2> HIDE DEF fs
  <2>6. /\ \A p \in Polls(rounds, late) : p.feed # f /\ p.feed \in Feeds
        /\ \A d \in Guards : t.runners[d] # None => t.runners[d] # f
        /\ late \subseteq Polls(rounds, late)
        /\ None \notin Feeds
    BY <1>1, <1>2, <2>2, FeedAssumption DEF Held, Polls
  <2>7. Held(fs, f, t.runners, rounds, late)
    <3> SUFFICES ASSUME NEW d \in Referenced(f, t.runners, rounds, late)
                 PROVE  fs[d] # None
      BY DEF Held
    <3>1. \/ d \in Tailed(t.runners)
          \/ d = f /\ f # None
          \/ \E p \in late : d = p.feed
          \/ \E j \in DOMAIN rounds : d = rounds[j].poll.feed \/ d \in rounds[j].visited
      BY ReferencedBy
    <3>2. d = f \/ d \in Referenced(t.coord, t.runners, rounds, late)
      BY <3>1, ReferencedBy
    <3> QED BY <1>1, <1>2, <2>2, <2>4, <2>5, <3>2 DEF Held
  <2>8. OwnFeeds(fs, t.runners) /\ (tick => Accounted(fs, t.runners, Got(rounds), pushed))
    <3>1. \A d \in Guards : t.runners[d] # None =>
            t.runners[d] \in Feeds /\ fs[t.runners[d]] = t.feeds[t.runners[d]]
      BY <1>1, <2>5, <2>6
    <3>2. OwnFeeds(fs, t.runners)
      BY <1>1, <3>1 DEF FeedsRight, OwnFeeds
    <3>3. tick => Accounted(fs, t.runners, Got(rounds), pushed)
      BY <1>1, <3>1 DEF FeedsRight, Accounted
    <3> QED BY <3>2, <3>3
  <2>9. Asked(fs, t.runners, Polls(rounds, late)) /\ Overdue(fs, late)
    BY <1>1, <2>5, <2>6 DEF FeedsRight, Asked, Overdue
  <2>10. Settled(fs, t.runners)
    BY <1>1, <2>4, <2>5 DEF FeedsRight, Settled
  <2>11. TailRight(e, tick)
    BY <1>1, <2>2, <2>3, <2>5, <2>7, <2>8, <2>9, <2>10 DEF TailRight, FeedsRight
  <2>12. Cardinality(Free(fs)) = Cardinality(Free(t.feeds)) - 1
    <3>1. Free(fs) = Free(t.feeds) \ {f} /\ f \in Free(t.feeds)
      BY <2>2, <2>4, <2>5 DEF Free
    <3> QED BY <1>3, <3>1, FS_RemoveElement
  <2>13. Cardinality(Free(fs)) >= Cardinality(Free(t.feeds)) - 1
    BY <1>3, <2>12
  <2> QED BY <2>2, <2>3, <2>4, <2>5, <2>6, <2>11, <2>13 DEF e
<1> QED BY <1>4, <1>5

LEMMA CreateRight ==
  ASSUME IInv, NEW t, NEW tick, TailRight(t, tick), NEW g \in Guards, Cardinality(Free(t.feeds)) >= 1
  PROVE  LET c == Create(t, g)
         IN /\ TailRight(c, tick)
            /\ Cardinality(Free(c.feeds)) >= Cardinality(Free(t.feeds)) - 1
<1>1. CASE t.runners[g] # None
  <2>1. Create(t, g) = t /\ Cardinality(Free(t.feeds)) \in Nat
    BY <1>1, FreeFacts DEF Create
  <2> QED BY <2>1
<1>2. CASE t.runners[g] = None
  <2> DEFINE e == Ensure(t, g)
             f == e.coord
             fs == [e.feeds EXCEPT ![f] = Primed(@)]
             run == [e.runners EXCEPT ![g] = f]
             c == Create(t, g)
  <2>1. /\ TailRight(e, tick) /\ e.coord # None /\ e.feeds[e.coord].guard = g
        /\ e.feeds[e.coord] \in Feed /\ e.runners = t.runners
        /\ Cardinality(Free(e.feeds)) >= Cardinality(Free(t.feeds)) - 1
    BY EnsureRight
  <2>2. c.feeds = fs /\ c.coord = f /\ c.runners = run
    BY <1>2 DEF Create
  <2> HIDE DEF c, e
  <2>3. /\ f \in Feeds /\ e.runners \in [Guards -> Feeds \cup {None}] /\ e.runners[g] = None
        /\ e.feeds \in [Feeds -> Feed \cup {None}] /\ e.feeds[f].guard = g
        /\ FeedsRight(e.feeds, f, e.runners, rounds, late, pushed, tick)
        /\ rounds \in Seq(Round) /\ late \subseteq Poll
        /\ None \notin Feed /\ None \notin Feeds /\ None \notin Nat
    BY <1>2, <2>1, NoneIsNoFeed, FeedAssumption DEF TailRight, FeedsRight, IInv, Shapes
  <2> DEFINE old == e.feeds[f]
             new == Primed(old)
  <2>4. /\ new \in Feed /\ new.guard = g /\ new.stopped = old.stopped /\ new.overrun = old.overrun
        /\ new.base = None <=> new.next = None
        /\ new.next # None /\ ~new.stopped => \A shown : Complete(new, shown)
        /\ Tidy(new)
        /\ old \in Feed
    <3>1. old \in Feed /\ known \in Nat
      BY <2>1, FeedAssumption DEF IInv, Heads
    <3>2. /\ old.base = None <=> old.next = None
          /\ old.next # None /\ ~old.stopped => f \in Tailed(e.runners)
          /\ Tidy(old)
      BY <2>3, <3>1 DEF FeedsRight, Settled
    <3>3. f \notin Tailed(e.runners)
      BY <2>3 DEF FeedsRight, OwnFeeds, Tailed
    <3>4. CASE old.next = None /\ known # 0
      <4> DEFINE at == known - History
                 start == Start(at)
      <4>1. at \in Nat /\ start \in Nat
        <5>1. known \in FirstHead..head /\ FirstHead \in Nat /\ History \in Nat
              /\ History < FirstHead /\ head \in Nat
          BY <3>4, FeedAssumption DEF IInv, Heads
        <5> QED BY <5>1, StartFacts
      <4>2. new = [old EXCEPT !.next = start, !.expected = at, !.base = start,
                              !.lost = <<>>, !.regressed = FALSE]
        BY <3>4 DEF Primed
      <4>3. <<>> \in Seq(Nat \X Nat)
        OBVIOUS
      <4> HIDE DEF at, new, start
      <4>4. /\ new \in Feed /\ new.guard = old.guard /\ new.stopped = old.stopped
            /\ new.overrun = old.overrun /\ new.next = start /\ new.base = start
            /\ new.expected = at /\ new.lost = <<>> /\ new.dropped = old.dropped
            /\ new.cut = old.cut
        BY <3>1, <4>1, <4>2, <4>3 DEF Feed
      <4>5. old.cut = {} /\ old.dropped = {}
        BY <3>2, <3>4 DEF Tidy
      <4>6. Tidy(new)
        BY <2>3, <4>1, <4>4, <4>5, FeedAssumption DEF Tidy
      <4>7. ASSUME NEW shown
            PROVE  Complete(new, shown)
        <5>1. ASSUME NEW d \in Passed(new) PROVE FALSE
          BY <4>1, <4>4, EventFacts DEF Passed
        <5>2. Ends(new.guard, new.next, new.expected, shown)
          BY <4>4 DEF Ends, start
        <5> QED BY <4>4, <4>5, <5>1, <5>2 DEF Complete
      <4> QED BY <2>3, <3>1, <4>1, <4>4, <4>6, <4>7
    <3>5. CASE ~(old.next = None /\ known # 0)
      <4>1. new = old
        BY <3>5 DEF Primed
      <4> QED BY <2>3, <3>1, <3>2, <3>3, <4>1
    <3> QED BY <3>4, <3>5
  <2>5. /\ fs \in [Feeds -> Feed \cup {None}] /\ fs[f] = new
        /\ \A d \in Feeds : d # f => fs[d] = e.feeds[d]
    BY <2>3, <2>4
  <2>6. /\ run \in [Guards -> Feeds \cup {None}] /\ run[g] = f
        /\ \A d \in Guards : d # g => run[d] = e.runners[d]
    BY <2>3
  <2> HIDE DEF new, fs, run
  <2>7. Tailed(run) = Tailed(e.runners) \cup {f} /\ f \notin Tailed(e.runners)
    <3>1. f \notin Tailed(e.runners)
      BY <2>3 DEF FeedsRight, OwnFeeds, Tailed
    <3>2. \A d : d \in Tailed(run) <=> d \in Tailed(e.runners) \/ d = f
      BY <2>3, <2>6 DEF Tailed
    <3> QED BY <3>1, <3>2
  <2>8. \A d \in Guards : e.runners[d] # f
    BY <2>3, <2>7 DEF Tailed
  <2>9. \A p \in Polls(rounds, late) : p.feed \in Feeds /\ p.feed \in Referenced(f, e.runners, rounds, late)
    <3>1. Referenced(f, e.runners, rounds, late) \subseteq Feeds
      BY <2>3, Referencing
    <3>2. \A p \in Polls(rounds, late) : p.feed \in Referenced(f, e.runners, rounds, late)
      BY <2>3, Referencing
    <3> QED BY <3>1, <3>2
  <2>10. Held(fs, f, run, rounds, late)
    <3> SUFFICES ASSUME NEW d \in Referenced(f, run, rounds, late)
                 PROVE  fs[d] # None
      BY DEF Held
    <3>1. \/ d \in Tailed(run)
          \/ d = f /\ f # None
          \/ \E p \in late : d = p.feed
          \/ \E j \in DOMAIN rounds : d = rounds[j].poll.feed \/ d \in rounds[j].visited
      BY ReferencedBy
    <3>2. d = f \/ d \in Referenced(f, e.runners, rounds, late)
      BY <2>7, <3>1, ReferencedBy
    <3>3. Referenced(f, e.runners, rounds, late) \subseteq Feeds
      BY <2>3, Referencing
    <3> QED BY <2>3, <2>4, <2>5, <3>2, <3>3 DEF FeedsRight, Held
  <2>11. OwnFeeds(fs, run)
    BY <2>3, <2>4, <2>5, <2>6, <2>8 DEF FeedsRight, OwnFeeds
  <2>12. Asked(fs, run, Polls(rounds, late))
    <3>1. ASSUME NEW p \in Polls(rounds, late), ~fs[p.feed].stopped
          PROVE  p.feed # f /\ ~e.feeds[p.feed].stopped
      <4>1. ~e.feeds[p.feed].stopped
        BY <2>4, <2>5, <2>9, <3>1
      <4> QED BY <2>3, <2>7, <4>1 DEF FeedsRight, Asked
    <3> QED BY <2>3, <2>5, <2>7, <2>9, <3>1 DEF FeedsRight, Asked
  <2>13. Overdue(fs, late)
    <3>1. late \subseteq Polls(rounds, late)
      BY DEF Polls
    <3> QED BY <2>3, <2>4, <2>5, <2>9, <3>1 DEF FeedsRight, Overdue
  <2>14. Settled(fs, run)
    BY <2>3, <2>4, <2>5, <2>7 DEF FeedsRight, Settled
  <2>15. tick => Accounted(fs, run, Got(rounds), pushed)
    <3> SUFFICES ASSUME tick, NEW d \in Guards, run[d] # None,
                        fs[run[d]].next # None, ~fs[run[d]].overrun, ~fs[run[d]].stopped
                 PROVE  Complete(fs[run[d]], pushed \cup Got(rounds))
      BY Zenon DEF Accounted
    <3>1. CASE d = g
      BY <2>4, <2>5, <2>6, <3>1
    <3>2. CASE d # g
      <4>1. run[d] = e.runners[d] /\ e.runners[d] \in Feeds /\ fs[run[d]] = e.feeds[e.runners[d]]
        BY <2>3, <2>5, <2>6, <2>8, <3>2
      <4> QED BY <2>3, <4>1 DEF FeedsRight, Accounted
    <3> QED BY <3>1, <3>2
  <2>16. TailRight(c, tick)
    BY <2>2, <2>3, <2>5, <2>6, <2>10, <2>11, <2>12, <2>13, <2>14, <2>15 DEF TailRight, FeedsRight
  <2>17. Free(fs) = Free(e.feeds)
    BY <2>3, <2>4, <2>5 DEF Free
  <2> QED BY <2>1, <2>2, <2>16, <2>17 DEF c
<1> QED BY <1>1, <1>2

LEMMA Induction ==
  ASSUME NEW top \in Nat, NEW Q, 0 \in Q, \A k \in 1..top : k - 1 \in Q => k \in Q
  PROVE  top \in Q
<1> SUFFICES ASSUME top \notin Q PROVE FALSE
  OBVIOUS
<1> DEFINE missed == (0..top) \ Q
<1>1. PICK m \in missed : \A k \in missed : m <= k
  BY LeastNumber, missed # {}, missed \subseteq Nat
<1>2. m \in 1..top /\ m - 1 \in 0..top /\ ~(m <= m - 1)
  BY <1>1
<1>3. m - 1 \in Q
  BY <1>1, <1>2
<1> QED BY <1>1, <1>2, <1>3

\* The tails as sync() goes through the first n guards of the plan.
Steps(kept, target, n, f) ==
  f = [i \in 0..n |-> IF i = 0 THEN kept ELSE Create(f[i - 1], target[i])]

LEMMA StepsExist ==
  ASSUME NEW kept, NEW target, NEW top \in Nat
  PROVE  \E f : Steps(kept, target, top, f)
<1> DEFINE Q == {n \in Nat : \E f : Steps(kept, target, n, f)}
<1>1. 0 \in Q
  <2> DEFINE f == [i \in 0..0 |-> kept]
  <2>1. f = [i \in 0..0 |-> IF i = 0 THEN kept ELSE Create(f[i - 1], target[i])]
    OBVIOUS
  <2> QED BY <2>1 DEF Steps
<1>2. ASSUME NEW n \in 1..top, n - 1 \in Q
      PROVE  n \in Q
  <2>1. PICK f : Steps(kept, target, n - 1, f)
    BY <1>2
  <2> DEFINE step(h, i) == IF i = 0 THEN kept ELSE Create(h[i - 1], target[i])
             g == [i \in 0..n |-> step(f, i)]
  <2>2. f = [i \in 0..(n - 1) |-> step(f, i)]
    BY <2>1 DEF Steps
  <2>3. ASSUME NEW i \in 0..n
        PROVE  step(f, i) = step(g, i)
    <3>1. CASE i = 0
      BY <3>1
    <3>2. CASE i # 0
      <4>1. i - 1 \in 0..(n - 1) /\ i - 1 \in 0..n
        BY <3>2
      <4>2. f[i - 1] = g[i - 1]
        <5> HIDE DEF step
        <5>1. f[i - 1] = step(f, i - 1)
          BY <2>2, <4>1
        <5>2. g[i - 1] = step(f, i - 1)
          BY <4>1
        <5> QED BY <5>1, <5>2
      <4> HIDE DEF g
      <4> QED BY <4>2
    <3> QED BY <3>1, <3>2
  <2>4. g = [i \in 0..n |-> step(g, i)]
    <3> HIDE DEF step
    <3>1. \A i \in 0..n : g[i] = step(g, i)
      BY <2>3
    <3>2. g = [i \in 0..n |-> g[i]]
      OBVIOUS
    <3> HIDE DEF g
    <3> QED BY <3>1, <3>2
  <2> HIDE DEF g
  <2>5. Steps(kept, target, n, g)
    BY <2>4, Zenon DEF Steps
  <2> QED BY <1>2, <2>5
<1> HIDE DEF Q
<1>3. top \in Q
  BY <1>1, <1>2, Induction
<1> QED BY <1>3 DEF Q

LEMMA SyncedRight ==
  ASSUME IInv, NEW target \in Seq(Guards), Len(target) <= Cap, RoomToSync, NEW tick,
         tick => ticker \/ \A g \in Guards : runners[g] = None
  PROVE  TailRight(Synced(target), tick)
<1> DEFINE gone == {runners[g] : g \in Guards \ ToSet(target)} \ {None}
           run == [g \in Guards |-> IF g \in ToSet(target) THEN runners[g] ELSE None]
           fs == Stopped(feeds, gone)
           kept == [feeds |-> fs, coord |-> coord, runners |-> run]
           top == Len(target)
<1>1. /\ coord \in Feeds \cup {None} /\ runners \in [Guards -> Feeds \cup {None}]
      /\ FeedsRight(feeds, coord, runners, rounds, late, pushed, ticker)
      /\ feeds \in [Feeds -> Feed \cup {None}]
      /\ rounds \in Seq(Round) /\ late \subseteq Poll /\ Cap \in Nat \ {0}
      /\ Cardinality(Free(feeds)) >= Cap /\ Cardinality(Free(feeds)) \in Nat
  BY FreeFacts, FeedAssumption DEF IInv, Shapes, FeedsRight, RoomToSync, Free
<1>2. /\ run \in [Guards -> Feeds \cup {None}]
      /\ \A g \in Guards : run[g] # None => run[g] = runners[g] /\ run[g] \notin gone
      /\ \A g \in Guards : run[g] = None => runners[g] = None \/ runners[g] \in gone
      /\ gone \subseteq Tailed(runners)
  <2>1. \A g \in Guards : g \in ToSet(target) /\ runners[g] # None => runners[g] \notin gone
    BY <1>1 DEF FeedsRight, OwnFeeds
  <2> QED BY <1>1, <2>1 DEF Tailed
<1> HIDE DEF gone, run
<1>3. /\ Tailed(run) \subseteq Tailed(runners)
      /\ \A f \in Tailed(runners) : f \in gone \/ f \in Tailed(run)
  BY <1>1, <1>2 DEF Tailed
<1>4. /\ Tailed(runners) \subseteq Referenced(coord, runners, rounds, late)
      /\ Referenced(coord, runners, rounds, late) \subseteq Feeds
      /\ \A p \in Polls(rounds, late) : p.feed \in Feeds
      /\ late \subseteq Polls(rounds, late)
      /\ \A g \in Guards : run[g] # None => run[g] \in Feeds
  <2>1. /\ Referenced(coord, runners, rounds, late) \subseteq Feeds
        /\ Polls(rounds, late) \subseteq Poll
    BY <1>1, Referencing
  <2> QED BY <1>2, <2>1 DEF Referenced, Poll, Polls
<1>5. /\ fs \in [Feeds -> Feed \cup {None}]
      /\ \A f \in Feeds : fs[f] = None <=> feeds[f] = None
      /\ \A f \in Feeds \ gone : fs[f] = feeds[f]
      /\ \A f \in gone : fs[f].stopped /\ fs[f].next = None /\ fs[f].base = None /\ Tidy(fs[f])
  <2>1. gone \in SUBSET Feeds /\ \A f \in gone : feeds[f] # None
    BY <1>1, <1>2, <1>4 DEF FeedsRight, Held
  <2> QED BY <1>1, <2>1, StoppedFacts
<1> HIDE DEF fs
<1>6. TailRight(kept, tick)
  <2>1. Held(fs, coord, run, rounds, late)
    <3> SUFFICES ASSUME NEW d \in Referenced(coord, run, rounds, late)
                 PROVE  d \in Referenced(coord, runners, rounds, late)
      BY <1>1, <1>4, <1>5 DEF FeedsRight, Held
    <3>1. \/ d \in Tailed(run)
          \/ d = coord /\ coord # None
          \/ \E p \in late : d = p.feed
          \/ \E j \in DOMAIN rounds : d = rounds[j].poll.feed \/ d \in rounds[j].visited
      BY ReferencedBy
    <3> QED BY <1>3, <3>1, ReferencedBy
  <2>2. OwnFeeds(fs, run)
    BY <1>1, <1>2, <1>4, <1>5 DEF FeedsRight, OwnFeeds
  <2>3. Asked(fs, run, Polls(rounds, late)) /\ Overdue(fs, late)
    BY <1>1, <1>3, <1>4, <1>5 DEF FeedsRight, Asked, Overdue
  <2>4. Settled(fs, run)
    BY <1>1, <1>3, <1>5 DEF FeedsRight, Settled
  <2>5. tick => Accounted(fs, run, Got(rounds), pushed)
    <3>1. CASE ticker
      BY <1>1, <1>2, <1>4, <1>5, <3>1 DEF FeedsRight, Accounted
    <3>2. CASE \A g \in Guards : runners[g] = None
      BY <1>2, <3>2 DEF Accounted
    <3> QED BY <3>1, <3>2
  <2>6. FeedsRight(fs, coord, run, rounds, late, pushed, tick)
    BY <1>5, <2>1, <2>2, <2>3, <2>4, <2>5 DEF FeedsRight
  <2> QED BY <1>1, <1>2, <2>6 DEF TailRight
<1>7. Free(fs) = Free(feeds)
  BY <1>5 DEF Free
<1> HIDE DEF kept
<1>8. top \in Nat /\ top <= Cap /\ \A i \in 1..top : target[i] \in Guards
  OBVIOUS
<1> DEFINE upTo == CHOOSE f : Steps(kept, target, top, f)
<1>9. Synced(target) = upTo[top]
  BY DEF Synced, Steps, kept, fs, run, gone
<1> HIDE DEF top
<1>10. Steps(kept, target, top, upTo)
  BY <1>8, StepsExist
<1> HIDE DEF upTo
<1>11. upTo[0] = kept /\ \A i \in 1..top : upTo[i] = Create(upTo[i - 1], target[i])
  BY <1>8, <1>10 DEF Steps
<1> DEFINE Q == {i \in 0..top : TailRight(upTo[i], tick)
                               /\ Cardinality(Free(upTo[i].feeds)) >= Cap - i}
<1>12. 0 \in Q
  BY <1>1, <1>6, <1>7, <1>8, <1>11 DEF kept
<1>13. ASSUME NEW k \in 1..top, k - 1 \in Q
       PROVE  k \in Q
  <2> DEFINE t == upTo[k - 1]
  <2>1. /\ TailRight(t, tick) /\ Cardinality(Free(t.feeds)) >= Cap - (k - 1)
        /\ Cardinality(Free(t.feeds)) \in Nat /\ target[k] \in Guards
    BY <1>8, <1>13, FreeFacts
  <2> HIDE DEF t
  <2>2. Cardinality(Free(t.feeds)) >= 1
    BY <1>1, <1>8, <1>13, <2>1
  <2> DEFINE c == Create(t, target[k])
  <2>3. TailRight(c, tick) /\ Cardinality(Free(c.feeds)) >= Cardinality(Free(t.feeds)) - 1
    BY <2>1, <2>2, CreateRight
  <2>4. upTo[k] = c
    BY <1>11, <1>13 DEF t
  <2>5. Cardinality(Free(c.feeds)) \in Nat
    BY FreeFacts
  <2> HIDE DEF c
  <2> QED BY <1>1, <1>8, <1>13, <2>1, <2>3, <2>4, <2>5
<1> HIDE DEF Q
<1>14. top \in Q
  BY <1>8, <1>12, <1>13, Induction
<1> QED BY <1>9, <1>14 DEF Q

LEMMA SyncRight ==
  ASSUME IInv, NEW target \in Seq(Guards), Len(target) <= Cap, Sync(target), NEW tick,
         tick => ticker \/ \A g \in Guards : runners[g] = None
  PROVE  /\ coord' \in Feeds \cup {None} /\ runners' \in [Guards -> Feeds \cup {None}]
         /\ FeedsRight(feeds', coord', runners', rounds, late, pushed, tick)
<1> DEFINE t == Synced(target)
<1>1. /\ runners' = t.runners /\ coord' = t.coord
      /\ feeds' = Collected(t.feeds, t.coord, t.runners, rounds, late)
  BY DEF Sync
<1>2. TailRight(t, tick)
  BY SyncedRight DEF Sync
<1> HIDE DEF t
<1>3. /\ t.coord \in Feeds \cup {None} /\ t.runners \in [Guards -> Feeds \cup {None}]
      /\ FeedsRight(t.feeds, t.coord, t.runners, rounds, late, pushed, tick)
      /\ rounds \in Seq(Round) /\ late \subseteq Poll
  BY <1>2 DEF TailRight, IInv, Shapes
<1>4. FeedsRight(Collected(t.feeds, t.coord, t.runners, rounds, late),
                 t.coord, t.runners, rounds, late, pushed, tick)
  BY <1>3, CollectedRight
<1> QED BY <1>1, <1>3, <1>4

LEMMA StartWatchingStep ==
  ASSUME IInv, StartWatching
  PROVE  IInv'
<1>1. /\ ~watching /\ watching' = TRUE /\ ticker' = TRUE /\ super' = TRUE /\ Sync(plan)
      /\ UNCHANGED <<chainVars, planVars, pollVars>>
  BY DEF StartWatching
<1>2. plan \in Seq(Guards) /\ Len(plan) <= Cap /\ Cap \in Nat
  BY FeedAssumption DEF IInv, Shapes
<1>3. rounds = <<>> /\ \A g \in Guards : runners[g] = None
  BY <1>1 DEF IInv, Watched
<1>4. /\ coord' \in Feeds \cup {None} /\ runners' \in [Guards -> Feeds \cup {None}]
      /\ FeedsRight(feeds', coord', runners', rounds, late, pushed, TRUE)
  BY <1>1, <1>2, <1>3, SyncRight
<1>5. Shapes'
  BY <1>1, <1>4 DEF IInv, Shapes, planVars, pollVars
<1>6. Heads'
  BY <1>1 DEF IInv, Heads, chainVars, pollVars
<1>7. Watched'
  BY <1>1, <1>3 DEF Watched, pollVars
<1> QED BY <1>1, <1>4, <1>5, <1>6, <1>7 DEF IInv, pollVars

LEMMA AlignStep ==
  ASSUME IInv, Align, registry' \subseteq Guards, IsFiniteSet(registry'),
         UNCHANGED <<chainVars, watching, ticker, pollVars>>
  PROVE  IInv'
<1>1. active \in Guards
  BY DEF active, IInv, Shapes
<1>2. plan' \in Seq(Guards) /\ Len(plan') \in 1..Cap /\ Len(plan') <= Cap
  <2>1. plan' \in Seq(Guards) /\ Len(plan') \in 1..Cap
    BY <1>1, PlansFacts DEF Align
  <2> QED BY <2>1, FeedAssumption
<1>3. Heads'
  BY DEF IInv, Heads, chainVars, pollVars
<1>4. CASE watching /\ super
  <2>1. Sync(plan') /\ super' = super
    BY <1>4 DEF Align
  <2>2. /\ coord' \in Feeds \cup {None} /\ runners' \in [Guards -> Feeds \cup {None}]
        /\ FeedsRight(feeds', coord', runners', rounds, late, pushed, ticker)
    BY <1>2, <2>1, SyncRight
  <2>3. Shapes'
    BY <1>2, <2>1, <2>2 DEF IInv, Shapes, pollVars
  <2>4. Watched'
    BY <1>4, <2>1 DEF IInv, Watched, pollVars
  <2> QED BY <1>3, <2>2, <2>3, <2>4 DEF IInv, pollVars
<1>5. CASE ~(watching /\ super)
  <2>1. UNCHANGED <<feeds, tailVars>>
    BY <1>5 DEF Align
  <2>2. Shapes'
    BY <1>2, <2>1 DEF IInv, Shapes, pollVars, tailVars
  <2>3. Watched'
    BY <2>1 DEF IInv, Watched, pollVars, tailVars
  <2> QED BY <1>3, <2>1, <2>2, <2>3 DEF IInv, pollVars, tailVars
<1> QED BY <1>4, <1>5

LEMMA AddGuardStep ==
  ASSUME IInv, NEW g \in Guards, AddGuard(g)
  PROVE  IInv'
<1>1. registry' \subseteq Guards /\ IsFiniteSet(registry')
  BY FS_AddElement DEF AddGuard, IInv, Shapes
<1> QED BY <1>1, AlignStep DEF AddGuard

LEMMA RemoveGuardStep ==
  ASSUME IInv, NEW g \in Guards, RemoveGuard(g)
  PROVE  IInv'
<1>1. /\ registry' = registry \ {g} /\ UNCHANGED <<chainVars, watching, ticker>>
      /\ IF g = active
           THEN (\E next \in registry' : ShowGuard(next)) /\ UNCHANGED known
           ELSE Align /\ UNCHANGED pollVars
  BY DEF RemoveGuard
<1>2. registry' \subseteq Guards /\ IsFiniteSet(registry')
  BY <1>1, FS_RemoveElement DEF IInv, Shapes
<1>3. CASE g = active
  <2>1. PICK next \in registry' : ShowGuard(next)
    BY <1>1, <1>3
  <2> QED BY <1>1, <1>2, <1>3, <2>1, ShowGuardStep
<1>4. CASE g # active
  BY <1>1, <1>2, <1>4, AlignStep
<1> QED BY <1>3, <1>4

LEMMA ToggleTailedStep ==
  ASSUME IInv, ToggleTailed
  PROVE  IInv'
BY AlignStep DEF ToggleTailed, IInv, Shapes

LEMMA QueryRangeStep ==
  ASSUME IInv, QueryRange
  PROVE  IInv'
<1> DEFINE t == [feeds |-> feeds, coord |-> coord, runners |-> runners]
           e == Ensure(t, active)
<1>1. /\ RoomToSync /\ coord' = e.coord
      /\ feeds' = Collected(e.feeds, e.coord, runners, rounds, late)
      /\ UNCHANGED <<chainVars, planVars, watching, ticker, super, runners, pollVars>>
  BY DEF QueryRange
<1>2. active \in Guards /\ rounds \in Seq(Round) /\ late \subseteq Poll
  BY DEF active, IInv, Shapes
<1>3. TailRight(t, ticker)
  BY DEF IInv, Shapes, TailRight
<1>4. Cardinality(Free(t.feeds)) >= 1
  <2>1. Cardinality(Free(feeds)) >= Cap /\ Cardinality(Free(feeds)) \in Nat /\ Cap \in Nat \ {0}
    BY <1>1, FreeFacts, FeedAssumption DEF RoomToSync, Free
  <2> QED BY <2>1
<1>5. TailRight(e, ticker) /\ e.runners = t.runners
  BY <1>2, <1>3, <1>4, EnsureRight
<1> HIDE DEF e
<1>6. /\ e.coord \in Feeds \cup {None} /\ runners \in [Guards -> Feeds \cup {None}]
      /\ FeedsRight(e.feeds, e.coord, runners, rounds, late, pushed, ticker)
  BY <1>5 DEF TailRight
<1>7. FeedsRight(feeds', coord', runners, rounds, late, pushed, ticker)
  BY <1>1, <1>2, <1>6, CollectedRight
<1>8. Shapes' /\ Watched'
  BY <1>1, <1>6 DEF IInv, Shapes, Watched, planVars, pollVars
<1>9. Heads'
  BY <1>1 DEF IInv, Heads, chainVars, pollVars
<1> QED BY <1>1, <1>7, <1>8, <1>9 DEF IInv, pollVars

-----------------------------------------------------------------------------
LEMMA InitHolds ==
  ASSUME Init
  PROVE  IInv
<1>1. /\ head = FirstHead /\ known = 0 /\ registry = {DefaultGuard} /\ plan = <<DefaultGuard>>
      /\ watching = FALSE /\ ticker = FALSE /\ feeds = [f \in Feeds |-> None]
      /\ coord = None /\ super = FALSE /\ runners = [g \in Guards |-> None]
      /\ rounds = <<>> /\ late = {} /\ pushed = {}
  BY DEF Init
<1>2. /\ DefaultGuard \in Guards /\ Cap \in Nat \ {0} /\ MaxRounds \in Nat \ {0}
      /\ FirstHead \in Nat /\ MaxLedger \in Nat /\ FirstHead <= MaxLedger
  BY FeedAssumption
<1>3. DOMAIN rounds = {} /\ Polls(rounds, late) = {}
  BY <1>1 DEF Polls
<1>4. Shapes
  <2>1. IsFiniteSet(registry) /\ registry \subseteq Guards
    BY <1>1, <1>2, FS_Singleton
  <2>2. plan \in Seq(Guards) /\ Len(plan) = 1
    BY <1>1, <1>2
  <2>3. rounds \in Seq(Round) /\ Len(rounds) = 0
    BY <1>1
  <2>4. coord \in Feeds \cup {None} /\ runners \in [Guards -> Feeds \cup {None}]
    BY <1>1
  <2>5. late \subseteq Poll /\ pushed \subseteq Events
    BY <1>1
  <2>6. Len(plan) \in 1..Cap /\ Len(rounds) <= MaxRounds
    BY <1>2, <2>2, <2>3
  <2>7. watching \in BOOLEAN /\ ticker \in BOOLEAN /\ super \in BOOLEAN
    BY <1>1
  <2> QED BY <2>1, <2>2, <2>3, <2>4, <2>5, <2>6, <2>7, Zenon DEF Shapes
<1>5. Heads /\ Watched
  BY <1>1, <1>2, <1>3 DEF Heads, Watched
<1>6. \A f \in Referenced(coord, runners, rounds, late) : FALSE
  <2> SUFFICES ASSUME NEW f \in Referenced(coord, runners, rounds, late) PROVE FALSE
    OBVIOUS
  <2>1. \/ f \in Tailed(runners)
        \/ f = coord /\ coord # None
        \/ \E p \in late : f = p.feed
        \/ \E i \in DOMAIN rounds : f = rounds[i].poll.feed \/ f \in rounds[i].visited
    BY ReferencedBy
  <2> QED BY <1>1, <1>3, <2>1 DEF Tailed
<1>7. FeedsRight(feeds, coord, runners, rounds, late, pushed, ticker)
  BY <1>1, <1>3, <1>6 DEF FeedsRight, Held, OwnFeeds, Asked, Overdue, Settled
<1> QED BY <1>4, <1>5, <1>7 DEF IInv

LEMMA NextHolds ==
  ASSUME IInv, [Next]_vars
  PROVE  IInv'
<1>1. CASE CloseLedger
  BY <1>1, CloseLedgerStep
<1>2. CASE StartWatching
  BY <1>2, StartWatchingStep
<1>3. CASE StopWatching
  BY <1>3, StopWatchingStep
<1>4. CASE StartRound
  BY <1>4, StartRoundStep
<1>5. CASE \E i \in DOMAIN rounds : Arrive(i) \/ FailPoll(i) \/ TimeoutPoll(i)
  BY <1>5, ArriveStep, FailPollStep, TimeoutPollStep
<1>6. CASE \E p \in late : AnswerLate(p)
  BY <1>6, AnswerLateStep
<1>7. CASE \E g \in Guards : SwitchGuard(g) \/ AddGuard(g) \/ RemoveGuard(g)
  BY <1>7, SwitchGuardStep, AddGuardStep, RemoveGuardStep
<1>8. CASE ToggleTailed
  BY <1>8, ToggleTailedStep
<1>9. CASE QueryRange
  BY <1>9, QueryRangeStep
<1>10. CASE Wipe
  BY <1>10, WipeStep
<1>11. CASE UNCHANGED vars
  <2>1. /\ head' = head /\ registry' = registry /\ plan' = plan /\ watching' = watching
        /\ ticker' = ticker /\ known' = known /\ feeds' = feeds /\ coord' = coord
        /\ super' = super /\ runners' = runners /\ rounds' = rounds /\ late' = late
        /\ pushed' = pushed
    BY <1>11 DEF vars
  <2> QED BY <2>1 DEF IInv, Shapes, Heads, Watched
<1> QED BY <1>1, <1>2, <1>3, <1>4, <1>5, <1>6, <1>7, <1>8, <1>9, <1>10, <1>11 DEF Next

LEMMA Invariant == Spec => []IInv
<1>1. Init => IInv
  BY InitHolds
<1>2. IInv /\ [Next]_vars => IInv'
  BY NextHolds
<1> QED BY <1>1, <1>2, PTL DEF Spec

-----------------------------------------------------------------------------
(* The state stays of its type, and every feed something refers to is      *)
(* there, whatever the guards, the chain and the rounds in flight.         *)
THEOREM FeedTypes == Spec => []TypeOK
<1>1. IInv => TypeOK
  <2> SUFFICES ASSUME IInv PROVE TypeOK
    OBVIOUS
  <2>1. FirstHead \in Nat /\ MaxLedger \in Nat
    BY FeedAssumption
  <2>2. head \in 0..MaxLedger /\ known \in 0..MaxLedger
    BY <2>1 DEF IInv, Heads
  <2>3. ToSet(rounds) \subseteq Round
    BY DEF ToSet, IInv, Shapes
  <2>4. plan \in Seq(Guards) \ {<<>>}
    BY DEF IInv, Shapes
  <2>5. \A f \in Feeds : feeds[f] = None \/ feeds[f] \in Feed
    BY DEF IInv, FeedsRight
  <2>6. \A f \in Referenced(coord, runners, rounds, late) : feeds[f] # None
    BY DEF IInv, FeedsRight, Held
  <2> QED BY <2>2, <2>3, <2>4, <2>5, <2>6 DEF TypeOK, IInv, Shapes
<1> QED BY <1>1, Invariant, PTL

(* "A guard switch can never resume the previous guard's cursor onto a     *)
(* different stream", for any guards and any order of the operator's acts. *)
THEOREM FeedsAreOwn == Spec => []OwnCursor
<1>1. IInv => OwnCursor
  BY DEF IInv, Watched, FeedsRight, OwnFeeds, OwnCursor
<1> QED BY <1>1, Invariant, PTL

(* What a tailed feed has passed was shown, or is told as a gap, or fell   *)
(* to one of the exceptions NoSilentLoss names, for any chain, any pages   *)
(* that end inside a ledger and any overlap of rounds.                     *)
THEOREM NothingIsLost == Spec => []NoSilentLoss
<1>1. IInv => NoSilentLoss
  <2> SUFFICES ASSUME IInv, ticker, NEW g \in Guards, runners[g] # None,
                      feeds[runners[g]].next # None, ~feeds[runners[g]].overrun,
                      ~feeds[runners[g]].stopped
               PROVE  LET feed == feeds[runners[g]]
                          shown == pushed \cup UNION {rounds[i].got : i \in DOMAIN rounds}
                      IN /\ \A e \in Passed(feed) : e \in shown \/ Told(feed, e) \/ Unread(feed, e)
                         /\ feed.dropped # {} => Len(feed.lost) = GapLimit
                         /\ \A p \in feed.cut : \E e \in shown :
                              e[1] = g /\ Place(e) < p /\ p < Start(e[2] + 1)
    BY Zenon DEF NoSilentLoss
  <2>1. /\ runners[g] \in Feeds /\ feeds[runners[g]].guard = g
        /\ Complete(feeds[runners[g]], pushed \cup Got(rounds))
        /\ feeds[runners[g]] # None
    BY Referencing DEF IInv, Shapes, FeedsRight, Accounted, OwnFeeds, Held
  <2>2. Tidy(feeds[runners[g]])
    BY <2>1 DEF IInv, FeedsRight, Settled
  <2> QED BY <2>1, <2>2 DEF Got, Complete, Tidy
<1> QED BY <1>1, Invariant, PTL
=============================================================================

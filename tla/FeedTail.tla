------------------------------ MODULE FeedTail ------------------------------
(***************************************************************************)
(* The telemetry tail of one tab: components/GuardProvider.tsx with        *)
(* lib/guard/telemetry.ts, feedSubscriptions.ts and timeout.ts.            *)
(*                                                                         *)
(* While the tab watches, an interval timer polls every tailed guard in    *)
(* turn.  A slow round does not hold up the next one, so rounds overlap;   *)
(* a poll that runs past its time limit is reported as failed and still    *)
(* moves its feed when its answer comes.  Meanwhile the operator switches  *)
(* guard, adds, removes and pins guards, stops and starts watching, and    *)
(* the session is wiped under the timer.                                   *)
(*                                                                         *)
(* A ledger holds up to Width events of a guard, so a full page may end    *)
(* inside one.  The cursor is then behind expectedFrom, and both are kept; *)
(* latestLedger is read only where a poll without a cursor begins, and is  *)
(* the start of next there.  The chain is older than the history a new     *)
(* feed asks for.                                                          *)
(***************************************************************************)
EXTENDS Naturals, FiniteSets, SequencesExt

CONSTANTS
  Guards,
  DefaultGuard,   \* seeded by the build, so never removed from the registry
  None,           \* null
  Feeds,          \* bounds the GuardFeed objects alive at once
  Events,         \* <<guard, ledger, index>>
  Width,          \* bounds the events of a guard in one ledger
  FirstHead,      \* the last ledger closed when the tab opens
  MaxLedger,      \* bounds the chain
  MaxRounds,      \* bounds the rounds in flight
  MaxLate,        \* bounds the polls past their time limit
  Retention,      \* ledgers the RPC server retains
  History,        \* FEED_SWITCH_HISTORY_LEDGERS
  Limit,          \* events in a full page
  GapLimit,       \* FEED_GAP_LIMIT
  Cap             \* FEED_GUARD_CAP

ASSUME FeedAssumption ==
  /\ DefaultGuard \in Guards
  /\ None \notin Guards \cup Feeds \cup Nat /\ IsFiniteSet(Feeds)
  /\ {MaxLedger, MaxRounds, Retention, History, Limit, Cap, GapLimit, Width}
       \subseteq Nat \ {0}
  /\ MaxLate \in Nat
  /\ FirstHead \in Nat /\ History < FirstHead /\ FirstHead <= MaxLedger
  /\ Events \subseteq Guards \X (1..MaxLedger) \X (0..(Width - 1))
  /\ IsFiniteSet(Events)

VARIABLES
  head,           \* the last ledger closed
  registry,       \* saved guards
  plan,           \* the guards to tail, the one on screen first
  watching,       \* feed.watching
  ticker,         \* the polling effect's interval is set
  known,          \* knownLedgerRef
  feeds,          \* GuardFeed objects
  coord,          \* the feed GuardFeedCoordinator holds
  super,          \* multiFeedRef holds a supervisor
  runners,        \* the supervisor's feed of each tailed guard
  rounds,         \* pollAll() calls in flight, oldest first
  late,           \* polls past their time limit, still unanswered
  pushed          \* events handed to the stream buffer since its last reset

chainVars == <<head>>
planVars == <<registry, plan>>
tailVars == <<coord, super, runners>>
pollVars == <<known, rounds, late, pushed>>
vars == <<head, registry, plan, watching, ticker, known, feeds, coord,
          super, runners, rounds, late, pushed>>

-----------------------------------------------------------------------------
(* Events are read in the order of their places.                           *)
Place(e) == e[2] * Width + e[3]
Start(l) == l * Width

Feed ==
  [guard : Guards,
   next : Nat \cup {None},      \* the place after the cursor, None: the head
   expected : Nat \cup {None},  \* expectedFrom, a ledger
   base : Nat \cup {None},      \* the first place owed to the operator
   lost : Seq(Nat \X Nat),      \* lostGaps, oldest first
   dropped : SUBSET Nat,        \* history: ledgers of notices trimmed from lost
   cut : SUBSET Nat,            \* history: places left behind in the ledger a full page ended in
   jumped : SUBSET Nat,         \* history: places a poll without a cursor passed over
   regressed : BOOLEAN,         \* unsettledGap
   stopped : BOOLEAN,
   overrun : BOOLEAN]           \* history: a poll ran past its time limit

ASSUME NoneIsNoFeed == None \notin Feed

Poll == [feed : Feeds, from : Nat \cup {None}, since : Nat]

Round ==
  [live : BOOLEAN,              \* its supervisor was not stopped
   cancelled : BOOLEAN,         \* its effect was cleaned up
   visited : SUBSET Feeds,
   poll : Poll,
   got : SUBSET Events,
   seen : Nat]

Tailed(run) == {run[g] : g \in Guards} \ {None}

\* The feed objects something still refers to.
Referenced(co, run, rs, lt) ==
  Tailed(run) \cup ({co} \ {None}) \cup {p.feed : p \in lt}
    \cup UNION {{r.poll.feed} \cup r.visited : r \in ToSet(rs)}

TypeOK ==
  /\ head \in 0..MaxLedger /\ known \in 0..MaxLedger
  /\ registry \subseteq Guards /\ plan \in Seq(Guards) \ {<<>>}
  /\ watching \in BOOLEAN /\ ticker \in BOOLEAN /\ super \in BOOLEAN
  /\ \A f \in Feeds : feeds[f] = None \/ feeds[f] \in Feed
  /\ coord \in Feeds \cup {None}
  /\ runners \in [Guards -> Feeds \cup {None}]
  /\ Len(rounds) <= MaxRounds /\ ToSet(rounds) \subseteq Round
  /\ late \subseteq Poll
  /\ pushed \subseteq Events
  \* Every feed something refers to is there.
  /\ \A f \in Referenced(coord, runners, rounds, late) : feeds[f] # None

Init ==
  /\ head = FirstHead /\ known = 0
  /\ registry = {DefaultGuard} /\ plan = <<DefaultGuard>>
  /\ watching = FALSE /\ ticker = FALSE
  /\ feeds = [f \in Feeds |-> None]
  /\ coord = None /\ super = FALSE
  /\ runners = [g \in Guards |-> None]
  /\ rounds = <<>>
  /\ late = {} /\ pushed = {}

-----------------------------------------------------------------------------
Minimum(a, b) == IF a < b THEN a ELSE b
Maximum(a, b) == IF a < b THEN b ELSE a

active == Head(plan)

(* Feeds.                                                                  *)
Collected(fs, co, run, rs, lt) ==
  [f \in Feeds |-> IF f \in Referenced(co, run, rs, lt) THEN fs[f] ELSE None]

\* resetFrom(): history behind the last head this tab has seen, if it saw one.
Primed(feed) ==
  IF feed.next = None /\ known # 0
    THEN [feed EXCEPT !.next = Start(known - History), !.expected = known - History,
                      !.base = Start(known - History), !.lost = <<>>, !.regressed = FALSE]
    ELSE feed

NewFeed(g) ==
  [guard |-> g, next |-> None, expected |-> None, base |-> None, lost |-> <<>>,
   dropped |-> {}, cut |-> {}, jumped |-> {},
   regressed |-> FALSE, stopped |-> FALSE, overrun |-> FALSE]

\* The coordinator's feed becomes a new one, of guard g.
Anew(tail, g) ==
  LET f == CHOOSE f \in Feeds : tail.feeds[f] = None
  IN [feeds |-> [tail.feeds EXCEPT ![f] = NewFeed(g)], coord |-> f, runners |-> tail.runners]

\* Mutant: the coordinator re-points its feed.
EnsureAny(tail, g) == IF tail.coord # None THEN tail ELSE Anew(tail, g)

\* coordinator.ensure(): its one feed if that is the guard's, or a new one.
Ensure(tail, g) ==
  IF tail.coord # None /\ tail.feeds[tail.coord].guard = g THEN tail ELSE Anew(tail, g)

\* createFeed of the supervisor.
Create(tail, g) ==
  LET ensured == Ensure(tail, g)
  IN IF tail.runners[g] # None THEN tail
     ELSE [feeds |-> [ensured.feeds EXCEPT ![ensured.coord] = Primed(@)],
           coord |-> ensured.coord,
           runners |-> [ensured.runners EXCEPT ![g] = ensured.coord]]

\* stop().  Where a stopped feed was is never asked again, so it is forgotten.
Stopped(fs, gone) ==
  [f \in Feeds |->
     IF f \in gone THEN [NewFeed(fs[f].guard) EXCEPT !.stopped = TRUE] ELSE fs[f]]

\* planTailSources() within the cap: the guard on screen, then which of the
\* others and in which order is the operator's choice and the registry's.
Plans(reg, act) ==
  LET others == reg \ {act}
      places == 1 + Minimum(Cap - 1, Cardinality(others))
  IN {p \in [1..places -> others \cup {act}] : p[1] = act /\ IsInjective(p)}

\* sync(): listeners out of the plan are stopped, missing ones are created.
Synced(target) ==
  LET gone == {runners[g] : g \in Guards \ ToSet(target)} \ {None}
      kept == [feeds |-> Stopped(feeds, gone), coord |-> coord,
               runners |-> [g \in Guards |-> IF g \in ToSet(target) THEN runners[g] ELSE None]]
      upTo[i \in 0..Len(target)] == IF i = 0 THEN kept ELSE Create(upTo[i - 1], target[i])
  IN upTo[Len(target)]

\* At most one feed is created for each guard of the plan.
RoomToSync == Cardinality({f \in Feeds : feeds[f] = None}) >= Cap

Sync(target) ==
  /\ RoomToSync
  /\ LET tail == Synced(target)
     IN /\ runners' = tail.runners
        /\ coord' = tail.coord
        /\ feeds' = Collected(tail.feeds, tail.coord, tail.runners, rounds, late)

-----------------------------------------------------------------------------
(* Polling.                                                                *)
Oldest(h) == IF h > Retention THEN h - Retention + 1 ELSE 1

\* Mutant: a full page counts as having reached the head.
PageToHead(g, from, h) ==
  LET first == IF from = None THEN Start(h) ELSE Maximum(from, Start(Oldest(h)))
      open == {e \in Events : e[1] = g /\ Place(e) >= first /\ e[2] <= h}
  IN [rows |-> {e \in open : Cardinality({d \in open : Place(d) <= Place(e)}) <= Limit},
      first |-> first, next |-> Start(h + 1), expected |-> h + 1]

\* The page getEvents() answers a request for `from` on with when the head is h,
\* and nextExpectedLedger() of it.
Page(g, from, h) ==
  LET first == IF from = None THEN Start(h) ELSE Maximum(from, Start(Oldest(h)))
      open == {e \in Events : e[1] = g /\ Place(e) >= first /\ e[2] <= h}
      rows == {e \in open : Cardinality({d \in open : Place(d) <= Place(e)}) <= Limit}
      full == Cardinality(rows) = Limit
      last == CHOOSE e \in rows : \A d \in rows : Place(d) <= Place(e)
  IN [rows |-> rows, first |-> first,
      next |-> IF full THEN Place(last) + 1 ELSE Start(h + 1),
      expected |-> IF full THEN last[2] + 1 ELSE h + 1]

\* The ledgers the notices in lost tell of.
Noticed(lost) == UNION {lost[k][1]..lost[k][2] : k \in DOMAIN lost}

\* recordGaps(): the newest GapLimit notices, none of them twice.
Recorded(lost, gap) ==
  IF gap \in ToSet(lost) THEN lost
  ELSE IF Len(lost) < GapLimit THEN Append(lost, gap) ELSE Append(Tail(lost), gap)

\* Mutant: a gap stops the feed where it is.
AdvancedUnlessLost(feed, from, page, h) ==
  IF feed.stopped \/ (feed.next # None /\ feed.expected < Oldest(h)) THEN feed ELSE
  [feed EXCEPT
     !.base = IF feed.next = None THEN page.first ELSE @,
     !.expected = IF feed.next = None THEN page.expected ELSE Maximum(@, page.expected),
     !.regressed = feed.next # None /\ page.next < feed.next,
     !.next = IF feed.next # None /\ page.next < feed.next THEN @ ELSE page.next]

\* pollOnce() after its await: gaps are recorded, pointers only move forward.
Advanced(feed, from, page, h) ==
  IF feed.stopped THEN feed ELSE
  LET begun == feed.next # None
      back == begun /\ page.next < feed.next
      pruned == IF begun THEN feed.expected..(Oldest(h) - 1) ELSE {}
      lost == IF pruned = {} THEN feed.lost
              ELSE Recorded(feed.lost, <<feed.expected, Oldest(h) - 1>>)
      silent == IF ~begun THEN {}
                ELSE {p \in feed.next..(page.first - 1) :
                        p < Start(feed.expected) \/ p >= Start(Oldest(h))}
  IN [guard |-> feed.guard,
      next |-> IF back THEN feed.next ELSE page.next,
      expected |-> IF begun THEN Maximum(feed.expected, page.expected) ELSE page.expected,
      base |-> IF begun THEN feed.base ELSE page.first,
      lost |-> lost,
      dropped |-> feed.dropped \cup ((Noticed(feed.lost) \cup pruned) \ Noticed(lost)),
      cut |-> IF from = None THEN feed.cut ELSE feed.cut \cup silent,
      jumped |-> IF from = None THEN feed.jumped \cup silent ELSE feed.jumped,
      regressed |-> back, stopped |-> FALSE, overrun |-> feed.overrun]

\* The round goes on to its next runner, or ends and pushes what it has.
Unvisited(r) ==
  IF r.live THEN {f \in Tailed(runners) \ r.visited : ~feeds[f].stopped} ELSE {}

\* Round i, now r, with the feeds and late polls as they then are.
Continue(i, r, fs, lt) ==
  /\ late' = lt
  /\ \/ \E f \in Unvisited(r) :
          /\ rounds' = [rounds EXCEPT ![i] =
               [r EXCEPT !.visited = @ \cup {f},
                         !.poll = [feed |-> f, from |-> fs[f].next, since |-> head]]]
          /\ feeds' = fs
          /\ UNCHANGED <<pushed, known>>
     \/ /\ Unvisited(r) = {}
        /\ rounds' = RemoveAt(rounds, i)
        /\ feeds' = Collected(fs, coord, runners, rounds', lt)
        /\ IF r.cancelled
             THEN UNCHANGED <<pushed, known>>
             ELSE pushed' = pushed \cup r.got /\ known' = Maximum(known, r.seen)

\* The interval timer fires, whatever rounds are still in flight.
StartRound ==
  /\ watching /\ ticker /\ super
  /\ Len(rounds) < MaxRounds
  /\ \E f \in Tailed(runners) :
       /\ ~feeds[f].stopped
       /\ rounds' = Append(rounds,
            [live |-> TRUE, cancelled |-> FALSE, visited |-> {f}, got |-> {}, seen |-> 0,
             poll |-> [feed |-> f, from |-> feeds[f].next, since |-> head]])
  /\ UNCHANGED <<chainVars, planVars, tailVars, watching, ticker, feeds, known, late, pushed>>

\* Mutant: the page's next ledger is taken for the head.
ArriveNextSeen(i) ==
  /\ \E h \in rounds[i].poll.since..head :
       LET poll == rounds[i].poll
           page == Page(feeds[poll.feed].guard, poll.from, h)
       IN Continue(i, [rounds[i] EXCEPT !.got = @ \cup page.rows,
                                        !.seen = Maximum(@, page.next)],
                   [feeds EXCEPT ![poll.feed] = Advanced(@, poll.from, page, h)], late)
  /\ UNCHANGED <<chainVars, planVars, tailVars, watching, ticker>>

\* The RPC server answers with a head it had since the request was sent.
Arrive(i) ==
  /\ \E h \in rounds[i].poll.since..head :
       LET poll == rounds[i].poll
           page == Page(feeds[poll.feed].guard, poll.from, h)
       IN Continue(i, [rounds[i] EXCEPT !.got = @ \cup page.rows, !.seen = Maximum(@, h)],
                   [feeds EXCEPT ![poll.feed] = Advanced(@, poll.from, page, h)], late)
  /\ UNCHANGED <<chainVars, planVars, tailVars, watching, ticker>>

FailPoll(i) ==
  /\ Continue(i, rounds[i], feeds, late)
  /\ UNCHANGED <<chainVars, planVars, tailVars, watching, ticker>>

\* withTimeout() rejects; the request itself goes on.
TimeoutPoll(i) ==
  /\ Cardinality(late) < MaxLate
  /\ LET poll == rounds[i].poll
     IN Continue(i, rounds[i], [feeds EXCEPT ![poll.feed].overrun = TRUE],
                 late \cup {poll})
  /\ UNCHANGED <<chainVars, planVars, tailVars, watching, ticker>>

\* The continuation of a timed out poll runs all the same; nobody takes its page.
AnswerLate(poll) ==
  /\ poll \in late
  /\ late' = late \ {poll}
  /\ \E h \in poll.since..head :
       LET page == Page(feeds[poll.feed].guard, poll.from, h)
       IN feeds' = Collected([feeds EXCEPT ![poll.feed] = Advanced(@, poll.from, page, h)],
                             coord, runners, rounds, late')
  /\ UNCHANGED <<chainVars, planVars, tailVars, watching, ticker, known, rounds, pushed>>

-----------------------------------------------------------------------------
(* The operator, the other tabs and the chain.                             *)
CloseLedger ==
  /\ head < MaxLedger
  /\ head' = head + 1
  /\ UNCHANGED <<planVars, tailVars, pollVars, watching, ticker, feeds>>

\* stopAll(): rounds in flight find no more runners.  Late answers to a stopped
\* feed reach nobody and are forgotten.
StopAll(heard) ==
  /\ super' = FALSE
  /\ runners' = [g \in Guards |-> None]
  /\ rounds' = [i \in DOMAIN heard |-> [heard[i] EXCEPT !.live = FALSE, !.visited = {}]]
  /\ late' = {p \in late : p.feed \notin Tailed(runners)}
  /\ feeds' = Collected(Stopped(feeds, Tailed(runners)), coord', runners', rounds', late')

StartWatching ==
  /\ ~watching
  /\ watching' = TRUE /\ ticker' = TRUE /\ super' = TRUE
  /\ Sync(plan)
  /\ UNCHANGED <<chainVars, planVars, pollVars>>

\* stopWatching(), and the cleanup of the polling effect.
StopWatching ==
  /\ watching
  /\ watching' = FALSE /\ ticker' = FALSE
  /\ coord' = coord
  /\ StopAll(<<>>)
  /\ UNCHANGED <<chainVars, planVars, known, pushed>>

\* setGuard(), the reset of the buffer, and dropFeedState().
ShowGuard(g) ==
  /\ plan' \in Plans(registry', g)
  /\ coord' = None
  /\ StopAll(rounds)
  /\ pushed' = {}

\* A selection here or in another tab.
SwitchGuard(g) ==
  /\ g # active /\ g \in registry
  /\ registry' = registry
  /\ ShowGuard(g)
  /\ UNCHANGED <<chainVars, watching, ticker, known>>

\* The effect that keeps the listeners aligned with registry and selection.
Align ==
  /\ plan' \in Plans(registry', active)
  /\ IF watching /\ super
       THEN Sync(plan') /\ UNCHANGED super
       ELSE UNCHANGED <<feeds, tailVars>>

AddGuard(g) ==
  /\ g \notin registry
  /\ registry' = registry \cup {g}
  /\ Align
  /\ UNCHANGED <<chainVars, watching, ticker, pollVars>>

\* removeInstance(): the guard on screen gives way to one that is left.
RemoveGuard(g) ==
  /\ g \in registry \ {DefaultGuard}
  /\ registry' = registry \ {g}
  /\ IF g = active
       THEN (\E next \in registry' : ShowGuard(next)) /\ UNCHANGED known
       ELSE Align /\ UNCHANGED pollVars
  /\ UNCHANGED <<chainVars, watching, ticker>>

\* toggleTailedGuard(): the operator chooses who gets the capped slots.
ToggleTailed ==
  /\ registry' = registry
  /\ Align /\ plan' # plan
  /\ UNCHANGED <<chainVars, watching, ticker, pollVars>>

\* queryRange(): its rows are a view of their own, its feed is the coordinator's.
QueryRange ==
  /\ RoomToSync
  /\ LET tail == Ensure([feeds |-> feeds, coord |-> coord, runners |-> runners], active)
     IN /\ coord' = tail.coord
        /\ feeds' = Collected(tail.feeds, tail.coord, runners, rounds, late)
  /\ UNCHANGED <<chainVars, planVars, watching, ticker, super, runners, pollVars>>

\* memoryWiper.wipe(): disconnect, idle lock, pagehide, a beforeunload the
\* operator took back.  Nothing sets the interval again while watching stays on.
Wipe ==
  /\ ticker
  /\ ticker' = FALSE
  /\ rounds' = [i \in DOMAIN rounds |-> [rounds[i] EXCEPT !.cancelled = TRUE]]
  /\ UNCHANGED <<chainVars, planVars, tailVars, watching, feeds, known, late, pushed>>

-----------------------------------------------------------------------------
Next ==
  \/ CloseLedger \/ StartWatching \/ StopWatching \/ StartRound
  \/ \E i \in DOMAIN rounds : Arrive(i) \/ FailPoll(i) \/ TimeoutPoll(i)
  \/ \E poll \in late : AnswerLate(poll)
  \/ \E g \in Guards : SwitchGuard(g) \/ AddGuard(g) \/ RemoveGuard(g)
  \/ ToggleTailed \/ QueryRange \/ Wipe

Spec == Init /\ [][Next]_vars

(* The interval fires while it is set, and an RPC server that is asked of  *)
(* a guard again and again answers in time at last.                        *)
FairSpec ==
  /\ Spec
  /\ WF_vars(StartRound)
  /\ \A g \in Guards :
       SF_vars(\E i \in DOMAIN rounds : feeds[rounds[i].poll.feed].guard = g /\ Arrive(i))

-----------------------------------------------------------------------------
(* Properties.                                                             *)

\* The events of its guard a feed has gone past, told of as lost, or left unread.
Passed(feed) ==
  {e \in Events : e[1] = feed.guard /\ feed.base <= Place(e) /\ Place(e) < feed.next}
Told(feed, e) == e[2] \in Noticed(feed.lost) \cup feed.dropped
Unread(feed, e) == Place(e) \in feed.cut \cup feed.jumped

(* "An empty or gapped page is labelled, not smoothed over": what a tailed *)
(* feed has passed, its guard's rows or the gap in place of them were      *)
(* shown, however rounds overlap and fail.  A notice leaves the list only  *)
(* for GapLimit newer ones.  The exceptions: a poll of the feed timed out  *)
(* (pollOnce moves its pointers inside withTimeout); two rounds both asked *)
(* where the head is, and the later answer put the feed past what the      *)
(* earlier one had not reached (jumped); a full page ended inside a        *)
(* ledger, whose rest the server pruned before the next one (cut).  What   *)
(* is cut is of a ledger whose beginning was shown.                        *)
NoSilentLoss ==
  ticker => \A g \in Guards : runners[g] # None =>
    LET feed == feeds[runners[g]]
        shown == pushed \cup UNION {rounds[i].got : i \in DOMAIN rounds}
    IN feed.next # None /\ ~feed.overrun /\ ~feed.stopped =>
         /\ \A e \in Passed(feed) : e \in shown \/ Told(feed, e) \/ Unread(feed, e)
         /\ feed.dropped # {} => Len(feed.lost) = GapLimit
         /\ \A p \in feed.cut : \E e \in shown :
              e[1] = g /\ Place(e) < p /\ p < Start(e[2] + 1)

(* "A guard switch can never resume the previous guard's cursor onto a     *)
(* different stream": a tailed guard is polled through a feed built for it *)
(* and for no other, by a supervisor that is still there (ensure, sync).   *)
OwnCursor ==
  \A g \in Guards : runners[g] # None =>
    /\ super /\ feeds[runners[g]].guard = g
    /\ \A d \in Guards : runners[d] = runners[g] => d = g

\* Guard g is polled by a feed that can still answer.
Polled(g) ==
  /\ watching /\ ticker /\ super
  /\ runners[g] # None
  /\ ~feeds[runners[g]].stopped /\ ~feeds[runners[g]].overrun

\* The feed of e's guard has begun, at a place no later than e's.
Owes(e) == feeds[runners[e[1]]].base # None /\ feeds[runners[e[1]]].base <= Place(e)

(* A full page, a failed poll and a slow round only delay an event: while  *)
(* its guard is polled, it comes to the buffer or is told as lost, but for *)
(* what NoSilentLoss excepts.                                              *)
EventsShown ==
  \A e \in Events :
    (Polled(e[1]) /\ Owes(e) /\ e[2] <= head) ~>
      \/ ~Polled(e[1]) \/ e \in pushed
      \/ Told(feeds[runners[e[1]]], e) \/ Unread(feeds[runners[e[1]]], e)

(* "The poll effect rebuilds it for the new guard", and "no events and no  *)
(* connection are different operational states": a tab that keeps watching *)
(* with its interval set comes to poll the guard on screen, whatever was   *)
(* switched, stopped and started before.                                   *)
WatchedIsPolled ==
  \A g \in Guards :
    (watching /\ ticker /\ active = g) ~>
      \/ ~watching \/ ~ticker \/ active # g
      \/ super /\ runners[g] # None /\ ~feeds[runners[g]].stopped
=============================================================================

------------------------------ MODULE EventViews -------------------------------
(***************************************************************************)
(* What an operator sees, exports and charts of the events of a tab:       *)
(* components/TelemetryFeed.tsx and TelemetryChart.tsx over the range      *)
(* queries of components/GuardProvider.tsx, with the filters of            *)
(* lib/guard/telemetryExport.ts, the scope of lib/guard/exportScope.ts and *)
(* the buckets of lib/guard/telemetryAggregator.ts.                        *)
(*                                                                         *)
(* An event has a guard, a verdict and a time, or none.  How the buffer    *)
(* orders, pauses and evicts is EventBuffer's, and how the tail is fed     *)
(* FeedTail's.  Of a filter the verdict is modelled, and the demo is left  *)
(* out.                                                                    *)
(***************************************************************************)
EXTENDS Integers, FiniteSets

CONSTANTS
  Happenings,     \* the events: [guard, verdict, at], at a time or Nil
  Ranges,         \* the ranges that pass validateRange(): [from, to], either may be Nil
  Verdicts,       \* what a filter may ask for besides All
  All,            \* the empty filter
  MaxAsks,        \* bounds the queries in flight
  Window, Bucket, \* the chart's window, a multiple of its bucket
  Nil

VARIABLES
  guard, registered,
  watching,
  rows,           \* the events on screen, as a set
  rangeLabel,     \* the range the rows are said to be of, or Nil
  exportRange,
  asked,          \* range queries that have not been answered
  filters,        \* of each guard, in the panel's memory, or Nil
  saved,          \* and in the storage
  shared,         \* the verdict in the address bar
  chips           \* the guards the rows are narrowed to, or none

eventVars == <<guard, registered, watching, rows, rangeLabel, exportRange, asked, filters,
               saved, shared, chips>>
feedVars == <<guard, registered, watching, rows, rangeLabel, exportRange, asked>>
filterVars == <<filters, saved, shared, chips>>

Owners == {e.guard : e \in Happenings}
Filters == Verdicts \cup {All}

EventTypes ==
  /\ guard \in Owners /\ registered \subseteq Owners /\ watching \in BOOLEAN
  /\ rows \subseteq Happenings
  /\ rangeLabel \in Ranges \cup {Nil} /\ exportRange \in Ranges \cup {Nil}
  /\ asked \subseteq (Owners \X Ranges)
  /\ filters \in [Owners -> Filters \cup {Nil}] /\ saved \in [Owners -> Filters \cup {Nil}]
  /\ shared \in Filters
  /\ chips \subseteq Owners

-----------------------------------------------------------------------------
(* The view.                                                               *)

Saved(g) == IF saved[g] = Nil THEN All ELSE saved[g]
FilterOf(g) == IF filters[g] = Nil THEN Saved(g) ELSE filters[g]

\* matchesGuardFilter() and filterGuardEvents().
Visible ==
  {e \in rows : /\ chips = {} \/ e.guard \in chips
                /\ FilterOf(guard) = All \/ e.verdict = FilterOf(guard)}

Within(at, range) ==
  /\ range.from = Nil \/ at >= range.from
  /\ range.to = Nil \/ at <= range.to

\* buildExportScope(): a row without a time is in every scope.
Scope ==
  IF exportRange = Nil THEN Visible
  ELSE {e \in Visible : e.at = Nil \/ Within(e.at, exportRange)}

\* Mutant: the chart ends with the last bucket that is over.
EndsBefore(now) == (now \div Bucket) * Bucket

\* aggregateTelemetry(): the chart ends with the bucket the clock is in.
WindowEnd(now) == (now \div Bucket) * Bucket + Bucket

\* defaultTimeOf(): an event without a time is charted when it was first seen.
ChartedAt(e, seen) == IF e.at = Nil THEN seen ELSE e.at

\* The events of a bucket, the oldest being 1.
InBucket(i, now, seen) ==
  {e \in rows : LET start == WindowEnd(now) - Window + (i - 1) * Bucket
                IN start <= ChartedAt(e, seen) /\ ChartedAt(e, seen) < start + Bucket}

OutOfWindow(now, seen) ==
  {e \in rows : \/ ChartedAt(e, seen) < WindowEnd(now) - Window
                \/ ChartedAt(e, seen) >= WindowEnd(now)}

-----------------------------------------------------------------------------
(* The rows.                                                               *)

Init ==
  /\ guard \in Owners /\ registered = Owners
  /\ watching = FALSE
  /\ rows = {} /\ rangeLabel = Nil /\ exportRange = Nil /\ asked = {}
  /\ saved = [g \in Owners |-> Nil] /\ filters = saved
  /\ shared = All /\ chips = {}

\* A round of the tail brings an event of a guard that is tailed; a write refused
\* here brings one of the guard on screen, watching or not.
Arrive(e) ==
  /\ e \notin rows
  /\ (watching /\ e.guard \in registered) \/ (e.guard = guard /\ e.at = Nil)
  /\ rows' = rows \cup {e}
  /\ UNCHANGED <<guard, registered, watching, rangeLabel, exportRange, asked, filterVars>>

StartWatching ==
  /\ ~watching
  /\ watching' = TRUE
  /\ UNCHANGED <<guard, registered, rows, rangeLabel, exportRange, asked, filterVars>>

StopWatching ==
  /\ watching
  /\ watching' = FALSE
  /\ UNCHANGED <<guard, registered, rows, rangeLabel, exportRange, asked, filterVars>>

\* applyRange(): the tail stops, and the bounds are those of the export at once.
QueryRange(r) ==
  /\ Cardinality(asked \cup {<<guard, r>>}) <= MaxAsks
  /\ watching' = FALSE
  /\ exportRange' = r
  /\ asked' = asked \cup {<<guard, r>>}
  /\ UNCHANGED <<guard, registered, rows, rangeLabel, filterVars>>

\* pollRange(): one page of the range, of the guard it was asked for.
OfRange(g, r) == {e \in Happenings : e.guard = g /\ e.at # Nil /\ Within(e.at, r)}

RangeAnswered(g, r, page) ==
  /\ <<g, r>> \in asked
  /\ asked' = asked \ {<<g, r>>}
  /\ rows' = page /\ rangeLabel' = r
  /\ UNCHANGED <<guard, registered, watching, exportRange, filterVars>>

RangeFails(g, r) ==
  /\ <<g, r>> \in asked
  /\ asked' = asked \ {<<g, r>>}
  /\ UNCHANGED <<guard, registered, watching, rows, rangeLabel, exportRange, filterVars>>

\* clearEvents(), of the button, and of the way back to the live tail.
ClearEvents(live) ==
  /\ IF live THEN rangeLabel # Nil ELSE rows # {}
  /\ rows' = {} /\ rangeLabel' = Nil /\ exportRange' = Nil
  /\ watching' = (live \/ watching)
  /\ UNCHANGED <<guard, registered, asked, filterVars>>

\* The idle lock.
ResetEvents ==
  /\ rows' = {} /\ rangeLabel' = Nil /\ exportRange' = Nil
  /\ UNCHANGED <<guard, registered, watching, asked, filterVars>>

\* selectGuard(): the rows and their caption go.
Selected(g) == guard' = g /\ rows' = {} /\ rangeLabel' = Nil

SelectGuard(g) ==
  /\ g # guard /\ g \in registered
  /\ Selected(g)
  /\ UNCHANGED <<registered, watching, exportRange, asked, filterVars>>

\* removeInstance(), with clearGuardScopedState(): the filter that was saved goes,
\* and another guard is selected for the one on screen.
RemoveGuard(g) ==
  /\ g \in registered /\ registered # {g}
  /\ registered' = registered \ {g}
  /\ saved' = [saved EXCEPT ![g] = Nil]
  /\ IF g = guard THEN \E h \in registered' : Selected(h)
     ELSE UNCHANGED <<guard, rows, rangeLabel>>
  /\ UNCHANGED <<watching, exportRange, asked, filters, shared, chips>>

\* addInstance() selects the guard added, and leaves the rows.
AddGuard(g) ==
  /\ g \notin registered
  /\ registered' = registered \cup {g}
  /\ guard' = g
  /\ UNCHANGED <<watching, rows, rangeLabel, exportRange, asked, filterVars>>

-----------------------------------------------------------------------------
(* The filters.                                                            *)

\* Mutant: the panel keeps one filter for all guards.
KeepForAll(f) == filters' = [g \in Owners |-> f]

Keep(f) == filters' = [filters EXCEPT ![guard] = f]

\* applyFilter(): kept for the guard on screen, saved if the storage takes it, and
\* written to the address bar.
ApplyFilter(f, takes) ==
  /\ Keep(f)
  /\ saved' = IF takes THEN [saved EXCEPT ![guard] = f] ELSE saved
  /\ shared' = f
  /\ UNCHANGED <<feedVars, chips>>

ToggleChip(g) ==
  /\ chips' = IF g \in chips THEN chips \ {g} ELSE chips \cup {g}
  /\ UNCHANGED <<feedVars, filters, saved, shared>>

\* The panel is opened: a verdict in the address bar is the filter of the guard on
\* screen, the others' are the saved ones.
OpenPanel ==
  /\ filters' = [g \in Owners |-> IF g # guard THEN Nil
                                 ELSE IF shared = All THEN Saved(g) ELSE shared]
  /\ chips' = {}
  /\ UNCHANGED <<feedVars, saved, shared>>

Next ==
  \/ \E e \in Happenings : Arrive(e)
  \/ StartWatching \/ StopWatching \/ ResetEvents \/ OpenPanel
  \/ \E r \in Ranges : QueryRange(r)
  \/ \E ask \in asked : \/ RangeFails(ask[1], ask[2])
                        \/ \E page \in SUBSET OfRange(ask[1], ask[2]) :
                             RangeAnswered(ask[1], ask[2], page)
  \/ \E live \in BOOLEAN : ClearEvents(live)
  \/ \E g \in Owners : SelectGuard(g) \/ RemoveGuard(g) \/ AddGuard(g) \/ ToggleChip(g)
  \/ \E f \in Filters, takes \in BOOLEAN : ApplyFilter(f, takes)

Spec == Init /\ [][Next]_eventVars

-----------------------------------------------------------------------------
(* Properties.                                                             *)

(* "retaining the other filter dimensions independently for each guard":   *)
(* what is asked of one guard's events never changes with what is asked    *)
(* of another's while the panel is open, in memory or in the storage, only *)
(* with the removal of the guard.                                          *)
FiltersOwn ==
  [][OpenPanel \/ \A g \in Owners :
       FilterOf(g)' # FilterOf(g) => g = guard \/ g \notin registered']_eventVars

(* The chart counts every event on screen once or tells that it is out of  *)
(* the window, whatever the clock is, and what happened within all but the *)
(* last bucket of the window, up to now, is in it.                         *)
ChartAccounts ==
  \A now \in Window..(2 * Window) : \A seen \in Window..now :
    LET charted == [i \in 1..(Window \div Bucket) |-> InBucket(i, now, seen)]
        out == OutOfWindow(now, seen)
    IN /\ \A e \in rows :
            Cardinality({i \in DOMAIN charted : e \in charted[i]}) = IF e \in out THEN 0 ELSE 1
       /\ \A e \in rows : LET at == ChartedAt(e, seen)
                          IN now - Window + Bucket <= at /\ at <= now => e \notin out
=============================================================================

------------------------------- MODULE FleetView -------------------------------
(***************************************************************************)
(* The fleet page of a tab: components/FleetTable.tsx over                 *)
(* lib/guard/fleet.ts, with the view that is remembered across visits      *)
(* (lib/guard/fleetTableState.ts) and the bulk cleanup of the registry.    *)
(* The polls overlap, and another tab changes the registry and the view.   *)
(*                                                                         *)
(* Labels and the search text are left out.  What the guard selector does  *)
(* with a cleanup, and how tabs tell one another, is SharedConsole's: what  *)
(* another tab stores is heard here at once.                               *)
(***************************************************************************)
EXTENDS Integers, Sequences, FiniteSets, Functions

CONSTANTS
  Registrable,  \* the guards a registry can hold
  Seeded,       \* KNOWN_INSTANCES, as a sequence
  Room,         \* INSTANCE_LIMIT
  Answers,      \* what a poll may tell: of every guard its [status, left], left may be
                \* NoCountdown
  Views,        \* the views used: [status, key, descending]
  MaxPolls,     \* bounds the polls in flight
  NoCountdown, Nil

VARIABLES
  stored,       \* the saved guards, in the order of the record
  effect,       \* TRUE while the page is open
  polls,        \* polls in flight: [live, contacts]
  fleetRows,    \* [guard, status, left], in the order of the registry
  loading,
  selected, cleanupPlan, undo,
  storedView, cachedView,
  expelled      \* removed by a cleanup here, and not stored since

fleetVars == <<stored, effect, polls, fleetRows, loading, selected, cleanupPlan, undo,
               storedView, cachedView, expelled>>
registryVars == <<stored, expelled>>
pollVars == <<effect, polls, fleetRows, loading>>
pickVars == <<selected, cleanupPlan, undo>>
viewVars == <<storedView, cachedView>>

DefaultView == [status |-> Nil, key |-> Nil, descending |-> FALSE]
Row(g, facts) == [guard |-> g, status |-> facts[g].status, left |-> facts[g].left]
Stored == {s \in UNION {[1..n -> Registrable] : n \in 0..Room} : Cardinality(Range(s)) = Len(s)}

FleetTypes ==
  /\ stored \in Stored
  /\ effect \in BOOLEAN /\ loading \in BOOLEAN
  /\ \A p \in polls : p.live \in BOOLEAN /\ Range(p.contacts) \subseteq Registrable
  /\ \A i \in DOMAIN fleetRows :
       \E facts \in Answers : fleetRows[i] = Row(fleetRows[i].guard, facts)
  /\ selected \subseteq Registrable
  /\ cleanupPlan \subseteq Registrable
  /\ undo \in Stored \cup {Nil}
  /\ storedView \in Views \cup {DefaultView}
  /\ cachedView \in Views \cup {DefaultView, Nil}
  /\ expelled \subseteq Registrable

-----------------------------------------------------------------------------
(* The view of the rows.                                                   *)

Known == Range(Seeded)

\* filter()
Filtered(list, keep) ==
  LET left[i \in 0..Len(list)] ==
        IF i = 0 THEN <<>>
        ELSE IF list[i] \in keep THEN Append(left[i - 1], list[i]) ELSE left[i - 1]
  IN left[Len(list)]

\* loadInstances(): the saved ones first, then the build's own.
Instances(s) == s \o Filtered(Seeded, Known \ Range(s))

Rank == [Frozen |-> 0, Expired |-> 1, Unknown |-> 2, Active |-> 3]

\* compareByKey(), with the sign of the direction.
Compared(a, b, v) ==
  LET by(c, d) == IF v.key = "status" THEN Rank[c.status] - Rank[d.status] ELSE c.left - d.left
  IN IF v.descending THEN by(b, a) ELSE by(a, b)

\* sortFleet() puts a row that has no countdown behind those that have one.
Endless(r, v) == v.key = "left" /\ r.left = NoCountdown

\* Mutant: rows that tie swap with the direction.
TiesTurn(a, i, b, j, v) ==
  IF Endless(a, v) # Endless(b, v) THEN Endless(b, v)
  ELSE IF Endless(a, v) \/ Compared(a, b, v) = 0
  THEN IF v.descending /\ ~Endless(a, v) THEN i > j ELSE i < j
  ELSE Compared(a, b, v) < 0

\* Of two without a countdown nothing is compared, and ties keep the order of the registry
\* in both directions.
Precedes(a, i, b, j, v) ==
  IF Endless(a, v) # Endless(b, v) THEN Endless(b, v)
  ELSE IF Endless(a, v) \/ Compared(a, b, v) = 0 THEN i < j
  ELSE Compared(a, b, v) < 0

\* filterFleet() and sortFleet(): a row is where as many precede it as are shown above it.
Applied(v) ==
  LET kept == Filtered(fleetRows,
                       {r \in Range(fleetRows) : v.status = Nil \/ r.status = v.status})
      above(i) == {j \in DOMAIN kept : Precedes(kept[j], j, kept[i], i, v)}
      shown(k) == CHOOSE i \in DOMAIN kept : Cardinality(above(i)) = k - 1
  IN IF v.key = Nil THEN kept ELSE [k \in DOMAIN kept |-> kept[shown(k)]]

\* getSnapshot(): the record is read once, and the copy kept (made with the first
\* render, which nothing tells from the record until a change).
View == IF cachedView = Nil THEN storedView ELSE cachedView
Shown == {r.guard : r \in Range(Applied(View))}

-----------------------------------------------------------------------------
(* Reading the fleet.                                                      *)

Init ==
  /\ stored \in {s \in Stored : Range(s) \cap Known = {}}
  /\ effect = FALSE /\ polls = {} /\ fleetRows = <<>> /\ loading = TRUE
  /\ selected = {} /\ cleanupPlan = {} /\ undo = Nil
  /\ storedView = DefaultView /\ cachedView = Nil
  /\ expelled = {}

Poll(contacts) == [live |-> TRUE, contacts |-> contacts]
Abandoned == {[p EXCEPT !.live = FALSE] : p \in polls}

\* fetchFleet(): at once, then at every interval, however long the last one takes.
OpenFleet ==
  /\ ~effect /\ Cardinality(polls) < MaxPolls
  /\ effect' = TRUE /\ loading' = TRUE /\ fleetRows' = <<>>
  /\ polls' = polls \cup {Poll(Instances(stored))}
  /\ selected' = {} /\ cleanupPlan' = {} /\ undo' = Nil
  /\ UNCHANGED <<registryVars, viewVars>>

CloseFleet ==
  /\ effect
  /\ effect' = FALSE /\ polls' = Abandoned
  /\ UNCHANGED <<registryVars, fleetRows, loading, pickVars, viewVars>>

PollAgain ==
  /\ effect /\ Cardinality(polls) < MaxPolls
  /\ polls' = polls \cup {Poll(Instances(stored))}
  /\ UNCHANGED <<registryVars, effect, fleetRows, loading, pickVars, viewVars>>

\* Mutant: the rows of a poll are shown whatever happened since.
AnyPoll(p) == TRUE

\* `mounted` of the effect that asked.
Taken(p) == p.live

\* pollFleet(): one read for every contact, a failed one a row of its own.
PollAnswered(p, facts) ==
  /\ p \in polls
  /\ polls' = polls \ {p}
  /\ IF Taken(p)
     THEN /\ fleetRows' = [i \in DOMAIN p.contacts |-> Row(p.contacts[i], facts)]
          /\ loading' = FALSE
     ELSE UNCHANGED <<fleetRows, loading>>
  /\ UNCHANGED <<registryVars, effect, pickVars, viewVars>>

\* The effect runs again.
Refreshed ==
  /\ Cardinality(polls) < MaxPolls
  /\ polls' = Abandoned \cup {Poll(Instances(stored'))}

-----------------------------------------------------------------------------
(* Cleaning the registry up.                                               *)

ToggleSelected(g) ==
  /\ effect /\ cleanupPlan = {} /\ g \in Shown
  /\ selected' = IF g \in selected THEN selected \ {g} ELSE selected \cup {g}
  /\ UNCHANGED <<registryVars, pollVars, cleanupPlan, undo, viewVars>>

ToggleAllVisible ==
  /\ effect /\ cleanupPlan = {} /\ Shown # {}
  /\ selected' = IF Shown \subseteq selected THEN selected \ Shown ELSE selected \cup Shown
  /\ UNCHANGED <<registryVars, pollVars, cleanupPlan, undo, viewVars>>

\* planBulkCleanup(): what is listed of the selection, the seeded guards kept.
Planned == (selected \cap Range(Instances(stored))) \ Known

\* A plan of nothing is an error, and no dialog.
OpenCleanup ==
  /\ effect /\ selected # {} /\ cleanupPlan = {}
  /\ cleanupPlan' = Planned
  /\ UNCHANGED <<registryVars, pollVars, selected, undo, viewVars>>

CancelCleanup ==
  /\ effect /\ cleanupPlan # {}
  /\ cleanupPlan' = {}
  /\ UNCHANGED <<registryVars, pollVars, selected, undo, viewVars>>

\* removeInstances(): one write, of what is still stored, which lands or not.
Removes(gs) == stored' = Filtered(stored, Range(stored) \ gs)

\* The backup is what is stored now, not what the plan was made from.
ConfirmCleanup(lands) ==
  /\ effect /\ cleanupPlan # {}
  /\ cleanupPlan' = {} /\ selected' = {}
  /\ IF lands /\ cleanupPlan \cap Range(stored) # {}
     THEN /\ undo' = stored
          /\ Removes(cleanupPlan)
          /\ expelled' = expelled \cup (cleanupPlan \cap Range(stored))
     ELSE UNCHANGED <<registryVars, undo>>
  /\ Refreshed
  /\ UNCHANGED <<effect, fleetRows, loading, viewVars>>

\* restoreInstances(): the backup first, then what was stored since, up to the limit.
Restores(backup) ==
  LET merged == backup \o Filtered(stored, Range(stored) \ Range(backup))
  IN stored' = SubSeq(merged, 1, IF Len(merged) < Room THEN Len(merged) ELSE Room)

UndoCleanup(lands) ==
  /\ effect /\ undo # Nil
  /\ undo' = Nil
  /\ IF lands THEN Restores(undo) /\ expelled' = expelled \ Range(stored')
     ELSE UNCHANGED registryVars
  /\ Refreshed
  /\ UNCHANGED <<effect, fleetRows, loading, selected, cleanupPlan, viewVars>>

DismissUndo ==
  /\ effect /\ undo # Nil
  /\ undo' = Nil
  /\ UNCHANGED <<registryVars, pollVars, selected, cleanupPlan, viewVars>>

\* Another tab changes the registry.
OtherAdds(g) ==
  /\ g \in Registrable \ (Range(stored) \cup Known)
  /\ stored' = SubSeq(Append(stored, g),
                      IF Len(stored) = Room THEN 2 ELSE 1, Len(stored) + 1)
  /\ expelled' = expelled \ {g}
  /\ UNCHANGED <<pollVars, pickVars, viewVars>>

OtherRemoves(g) ==
  /\ g \in Range(stored)
  /\ Removes({g})
  /\ UNCHANGED <<expelled, pollVars, pickVars, viewVars>>

-----------------------------------------------------------------------------
(* The remembered view.                                                    *)

\* set(): the copy at once, and the record if the storage takes it.
SetView(v, takes) ==
  /\ effect /\ v # View
  /\ cachedView' = v
  /\ storedView' = IF takes THEN v ELSE storedView
  /\ UNCHANGED <<registryVars, pollVars, pickVars>>

\* Another tab writes the record; onStorage() is listened to while the page is open,
\* and drops the copy.
OtherSetsView(v) ==
  /\ v # storedView
  /\ storedView' = v
  /\ cachedView' = IF effect THEN Nil ELSE cachedView
  /\ UNCHANGED <<registryVars, pollVars, pickVars>>

Next ==
  \/ OpenFleet \/ CloseFleet \/ PollAgain
  \/ \E p \in polls : \E facts \in Answers : PollAnswered(p, facts)
  \/ ToggleAllVisible \/ OpenCleanup \/ CancelCleanup \/ DismissUndo
  \/ \E g \in Registrable : ToggleSelected(g) \/ OtherAdds(g) \/ OtherRemoves(g)
  \/ \E yes \in BOOLEAN : ConfirmCleanup(yes) \/ UndoCleanup(yes)
  \/ \E v \in Views \cup {DefaultView} : \/ OtherSetsView(v)
                                        \/ \E takes \in BOOLEAN : SetView(v, takes)

Spec == Init /\ [][Next]_fleetVars

-----------------------------------------------------------------------------
(* Properties.                                                             *)

(* A guard removed in a cleanup does not come back into the table with a   *)
(* poll that was on its way, only when it is stored again.                 *)
RemovedStaysOut ==
  [][\A i \in DOMAIN fleetRows' :
       fleetRows' # fleetRows => fleetRows'[i].guard \notin expelled]_fleetVars

(* "equal rows never reshuffle between polls or when the direction is      *)
(* flipped", and a row without a countdown is last in both.                *)
OrderHolds ==
  \A v \in Views : v.key # Nil =>
    LET table == Applied(v)
        back == Applied([v EXCEPT !.descending = ~v.descending])
        at(rows, g) == CHOOSE i \in DOMAIN rows : rows[i].guard = g
        tie(r, s) == IF v.key = "status" THEN r.status = s.status ELSE r.left = s.left
    IN /\ Range(table) = {r \in Range(fleetRows) : v.status = Nil \/ r.status = v.status}
       /\ \A i, j \in DOMAIN table :
            LET r == table[i]
                s == table[j]
            IN i < j =>
                 IF tie(r, s)
                 THEN /\ at(fleetRows, r.guard) < at(fleetRows, s.guard)
                      /\ at(back, r.guard) < at(back, s.guard)
                 ELSE \/ v.key = "left" /\ s.left = NoCountdown
                      \/ at(back, s.guard) < at(back, r.guard)
=============================================================================

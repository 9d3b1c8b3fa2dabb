--------------------------- MODULE StorageExplorer ---------------------------
(***************************************************************************)
(* The drawer that shows what a guard contract keeps on the ledger.        *)
(*                                                                         *)
(* A read asks for a fixed list of ledger keys and makes one row per key:  *)
(* the entry found, or a row saying that the ledger holds none.  Nothing   *)
(* orders the reads of the drawer, and none of them is abandoned when the  *)
(* guard on screen changes.                                                *)
(***************************************************************************)
EXTENDS Naturals, Sequences, FiniteSets, SequencesExt

CONSTANTS
  HeldGuards,   \* the guards an operator moves between
  DataKeys,     \* the names of the guard's own storage keys
  Holdings,     \* what the ledger may hold of a guard: sets of [class, name]
  Lives,        \* ledgers an entry may have left (a set of integers)
  MaxLoads,     \* bound on the reads of the drawer
  Nil

VARIABLES
  viewed,       \* the guard on screen
  held,         \* guard -> the entries the chain holds of it
  drawer,       \* the state of the explorer reducer
  openedFor,    \* the guard the open drawer was last read for
  loads,        \* reads on their way: the guards they were made for
  loadsMade     \* reads made so far

heldVars == <<viewed, held, drawer, openedFor, loads, loadsMade>>

Durabilities == <<"instance", "persistent", "temporary">>

TtlWarnLedgers == 500
TtlCriticalLedgers == 100

\* The keys asked for: the contract instance, and every name in both
\* durabilities.
AskedKeys(g) ==
  {[of |-> g, class |-> "instance", name |-> "(contract instance)"]}
    \cup [of : {g}, class : {"persistent", "temporary"}, name : DataKeys]

HeldOf(g) == {k \in AskedKeys(g) : [class |-> k.class, name |-> k.name] \in held[g]}

\* The same key written by ledgerKeyId (hexadecimal), and by the decoder of an
\* answered entry (base64): two texts, whatever the key.
LedgerKeyId(k) == <<"hex", k>>
EntryId(k) == <<"base64", k>>

\* How close an entry is to its end.
ClassifyTtl(left) ==
  CASE left = Nil                 -> "unknown"
    [] left # Nil /\ left \in Int -> IF left <= 0 THEN "expired"
                                     ELSE IF left < TtlCriticalLedgers THEN "critical"
                                     ELSE IF left < TtlWarnLedgers THEN "warn" ELSE "ok"

\* The row of an entry the answer holds, with the ledgers it has left.
DecodedEntry(k, left) ==
  [id |-> EntryId(k), name |-> k.name, class |-> k.class, of |-> k.of,
   present |-> TRUE, tier |-> ClassifyTtl(left)]

\* The row of a key the answer does not hold: always a persistent one.
AbsentEntry(id, k) ==
  [id |-> id, name |-> k.name, class |-> "persistent", of |-> k.of,
   present |-> FALSE, tier |-> "unknown"]

\* What a read makes of an answer: one row per key that was asked for, found
\* among the decoded entries by the identity of the key.
Rows(g, found) ==
  {LET same == {e \in found : e.id = LedgerKeyId(k)}
   IN  IF same # {} THEN CHOOSE e \in same : TRUE ELSE AbsentEntry(LedgerKeyId(k), k) :
   k \in AskedKeys(g)}

\* The rows the filter lets through, ordered by class.
Visible ==
  LET classes == drawer.classes
      kept == {e \in drawer.entries :
                 /\ classes = {} \/ e.class \in classes
                 /\ drawer.query \in {Nil, e.name}}
      in(c) == SetToSeq({e \in kept : e.class = c})
  IN  in("instance") \o in("persistent") \o in("temporary")

\* What the summary above the rows counts.
Summary(entries) ==
  [present |-> Cardinality({e \in entries : e.present}),
   all |-> Cardinality(entries),
   expiring |-> Cardinality({e \in entries : e.tier \in {"critical", "expired"}})]

HeldTypes ==
  /\ viewed \in HeldGuards
  /\ held \in [HeldGuards -> Holdings]
  /\ drawer.open \in BOOLEAN /\ drawer.loading \in BOOLEAN /\ drawer.error \in BOOLEAN
  /\ drawer.classes \subseteq {Durabilities[i] : i \in 1..3}
  /\ drawer.query \in {Nil} \cup DataKeys
  /\ openedFor \in HeldGuards \cup {Nil}
  /\ loads \in Seq(HeldGuards) /\ Len(loads) <= loadsMade /\ loadsMade \in 0..MaxLoads

Init ==
  /\ viewed \in HeldGuards
  /\ held \in [HeldGuards -> Holdings]
  /\ drawer = [open |-> FALSE, loading |-> FALSE, error |-> FALSE, entries |-> {},
               selected |-> Nil, query |-> Nil, classes |-> {}]
  /\ openedFor = Nil
  /\ loads = <<>> /\ loadsMade = 0

\* A read of the drawer begins: what an earlier one painted stays.
Load(g, shown) ==
  /\ loadsMade < MaxLoads
  /\ drawer' = [shown EXCEPT !.loading = TRUE, !.error = FALSE]
  /\ loads' = Append(loads, g)
  /\ loadsMade' = loadsMade + 1

\* The drawer opens, and is read for the guard on screen.
OpenDrawer ==
  /\ ~drawer.open
  /\ Load(viewed, [drawer EXCEPT !.open = TRUE])
  /\ openedFor' = viewed
  /\ UNCHANGED <<viewed, held>>

\* The drawer closes; its reads are left to answer.
CloseDrawer ==
  /\ drawer.open
  /\ drawer' = [drawer EXCEPT !.open = FALSE, !.error = FALSE, !.selected = Nil]
  /\ openedFor' = Nil
  /\ UNCHANGED <<viewed, held, loads, loadsMade>>

\* Another guard comes on screen: an open drawer is read again.
SwitchViewed(g) ==
  /\ g # viewed
  /\ viewed' = g
  /\ IF drawer.open THEN Load(g, drawer) /\ openedFor' = g
     ELSE UNCHANGED <<drawer, openedFor, loads, loadsMade>>
  /\ UNCHANGED <<held>>

RefreshDrawer ==
  /\ drawer.open
  /\ Load(viewed, drawer)
  /\ UNCHANGED <<viewed, held, openedFor>>

\* A read is answered: the entries the ledger holds, each with what it has left.
Loaded(i) ==
  /\ i \in DOMAIN loads
  /\ LET g == loads[i]
     IN  \E left \in Lives \cup {Nil} :
           drawer' = [drawer EXCEPT !.loading = FALSE, !.error = FALSE, !.selected = Nil,
                        !.entries = Rows(g, {DecodedEntry(k, left) : k \in HeldOf(g)})]
  /\ loads' = RemoveAt(loads, i)
  /\ UNCHANGED <<viewed, held, openedFor, loadsMade>>

\* Mutant: a read that failed leaves the rows of the last one.
KeepsRows(d) == [d EXCEPT !.loading = FALSE, !.error = TRUE, !.selected = Nil]

\* What a failed read leaves of the drawer.
Emptied(d) == [d EXCEPT !.loading = FALSE, !.error = TRUE, !.selected = Nil, !.entries = {}]

\* A read fails.
LoadFailed(i) ==
  /\ i \in DOMAIN loads
  /\ drawer' = Emptied(drawer)
  /\ loads' = RemoveAt(loads, i)
  /\ UNCHANGED <<viewed, held, openedFor, loadsMade>>

\* A read runs into its time limit: it throws, and nobody catches it.
LoadTimesOut(i) ==
  /\ i \in DOMAIN loads
  /\ loads' = RemoveAt(loads, i)
  /\ UNCHANGED <<viewed, held, drawer, openedFor, loadsMade>>

Select(id) ==
  /\ drawer.open
  /\ \E i \in DOMAIN Visible : Visible[i].id = id
  /\ drawer' = [drawer EXCEPT !.selected = IF @ = id THEN Nil ELSE id]
  /\ UNCHANGED <<viewed, held, openedFor, loads, loadsMade>>

ToggleDurability(c) ==
  /\ drawer.open
  /\ drawer' = [drawer EXCEPT !.classes = IF c \in @ THEN @ \ {c} ELSE @ \cup {c}]
  /\ UNCHANGED <<viewed, held, openedFor, loads, loadsMade>>

Query(text) ==
  /\ drawer.open /\ drawer.query # text
  /\ drawer' = [drawer EXCEPT !.query = text]
  /\ UNCHANGED <<viewed, held, openedFor, loads, loadsMade>>

Next ==
  \/ OpenDrawer \/ CloseDrawer \/ RefreshDrawer
  \/ \E g \in HeldGuards : SwitchViewed(g)
  \/ \E i \in DOMAIN loads : Loaded(i) \/ LoadFailed(i) \/ LoadTimesOut(i)
  \/ \E e \in drawer.entries : Select(e.id)
  \/ \E i \in 1..3 : ToggleDurability(Durabilities[i])
  \/ \E text \in {Nil} \cup DataKeys : Query(text)

Spec == Init /\ [][Next]_heldVars

-----------------------------------------------------------------------------
(* A storage map that did not load is not shown as one: no row stands      *)
(* under an error, and the rows there are answer every key asked for, of   *)
(* one guard (StorageExplorer's load and the explorer reducer).            *)
DrawerHonest ==
  /\ drawer.error => drawer.entries = {}
  /\ drawer.entries # {} =>
       \E g \in HeldGuards :
         /\ \A e \in drawer.entries : e.of = g
         /\ Cardinality(drawer.entries) = Cardinality(AskedKeys(g))
=============================================================================

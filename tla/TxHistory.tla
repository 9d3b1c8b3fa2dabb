------------------------------ MODULE TxHistory ------------------------------
(***************************************************************************)
(* The history of transactions one browser keeps: the record every tab     *)
(* reads, changes and writes back whole, the copy a tab lives on when the  *)
(* browser refuses a write, and the table.                                 *)
(***************************************************************************)
EXTENDS Naturals, FiniteSets, Sequences, Functions

CONSTANTS
  HistTabs,  \* tabs of one browser
  Txs,       \* broadcast transactions: the hash is the identity of a row
  Kept,      \* TX_HISTORY_LIMIT
  MaxAge,    \* TX_HISTORY_MAX_AGE_MS, in days
  MaxDay     \* bound: days that pass

VARIABLES
  store,     \* the stored rows, newest first
  memory,    \* memoryHistory of a tab
  failed,    \* tabs whose storage is in failedStores
  warned,    \* tabs whose last save did not succeed
  open,      \* tabs showing the table
  shown,     \* the rows of a table
  day

histVars == <<store, memory, failed, warned, open, shown, day>>

\* The outcome is part of a row, and nothing in the history depends on it.
Row == [tx : Txs, day : 0..MaxDay]

HistTypes ==
  /\ store \in Seq(Row) /\ Len(store) <= Kept
  /\ memory \in [HistTabs -> Seq(Row)] /\ shown \in [HistTabs -> Seq(Row)]
  /\ failed \subseteq warned /\ warned \subseteq HistTabs /\ open \subseteq HistTabs
  /\ day \in 0..MaxDay

Init ==
  /\ store = <<>> /\ memory = [t \in HistTabs |-> <<>>] /\ shown = memory
  /\ failed = {} /\ warned = {} /\ open = {}
  /\ day = 0

\* filter()
Filtered(rows, keep) ==
  LET left[i \in 0..Len(rows)] ==
        IF i = 0 THEN <<>>
        ELSE IF rows[i] \in keep THEN Append(left[i - 1], rows[i]) ELSE left[i - 1]
  IN left[Len(rows)]

Young(rows) == Filtered(rows, {r \in Range(rows) : day - r.day <= MaxAge})

\* Mutant: only the age of a row is looked at.
YoungRows(rows) == Young(rows)

\* Too old rows first, then what is over the limit.
Prune(rows) ==
  LET young == Young(rows)
  IN SubSeq(young, 1, IF Len(young) < Kept THEN Len(young) ELSE Kept)

\* Mutant: a tab goes on from what it wrote last.
LoadsOwnCopy(t) == IF memory[t] # <<>> THEN memory[t] ELSE Prune(store)

\* A tab whose write failed reads only its own copy from then on.
Load(t) == IF t \in failed THEN memory[t] ELSE Prune(store)

\* Every mounted table of the tab that wrote loads again; no other tab hears.
Notify(t, rows) == shown' = IF t \in open THEN [shown EXCEPT ![t] = rows] ELSE shown

-----------------------------------------------------------------------------
Tick == /\ day < MaxDay /\ day' = day + 1
        /\ UNCHANGED <<store, memory, failed, warned, open, shown>>

\* The same transaction replaces its row and moves to the front.
Recorded(rows, row) ==
  Prune(<<row>> \o Filtered(rows, {r \in Range(rows) : r.tx # row.tx}))

\* A write ends; the browser takes the new record or refuses it.
RecordTx(t, x) ==
  LET next == Recorded(Load(t), [tx |-> x, day |-> day])
  IN /\ memory' = [memory EXCEPT ![t] = next]
     /\ \/ store' = next /\ failed' = failed \ {t} /\ warned' = warned \ {t}
        \/ UNCHANGED store /\ failed' = failed \cup {t} /\ warned' = warned \cup {t}
     /\ Notify(t, next)
     /\ UNCHANGED <<open, day>>

\* Clearing forgets the copy and the failure, whether or not the key goes.
ClearTxHistory(t) ==
  /\ t \in open /\ shown[t] # <<>>
  /\ failed' = failed \ {t}
  /\ \/ store' = <<>> /\ warned' = warned \ {t}
     \/ UNCHANGED store /\ warned' = warned \cup {t}
  /\ memory' = [memory EXCEPT ![t] = Prune(store')] /\ Notify(t, Prune(store'))
  /\ UNCHANGED <<open, day>>

\* The table loads when it is mounted.
OpenTable(t) ==
  /\ t \notin open /\ open' = open \cup {t}
  /\ shown' = [shown EXCEPT ![t] = Load(t)]
  /\ memory' = [memory EXCEPT ![t] = Load(t)]
  /\ UNCHANGED <<store, failed, warned, day>>

CloseTable(t) ==
  /\ t \in open /\ open' = open \ {t}
  /\ shown' = [shown EXCEPT ![t] = <<>>]
  /\ UNCHANGED <<store, memory, failed, warned, day>>

Next ==
  \/ Tick
  \/ \E t \in HistTabs : ClearTxHistory(t) \/ OpenTable(t) \/ CloseTable(t)
  \/ \E t \in HistTabs, x \in Txs : RecordTx(t, x)

Spec == Init /\ [][Next]_histVars

-----------------------------------------------------------------------------
(* A stored row goes only when it is recorded again, cleared, too old,     *)
(* pushed out by a full record, or overwritten by a tab that comes back    *)
(* from a refused write with its own copy.                                 *)
RowsOutlive ==
  [][\A i \in DOMAIN store :
       \/ \E j \in DOMAIN store' : store'[j].tx = store[i].tx
       \/ store' = <<>>
       \/ day - store[i].day > MaxAge
       \/ Len(store') = Kept /\ i = Len(store)
       \/ \E t \in failed : t \notin failed']_histVars
=============================================================================

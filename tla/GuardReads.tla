----------------------------- MODULE GuardReads -----------------------------
(***************************************************************************)
(* The read path of the console: components/GuardProvider.tsx.             *)
(*                                                                         *)
(* A browser tab shows one guard at a time.  Its snapshot (status, policy, *)
(* window, identity) is filled by refresh(), which issues one RPC read per *)
(* field and paints all of them when the last one answers, and repaired by *)
(* retryRead(), which re-reads a single failed field.  Several reads may   *)
(* be in flight at once and are answered in any order.  A guard switch     *)
(* bumps readEpochRef; an answer is painted only if the epoch it captured  *)
(* when it was issued is still the current one.                            *)
(*                                                                         *)
(* A switch made in the tab itself is a click, which React commits before  *)
(* any other task runs, so the handler, the commit and the refresh() its   *)
(* effect issues are one action here.  What else a tab does to its reads   *)
(* is in module TabSession.                                                *)
(***************************************************************************)
EXTENDS Naturals, FiniteSets

CONSTANTS
  Tabs,           \* browser tabs showing the console
  Guards,         \* guard contracts in the registry
  Fields,         \* the reads a snapshot is made of
  Slots,          \* bounds the reads one tab has in flight
  DefaultGuard,   \* defaultGuard(): the first build-known instance
  None,           \* null
  MaxVersion,     \* bounds how often a guard's state changes on chain
  MaxEpoch        \* bounds how often a tab switches guard

ASSUME ReadsAssumption ==
  /\ DefaultGuard \in Guards
  /\ None \notin Fields
  /\ None \notin Guards
  /\ MaxVersion \in Nat
  /\ MaxEpoch \in Nat

VARIABLES
  ledger,         \* how often each guard's state has changed on chain
  guard,          \* the guard each tab shows
  epoch,          \* readEpochRef
  reads,          \* reads in flight
  snap,           \* the snapshot on screen
  snapErr,        \* snapshotError is set
  refreshing,     \* the refresh spinner
  retrying        \* retryingField

readVars == <<ledger, guard, epoch, reads, snap, snapErr, refreshing, retrying>>

-----------------------------------------------------------------------------
(* One field's answer: which guard it was read from, at which version of   *)
(* that guard's state, or that the read failed (ReadResult.ok is false).   *)
Reading == [guard : Guards, ver : Nat, ok : BOOLEAN]

Read ==
  [kind : {"refresh", "retry"}, fields : SUBSET Fields, guard : Guards,
   epoch : Nat, got : [Fields -> Reading \cup {None}]]

Snapshot == [guard : Guards, field : [Fields -> Reading]]

ASSUME NoneAssumption == None \notin Reading /\ None \notin Read /\ None \notin Snapshot

TypeOK ==
  /\ ledger \in [Guards -> Nat]
  /\ guard \in [Tabs -> Guards]
  /\ epoch \in [Tabs -> Nat]
  /\ reads \in [Tabs -> [Slots -> Read \cup {None}]]
  /\ snap \in [Tabs -> Snapshot \cup {None}]
  /\ snapErr \in [Tabs -> BOOLEAN]
  /\ refreshing \in [Tabs -> BOOLEAN]
  /\ retrying \in [Tabs -> Fields \cup {None}]

Init ==
  /\ ledger = [g \in Guards |-> 0]
  /\ guard = [t \in Tabs |-> DefaultGuard]
  /\ epoch = [t \in Tabs |-> 0]
  /\ reads = [t \in Tabs |-> [s \in Slots |-> None]]
  /\ snap = [t \in Tabs |-> None]
  /\ snapErr = [t \in Tabs |-> FALSE]
  /\ refreshing = [t \in Tabs |-> FALSE]
  /\ retrying = [t \in Tabs |-> None]

-----------------------------------------------------------------------------
(* A read as it leaves the tab: bound to the guard its closure captured    *)
(* and to the epoch at the moment of the call.                             *)
NewRead(kind, fields, g, e) ==
  [kind |-> kind, fields |-> fields, guard |-> g, epoch |-> e,
   got |-> [f \in Fields |-> None]]

Free(t, s) == reads[t][s] = None

InFlight(t, s, kind) == ~Free(t, s) /\ reads[t][s].kind = kind

\* Mutant: the continuation runs as soon as any field answered.
AnsweredInPart(read) == \E f \in read.fields : read.got[f] # None

Answered(read) == \A f \in read.fields : read.got[f] # None

\* Mutant: no epoch check after the await.
CurrentUnchecked(t, s) == TRUE

Current(t, s) == reads[t][s].epoch = epoch[t]

\* refresh() called through a closure that captured guard g.
IssueRefresh(t, s, g) ==
  /\ Free(t, s)
  /\ reads' = [reads EXCEPT ![t][s] = NewRead("refresh", Fields, g, epoch[t])]
  /\ refreshing' = [refreshing EXCEPT ![t] = TRUE]
  /\ UNCHANGED <<ledger, guard, epoch, snap, snapErr, retrying>>

\* The guard's state changes on chain: a write lands, the agent spends.
ChainMoves(g) ==
  /\ ledger[g] < MaxVersion
  /\ ledger' = [ledger EXCEPT ![g] = @ + 1]
  /\ UNCHANGED <<guard, epoch, reads, snap, snapErr, refreshing, retrying>>

\* Mutant: a refresh is skipped while the spinner says one is running.
RefreshUnlessBusy(t) ==
  ~refreshing[t] /\ \E s \in Slots : IssueRefresh(t, s, guard[t])

\* Mutant: the effect's closure is the one of the first render.
RefreshOfDefault(t) == \E s \in Slots : IssueRefresh(t, s, DefaultGuard)

\* The interval timer, the refresh button, or the effect of a wallet change.
Refresh(t) == \E s \in Slots : IssueRefresh(t, s, guard[t])

\* The retry button stands in the error block of the field that failed.
RetryRead(t, s, f) ==
  /\ retrying[t] = None
  /\ snap[t] # None /\ ~snap[t].field[f].ok
  /\ Free(t, s)
  /\ reads' = [reads EXCEPT ![t][s] = NewRead("retry", {f}, guard[t], epoch[t])]
  /\ retrying' = [retrying EXCEPT ![t] = f]
  /\ UNCHANGED <<ledger, guard, epoch, snap, snapErr, refreshing>>

\* One RPC read is answered, with the chain's state at that moment, or fails.
ServeRead(t, s, f) ==
  /\ ~Free(t, s)
  /\ f \in reads[t][s].fields /\ reads[t][s].got[f] = None
  /\ \E ok \in BOOLEAN :
       LET g == reads[t][s].guard
           reading == [guard |-> g, ver |-> IF ok THEN ledger[g] ELSE 0, ok |-> ok]
       IN reads' = [reads EXCEPT ![t][s].got[f] = reading]
  /\ UNCHANGED <<ledger, guard, epoch, snap, snapErr, refreshing, retrying>>

\* refresh() resumes after its await with every field's result.
SettleRefresh(t, s) ==
  /\ InFlight(t, s, "refresh") /\ Answered(reads[t][s])
  /\ reads' = [reads EXCEPT ![t][s] = None]
  /\ IF Current(t, s)
       THEN /\ snap' = [snap EXCEPT ![t] = [guard |-> reads[t][s].guard,
                                            field |-> reads[t][s].got]]
            /\ snapErr' = [snapErr EXCEPT ![t] = FALSE]
            /\ refreshing' = [refreshing EXCEPT ![t] = FALSE]
       ELSE UNCHANGED <<snap, snapErr, refreshing>>
  /\ UNCHANGED <<ledger, guard, epoch, retrying>>

\* refresh() resumes in its catch: the read as a whole was rejected.
RejectRefresh(t, s) ==
  /\ InFlight(t, s, "refresh") /\ ~Answered(reads[t][s])
  /\ reads' = [reads EXCEPT ![t][s] = None]
  /\ IF Current(t, s)
       THEN /\ snap' = [snap EXCEPT ![t] = None]
            /\ snapErr' = [snapErr EXCEPT ![t] = TRUE]
            /\ refreshing' = [refreshing EXCEPT ![t] = FALSE]
       ELSE UNCHANGED <<snap, snapErr, refreshing>>
  /\ UNCHANGED <<ledger, guard, epoch, retrying>>

\* What setSnapshot's updater leaves of the snapshot when a retry answers.
Merged(current, read) ==
  IF current # None /\ current.guard = read.guard
    THEN [current EXCEPT !.field =
            [f \in Fields |-> IF f \in read.fields THEN read.got[f] ELSE @[f]]]
    ELSE current

\* Mutant: retryingField is cleared only in the epoch the retry began in.
SettleRetryKeepsFlag(t, s) ==
  /\ InFlight(t, s, "retry") /\ Answered(reads[t][s])
  /\ reads' = [reads EXCEPT ![t][s] = None]
  /\ snap' = IF Current(t, s)
               THEN [snap EXCEPT ![t] = Merged(@, reads[t][s])]
               ELSE snap
  /\ retrying' = IF Current(t, s) THEN [retrying EXCEPT ![t] = None] ELSE retrying
  /\ UNCHANGED <<ledger, guard, epoch, snapErr, refreshing>>

\* retryRead() resumes: the one field is merged, in the epoch it began in.
SettleRetry(t, s) ==
  /\ InFlight(t, s, "retry") /\ Answered(reads[t][s])
  /\ reads' = [reads EXCEPT ![t][s] = None]
  /\ snap' = IF Current(t, s)
               THEN [snap EXCEPT ![t] = Merged(@, reads[t][s])]
               ELSE snap
  /\ retrying' = [retrying EXCEPT ![t] = None]
  /\ UNCHANGED <<ledger, guard, epoch, snapErr, refreshing>>

\* selectGuard(), and the fallback of a removal: the epoch moves on, the
\* screen is cleared, and the effect of a changed guard reads the new one.
SwitchGuard(t, g) ==
  /\ epoch[t] < MaxEpoch
  /\ epoch' = [epoch EXCEPT ![t] = @ + 1]
  /\ guard' = [guard EXCEPT ![t] = g]
  /\ snap' = [snap EXCEPT ![t] = None]
  /\ snapErr' = [snapErr EXCEPT ![t] = FALSE]
  /\ \/ /\ g = guard[t]
        /\ UNCHANGED <<reads, refreshing>>
     \/ /\ g # guard[t]
        /\ \E s \in Slots :
             /\ Free(t, s)
             /\ reads' = [reads EXCEPT ![t][s] =
                            NewRead("refresh", Fields, g, epoch[t] + 1)]
        /\ refreshing' = [refreshing EXCEPT ![t] = TRUE]
  /\ UNCHANGED <<ledger, retrying>>

-----------------------------------------------------------------------------
TabStep(t) ==
  \/ Refresh(t)
  \/ \E s \in Slots :
       \/ SettleRefresh(t, s)
       \/ RejectRefresh(t, s)
       \/ SettleRetry(t, s)
       \/ \E f \in Fields : RetryRead(t, s, f) \/ ServeRead(t, s, f)

Next ==
  \/ \E g \in Guards : ChainMoves(g)
  \/ \E t \in Tabs : TabStep(t)
  \/ \E t \in Tabs, g \in Guards : SwitchGuard(t, g)

Spec == Init /\ [][Next]_readVars

(* The interval timer always calls refresh() again, every RPC read is      *)
(* answered or fails (fetch times out), and a settled promise's            *)
(* continuation runs.  Nothing obliges the operator to do anything.        *)
Fairness ==
  \A t \in Tabs :
    /\ WF_readVars(Refresh(t))
    /\ \A s \in Slots :
         /\ WF_readVars(SettleRefresh(t, s))
         /\ WF_readVars(SettleRetry(t, s))
         /\ \A f \in Fields : WF_readVars(ServeRead(t, s, f))

FairSpec == Spec /\ Fairness

-----------------------------------------------------------------------------
(* Properties.                                                             *)

(* "Guard A's status must never paint over guard B's view": whatever order *)
(* the answers come in, the snapshot on screen, and every field in it, was *)
(* read from the guard the tab shows (refresh, retryRead, selectGuard).    *)
SnapshotForSelectedGuard ==
  \A t \in Tabs : snap[t] # None =>
    /\ snap[t].guard = guard[t]
    /\ \A f \in Fields : snap[t].field[f].guard = guard[t]

(* The single retry flag is neither leaked nor lost: it names a field      *)
(* exactly while one retry of that field, and no other, is in flight, even *)
(* when the guard was switched under it (retryRead's finally).             *)
RetryAccounted ==
  \A t \in Tabs :
    LET retries == {s \in Slots : InFlight(t, s, "retry")}
    IN IF retrying[t] = None
         THEN retries = {}
         ELSE \E s \in retries : /\ retries = {s}
                                 /\ reads[t][s].fields = {retrying[t]}

\* The tab admits it has no answer, or every field shows version v or failed.
ShowsOrFails(t, v) ==
  \/ snapErr[t]
  \/ /\ snap[t] # None
     /\ \A f \in Fields : snap[t].field[f].ver = v \/ ~snap[t].field[f].ok

(* A change made elsewhere shows up: from any state of the chain, a tab    *)
(* that stays on the guard comes to show that state or a failure, however  *)
(* many older reads are still in flight (the timer of POLLING.snapshotMs). *)
ChangeShows ==
  \A t \in Tabs, g \in Guards, v \in 0..MaxVersion :
    (guard[t] = g /\ ledger[g] = v) ~>
      (guard[t] # g \/ ledger[g] # v \/ ShowsOrFails(t, v))
=============================================================================

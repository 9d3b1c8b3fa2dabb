-------------------------- MODULE GuardReadsProofs --------------------------
(***************************************************************************)
(* For any number of tabs, guards, fields and reads in flight: an answer   *)
(* never paints over another guard's view, and the single retry flag is    *)
(* never leaked.  The invariant is inductive because it ties every read in *)
(* flight to the epoch it was issued in: a read of the current epoch is a  *)
(* read of the guard on screen.  The rest of a tab (TabSession) gives that *)
(* up, for it refreshes through closures of earlier renders, and keeps the *)
(* state well typed.                                                       *)
(***************************************************************************)
EXTENDS TabSession, TLAPS

(* A read of the tab's current epoch is a read of the guard the tab shows, *)
(* no read is from an epoch yet to come, and every answer it holds is the  *)
(* answer of the guard it asked.                                           *)
ReadsBound ==
  \A t \in Tabs, s \in Slots : reads[t][s] # None =>
    /\ reads[t][s].epoch <= epoch[t]
    /\ reads[t][s].epoch = epoch[t] => reads[t][s].guard = guard[t]
    /\ reads[t][s].kind = "refresh" => reads[t][s].fields = Fields
    /\ \A f \in Fields : reads[t][s].got[f] # None =>
                           reads[t][s].got[f].guard = reads[t][s].guard

(* RetryAccounted slot by slot. *)
RetryBound ==
  \A t \in Tabs :
    /\ retrying[t] # None => \E s \in Slots : InFlight(t, s, "retry")
    /\ \A s \in Slots : InFlight(t, s, "retry") =>
         /\ retrying[t] # None
         /\ reads[t][s].fields = {retrying[t]}
         /\ \A r \in Slots : InFlight(t, r, "retry") => r = s

IInv == TypeOK /\ ReadsBound /\ SnapshotForSelectedGuard /\ RetryBound

-----------------------------------------------------------------------------
(* A refresh reads every field of the snapshot. *)
ReadsWhole ==
  \A t \in Tabs, s \in Slots :
    InFlight(t, s, "refresh") => reads[t][s].fields = Fields

\* A step of the read path, or a refresh through an older closure.
ReadStep == Next \/ \E t \in Tabs, s \in Slots, g \in Guards : IssueRefresh(t, s, g)

(* Every kind of step keeps the state well typed. *)
LEMMA TypeStep == TypeOK /\ ReadsWhole /\ [ReadStep]_readVars => TypeOK'
<1> SUFFICES ASSUME TypeOK, ReadsWhole, [ReadStep]_readVars PROVE TypeOK'
  OBVIOUS
<1> USE ReadsAssumption, NoneAssumption
<1>1. ASSUME NEW t \in Tabs, NEW s \in Slots, NEW g \in Guards, IssueRefresh(t, s, g)
      PROVE  TypeOK'
  <2>1. NewRead("refresh", Fields, g, epoch[t]) \in Read
    BY DEF TypeOK, NewRead, Read
  <2> QED
    BY <1>1, <2>1 DEF IssueRefresh, TypeOK
<1>2. ASSUME NEW g \in Guards, ChainMoves(g) PROVE TypeOK'
  BY <1>2 DEF ChainMoves, TypeOK
<1>3. ASSUME NEW t \in Tabs, NEW s \in Slots, NEW f \in Fields, RetryRead(t, s, f)
      PROVE  TypeOK'
  <2>1. NewRead("retry", {f}, guard[t], epoch[t]) \in Read
    BY DEF TypeOK, NewRead, Read
  <2> QED
    BY <1>3, <2>1 DEF RetryRead, TypeOK
<1>4. ASSUME NEW t \in Tabs, NEW s \in Slots, NEW f \in Fields, ServeRead(t, s, f)
      PROVE  TypeOK'
  <2>1. reads[t][s] \in Read
    BY <1>4 DEF ServeRead, Free, TypeOK
  <2>2. PICK ok \in BOOLEAN :
          reads' = [reads EXCEPT ![t][s].got[f] =
            [guard |-> reads[t][s].guard,
             ver |-> IF ok THEN ledger[reads[t][s].guard] ELSE 0, ok |-> ok]]
    BY <1>4 DEF ServeRead
  <2> DEFINE reading == [guard |-> reads[t][s].guard,
             ver |-> IF ok THEN ledger[reads[t][s].guard] ELSE 0, ok |-> ok]
  <2>3. reading \in Reading
    BY <2>1 DEF TypeOK, Read, Reading
  <2>4. [reads[t][s] EXCEPT !.got[f] = reading] \in Read
    BY <2>1, <2>3 DEF Read
  <2>5. reads' = [reads EXCEPT ![t][s] = [reads[t][s] EXCEPT !.got[f] = reading]]
    BY <2>2 DEF TypeOK
  <2> QED
    BY <1>4, <2>4, <2>5 DEF ServeRead, TypeOK
<1>5. ASSUME NEW t \in Tabs, NEW s \in Slots, SettleRefresh(t, s) PROVE TypeOK'
  <2>1. reads[t][s] \in Read /\ reads[t][s].fields = Fields
    BY <1>5 DEF SettleRefresh, InFlight, Free, TypeOK, ReadsWhole
  <2>2. [guard |-> reads[t][s].guard, field |-> reads[t][s].got] \in Snapshot
    BY <1>5, <2>1 DEF SettleRefresh, Answered, Read, Snapshot
  <2>3. reads' \in [Tabs -> [Slots -> Read \cup {None}]]
    BY <1>5 DEF SettleRefresh, TypeOK
  <2>4. snap' \in [Tabs -> Snapshot \cup {None}]
    BY <1>5, <2>2, Zenon DEF SettleRefresh, TypeOK
  <2>5. snapErr' \in [Tabs -> BOOLEAN] /\ refreshing' \in [Tabs -> BOOLEAN]
    BY <1>5 DEF SettleRefresh, TypeOK
  <2> QED
    BY <1>5, <2>3, <2>4, <2>5 DEF SettleRefresh, TypeOK
<1>6. ASSUME NEW t \in Tabs, NEW s \in Slots, RejectRefresh(t, s) PROVE TypeOK'
  BY <1>6 DEF RejectRefresh, TypeOK
<1>7. ASSUME NEW t \in Tabs, NEW s \in Slots, SettleRetry(t, s) PROVE TypeOK'
  <2>1. reads[t][s] \in Read /\ Answered(reads[t][s])
    BY <1>7 DEF SettleRetry, InFlight, Free, TypeOK
  <2>2. Merged(snap[t], reads[t][s]) \in Snapshot \cup {None}
    BY <2>1 DEF Merged, Answered, TypeOK, Read, Snapshot
  <2>3. reads' \in [Tabs -> [Slots -> Read \cup {None}]]
    BY <1>7 DEF SettleRetry, TypeOK
  <2>4. snap' \in [Tabs -> Snapshot \cup {None}]
    BY <1>7, <2>2 DEF SettleRetry, TypeOK
  <2> QED
    BY <1>7, <2>3, <2>4 DEF SettleRetry, TypeOK
<1>8. ASSUME NEW t \in Tabs, NEW g \in Guards, SwitchGuard(t, g) PROVE TypeOK'
  <2>1. NewRead("refresh", Fields, g, epoch[t] + 1) \in Read
    BY DEF TypeOK, NewRead, Read
  <2>2. reads' \in [Tabs -> [Slots -> Read \cup {None}]]
    <3>1. CASE g = guard[t] /\ UNCHANGED <<reads, refreshing>>
      BY <3>1 DEF TypeOK
    <3>2. ASSUME NEW s \in Slots,
                 reads' = [reads EXCEPT ![t][s] =
                             NewRead("refresh", Fields, g, epoch[t] + 1)]
          PROVE  reads' \in [Tabs -> [Slots -> Read \cup {None}]]
      BY <3>2, <2>1 DEF TypeOK
    <3> QED
      BY <1>8, <3>1, <3>2 DEF SwitchGuard
  <2>3. refreshing' \in [Tabs -> BOOLEAN]
    BY <1>8 DEF SwitchGuard, TypeOK
  <2>4. /\ epoch' \in [Tabs -> Nat]
        /\ guard' \in [Tabs -> Guards]
        /\ snap' \in [Tabs -> Snapshot \cup {None}]
        /\ snapErr' \in [Tabs -> BOOLEAN]
        /\ UNCHANGED <<ledger, retrying>>
    BY <1>8 DEF SwitchGuard, TypeOK
  <2> QED
    BY <2>2, <2>3, <2>4 DEF TypeOK
<1>9. CASE UNCHANGED readVars
  BY <1>9 DEF readVars, TypeOK
<1> QED
  BY <1>1, <1>2, <1>3, <1>4, <1>5, <1>6, <1>7, <1>8, <1>9
  DEF ReadStep, Next, TabStep, Refresh, TypeOK
(* A read is bound to its guard and epoch for as long as it is in flight:   *)
(* nothing but a switch moves the epoch, and a switch moves it past every  *)
(* read issued before.                                                     *)
LEMMA ReadsStep == TypeOK /\ ReadsBound /\ [Next]_readVars => ReadsBound'
<1> SUFFICES ASSUME TypeOK, ReadsBound, [Next]_readVars,
                    NEW t \in Tabs, NEW s \in Slots, reads'[t][s] # None
             PROVE  /\ reads'[t][s].epoch <= epoch'[t]
                    /\ reads'[t][s].epoch = epoch'[t] => reads'[t][s].guard = guard'[t]
                    /\ reads'[t][s].kind = "refresh" => reads'[t][s].fields = Fields
                    /\ \A f \in Fields : reads'[t][s].got[f] # None =>
                          reads'[t][s].got[f].guard = reads'[t][s].guard
  BY DEF ReadsBound
<1> DEFINE Bound(read, e, g) ==
             /\ read.epoch <= e
             /\ read.epoch = e => read.guard = g
             /\ read.kind = "refresh" => read.fields = Fields
             /\ \A f \in Fields : read.got[f] # None => read.got[f].guard = read.guard
<1>0. /\ reads[t][s] # None => Bound(reads[t][s], epoch[t], guard[t])
      /\ epoch[t] \in Nat
      /\ reads[t][s] \in Read \cup {None}
      /\ None \notin Read
  BY NoneAssumption DEF ReadsBound, TypeOK
<1> SUFFICES Bound(reads'[t][s], epoch'[t], guard'[t])
  OBVIOUS
<1>a. ASSUME NEW kind \in {"refresh", "retry"}, NEW fields \in SUBSET Fields,
             kind = "refresh" => fields = Fields, NEW g \in Guards, NEW e \in Nat
      PROVE  Bound(NewRead(kind, fields, g, e), e, g)
  BY <1>a DEF NewRead
<1>1. ASSUME NEW u \in Tabs, NEW r \in Slots, IssueRefresh(u, r, guard[u])
      PROVE  Bound(reads'[t][s], epoch'[t], guard'[t])
  <2>1. Bound(NewRead("refresh", Fields, guard[t], epoch[t]), epoch[t], guard[t])
    BY <1>a DEF TypeOK
  <2> HIDE DEF Bound
  <2> QED
    BY <1>0, <1>1, <2>1 DEF IssueRefresh, TypeOK
<1>2. ASSUME NEW u \in Tabs, NEW r \in Slots, NEW f \in Fields, RetryRead(u, r, f)
      PROVE  Bound(reads'[t][s], epoch'[t], guard'[t])
  <2>1. Bound(NewRead("retry", {f}, guard[t], epoch[t]), epoch[t], guard[t])
    <3>1. guard[t] \in Guards /\ epoch[t] \in Nat
      BY DEF TypeOK
    <3> QED
      BY <3>1 DEF NewRead
  <2> HIDE DEF Bound
  <2> QED
    BY <1>0, <1>2, <2>1 DEF RetryRead, TypeOK
<1>3. ASSUME NEW u \in Tabs, NEW r \in Slots, NEW f \in Fields, ServeRead(u, r, f)
      PROVE  Bound(reads'[t][s], epoch'[t], guard'[t])
  <2>1. CASE u = t /\ r = s
    <3> DEFINE answer(ok) == [guard |-> reads[t][s].guard,
               ver |-> IF ok THEN ledger[reads[t][s].guard] ELSE 0, ok |-> ok]
    <3>0. PICK ok \in BOOLEAN : reads' = [reads EXCEPT ![t][s].got[f] = answer(ok)]
      BY <1>3, <2>1 DEF ServeRead
    <3> DEFINE reading == answer(ok)
    <3>1. reads' = [reads EXCEPT ![t][s].got[f] = reading] /\ reading.guard = reads[t][s].guard
      BY <3>0
    <3> HIDE DEF reading
    <3>2. reads'[t][s] = [reads[t][s] EXCEPT !.got[f] = reading]
      BY <3>1 DEF TypeOK
    <3>3. reads[t][s] \in Read /\ reads[t][s] # None
      BY <1>3, <2>1, <1>0 DEF ServeRead, Free
    <3> QED
      BY <1>0, <1>3, <3>2, <3>3 DEF ServeRead, Read
  <2>2. CASE ~(u = t /\ r = s)
    <3>1. reads'[t][s] = reads[t][s] /\ UNCHANGED <<epoch, guard>>
      BY <1>3, <2>2 DEF ServeRead, TypeOK
    <3> QED
      BY <1>0, <3>1
  <2> QED
    BY <2>1, <2>2
<1>4. ASSUME NEW u \in Tabs, NEW r \in Slots,
             SettleRefresh(u, r) \/ RejectRefresh(u, r) \/ SettleRetry(u, r)
      PROVE  Bound(reads'[t][s], epoch'[t], guard'[t])
  <2>1. reads'[t][s] = reads[t][s] /\ UNCHANGED <<epoch, guard>>
    BY <1>4 DEF SettleRefresh, RejectRefresh, SettleRetry, TypeOK
  <2> QED
    BY <1>0, <2>1
<1>5. ASSUME NEW u \in Tabs, NEW g \in Guards, SwitchGuard(u, g)
      PROVE  Bound(reads'[t][s], epoch'[t], guard'[t])
  <2>1. CASE u # t
    <3>1. reads'[t][s] = reads[t][s] /\ epoch'[t] = epoch[t] /\ guard'[t] = guard[t]
      BY <1>5, <2>1 DEF SwitchGuard, TypeOK
    <3> QED
      BY <1>0, <3>1
  <2>2. CASE u = t
    <3>1. epoch'[t] = epoch[t] + 1 /\ guard'[t] = g
      BY <1>5, <2>2 DEF SwitchGuard, TypeOK
    <3>2. CASE reads'[t][s] = reads[t][s]
      BY <1>0, <3>1, <3>2 DEF Read
    <3>3. CASE reads'[t][s] = NewRead("refresh", Fields, g, epoch[t] + 1)
      BY <1>0, <1>a, <3>1, <3>3
    <3>4. reads'[t][s] = reads[t][s] \/ reads'[t][s] = NewRead("refresh", Fields, g, epoch[t] + 1)
      BY <1>5, <2>2 DEF SwitchGuard, TypeOK
    <3> QED
      BY <3>2, <3>3, <3>4
  <2> QED
    BY <2>1, <2>2
<1>6. CASE UNCHANGED <<reads, epoch, guard>>
  BY <1>0, <1>6
<1> QED
  BY <1>1, <1>2, <1>3, <1>4, <1>5, <1>6
  DEF Next, TabStep, Refresh, ChainMoves, readVars
(* What is on screen is replaced only by an answer of the current epoch,    *)
(* which is an answer of the guard on screen, or by nothing.               *)
LEMMA SnapshotStep == IInv /\ [Next]_readVars => SnapshotForSelectedGuard'
<1> SUFFICES ASSUME TypeOK, ReadsBound, SnapshotForSelectedGuard, [Next]_readVars,
                    NEW t \in Tabs, snap'[t] # None
             PROVE  /\ snap'[t].guard = guard'[t]
                    /\ \A f \in Fields : snap'[t].field[f].guard = guard'[t]
  BY DEF IInv, SnapshotForSelectedGuard
<1> DEFINE Shows(sn, g) == sn.guard = g /\ \A f \in Fields : sn.field[f].guard = g
<1>0. snap[t] # None => Shows(snap[t], guard[t])
  BY DEF SnapshotForSelectedGuard
<1> SUFFICES Shows(snap'[t], guard'[t])
  OBVIOUS
<1>1. CASE snap'[t] = snap[t] /\ guard'[t] = guard[t]
  BY <1>0, <1>1
<1>2. ASSUME NEW s \in Slots, SettleRefresh(t, s), snap'[t] # snap[t]
      PROVE  Shows(snap'[t], guard'[t])
  <2>1. snap'[t] = [guard |-> reads[t][s].guard, field |-> reads[t][s].got]
    BY <1>2, Zenon DEF SettleRefresh, TypeOK
  <2>2. Current(t, s) /\ guard'[t] = guard[t]
    BY <1>2 DEF SettleRefresh
  <2>3. /\ reads[t][s] # None
        /\ reads[t][s].fields = Fields
        /\ \A f \in Fields : reads[t][s].got[f] # None
    BY <1>2 DEF SettleRefresh, InFlight, Free, Answered, ReadsBound
  <2>4. /\ reads[t][s].guard = guard[t]
        /\ \A f \in Fields : reads[t][s].got[f].guard = guard[t]
    BY <2>2, <2>3 DEF Current, ReadsBound
  <2> QED
    BY <2>1, <2>2, <2>4
<1>3. ASSUME NEW s \in Slots, SettleRetry(t, s), snap'[t] # snap[t]
      PROVE  Shows(snap'[t], guard'[t])
  <2>1. /\ Current(t, s) /\ guard'[t] = guard[t]
        /\ snap'[t] = Merged(snap[t], reads[t][s])
        /\ reads[t][s] # None
        /\ \A f \in reads[t][s].fields : reads[t][s].got[f] # None
    BY <1>3 DEF SettleRetry, TypeOK, InFlight, Free, Answered
  <2>2. /\ snap[t] # None /\ snap[t] \in Snapshot
        /\ snap'[t] = [snap[t] EXCEPT !.field =
             [f \in Fields |-> IF f \in reads[t][s].fields
                                 THEN reads[t][s].got[f] ELSE snap[t].field[f]]]
    BY <1>3, <2>1 DEF Merged, TypeOK, Snapshot
  <2>3. /\ reads[t][s].guard = guard[t]
        /\ \A f \in Fields : reads[t][s].got[f] # None => reads[t][s].got[f].guard = guard[t]
    BY <2>1 DEF Current, ReadsBound
  <2>4. snap'[t].guard = snap[t].guard
    BY <2>2 DEF Snapshot
  <2>5. ASSUME NEW f \in Fields PROVE snap'[t].field[f].guard = guard[t]
    <3>1. snap'[t].field[f] = IF f \in reads[t][s].fields
                               THEN reads[t][s].got[f] ELSE snap[t].field[f]
      BY <2>2 DEF Snapshot
    <3> QED
      BY <3>1, <2>1, <2>2, <2>3, <1>0
  <2> QED
    BY <2>1, <2>2, <2>4, <2>5, <1>0
<1>4. ASSUME NEW u \in Tabs, NEW g \in Guards, SwitchGuard(u, g)
      PROVE  Shows(snap'[t], guard'[t])
  <2>1. u # t
    BY <1>4 DEF SwitchGuard, TypeOK
  <2>2. snap'[t] = snap[t] /\ guard'[t] = guard[t]
    BY <1>4, <2>1 DEF SwitchGuard, TypeOK
  <2> QED
    BY <2>2, <1>1
<1>5. ASSUME NEW u \in Tabs, NEW s \in Slots, SettleRefresh(u, s) \/ SettleRetry(u, s)
      PROVE  Shows(snap'[t], guard'[t])
  <2>1. CASE u = t
    <3>1. guard'[t] = guard[t]
      BY <1>5 DEF SettleRefresh, SettleRetry
    <3> QED
      BY <1>1, <1>2, <1>3, <1>5, <2>1, <3>1
  <2>2. CASE u # t
    <3>1. CASE SettleRefresh(u, s)
      <4>1. snap'[t] = snap[t] /\ guard'[t] = guard[t]
        BY <3>1, <2>2, Zenon DEF SettleRefresh, TypeOK
      <4> QED
        BY <4>1, <1>1
    <3>2. CASE SettleRetry(u, s)
      <4>1. snap'[t] = snap[t] /\ guard'[t] = guard[t]
        BY <3>2, <2>2 DEF SettleRetry, TypeOK
      <4> QED
        BY <4>1, <1>1
    <3> QED
      BY <1>5, <3>1, <3>2
  <2> QED
    BY <2>1, <2>2
<1>6. ASSUME NEW u \in Tabs, NEW s \in Slots, RejectRefresh(u, s)
      PROVE  snap'[t] = snap[t] /\ guard'[t] = guard[t]
  BY <1>6 DEF RejectRefresh, TypeOK
<1>7. CASE UNCHANGED <<snap, guard>>
  BY <1>1, <1>7
<1> QED
  BY <1>1, <1>4, <1>5, <1>6, <1>7, ZenonT(40)
  DEF Next, TabStep, Refresh, IssueRefresh, ChainMoves, RetryRead, ServeRead, readVars

(* The retry flag is set by the one step that puts a retry in flight, when *)
(* none is, and cleared by the one step that takes it out.                 *)
LEMMA RetryStep == IInv /\ [Next]_readVars => RetryBound'
<1> SUFFICES ASSUME TypeOK, RetryBound, [Next]_readVars, NEW t \in Tabs
             PROVE  /\ retrying'[t] # None => \E s \in Slots : InFlight(t, s, "retry")'
                    /\ \A s \in Slots : InFlight(t, s, "retry")' =>
                         /\ retrying'[t] # None
                         /\ reads'[t][s].fields = {retrying'[t]}
                         /\ \A r \in Slots : InFlight(t, r, "retry")' => r = s
  BY DEF IInv, RetryBound
<1> DEFINE Retry(read) == read # None /\ read.kind = "retry"
           Counted(row, flag) ==
             /\ flag # None => \E s \in Slots : Retry(row[s])
             /\ \A s \in Slots : Retry(row[s]) =>
                  /\ flag # None
                  /\ row[s].fields = {flag}
                  /\ \A r \in Slots : Retry(row[r]) => r = s
<1>0. Counted(reads[t], retrying[t])
  BY DEF RetryBound, InFlight, Free
<1> SUFFICES Counted(reads'[t], retrying'[t])
  BY DEF InFlight, Free
<1>a. ASSUME \A s \in Slots : Retry(reads'[t][s]) <=> Retry(reads[t][s]),
             \A s \in Slots : Retry(reads[t][s]) => reads'[t][s].fields = reads[t][s].fields,
             retrying'[t] = retrying[t]
      PROVE  Counted(reads'[t], retrying'[t])
  BY <1>0, <1>a
<1>1. ASSUME NEW u \in Tabs, NEW s \in Slots, NEW g \in Guards, NEW e \in Nat, Free(u, s),
             reads' = [reads EXCEPT ![u][s] = NewRead("refresh", Fields, g, e)],
             retrying' = retrying
      PROVE  Counted(reads'[t], retrying'[t])
  <2>1. ~Retry(NewRead("refresh", Fields, g, e)) /\ ~Retry(reads[u][s])
    BY <1>1 DEF NewRead, Free
  <2>2. \A r \in Slots : (u = t /\ r = s) \/ reads'[t][r] = reads[t][r]
    BY <1>1 DEF TypeOK
  <2>3. u = t => reads'[t][s] = NewRead("refresh", Fields, g, e)
    BY <1>1 DEF TypeOK
  <2> HIDE DEF Retry, Counted
  <2> QED
    BY <1>a, <1>1, <2>1, <2>2, <2>3
<1>2. ASSUME NEW u \in Tabs, NEW s \in Slots, NEW f \in Fields, RetryRead(u, s, f)
      PROVE  Counted(reads'[t], retrying'[t])
  <2>1. CASE u = t
    <3>1. \A r \in Slots : ~Retry(reads[t][r])
      BY <1>0, <1>2, <2>1 DEF RetryRead
    <3>2. /\ reads'[t][s] = NewRead("retry", {f}, guard[t], epoch[t])
          /\ \A r \in Slots : r # s => reads'[t][r] = reads[t][r]
          /\ retrying'[t] = f
      BY <1>2, <2>1 DEF RetryRead, TypeOK
    <3>3. NewRead("retry", {f}, guard[t], epoch[t]) \in Read
      BY DEF NewRead, Read, TypeOK
    <3>4. Retry(reads'[t][s]) /\ reads'[t][s].fields = {f}
      BY <3>2, <3>3, NoneAssumption, SMTT(30) DEF NewRead
    <3>5. f # None
      BY ReadsAssumption
    <3> QED
      BY <3>1, <3>2, <3>4, <3>5
  <2>2. CASE u # t
    <3>1. reads'[t] = reads[t] /\ retrying'[t] = retrying[t]
      BY <1>2, <2>2 DEF RetryRead, TypeOK
    <3> QED
      BY <1>0, <3>1
  <2> QED
    BY <2>1, <2>2
<1>3. ASSUME NEW u \in Tabs, NEW s \in Slots, NEW f \in Fields, ServeRead(u, s, f)
      PROVE  Counted(reads'[t], retrying'[t])
  <2> DEFINE answer(ok) == [guard |-> reads[u][s].guard,
               ver |-> IF ok THEN ledger[reads[u][s].guard] ELSE 0, ok |-> ok]
  <2>1. PICK ok \in BOOLEAN : reads' = [reads EXCEPT ![u][s].got[f] = answer(ok)]
    BY <1>3 DEF ServeRead
  <2> HIDE DEF answer
  <2>2. reads[u][s] \in Read /\ reads[u][s] # None
    BY <1>3 DEF ServeRead, Free, TypeOK
  <2>3. reads' = [reads EXCEPT ![u][s] = [reads[u][s] EXCEPT !.got[f] = answer(ok)]]
    BY <2>1 DEF TypeOK
  <2> DEFINE after == [reads[u][s] EXCEPT !.got[f] = answer(ok)]
  <2>4. after.kind = reads[u][s].kind /\ after.fields = reads[u][s].fields /\ after # None
    <3>1. DOMAIN after = DOMAIN reads[u][s] /\ after.kind = reads[u][s].kind
          /\ after.fields = reads[u][s].fields /\ after.got = [reads[u][s].got EXCEPT ![f] = answer(ok)]
          /\ after.guard = reads[u][s].guard /\ after.epoch = reads[u][s].epoch
      BY <2>2 DEF Read
    <3>2. answer(ok) \in Reading
      BY <2>2 DEF answer, Read, Reading, TypeOK
    <3>3. after \in Read
      BY <2>2, <3>2 DEF Read
    <3> QED
      BY <3>1, <3>3, NoneAssumption
  <2> HIDE DEF after
  <2>5. \A r \in Slots : reads'[t][r] = IF u = t /\ r = s THEN after ELSE reads[t][r]
    BY <2>3 DEF TypeOK, after
  <2>6. retrying'[t] = retrying[t]
    BY <1>3 DEF ServeRead
  <2>7. \A r \in Slots : Retry(reads'[t][r]) <=> Retry(reads[t][r])
    BY <2>2, <2>4, <2>5
  <2>8. \A r \in Slots : Retry(reads[t][r]) => reads'[t][r].fields = reads[t][r].fields
    BY <2>4, <2>5
  <2> HIDE DEF Retry, Counted
  <2> QED
    BY <1>a, <2>6, <2>7, <2>8
<1>4. ASSUME NEW u \in Tabs, NEW s \in Slots, SettleRefresh(u, s) \/ RejectRefresh(u, s)
      PROVE  Counted(reads'[t], retrying'[t])
  <2>1. /\ reads' = [reads EXCEPT ![u][s] = None]
        /\ retrying' = retrying
        /\ ~Retry(reads[u][s])
    BY <1>4 DEF SettleRefresh, RejectRefresh, InFlight, Free
  <2>2. \A r \in Slots : reads'[t][r] = IF u = t /\ r = s THEN None ELSE reads[t][r]
    BY <2>1 DEF TypeOK
  <2>3. \A r \in Slots : Retry(reads'[t][r]) <=> Retry(reads[t][r])
    BY <2>1, <2>2
  <2>4. \A r \in Slots : Retry(reads[t][r]) => reads'[t][r] = reads[t][r]
    BY <2>1, <2>2
  <2> HIDE DEF Retry, Counted
  <2> QED
    BY <1>a, <2>1, <2>3, <2>4
<1>5. ASSUME NEW u \in Tabs, NEW s \in Slots, SettleRetry(u, s)
      PROVE  Counted(reads'[t], retrying'[t])
  <2>1. CASE u = t
    <3>1. /\ Retry(reads[t][s])
          /\ retrying'[t] = None
          /\ \A r \in Slots : reads'[t][r] = IF r = s THEN None ELSE reads[t][r]
      BY <1>5, <2>1 DEF SettleRetry, InFlight, Free, TypeOK
    <3>2. \A r \in Slots : ~Retry(reads'[t][r])
      BY <1>0, <3>1
    <3> QED
      BY <3>1, <3>2
  <2>2. CASE u # t
    <3>1. reads'[t] = reads[t] /\ retrying'[t] = retrying[t]
      BY <1>5, <2>2 DEF SettleRetry, TypeOK
    <3> QED
      BY <1>0, <3>1
  <2> QED
    BY <2>1, <2>2
<1>6. CASE reads' = reads /\ retrying' = retrying
  BY <1>0, <1>6
<1>7. ASSUME NEW u \in Tabs, NEW g \in Guards, SwitchGuard(u, g)
      PROVE  Counted(reads'[t], retrying'[t])
  <2>1. epoch[u] + 1 \in Nat
    BY DEF TypeOK
  <2> HIDE DEF Counted, Retry
  <2> QED
    BY <1>1, <1>6, <1>7, <2>1 DEF SwitchGuard
<1>8. ASSUME NEW u \in Tabs, Refresh(u)
      PROVE  Counted(reads'[t], retrying'[t])
  <2>1. guard[u] \in Guards /\ epoch[u] \in Nat
    BY DEF TypeOK
  <2> HIDE DEF Counted, Retry
  <2> QED
    BY <1>1, <1>8, <2>1 DEF Refresh, IssueRefresh
<1> HIDE DEF Counted, Retry
<1> QED
  BY <1>2, <1>3, <1>4, <1>5, <1>6, <1>7, <1>8 DEF Next, TabStep, ChainMoves, readVars

-----------------------------------------------------------------------------
LEMMA InitInv == Init => IInv
<1> SUFFICES ASSUME Init PROVE IInv
  OBVIOUS
<1> QED
  BY ReadsAssumption DEF Init, IInv, TypeOK, ReadsBound, SnapshotForSelectedGuard,
                         RetryBound, InFlight, Free

(* The invariant of every reachable state. *)
LEMMA Invariant == Spec => []IInv
<1>1. Init => IInv
  BY InitInv
<1>2. IInv /\ [Next]_readVars => IInv'
  <2>1. ReadsBound => ReadsWhole
    BY DEF ReadsBound, ReadsWhole, InFlight, Free
  <2>2. TypeOK /\ ReadsBound /\ [Next]_readVars => TypeOK'
    BY <2>1, TypeStep DEF ReadStep
  <2> QED
    BY <2>2, ReadsStep, SnapshotStep, RetryStep DEF IInv
<1> QED
  BY <1>1, <1>2, PTL DEF Spec

(* The read path keeps its state well typed (GuardProvider's refs and state). *)
THEOREM TypeCorrect == Spec => []TypeOK
<1>1. IInv => TypeOK
  BY DEF IInv
<1> QED
  BY <1>1, Invariant, PTL

(* "Guard A's status must never paint over guard B's view": in whatever    *)
(* order refresh() and retryRead() are answered, however often the guard   *)
(* is switched meanwhile, every field on screen is the selected guard's.   *)
THEOREM ViewIsOfGuard == Spec => []SnapshotForSelectedGuard
<1>1. IInv => SnapshotForSelectedGuard
  BY DEF IInv
<1> QED
  BY <1>1, Invariant, PTL

(* retryingField names a field exactly while one retry of that field is in *)
(* flight, across guard switches (retryRead's guard and its finally).      *)
THEOREM RetryNeverLeaks == Spec => []RetryAccounted
<1>1. TypeOK /\ RetryBound => RetryAccounted
  <2> SUFFICES ASSUME TypeOK, RetryBound, NEW t \in Tabs
               PROVE  LET retries == {s \in Slots : InFlight(t, s, "retry")}
                      IN IF retrying[t] = None
                           THEN retries = {}
                           ELSE \E s \in retries : /\ retries = {s}
                                                   /\ reads[t][s].fields = {retrying[t]}
    BY DEF RetryAccounted
  <2>1. CASE retrying[t] = None
    BY <2>1 DEF RetryBound
  <2>2. CASE retrying[t] # None
    <3>1. PICK s \in Slots : InFlight(t, s, "retry")
      BY <2>2 DEF RetryBound
    <3>2. /\ {r \in Slots : InFlight(t, r, "retry")} = {s}
          /\ reads[t][s].fields = {retrying[t]}
      BY <3>1 DEF RetryBound
    <3> QED
      BY <2>2, <3>1, <3>2
  <2> QED
    BY <2>1, <2>2
<1> QED
  BY <1>1, Invariant, PTL DEF IInv
-----------------------------------------------------------------------------
(* The rest of a tab. *)

\* What is asked in a session is a step of the read path, or a first commit.
LEMMA SessionSteps ==
  ASSUME SessionTypeOK, [SessionNext]_sessionVars
  PROVE  \/ [ReadStep]_readVars
         \/ \E t \in Tabs, h, g \in Guards : FirstCommits(t, h, g)
<1>1. CASE UNCHANGED sessionVars
  BY <1>1 DEF sessionVars
<1>2. ASSUME NEW t \in Tabs, EndWrite(t) PROVE ReadStep
  <2>1. panel[t] \in Guards
    BY <1>2 DEF EndWrite, SessionTypeOK
  <2> QED
    BY <1>2, <2>1 DEF EndWrite, ReadStep
<1>3. ASSUME NEW t \in Tabs, TimerRefresh(t) \/ AskedRefresh(t) \/ WalletChanges(t)
      PROVE  ReadStep
  BY <1>3 DEF TimerRefresh, AskedRefresh, WalletChanges, ReadStep, Next, TabStep
<1>4. ASSUME NEW t \in Tabs, BeginWrite(t) \/ AbandonWrite(t) \/ Wipe(t)
      PROVE  UNCHANGED readVars
  BY <1>4 DEF BeginWrite, AbandonWrite, Wipe
<1>5. ASSUME NEW t \in Tabs, NEW s \in Slots, Answers(t, s)
      PROVE  ReadStep
  BY <1>5 DEF Answers, ReadStep, Next, TabStep
<1>6. ASSUME NEW t \in Tabs, NEW g \in Guards, Select(t, g)
      PROVE  ReadStep
  BY <1>6 DEF Select, ReadStep, Next
<1>7. ASSUME NEW g \in Guards, ChainMoves(g)
      PROVE  ReadStep
  BY <1>7 DEF ReadStep, Next
<1> QED
  BY <1>1, <1>2, <1>3, <1>4, <1>5, <1>6, <1>7 DEF SessionNext

\* The first commit begins one read, or one of each guard.
LEMMA FirstCommitsType ==
  ASSUME TypeOK, ReadsWhole, NEW t \in Tabs, NEW h \in Guards, NEW g \in Guards,
         FirstCommits(t, h, g)
  PROVE  TypeOK' /\ ReadsWhole'
<1> USE ReadsAssumption, NoneAssumption
<1> DEFINE first == NewRead("refresh", Fields, h, epoch[t])
           second == NewRead("refresh", Fields, g, epoch[t])
<1>1. PICK s1 \in Slots, s2 \in Slots :
        reads' = [reads EXCEPT ![t][s1] = first, ![t][s2] = second]
  BY DEF FirstCommits
<1>2. /\ first \in Read /\ first.kind = "refresh" /\ first.fields = Fields
      /\ second \in Read /\ second.kind = "refresh" /\ second.fields = Fields
  BY DEF TypeOK, NewRead, Read
<1>3. /\ guard' = [guard EXCEPT ![t] = g]
      /\ refreshing' = [refreshing EXCEPT ![t] = TRUE]
      /\ UNCHANGED <<ledger, epoch, snap, snapErr, retrying>>
  BY DEF FirstCommits
<1> HIDE DEF first, second
<1>4. /\ reads' \in [Tabs -> [Slots -> Read \cup {None}]]
      /\ \A u \in Tabs, s \in Slots : reads'[u][s] \in {reads[u][s], first, second}
  BY <1>1, <1>2 DEF TypeOK
<1>5. refreshing' \in [Tabs -> BOOLEAN]
  BY <1>3, Zenon DEF TypeOK
<1>6. TypeOK'
  BY <1>3, <1>4, <1>5 DEF TypeOK
<1>7. ReadsWhole'
  BY <1>2, <1>4 DEF ReadsWhole, InFlight, Free
<1> QED
  BY <1>6, <1>7

\* An answer to one field leaves what was asked.
LEMMA WholeStep ==
  ASSUME TypeOK, ReadsWhole, [ReadStep]_readVars
  PROVE  ReadsWhole'
<1> USE ReadsAssumption, NoneAssumption
<1> SUFFICES ASSUME NEW t \in Tabs, NEW s \in Slots, reads'[t][s] # None,
                    reads'[t][s].kind = "refresh"
             PROVE  reads'[t][s].fields = Fields
  BY DEF ReadsWhole, InFlight, Free
<1>1. /\ reads \in [Tabs -> [Slots -> Read \cup {None}]]
      /\ \A u \in Tabs, r \in Slots :
           reads[u][r] # None /\ reads[u][r].kind = "refresh" => reads[u][r].fields = Fields
  BY DEF TypeOK, ReadsWhole, InFlight, Free
<1>2. \A g, e : /\ NewRead("refresh", Fields, g, e).fields = Fields
                /\ \A f : NewRead("retry", {f}, g, e).kind = "retry"
  BY DEF NewRead
<1>3. CASE UNCHANGED reads
  BY <1>1, <1>3
<1>4. ASSUME NEW u \in Tabs, NEW r \in Slots, NEW read,
             reads' = [reads EXCEPT ![u][r] = read],
             read = None \/ read.kind = "retry" \/ read.fields = Fields
      PROVE  reads'[t][s].fields = Fields
  <2>1. reads'[t][s] = IF u = t /\ r = s THEN read ELSE reads[t][s]
    BY <1>1, <1>4
  <2> HIDE <1>4
  <2>2. CASE u = t /\ r = s
    BY <1>4, <2>1, <2>2
  <2>3. CASE ~(u = t /\ r = s)
    BY <1>1, <2>1, <2>3
  <2> QED BY <2>2, <2>3
<1>5. ASSUME NEW u \in Tabs, NEW r \in Slots, NEW f \in Fields, ServeRead(u, r, f)
      PROVE  reads'[t][s].fields = Fields
  <2>1. PICK reading : reads' = [reads EXCEPT ![u][r].got[f] = reading]
    BY <1>5 DEF ServeRead
  <2>2. reads[u][r] \in Read /\ reads[u][r] # None
    BY <1>1, <1>5 DEF ServeRead, Free
  <2>3. CASE u = t /\ r = s
    <3>1. reads'[t][s] = [reads[t][s] EXCEPT !.got[f] = reading]
      BY <1>1, <2>1, <2>3
    <3>2. reads'[t][s].kind = reads[t][s].kind /\ reads'[t][s].fields = reads[t][s].fields
      BY <2>2, <2>3, <3>1 DEF Read
    <3> QED BY <1>1, <2>2, <2>3, <3>2
  <2>4. CASE ~(u = t /\ r = s)
    <3>1. reads'[t][s] = reads[t][s]
      BY <1>1, <2>1, <2>4
    <3> QED BY <1>1, <3>1
  <2> QED BY <2>3, <2>4
<1>6. CASE \E u \in Tabs, r \in Slots, g \in Guards : IssueRefresh(u, r, g)
  <2>1. PICK u \in Tabs, r \in Slots, g \in Guards :
          reads' = [reads EXCEPT ![u][r] = NewRead("refresh", Fields, g, epoch[u])]
    BY <1>6 DEF IssueRefresh
  <2>2. NewRead("refresh", Fields, g, epoch[u]).fields = Fields
    BY <1>2
  <2> QED BY <1>4, <2>1, <2>2
<1>7. CASE \E g \in Guards : ChainMoves(g)
  BY <1>3, <1>7 DEF ChainMoves
<1>8. CASE \E u \in Tabs, r \in Slots : SettleRefresh(u, r) \/ RejectRefresh(u, r) \/ SettleRetry(u, r)
  BY <1>4, <1>8 DEF SettleRefresh, RejectRefresh, SettleRetry
<1>9. CASE \E u \in Tabs, r \in Slots, f \in Fields : RetryRead(u, r, f)
  <2>1. PICK u \in Tabs, r \in Slots, f \in Fields :
          reads' = [reads EXCEPT ![u][r] = NewRead("retry", {f}, guard[u], epoch[u])]
    BY <1>9 DEF RetryRead
  <2>2. NewRead("retry", {f}, guard[u], epoch[u]).kind = "retry"
    BY DEF NewRead
  <2> QED BY <1>4, <2>1, <2>2
<1>10. CASE \E u \in Tabs, g \in Guards : SwitchGuard(u, g)
  BY <1>2, <1>3, <1>4, <1>10 DEF SwitchGuard
<1>11. CASE UNCHANGED readVars
  BY <1>3, <1>11 DEF readVars
<1> QED
  BY <1>5, <1>6, <1>7, <1>8, <1>9, <1>10, <1>11 DEF ReadStep, Next, TabStep, Refresh, TypeOK

(* Reads through closures of earlier renders, timers that are wiped and    *)
(* panels whose writes end late keep the state of a tab well typed.        *)
THEOREM SessionTypes == SessionSpec => []SessionTypeOK
<1> DEFINE SInv == SessionTypeOK /\ ReadsWhole
<1>1. SessionInit => SInv
  BY ReadsAssumption DEF SessionInit, SessionTypeOK, Init, TypeOK, ReadsWhole, InFlight, Free
<1>2. SInv /\ [SessionNext]_sessionVars => SInv'
  <2> SUFFICES ASSUME SessionTypeOK, ReadsWhole, [SessionNext]_sessionVars PROVE SInv'
    OBVIOUS
  <2>1. TypeOK
    BY DEF SessionTypeOK
  <2>2. TypeOK' /\ ReadsWhole'
    BY <2>1, SessionSteps, FirstCommitsType, TypeStep, WholeStep
  <2>3. /\ mounted' \in [Tabs -> BOOLEAN] /\ timer' \in [Tabs -> BOOLEAN]
        /\ panel' \in [Tabs -> Guards \cup {None}]
    <3> USE DEF SessionTypeOK
    <3>1. CASE UNCHANGED sessionVars
      BY <3>1 DEF sessionVars
    <3>2. ASSUME NEW t \in Tabs, NEW h \in Guards, NEW g \in Guards, FirstCommits(t, h, g)
          PROVE  /\ mounted' = [mounted EXCEPT ![t] = TRUE] /\ timer' = [timer EXCEPT ![t] = TRUE]
                 /\ panel' = panel
      BY <3>2 DEF FirstCommits
    <3>3. ASSUME NEW t \in Tabs, WalletChanges(t)
          PROVE  UNCHANGED <<mounted, panel>> /\ timer' = [timer EXCEPT ![t] = TRUE]
      BY <3>3 DEF WalletChanges
    <3>4. ASSUME NEW t \in Tabs, NEW g \in Guards, Select(t, g)
          PROVE  UNCHANGED <<mounted, panel>> /\ timer' \in [Tabs -> BOOLEAN]
      <4>1. /\ timer' = [timer EXCEPT ![t] = timer[t] \/ g # guard[t]]
            /\ UNCHANGED <<mounted, panel>>
        BY <3>4 DEF Select
      <4> QED BY <4>1
    <3>5. ASSUME NEW t \in Tabs, Wipe(t)
          PROVE  UNCHANGED <<mounted, panel>> /\ timer' = [timer EXCEPT ![t] = FALSE]
      BY <3>5 DEF Wipe
    <3>6. ASSUME NEW t \in Tabs, BeginWrite(t) \/ EndWrite(t) \/ AbandonWrite(t)
          PROVE  UNCHANGED <<mounted, timer>> /\ panel' \in [Tabs -> Guards \cup {None}]
      BY <2>1, <3>6 DEF BeginWrite, EndWrite, AbandonWrite, TypeOK
    <3>7. CASE UNCHANGED <<mounted, timer, panel>>
      BY <3>7
    <3>8. /\ \A t \in Tabs : TimerRefresh(t) \/ AskedRefresh(t) => UNCHANGED <<mounted, timer, panel>>
          /\ \A t \in Tabs, s \in Slots : Answers(t, s) => UNCHANGED <<mounted, timer, panel>>
      BY DEF TimerRefresh, AskedRefresh, Answers
    <3>9. ASSUME NEW t \in Tabs, NEW new \in BOOLEAN
          PROVE  /\ [timer EXCEPT ![t] = new] \in [Tabs -> BOOLEAN]
                 /\ [mounted EXCEPT ![t] = new] \in [Tabs -> BOOLEAN]
      BY Zenon
    <3>10. /\ mounted \in [Tabs -> BOOLEAN] /\ timer \in [Tabs -> BOOLEAN]
           /\ panel \in [Tabs -> Guards \cup {None}]
      OBVIOUS
    <3>11. CASE \E t \in Tabs, h, g \in Guards : FirstCommits(t, h, g)
      BY <3>2, <3>9, <3>10, <3>11
    <3>12. CASE \E t \in Tabs : WalletChanges(t) \/ Wipe(t)
      BY <3>3, <3>5, <3>9, <3>10, <3>12
    <3>13. CASE \E t \in Tabs, g \in Guards : Select(t, g)
      BY <3>4, <3>10, <3>13
    <3>14. CASE \E t \in Tabs : BeginWrite(t) \/ EndWrite(t) \/ AbandonWrite(t)
      BY <3>6, <3>10, <3>14
    <3> QED
      BY <3>1, <3>7, <3>8, <3>11, <3>12, <3>13, <3>14 DEF SessionNext
  <2> QED BY <2>2, <2>3 DEF SessionTypeOK
<1>3. SInv => SessionTypeOK
  OBVIOUS
<1> QED
  BY <1>1, <1>2, <1>3, PTL DEF SessionSpec
=============================================================================

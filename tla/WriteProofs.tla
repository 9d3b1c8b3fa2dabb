----------------------------- MODULE WriteProofs ----------------------------
(***************************************************************************)
(* Proofs about the two sides of a write, which share no state.            *)
(*                                                                         *)
(* WriteLock, for any tabs, guards, actions and number of writes: no claim *)
(* is left without a run that will release it, unless its tab was lost,    *)
(* and no tab removes or overwrites a live claim of another run that its   *)
(* look has found.  NoOrphanClaim is inductive together with the types and *)
(* LeasesBound: an id is fresh only while no record and no look holds it,  *)
(* a record is kept under the key its run claimed, and a removal of a live *)
(* claim is begun only for a lease that has been released.                 *)
(*                                                                         *)
(* WritePipeline, for any number of writes and accounts and any bounds:    *)
(* its types, what the history says, that a review is current when its     *)
(* transaction is included, and that every write keeps the promise of      *)
(* WriteOutcome.                                                           *)
(***************************************************************************)
EXTENDS WriteLock, WritePipeline, TLAPS

(* A run within acquire or renew is unreleased; activeWriteLease and the   *)
(* leases a tab is releasing are writes of its own; and a live claim is    *)
(* removed only for a lease that has been released.                        *)
RunBound(o) ==
  runs[o] # Nobody =>
    /\ runs[o].at \in {"looked", "put", "renewing", "renewed"} => ~runs[o].released
    /\ runs[o].at = "over" => runs[o].released

ActiveBound(t) ==
  active[t] # Nobody =>
    LET o == active[t]
    IN runs[o] # Nobody /\ runs[o].at \in {"writing", "renewing", "renewed"} /\ runs[o].tab = t

ReleasingBound(t) ==
  \A o \in releasing[t] : runs[o] # Nobody /\ runs[o].at = "writing" /\ runs[o].tab = t

ErasingBound(t) ==
  erasing[t] # Nobody /\ erasing[t].saw # Nobody =>
    LET o == erasing[t].saw
    IN /\ runs[o] # Nobody /\ runs[o].tab = t /\ runs[o].released
       /\ runs[o].at \in {"writing", "over"}

LeasesBound ==
  /\ \A o \in Owners : RunBound(o)
  /\ \A t \in Tabs : ActiveBound(t) /\ ReleasingBound(t) /\ ErasingBound(t)

LockInv == LockTypeOK /\ NoOrphanClaim /\ LeasesBound

\* NoOrphanClaim of one key.
Kept(k) ==
  store[k] # Nobody =>
    LET o == store[k].owner
    IN /\ runs[o] # Nobody /\ runs[o].key = k /\ runs[o].at # "looked"
       /\ \/ ~runs[o].released \/ runs[o].at = "lost"
          \/ erasing[runs[o].tab] # Nobody /\ erasing[runs[o].tab].key = k

LEMMA LockParts ==
  ASSUME LockInv
  PROVE  /\ LockTypeOK
         /\ \A k \in Keys : Kept(k)
         /\ \A o \in Owners : RunBound(o)
         /\ \A t \in Tabs : ActiveBound(t) /\ ReleasingBound(t) /\ ErasingBound(t)
BY DEF LockInv, NoOrphanClaim, Kept, LeasesBound

-----------------------------------------------------------------------------
(* What the helpers of a step yield. *)

\* A look removes what has expired or what is being released, and no more.
LEMMA RemovedFacts ==
  ASSUME LockTypeOK, NEW k \in Keys, NEW os \in SUBSET Owners
  PROVE  /\ Removed(k, os) \in Erasure \cup {Nobody}
         /\ Removed(k, os) # Nobody =>
              /\ Removed(k, os).key = k
              /\ Removed(k, os).saw = Nobody \/ Removed(k, os).saw \in os
         /\ Removed(k, os) = Nobody /\ store[k] # Nobody =>
              Live(k) /\ store[k].owner \notin os
<1> USE LockNoneAssumption
<1>1. store[k] # Nobody => store[k] \in Claim /\ store[k].owner \in Owners
  BY DEF LockTypeOK, Claim
<1>2. OwnerOf(k) \in Owners \cup {Nobody}
  BY <1>1 DEF OwnerOf, Live
<1>3. [key |-> k, saw |-> OwnerOf(k)] \in Erasure
  BY <1>2 DEF Erasure
<1>4. [key |-> k, saw |-> OwnerOf(k)] # Nobody
  BY <1>3
<1> QED
  BY <1>1, <1>3, <1>4 DEF Removed, OwnerOf, Live

LEMMA TellType ==
  ASSUME NEW t, NEW next, events \in [Tabs -> SUBSET Keys], Tell(t, next)
  PROVE  events' \in [Tabs -> SUBSET Keys]
BY DEF Tell

LEMMA NotifyType ==
  ASSUME NEW t \in Tabs, NEW k \in Keys, NEW o \in Owners \cup {Nobody},
         shown \in [Tabs -> [Actions -> Owners \cup {Nobody}]], Notify(t, k, o)
  PROVE  shown' \in [Tabs -> [Actions -> Owners \cup {Nobody}]]
BY DEF Notify, Keys

LEMMA PublishType ==
  ASSUME NEW t \in Tabs, NEW a \in Actions, LockTypeOK, Publish(t, a)
  PROVE  /\ shown' \in [Tabs -> [Actions -> Owners \cup {Nobody}]]
         /\ due' \in [Tabs -> [Actions -> (0..TTL) \cup {Nobody}]]
         /\ <<panel[t], a>> \in Keys /\ Read(t, <<panel[t], a>>)
<1> DEFINE k == <<panel[t], a>>
<1>1. k \in Keys
  BY DEF Keys, LockTypeOK
<1>2. Live(k) => store[k].owner \in Owners /\ store[k].left \in 0..TTL
  BY <1>1 DEF Claim, Live, LockTypeOK
<1>3. OwnerOf(k) \in Owners \cup {Nobody}
  BY <1>2 DEF OwnerOf
<1> QED
  BY <1>1, <1>2, <1>3 DEF Publish, LockTypeOK

\* A run that goes on is still the run of its tab, key and lease.
LEMMA Moved ==
  ASSUME LockTypeOK, NEW o \in Owners, runs[o] # Nobody,
         NEW at \in Stage, NEW left \in 0..TTL, runs' = At(o, at, left)
  PROVE  /\ runs' \in [Owners -> Run \cup {Nobody}]
         /\ \A p \in Owners \ {o} : runs'[p] = runs[p]
         /\ runs'[o] \in Run /\ runs'[o] # Nobody /\ runs'[o].at = at
         /\ runs'[o].tab = runs[o].tab /\ runs'[o].key = runs[o].key
         /\ runs'[o].released = runs[o].released
<1> USE LockNoneAssumption
<1>1. runs[o] \in Run
  BY DEF LockTypeOK
<1>2. runs'[o] = [runs[o] EXCEPT !.at = at, !.left = left]
  BY DEF At, LockTypeOK
<1>3. /\ runs'[o] \in Run /\ runs'[o].at = at
      /\ runs'[o].tab = runs[o].tab /\ runs'[o].key = runs[o].key
      /\ runs'[o].released = runs[o].released
  BY <1>1, <1>2 DEF Run
<1>4. \A p \in Owners \ {o} : runs'[p] = runs[p]
  BY DEF At, LockTypeOK
<1>5. runs' \in [Owners -> Run \cup {Nobody}]
  BY <1>3 DEF At, LockTypeOK
<1> QED
  BY <1>3, <1>4, <1>5

-----------------------------------------------------------------------------
(* A step of tab t that leaves the storage alone and begins a removal, if  *)
(* any, where none was pending, keeps what it owes of a record whose run   *)
(* stays or goes on unreleased.                                            *)
LEMMA KeptByRead ==
  ASSUME NEW t \in Tabs, NEW x, LockTypeOK, NEW k \in Keys, Kept(k),
         erasing[t] = Nobody, erasing' = [erasing EXCEPT ![t] = x],
         UNCHANGED store,
         store[k] # Nobody =>
           LET o == store[k].owner
           IN \/ runs'[o] = runs[o]
              \/ /\ runs'[o] # Nobody /\ runs'[o].key = runs[o].key /\ runs'[o].at # "looked"
                 /\ ~runs'[o].released
              \/ /\ runs'[o] # Nobody /\ runs'[o].key = runs[o].key /\ runs'[o].at # "looked"
                 /\ runs'[o].tab = t /\ x # Nobody /\ x.key = k
  PROVE  Kept(k)'
<1>1. \A u \in Tabs : erasing'[u] = IF u = t THEN x ELSE erasing[u]
  BY DEF LockTypeOK
<1>2. store[k] # Nobody => runs[store[k].owner] # Nobody /\ runs[store[k].owner].tab \in Tabs
  BY DEF Kept, LockTypeOK, Claim, Run
<1> QED
  BY <1>1, <1>2 DEF Kept

(* Where no removal of a live claim is begun, those pending are bound as   *)
(* before if their runs stay.                                              *)
LEMMA ErasingStays ==
  ASSUME LockTypeOK, NEW t \in Tabs, NEW x, ErasingBound(t),
         erasing[t] = Nobody, erasing' = [erasing EXCEPT ![t] = x],
         x = Nobody \/ x.saw = Nobody,
         NEW u \in Tabs, ErasingBound(u),
         u # t /\ erasing[u] # Nobody /\ erasing[u].saw # Nobody =>
           runs'[erasing[u].saw] = runs[erasing[u].saw]
  PROVE  ErasingBound(u)'
BY DEF ErasingBound, LockTypeOK

Bound(t) == ActiveBound(t) /\ ReleasingBound(t) /\ ErasingBound(t)

(* A tab none of whose leases, removals and runs has changed is bound as   *)
(* before.                                                                 *)
LEMMA BoundStays ==
  ASSUME LockTypeOK, NEW u \in Tabs, Bound(u),
         active'[u] = active[u], releasing'[u] = releasing[u], erasing'[u] = erasing[u],
         \A p \in Owners : runs[p] # Nobody /\ runs[p].tab = u => runs'[p] = runs[p]
  PROVE  Bound(u)'
<1>1. active[u] # Nobody => active[u] \in Owners /\ runs[active[u]] # Nobody
                            /\ runs[active[u]].tab = u
  BY DEF LockTypeOK, Bound, ActiveBound
<1>2. ActiveBound(u)'
  BY <1>1 DEF Bound, ActiveBound
<1>3. ReleasingBound(u)'
  BY DEF Bound, ReleasingBound, LockTypeOK
<1>4. erasing[u] # Nobody /\ erasing[u].saw # Nobody => erasing[u].saw \in Owners
  BY DEF LockTypeOK, Erasure
<1>5. ErasingBound(u)'
  BY <1>4 DEF Bound, ErasingBound
<1> QED
  BY <1>2, <1>3, <1>5 DEF Bound

(* acquireGuardWriteLock and renew() keep the invariant. *)
LEMMA LookStep ==
  ASSUME LockInv, NEW t \in Tabs, NEW a \in Actions, NEW o \in Owners, Look(t, a, o)
  PROVE  LockInv'
<1> USE LockAssumption, LockNoneAssumption
<1>t. /\ LockTypeOK /\ (\A k \in Keys : Kept(k)) /\ (\A p \in Owners : RunBound(p))
      /\ \A u \in Tabs : Bound(u)
  BY LockParts DEF Bound
<1> DEFINE k == <<panel[t], a>>
           run == [tab |-> t, key |-> k, at |-> "looked", left |-> TTL, released |-> FALSE]
           x == Removed(k, {})
<1>1. k \in Keys /\ run \in Run /\ run # Nobody
  <2>1. k \in Keys /\ run \in Run
    BY <1>t DEF Keys, Run, Stage, LockTypeOK
  <2> QED
    BY <2>1
<1>2. /\ erasing[t] = Nobody /\ erasing' = [erasing EXCEPT ![t] = x]
      /\ runs' = [runs EXCEPT ![o] = run]
      /\ UNCHANGED <<store, panel, active, shown, due, events, releasing, publishing>>
      /\ releasing[t] = {}
  BY DEF Look, Read, Calling, tabVars, viewVars, callVars
<1>3. x \in Erasure \cup {Nobody} /\ (x # Nobody => x.key = k /\ x.saw = Nobody)
  BY <1>1, <1>t, RemovedFacts
<1>4. /\ \A j \in Keys : store[j] # Nobody => store[j].owner # o
      /\ \A u \in Tabs : erasing[u] # Nobody => erasing[u].saw # o
      /\ runs[o] = Nobody \/ runs[o].at = "lost"
  BY DEF Look, Fresh
<1> HIDE DEF k, x, run
<1>5. LockTypeOK'
  BY <1>t, <1>1, <1>2, <1>3 DEF LockTypeOK
<1>6. ASSUME NEW j \in Keys PROVE Kept(j)'
  <2>1. store[j] # Nobody => runs'[store[j].owner] = runs[store[j].owner]
    BY <1>t, <1>2, <1>4 DEF LockTypeOK, Claim
  <2> QED
    BY <1>t, <1>2, <2>1, KeptByRead
<1>7. runs'[o] = run /\ \A p \in Owners \ {o} : runs'[p] = runs[p]
  BY <1>t, <1>2 DEF LockTypeOK
<1>8. ASSUME NEW p \in Owners PROVE RunBound(p)'
  <2>1. p # o => RunBound(p)'
    BY <1>t, <1>7 DEF RunBound
  <2>2. RunBound(o)'
    BY <1>7 DEF RunBound, run
  <2> QED
    BY <2>1, <2>2
<1>9. ASSUME NEW u \in Tabs PROVE Bound(u)'
  <2>1. active[u] # o /\ o \notin releasing[u]
    BY <1>t, <1>4 DEF Bound, ActiveBound, ReleasingBound
  <2>2. ActiveBound(u)'
    <3>1. active[u] # Nobody => active[u] \in Owners \ {o}
      BY <1>t, <2>1 DEF LockTypeOK
    <3>2. active[u] # Nobody => runs'[active[u]] = runs[active[u]]
      BY <3>1, <1>7
    <3> QED
      BY <1>t, <1>2, <3>2 DEF Bound, ActiveBound
  <2>3. ReleasingBound(u)'
    <3>1. \A p \in releasing[u] : p \in Owners \ {o}
      BY <1>t, <2>1 DEF LockTypeOK
    <3>2. \A p \in releasing[u] : runs'[p] = runs[p]
      BY <3>1, <1>7
    <3> QED
      BY <1>t, <1>2, <3>2 DEF Bound, ReleasingBound
  <2>4. erasing[u] # Nobody /\ erasing[u].saw # Nobody =>
          runs'[erasing[u].saw] = runs[erasing[u].saw]
    BY <1>t, <1>4, <1>7 DEF LockTypeOK, Erasure
  <2>5. ErasingBound(u)'
    BY <1>t, <1>2, <1>3, <2>4, ErasingStays DEF Bound
  <2> QED
    BY <2>2, <2>3, <2>5 DEF Bound
<1> QED
  BY <1>5, <1>6, <1>8, <1>9 DEF LockInv, NoOrphanClaim, Kept, LeasesBound, Bound

\* A run at stage `at` of a tab that is releasing nothing goes on unreleased.
LEMMA MoveBound ==
  ASSUME LockTypeOK, \A p \in Owners : RunBound(p), \A u \in Tabs : Bound(u),
         NEW o \in Owners, runs[o] # Nobody, ~runs[o].released, releasing[runs[o].tab] = {},
         runs'[o] # Nobody, runs'[o].at \in {"looked", "put", "writing", "renewing", "renewed"},
         runs'[o].tab = runs[o].tab, runs'[o].released = runs[o].released,
         \A p \in Owners \ {o} : runs'[p] = runs[p],
         releasing' = releasing
  PROVE  /\ \A p \in Owners : RunBound(p)'
         /\ \A u \in Tabs : ReleasingBound(u)'
         /\ \A u \in Tabs : erasing[u] # Nobody /\ erasing[u].saw # Nobody =>
              runs'[erasing[u].saw] = runs[erasing[u].saw]
<1>1. ASSUME NEW p \in Owners PROVE RunBound(p)'
  <2>1. p # o => RunBound(p)'
    BY DEF RunBound
  <2>2. RunBound(o)'
    BY DEF RunBound
  <2> QED
    BY <2>1, <2>2
<1>2. ASSUME NEW u \in Tabs PROVE ReleasingBound(u)'
  <2>1. \A p \in releasing[u] : p \in Owners /\ p # o
    BY DEF Bound, ReleasingBound, LockTypeOK
  <2> QED
    BY <2>1 DEF Bound, ReleasingBound
<1>3. ASSUME NEW u \in Tabs, erasing[u] # Nobody, erasing[u].saw # Nobody
      PROVE  runs'[erasing[u].saw] = runs[erasing[u].saw]
  <2>1. erasing[u].saw \in Owners
    BY <1>3 DEF LockTypeOK, Erasure
  <2>2. erasing[u].saw # o
    BY <1>3 DEF Bound, ErasingBound
  <2> QED
    BY <2>1, <2>2
<1> QED
  BY <1>1, <1>2, <1>3

LEMMA RenewStep ==
  ASSUME LockInv, NEW o \in Owners, Renew(o)
  PROVE  LockInv'
<1> USE LockAssumption, LockNoneAssumption
<1>t. /\ LockTypeOK /\ (\A k \in Keys : Kept(k)) /\ (\A p \in Owners : RunBound(p))
      /\ \A u \in Tabs : Bound(u)
  BY LockParts DEF Bound
<1> DEFINE t == runs[o].tab
           k == runs[o].key
           x == Removed(k, {})
<1>1. /\ runs[o] # Nobody /\ runs[o] \in Run /\ runs[o].at = "writing" /\ ~runs[o].released
      /\ t \in Tabs /\ k \in Keys
  BY <1>t DEF Renew, Writing, LockTypeOK, Run
<1>2. /\ erasing[t] = Nobody /\ erasing' = [erasing EXCEPT ![t] = x]
      /\ runs' = At(o, "renewing", TTL) \/ runs' = runs
      /\ UNCHANGED <<store, panel, active, shown, due, events, releasing, publishing>>
      /\ releasing[t] = {}
  BY DEF Renew, Read, Calling, tabVars, viewVars, callVars
<1>3. x \in Erasure \cup {Nobody} /\ (x # Nobody => x.key = k /\ x.saw = Nobody)
  BY <1>1, <1>t, RemovedFacts
<1>4. /\ runs' \in [Owners -> Run \cup {Nobody}]
      /\ \A p \in Owners \ {o} : runs'[p] = runs[p]
      /\ runs'[o] # Nobody /\ runs'[o].at \in {"writing", "renewing"}
      /\ runs'[o].tab = t /\ runs'[o].key = k /\ runs'[o].released = runs[o].released
  <2>1. CASE runs' = At(o, "renewing", TTL)
    <3>1. "renewing" \in Stage /\ TTL \in 0..TTL
      BY DEF Stage
    <3> QED
      BY <2>1, <3>1, <1>t, <1>1, Moved
  <2>2. CASE runs' = runs
    BY <2>2, <1>t, <1>1 DEF LockTypeOK
  <2> QED
    BY <2>1, <2>2, <1>2
<1> HIDE DEF t, k, x
<1>5. LockTypeOK'
  BY <1>t, <1>1, <1>2, <1>3, <1>4 DEF LockTypeOK
<1>6. ASSUME NEW j \in Keys PROVE Kept(j)'
  <2>1. store[j] # Nobody => store[j].owner \in Owners
    BY <1>t DEF LockTypeOK, Claim
  <2>2. CASE store[j] # Nobody /\ store[j].owner = o
    BY <2>2, <1>t, <1>1, <1>2, <1>4, KeptByRead DEF k
  <2>3. CASE store[j] # Nobody => store[j].owner # o
    BY <2>1, <2>3, <1>t, <1>1, <1>2, <1>4, KeptByRead
  <2> QED
    BY <2>2, <2>3
<1>7. /\ \A p \in Owners : RunBound(p)'
      /\ \A u \in Tabs : ReleasingBound(u)'
      /\ \A u \in Tabs : erasing[u] # Nobody /\ erasing[u].saw # Nobody =>
           runs'[erasing[u].saw] = runs[erasing[u].saw]
  BY <1>t, <1>1, <1>2, <1>4, MoveBound DEF t
<1>8. ASSUME NEW u \in Tabs PROVE ActiveBound(u)' /\ ErasingBound(u)'
  <2>1. ErasingBound(u)'
    BY <1>t, <1>1, <1>2, <1>3, <1>7, ErasingStays DEF Bound
  <2>2. active[u] # Nobody => active[u] \in Owners
    BY <1>t DEF LockTypeOK
  <2>3. ActiveBound(u)'
    BY <1>t, <1>2, <1>4, <2>2 DEF Bound, ActiveBound, t
  <2> QED
    BY <2>1, <2>3
<1> QED
  BY <1>5, <1>6, <1>7, <1>8 DEF LockInv, NoOrphanClaim, Kept, LeasesBound

LEMMA PutStep ==
  ASSUME LockInv, NEW o \in Owners, Put(o)
  PROVE  LockInv'
<1> USE LockAssumption, LockNoneAssumption
<1>t. /\ LockTypeOK /\ (\A k \in Keys : Kept(k)) /\ (\A p \in Owners : RunBound(p))
      /\ \A u \in Tabs : Bound(u)
  BY LockParts DEF Bound
<1> DEFINE t == runs[o].tab
           k == runs[o].key
           claim == [owner |-> o, left |-> runs[o].left]
           at == IF runs[o].at = "looked" THEN "put" ELSE "renewed"
<1>1. /\ runs[o] # Nobody /\ runs[o] \in Run /\ runs[o].at \in {"looked", "renewing"}
      /\ t \in Tabs /\ k \in Keys /\ claim \in Claim /\ ~runs[o].released
  BY <1>t DEF Put, LockTypeOK, Run, Claim, RunBound
<1>2. /\ erasing' = erasing /\ releasing' = releasing
      /\ UNCHANGED <<panel, due, publishing>> /\ Tell(t, store')
      /\ \/ /\ store' = [store EXCEPT ![k] = claim]
            /\ runs' = At(o, at, 0) /\ UNCHANGED <<active, shown>>
         \/ Won(o) /\ UNCHANGED store
  BY Zenon DEF Put, callVars
<1>3. events' \in [Tabs -> SUBSET Keys]
  BY <1>t, <1>2, TellType DEF LockTypeOK
<1>4. \E l \in {"put", "renewed", "writing"} : runs' = At(o, l, 0)
  BY <1>2 DEF Won
<1>5. /\ runs' \in [Owners -> Run \cup {Nobody}]
      /\ \A p \in Owners \ {o} : runs'[p] = runs[p]
      /\ runs'[o] # Nobody /\ runs'[o].at \in {"put", "renewed", "writing"}
      /\ runs'[o].tab = t /\ runs'[o].key = k /\ runs'[o].released = runs[o].released
  <2> PICK l \in {"put", "renewed", "writing"} : runs' = At(o, l, 0)
    BY <1>4
  <2>1. l \in Stage /\ 0 \in 0..TTL
    BY DEF Stage
  <2> QED
    BY <2>1, <1>t, <1>1, Moved
<1>r. o \notin releasing[t]
  BY <1>t, <1>1 DEF Bound, ReleasingBound
<1>6. \A p \in Owners : RunBound(p)'
  BY <1>t, <1>1, <1>5 DEF RunBound
<1>7. ASSUME NEW u \in Tabs PROVE ReleasingBound(u)' /\ ErasingBound(u)'
  <2>1. \A p \in releasing[u] : p \in Owners /\ p # o
    BY <1>t, <1>1 DEF Bound, ReleasingBound, LockTypeOK
  <2>2. erasing[u] # Nobody /\ erasing[u].saw # Nobody =>
          erasing[u].saw \in Owners /\ erasing[u].saw # o
    BY <1>t, <1>1 DEF Bound, ErasingBound, LockTypeOK, Erasure
  <2>3. ReleasingBound(u)'
    BY <1>t, <1>2, <1>5, <2>1 DEF Bound, ReleasingBound
  <2>4. ErasingBound(u)'
    BY <1>t, <1>2, <1>5, <2>2 DEF Bound, ErasingBound
  <2> QED
    BY <2>3, <2>4
<1>8. CASE /\ store' = [store EXCEPT ![k] = claim]
           /\ runs' = At(o, at, 0) /\ UNCHANGED <<active, shown>>
  <2>1. runs'[o].at \in {"put", "renewed"} /\ (runs'[o].at = "renewed" => runs[o].at = "renewing")
    <3>1. at \in Stage /\ 0 \in 0..TTL
      BY DEF Stage
    <3>2. runs'[o].at = at
      BY <3>1, <1>8, <1>t, <1>1, Moved
    <3> QED
      BY <3>2, <1>1
  <2>2. LockTypeOK'
    BY <1>t, <1>1, <1>2, <1>3, <1>5, <1>8 DEF LockTypeOK
  <2>3. ASSUME NEW j \in Keys PROVE Kept(j)'
    <3>1. CASE j = k
      <4>1. store'[j] = claim /\ store'[j].owner = o
        BY <1>t, <1>1, <1>8, <3>1 DEF LockTypeOK
      <4> QED
        BY <4>1, <3>1, <1>1, <1>5, <2>1 DEF Kept
    <3>2. CASE j # k
      <4>1. store'[j] = store[j]
        BY <1>t, <1>1, <1>8, <3>2 DEF LockTypeOK
      <4>2. store[j] # Nobody => store[j].owner \in Owners \ {o}
        BY <1>t, <3>2 DEF Kept, LockTypeOK, Claim
      <4> QED
        BY <4>1, <4>2, <1>t, <1>2, <1>5 DEF Kept
    <3> QED
      BY <3>1, <3>2
  <2>4. ASSUME NEW u \in Tabs PROVE ActiveBound(u)'
    <3>1. active[u] # Nobody => active[u] \in Owners
      BY <1>t DEF LockTypeOK
    <3>2. active[u] = o => runs[o].at = "renewing" /\ t = u
      BY <1>t, <1>1 DEF Bound, ActiveBound
    <3>3. active[u] = o => runs'[o].at = "renewed"
      <4>1. active[u] = o => at = "renewed"
        BY <3>2
      <4>2. at \in Stage /\ 0 \in 0..TTL
        BY DEF Stage
      <4>3. runs'[o].at = at
        BY <4>2, <1>8, <1>t, <1>1, Moved
      <4> QED
        BY <4>1, <4>3
    <3> QED
      BY <1>t, <1>5, <1>8, <3>1, <3>2, <3>3 DEF Bound, ActiveBound
  <2> QED
    BY <2>2, <2>3, <2>4, <1>6, <1>7 DEF LockInv, NoOrphanClaim, Kept, LeasesBound
<1>9. CASE Won(o) /\ UNCHANGED store
  <2>1. /\ runs' = At(o, "writing", 0) /\ Notify(t, k, o)
        /\ active' = IF runs[o].at \in {"looked", "put"}
                       THEN [active EXCEPT ![t] = o] ELSE active
    BY <1>9 DEF Won
  <2>2. active' \in [Tabs -> Owners \cup {Nobody}]
    BY <1>t, <2>1 DEF LockTypeOK
  <2>3. shown' \in [Tabs -> [Actions -> Owners \cup {Nobody}]]
    BY <1>t, <1>1, <2>1, NotifyType DEF LockTypeOK
  <2>4. LockTypeOK'
    BY <1>t, <1>2, <1>3, <1>5, <1>9, <2>2, <2>3 DEF LockTypeOK
  <2>5. runs'[o].at = "writing"
    <3>1. "writing" \in Stage /\ 0 \in 0..TTL
      BY DEF Stage
    <3> QED
      BY <3>1, <2>1, <1>t, <1>1, Moved
  <2>6. ASSUME NEW j \in Keys PROVE Kept(j)'
    <3>1. store[j] # Nobody => store[j].owner \in Owners
      BY <1>t DEF LockTypeOK, Claim
    <3> QED
      BY <3>1, <1>t, <1>1, <1>2, <1>5, <1>9, <2>5 DEF Kept
  <2>7. ASSUME NEW u \in Tabs PROVE ActiveBound(u)'
    <3>1. active'[u] = o \/ active'[u] = active[u]
      BY <1>t, <2>1 DEF LockTypeOK
    <3>2. active'[u] = o => u = t
      BY <1>t, <1>1, <2>1 DEF LockTypeOK, Bound, ActiveBound
    <3>3. active[u] # Nobody => active[u] \in Owners
      BY <1>t DEF LockTypeOK
    <3> QED
      BY <1>t, <1>5, <2>5, <3>1, <3>2, <3>3 DEF Bound, ActiveBound
  <2> QED
    BY <2>4, <2>6, <2>7, <1>6, <1>7 DEF LockInv, NoOrphanClaim, Kept, LeasesBound
<1> HIDE DEF t, k, claim, at
<1> QED
  BY <1>2, <1>8, <1>9

\* A run that ends is gone, or over with what its tab is about to remove.
LEMMA EndsFacts ==
  ASSUME LockTypeOK, NEW o \in Owners, runs[o] # Nobody, NEW x,
         erasing' = [erasing EXCEPT ![runs[o].tab] = x], Ends(o)
  PROVE  /\ runs' \in [Owners -> Run \cup {Nobody}]
         /\ \A p \in Owners \ {o} : runs'[p] = runs[p]
         /\ x = Nobody => runs'[o] = Nobody
         /\ x # Nobody => /\ runs'[o] # Nobody /\ runs'[o].at = "over" /\ runs'[o].released
                          /\ runs'[o].tab = runs[o].tab /\ runs'[o].key = runs[o].key
<1> USE LockNoneAssumption
<1> DEFINE over == [runs[o] EXCEPT !.at = "over", !.released = TRUE]
<1>1. runs[o] \in Run /\ runs[o].tab \in Tabs
  BY DEF LockTypeOK, Run
<1>2. /\ over \in Run /\ over.at = "over" /\ over.released
      /\ over.tab = runs[o].tab /\ over.key = runs[o].key
  BY <1>1 DEF Run, Stage
<1>3. over # Nobody
  BY <1>2
<1>4. erasing'[runs[o].tab] = x
  BY <1>1 DEF LockTypeOK
<1>5. runs' = [runs EXCEPT ![o] = IF x = Nobody THEN Nobody ELSE over]
  BY <1>4 DEF Ends
<1> HIDE DEF over
<1>6. runs'[o] = IF x = Nobody THEN Nobody ELSE over
  BY <1>5 DEF LockTypeOK
<1>7. runs' \in [Owners -> Run \cup {Nobody}]
  BY <1>2, <1>5 DEF LockTypeOK
<1>8. \A p \in Owners \ {o} : runs'[p] = runs[p]
  BY <1>5 DEF LockTypeOK
<1> QED
  BY <1>2, <1>3, <1>6, <1>7, <1>8

\* A run ends whose tab forgets it and begins to remove what there is of it.
LEMMA EndsStep ==
  ASSUME LockInv, NEW o \in Owners, runs[o] # Nobody, runs[o].at \in {"put", "writing"},
         NEW x \in Erasure \cup {Nobody},
         erasing[runs[o].tab] = Nobody, erasing' = [erasing EXCEPT ![runs[o].tab] = x],
         x # Nobody => x.key = runs[o].key /\ (x.saw = Nobody \/ x.saw = o),
         x = Nobody => store[runs[o].key] = Nobody \/ store[runs[o].key].owner # o,
         Ends(o), o \notin releasing[runs[o].tab],
         active' \in [Tabs -> Owners \cup {Nobody}],
         \A u \in Tabs : active'[u] # Nobody => active'[u] = active[u] /\ active[u] # o,
         shown' \in [Tabs -> [Actions -> Owners \cup {Nobody}]],
         UNCHANGED <<store, panel, due, events, callVars>>
  PROVE  LockInv'
<1> USE LockAssumption, LockNoneAssumption
<1> DEFINE t == runs[o].tab
           k == runs[o].key
<1>t. /\ LockTypeOK /\ (\A j \in Keys : Kept(j)) /\ (\A p \in Owners : RunBound(p))
      /\ \A u \in Tabs : Bound(u)
  BY LockParts DEF Bound
<1>1. t \in Tabs /\ k \in Keys
  BY <1>t DEF LockTypeOK, Run
<1>2. /\ runs' \in [Owners -> Run \cup {Nobody}]
      /\ \A p \in Owners \ {o} : runs'[p] = runs[p]
      /\ x = Nobody => runs'[o] = Nobody
      /\ x # Nobody => /\ runs'[o] # Nobody /\ runs'[o].at = "over" /\ runs'[o].released
                       /\ runs'[o].tab = t /\ runs'[o].key = k
  BY <1>t, EndsFacts
<1> HIDE DEF t, k
<1>3. LockTypeOK'
  BY <1>t, <1>1, <1>2 DEF LockTypeOK, callVars, t
<1>4. ASSUME NEW j \in Keys PROVE Kept(j)'
  <2>1. store[j] # Nobody => store[j].owner \in Owners /\ runs[store[j].owner].key = j
    BY <1>t DEF LockTypeOK, Claim, Kept
  <2>2. CASE store[j] # Nobody /\ store[j].owner = o
    <3>1. j = k /\ x # Nobody
      BY <2>1, <2>2 DEF k
    <3> QED
      BY <3>1, <2>1, <2>2, <1>t, <1>1, <1>2, KeptByRead DEF t, k
  <2>3. CASE store[j] # Nobody => store[j].owner # o
    BY <2>1, <2>3, <1>t, <1>1, <1>2, KeptByRead DEF t
  <2> QED
    BY <2>2, <2>3
<1>5. ASSUME NEW p \in Owners PROVE RunBound(p)'
  BY <1>t, <1>2 DEF RunBound
<1>6. ASSUME NEW u \in Tabs PROVE ActiveBound(u)'
  <2>1. active'[u] # Nobody => active'[u] \in Owners \ {o}
    BY <1>3 DEF LockTypeOK
  <2>2. active'[u] # Nobody => runs'[active'[u]] = runs[active'[u]]
    BY <2>1, <1>2
  <2> QED
    BY <2>2, <1>t DEF Bound, ActiveBound
<1>7. ASSUME NEW u \in Tabs PROVE ReleasingBound(u)'
  <2>1. \A p \in releasing[u] : p \in Owners \ {o}
    BY <1>t DEF Bound, ReleasingBound, LockTypeOK, t
  <2> QED
    BY <2>1, <1>2, <1>t DEF Bound, ReleasingBound, callVars
<1>8. ASSUME NEW u \in Tabs PROVE ErasingBound(u)'
  <2>1. CASE u = t
    <3>1. erasing'[u] = x
      BY <2>1, <1>1, <1>t DEF LockTypeOK, t
    <3> QED
      BY <2>1, <3>1, <1>2, LockAssumption DEF ErasingBound
  <2>2. CASE u # t
    <3>1. erasing'[u] = erasing[u]
      BY <2>2, <1>t DEF LockTypeOK, t
    <3>2. erasing[u] # Nobody /\ erasing[u].saw # Nobody => erasing[u].saw \in Owners \ {o}
      BY <2>2, <1>t DEF LockTypeOK, Erasure, Bound, ErasingBound, t
    <3> QED
      BY <3>1, <3>2, <1>2, <1>t DEF Bound, ErasingBound
  <2> QED
    BY <2>1, <2>2
<1> QED
  BY <1>3, <1>4, <1>5, <1>6, <1>7, <1>8 DEF LockInv, NoOrphanClaim, Kept, LeasesBound

LEMMA ConfirmStep ==
  ASSUME LockInv, NEW o \in Owners, Confirm(o)
  PROVE  LockInv'
<1> USE LockAssumption, LockNoneAssumption
<1>t. /\ LockTypeOK /\ (\A k \in Keys : Kept(k)) /\ (\A p \in Owners : RunBound(p))
      /\ \A u \in Tabs : Bound(u)
  BY LockParts DEF Bound
<1> DEFINE t == runs[o].tab
           k == runs[o].key
           x == Removed(k, {})
<1>1. /\ runs[o] # Nobody /\ runs[o] \in Run /\ runs[o].at \in {"put", "renewed"}
      /\ t \in Tabs /\ k \in Keys /\ ~runs[o].released
  BY <1>t DEF Confirm, LockTypeOK, Run, RunBound
<1>2. /\ erasing[t] = Nobody /\ erasing' = [erasing EXCEPT ![t] = x]
      /\ UNCHANGED <<store, panel, due, events, callVars>>
      /\ \/ OwnerOf(k) = o /\ Won(o)
         \/ OwnerOf(k) # o /\ runs[o].at = "put" /\ Ends(o) /\ UNCHANGED <<active, shown>>
         \/ runs[o].at # "put" /\ runs' = At(o, "writing", 0) /\ UNCHANGED <<active, shown>>
  BY DEF Confirm, Read
<1>3. /\ x \in Erasure \cup {Nobody} /\ (x # Nobody => x.key = k /\ x.saw = Nobody)
      /\ x = Nobody /\ store[k] # Nobody => Live(k)
  BY <1>1, <1>t, RemovedFacts
<1>r. o \notin releasing[t]
  BY <1>t, <1>1 DEF Bound, ReleasingBound
<1> HIDE DEF x
<1>4. CASE OwnerOf(k) # o /\ runs[o].at = "put" /\ Ends(o) /\ UNCHANGED <<active, shown>>
  <2>1. x = Nobody => store[k] = Nobody \/ store[k].owner # o
    BY <1>3, <1>4 DEF OwnerOf
  <2>2. \A u \in Tabs : active[u] # Nobody => active[u] # o
    BY <1>t, <1>4 DEF Bound, ActiveBound
  <2>3. /\ active' \in [Tabs -> Owners \cup {Nobody}]
        /\ shown' \in [Tabs -> [Actions -> Owners \cup {Nobody}]]
    BY <1>4, <1>t DEF LockTypeOK
  <2> QED
    BY <1>1, <1>2, <1>3, <1>r, <1>4, <2>1, <2>2, <2>3, EndsStep
<1>5. CASE /\ runs' = At(o, "writing", 0)
           /\ active' \in [Tabs -> Owners \cup {Nobody}]
           /\ \A u \in Tabs : active'[u] = active[u] \/ (active'[u] = o /\ u = t)
           /\ \A u \in Tabs : active[u] = o => u = t
           /\ shown' \in [Tabs -> [Actions -> Owners \cup {Nobody}]]
  <2>1. /\ runs' \in [Owners -> Run \cup {Nobody}]
        /\ \A p \in Owners \ {o} : runs'[p] = runs[p]
        /\ runs'[o] # Nobody /\ runs'[o].at = "writing"
        /\ runs'[o].tab = t /\ runs'[o].key = k /\ ~runs'[o].released
    <3>1. "writing" \in Stage /\ 0 \in 0..TTL
      BY DEF Stage
    <3> QED
      BY <3>1, <1>5, <1>t, <1>1, Moved
  <2> HIDE DEF t, k
  <2>2. LockTypeOK'
    BY <1>t, <1>1, <1>2, <1>3, <1>5, <2>1 DEF LockTypeOK, callVars
  <2>3. ASSUME NEW j \in Keys PROVE Kept(j)'
    <3>1. store[j] # Nobody => store[j].owner \in Owners
      BY <1>t DEF LockTypeOK, Claim
    <3>2. CASE store[j] # Nobody /\ store[j].owner = o
      BY <3>2, <1>t, <1>1, <1>2, <2>1, KeptByRead DEF k
    <3>3. CASE store[j] # Nobody => store[j].owner # o
      BY <3>1, <3>3, <1>t, <1>1, <1>2, <2>1, KeptByRead
    <3> QED
      BY <3>2, <3>3
  <2>4. ASSUME NEW p \in Owners PROVE RunBound(p)'
    BY <1>t, <2>1 DEF RunBound
  <2>5. ASSUME NEW u \in Tabs PROVE ActiveBound(u)'
    <3>1. active[u] # Nobody => active[u] \in Owners
      BY <1>t DEF LockTypeOK
    <3>2. CASE active'[u] = o
      BY <3>2, <1>5, <2>1 DEF ActiveBound
    <3>3. CASE active'[u] = active[u] /\ active[u] # o
      BY <3>1, <3>3, <2>1, <1>t DEF Bound, ActiveBound
    <3> QED
      BY <3>2, <3>3, <1>5
  <2>6. ASSUME NEW u \in Tabs PROVE ReleasingBound(u)' /\ ErasingBound(u)'
    <3>1. \A p \in releasing[u] : p \in Owners /\ p # o
      BY <1>t, <1>1 DEF Bound, ReleasingBound, LockTypeOK
    <3>2. erasing[u] # Nobody /\ erasing[u].saw # Nobody =>
            erasing[u].saw \in Owners /\ erasing[u].saw # o
      BY <1>t, <1>1 DEF Bound, ErasingBound, LockTypeOK, Erasure
    <3>3. ReleasingBound(u)'
      BY <1>t, <1>2, <2>1, <3>1 DEF Bound, ReleasingBound, callVars
    <3>4. ErasingBound(u)'
      BY <1>t, <1>1, <1>2, <1>3, <2>1, <3>2, ErasingStays DEF Bound
    <3> QED
      BY <3>3, <3>4
  <2> QED
    BY <2>2, <2>3, <2>4, <2>5, <2>6 DEF LockInv, NoOrphanClaim, Kept, LeasesBound
<1>6. CASE Won(o)
  <2>1. /\ runs' = At(o, "writing", 0) /\ Notify(t, k, o)
        /\ active' = IF runs[o].at \in {"looked", "put"}
                       THEN [active EXCEPT ![t] = o] ELSE active
    BY <1>6 DEF Won
  <2>2. shown' \in [Tabs -> [Actions -> Owners \cup {Nobody}]]
    BY <1>t, <1>1, <2>1, NotifyType DEF LockTypeOK
  <2>3. \A u \in Tabs : active[u] = o => u = t
    BY <1>t, <1>1 DEF Bound, ActiveBound
  <2>4. /\ active' \in [Tabs -> Owners \cup {Nobody}]
        /\ \A u \in Tabs : active'[u] = active[u] \/ (active'[u] = o /\ u = t)
    BY <1>t, <1>1, <2>1 DEF LockTypeOK
  <2> QED
    BY <1>5, <2>1, <2>2, <2>3, <2>4
<1>7. CASE runs' = At(o, "writing", 0) /\ UNCHANGED <<active, shown>>
  <2>1. \A u \in Tabs : active[u] = o => u = t
    BY <1>t, <1>1 DEF Bound, ActiveBound
  <2>2. /\ active' \in [Tabs -> Owners \cup {Nobody}]
        /\ shown' \in [Tabs -> [Actions -> Owners \cup {Nobody}]]
    BY <1>t, <1>7 DEF LockTypeOK
  <2> QED
    BY <1>5, <1>7, <2>1, <2>2
<1> HIDE DEF t, k
<1> QED
  BY <1>2, <1>4, <1>6, <1>7

-----------------------------------------------------------------------------
(* Removals, the end of a write, and the releases of a panel and a page    *)
(* keep the invariant.                                                     *)
LEMMA WriteEndsStep ==
  ASSUME LockInv, NEW o \in Owners, WriteEnds(o)
  PROVE  LockInv'
<1> USE LockAssumption, LockNoneAssumption
<1>t. /\ LockTypeOK /\ (\A k \in Keys : Kept(k)) /\ (\A p \in Owners : RunBound(p))
      /\ \A u \in Tabs : Bound(u)
  BY LockParts DEF Bound
<1> DEFINE t == runs[o].tab
           k == runs[o].key
           x == IF Finally(o) = {} THEN Nobody ELSE Removed(k, Finally(o))
<1>1. /\ runs[o] # Nobody /\ runs[o].at = "writing" /\ t \in Tabs /\ k \in Keys
  BY <1>t DEF WriteEnds, Writing, LockTypeOK, Run
<1>2. /\ erasing[t] = Nobody /\ erasing' = [erasing EXCEPT ![t] = x]
      /\ releasing[t] = {} /\ Ends(o)
      /\ active' = [active EXCEPT ![t] = IF @ = o THEN Nobody ELSE @]
      /\ UNCHANGED <<store, panel, due, events, callVars>>
      /\ UNCHANGED shown \/ Notify(t, k, Nobody)
  BY DEF WriteEnds, Calling
<1>3. /\ x \in Erasure \cup {Nobody}
      /\ x # Nobody => x.key = k /\ (x.saw = Nobody \/ x.saw = o)
      /\ x = Nobody => store[k] = Nobody \/ store[k].owner # o
  <2>1. CASE runs[o].released
    <3>1. x = Nobody
      BY <2>1 DEF Finally
    <3>2. store[k] = Nobody \/ store[k].owner # o
      BY <2>1, <1>t, <1>1, <1>2 DEF Kept
    <3> QED
      BY <3>1, <3>2
  <2>2. CASE ~runs[o].released
    <3>1. x = Removed(k, {o})
      BY <2>2 DEF Finally
    <3> QED
      BY <3>1, <1>t, <1>1, RemovedFacts
  <2> QED
    BY <2>1, <2>2
<1>4. shown' \in [Tabs -> [Actions -> Owners \cup {Nobody}]]
  BY <1>t, <1>1, <1>2, NotifyType DEF LockTypeOK
<1>5. active' \in [Tabs -> Owners \cup {Nobody}]
  BY <1>t, <1>2 DEF LockTypeOK
<1>6. \A u \in Tabs : active[u] = o => u = t
  BY <1>t, <1>1 DEF Bound, ActiveBound
<1>7. \A u \in Tabs : active'[u] # Nobody => active'[u] = active[u] /\ active[u] # o
  BY <1>t, <1>1, <1>2, <1>6 DEF LockTypeOK
<1> HIDE DEF x
<1> QED
  BY <1>1, <1>2, <1>3, <1>4, <1>5, <1>7, EndsStep

LEMMA EraseStep ==
  ASSUME LockInv, NEW t \in Tabs, Erase(t)
  PROVE  LockInv'
<1> USE LockAssumption, LockNoneAssumption
<1>t. /\ LockTypeOK /\ (\A k \in Keys : Kept(k)) /\ (\A p \in Owners : RunBound(p))
      /\ \A u \in Tabs : Bound(u)
  BY LockParts DEF Bound
<1> DEFINE k == erasing[t].key
           gone(o) == runs[o] # Nobody /\ runs[o].tab = t /\ runs[o].at = "over"
<1>1. erasing[t] # Nobody /\ k \in Keys
  BY <1>t DEF Erase, LockTypeOK, Erasure
<1>2. /\ store' = [store EXCEPT ![k] = Nobody] /\ Tell(t, store')
      /\ erasing' = [erasing EXCEPT ![t] = Nobody]
      /\ runs' = [o \in Owners |-> IF gone(o) THEN Nobody ELSE runs[o]]
      /\ UNCHANGED <<panel, active, shown, due, releasing, publishing>>
  BY DEF Erase, tabVars, viewVars, callVars
<1>3. events' \in [Tabs -> SUBSET Keys]
  BY <1>t, <1>2, TellType DEF LockTypeOK
<1> HIDE DEF k
<1>4. LockTypeOK'
  BY <1>t, <1>1, <1>2, <1>3 DEF LockTypeOK
<1>5. ASSUME NEW j \in Keys PROVE Kept(j)'
  <2>1. CASE j = k
    BY <2>1, <1>t, <1>1, <1>2 DEF Kept, LockTypeOK
  <2>2. CASE j # k
    <3>1. store'[j] = store[j] /\ (store[j] # Nobody => store[j].owner \in Owners)
      BY <2>2, <1>t, <1>2 DEF LockTypeOK, Claim
    <3>2. store[j] # Nobody => ~gone(store[j].owner)
      BY <2>2, <3>1, <1>t, <1>1 DEF Kept, RunBound, k
    <3>3. store[j] # Nobody => runs'[store[j].owner] = runs[store[j].owner]
      BY <3>1, <3>2, <1>2
    <3>4. \A u \in Tabs : erasing'[u] = IF u = t THEN Nobody ELSE erasing[u]
      BY <1>t, <1>2 DEF LockTypeOK
    <3>5. store[j] # Nobody => runs[store[j].owner].tab \in Tabs
      BY <3>1, <1>t DEF Kept, LockTypeOK, Run
    <3> QED
      BY <2>2, <3>1, <3>3, <3>4, <3>5, <1>t DEF Kept, k
  <2> QED
    BY <2>1, <2>2
<1>6. ASSUME NEW p \in Owners PROVE RunBound(p)'
  BY <1>t, <1>2 DEF RunBound
<1>7. ASSUME NEW u \in Tabs PROVE ActiveBound(u)'
  <2>1. active[u] # Nobody => active[u] \in Owners /\ ~gone(active[u])
    BY <1>t DEF LockTypeOK, Bound, ActiveBound
  <2>2. active[u] # Nobody => runs'[active[u]] = runs[active[u]]
    BY <2>1, <1>2
  <2> QED
    BY <2>2, <1>t, <1>2 DEF Bound, ActiveBound
<1>8. ASSUME NEW u \in Tabs PROVE ReleasingBound(u)'
  <2>1. \A p \in releasing[u] : p \in Owners /\ ~gone(p)
    BY <1>t DEF LockTypeOK, Bound, ReleasingBound
  <2>2. \A p \in releasing[u] : runs'[p] = runs[p]
    BY <2>1, <1>2
  <2> QED
    BY <2>2, <1>t, <1>2 DEF Bound, ReleasingBound
<1>9. ASSUME NEW u \in Tabs PROVE ErasingBound(u)'
  <2>1. CASE u = t
    BY <2>1, <1>t, <1>2 DEF ErasingBound, LockTypeOK
  <2>2. CASE u # t
    <3>1. erasing'[u] = erasing[u]
      BY <2>2, <1>t, <1>2 DEF LockTypeOK
    <3>2. erasing[u] # Nobody /\ erasing[u].saw # Nobody =>
            erasing[u].saw \in Owners /\ ~gone(erasing[u].saw)
      BY <2>2, <1>t DEF LockTypeOK, Erasure, Bound, ErasingBound
    <3>3. erasing[u] # Nobody /\ erasing[u].saw # Nobody =>
            runs'[erasing[u].saw] = runs[erasing[u].saw]
      BY <3>2, <1>2
    <3> QED
      BY <3>1, <3>3, <1>t DEF Bound, ErasingBound
  <2> QED
    BY <2>1, <2>2
<1> QED
  BY <1>4, <1>5, <1>6, <1>7, <1>8, <1>9 DEF LockInv, NoOrphanClaim, Kept, LeasesBound

(* A step of tab t that releases a lease of its own. *)
LEMMA ReleasedStep ==
  ASSUME LockInv, NEW t \in Tabs, NEW o \in Owners, Writing(o), runs[o].tab = t,
         erasing[t] = Nobody, Released(t, o),
         panel' \in [Tabs -> Guards],
         active' \in [Tabs -> Owners \cup {Nobody}],
         shown' \in [Tabs -> [Actions -> Owners \cup {Nobody}]],
         due' \in [Tabs -> [Actions -> (0..TTL) \cup {Nobody}]],
         releasing' \in [Tabs -> SUBSET Owners],
         publishing' \in [Tabs -> SUBSET Actions],
         \A u \in Tabs : active'[u] = Nobody \/ active'[u] = active[u],
         \A u \in Tabs : \A p \in releasing'[u] :
           p \in releasing[u] \/ (Writing(p) /\ runs[p].tab = u),
         UNCHANGED <<store, events>>
  PROVE  LockInv'
<1> USE LockAssumption, LockNoneAssumption
<1>t. /\ LockTypeOK /\ (\A k \in Keys : Kept(k)) /\ (\A p \in Owners : RunBound(p))
      /\ \A u \in Tabs : Bound(u)
  BY LockParts DEF Bound
<1> DEFINE k == runs[o].key
           x == Removed(k, {o})
           done == [runs[o] EXCEPT !.released = TRUE]
<1>1. runs[o] # Nobody /\ runs[o] \in Run /\ runs[o].at = "writing" /\ k \in Keys
  BY <1>t DEF Writing, LockTypeOK, Run
<1>2. /\ done \in Run /\ done.at = "writing" /\ done.released
      /\ done.tab = t /\ done.key = k
  BY <1>1 DEF Run
<1>3. done # Nobody
  BY <1>2
<1> HIDE DEF done
<1>4. /\ erasing' = [erasing EXCEPT ![t] = x]
      /\ runs' = [runs EXCEPT ![o] = done]
  BY DEF Released, done
<1>5. /\ x \in Erasure \cup {Nobody}
      /\ x # Nobody => x.key = k /\ (x.saw = Nobody \/ x.saw = o)
      /\ x = Nobody => store[k] = Nobody \/ store[k].owner # o
  BY <1>t, <1>1, RemovedFacts
<1> HIDE DEF x, k
<1>6. runs'[o] = done /\ \A p \in Owners \ {o} : runs'[p] = runs[p]
  BY <1>t, <1>4 DEF LockTypeOK
<1>7. LockTypeOK'
  BY <1>t, <1>2, <1>4, <1>5 DEF LockTypeOK
<1>8. ASSUME NEW j \in Keys PROVE Kept(j)'
  <2>1. store[j] # Nobody => store[j].owner \in Owners /\ runs[store[j].owner].key = j
    BY <1>t DEF LockTypeOK, Claim, Kept
  <2>2. CASE store[j] # Nobody /\ store[j].owner = o
    <3>1. j = k /\ x # Nobody
      BY <2>1, <2>2, <1>5 DEF k
    <3>2. /\ runs'[o] # Nobody /\ runs'[o].key = runs[o].key /\ runs'[o].at # "looked"
          /\ runs'[o].tab = t /\ x # Nobody /\ x.key = j
      BY <3>1, <1>2, <1>3, <1>5, <1>6 DEF k
    <3> QED
      BY <3>2, <2>2, <1>t, <1>4, KeptByRead
  <2>3. CASE store[j] # Nobody => store[j].owner # o
    BY <2>1, <2>3, <1>t, <1>4, <1>6, KeptByRead
  <2> QED
    BY <2>2, <2>3
<1>9. ASSUME NEW p \in Owners PROVE RunBound(p)'
  BY <1>t, <1>2, <1>6 DEF RunBound
<1>10. ASSUME NEW u \in Tabs PROVE ActiveBound(u)'
  <2>1. active'[u] # Nobody => active[u] = active'[u] /\ active[u] \in Owners
    BY <1>t DEF LockTypeOK
  <2> QED
    BY <2>1, <1>t, <1>2, <1>3, <1>6 DEF Bound, ActiveBound
<1>11. ASSUME NEW u \in Tabs PROVE ReleasingBound(u)'
  <2>1. \A p \in releasing'[u] : p \in Owners /\ runs[p] # Nobody /\ runs[p].at = "writing"
                                 /\ runs[p].tab = u
    BY <1>t DEF Bound, ReleasingBound, Writing, LockTypeOK
  <2> QED
    BY <2>1, <1>2, <1>3, <1>6 DEF ReleasingBound
<1>12. ASSUME NEW u \in Tabs PROVE ErasingBound(u)'
  <2>1. CASE u = t
    <3>1. erasing'[u] = x
      BY <2>1, <1>4, <1>t DEF LockTypeOK
    <3> QED
      BY <2>1, <3>1, <1>2, <1>3, <1>5, <1>6 DEF ErasingBound
  <2>2. CASE u # t
    <3>1. erasing'[u] = erasing[u]
      BY <2>2, <1>4, <1>t DEF LockTypeOK
    <3>2. erasing[u] # Nobody /\ erasing[u].saw # Nobody => erasing[u].saw \in Owners \ {o}
      BY <2>2, <1>t DEF LockTypeOK, Erasure, Bound, ErasingBound
    <3> QED
      BY <3>1, <3>2, <1>6, <1>t DEF Bound, ErasingBound
  <2> QED
    BY <2>1, <2>2
<1> QED
  BY <1>7, <1>8, <1>9, <1>10, <1>11, <1>12 DEF LockInv, NoOrphanClaim, Kept, LeasesBound

LEMMA ReleaseStep ==
  ASSUME LockInv, NEW t \in Tabs,
         \/ PageHide(t) \/ \E o \in Owners : ReleaseNext(t, o)
         \/ \E g \in Guards : Remount(t, g)
  PROVE  LockInv'
<1> USE LockAssumption, LockNoneAssumption
<1>t. /\ LockTypeOK /\ (\A k \in Keys : Kept(k)) /\ (\A p \in Owners : RunBound(p))
      /\ \A u \in Tabs : Bound(u)
  BY LockParts DEF Bound
<1>1. ASSUME NEW o \in Owners, Writing(o), runs[o].tab = t, erasing[t] = Nobody, Released(t, o),
             Notify(t, runs[o].key, Nobody), UNCHANGED <<store, tabVars, due, events, publishing>>,
             NEW rest \in SUBSET Owners, releasing' = [releasing EXCEPT ![t] = rest],
             \A p \in rest : p \in releasing[t] \/ (Writing(p) /\ runs[p].tab = t)
      PROVE  LockInv'
  <2>1. runs[o].key \in Keys
    BY <1>1, <1>t DEF Writing, LockTypeOK, Run
  <2>2. shown' \in [Tabs -> [Actions -> Owners \cup {Nobody}]]
    BY <1>t, <1>1, <2>1, NotifyType DEF LockTypeOK
  <2>3. releasing' \in [Tabs -> SUBSET Owners]
    BY <1>t, <1>1 DEF LockTypeOK
  <2>4. \A u \in Tabs : \A p \in releasing'[u] :
          p \in releasing[u] \/ (Writing(p) /\ runs[p].tab = u)
    BY <1>t, <1>1 DEF LockTypeOK
  <2>5. panel' = panel /\ active' = active /\ due' = due /\ publishing' = publishing
        /\ store' = store /\ events' = events
    BY <1>1 DEF tabVars
  <2>6. /\ panel' \in [Tabs -> Guards]
        /\ active' \in [Tabs -> Owners \cup {Nobody}]
        /\ due' \in [Tabs -> [Actions -> (0..TTL) \cup {Nobody}]]
        /\ publishing' \in [Tabs -> SUBSET Actions]
        /\ \A u \in Tabs : active'[u] = Nobody \/ active'[u] = active[u]
    BY <1>t, <2>5 DEF LockTypeOK
  <2> QED
    BY <1>1, <2>2, <2>3, <2>4, <2>5, <2>6, ReleasedStep
<1>2. CASE PageHide(t)
  <2> PICK o \in Unreleased(t) :
        /\ Released(t, o) /\ Notify(t, runs[o].key, Nobody)
        /\ releasing' = [releasing EXCEPT ![t] = Unreleased(t) \ {o}]
    BY <1>2 DEF PageHide
  <2>1. /\ o \in Owners /\ Writing(o) /\ runs[o].tab = t
        /\ \A p \in Unreleased(t) \ {o} : p \in Owners /\ Writing(p) /\ runs[p].tab = t
    BY DEF Unreleased
  <2>2. erasing[t] = Nobody /\ UNCHANGED <<store, tabVars, due, events, publishing>>
    BY <1>2 DEF PageHide, Calling
  <2>3. Unreleased(t) \ {o} \in SUBSET Owners
    BY DEF Unreleased
  <2> QED
    BY <1>1, <2>1, <2>2, <2>3
<1>3. ASSUME NEW o \in Owners, ReleaseNext(t, o) PROVE LockInv'
  <2>1. /\ o \in releasing[t] /\ erasing[t] = Nobody
        /\ Released(t, o) /\ Notify(t, runs[o].key, Nobody)
        /\ releasing' = [releasing EXCEPT ![t] = releasing[t] \ {o}]
        /\ UNCHANGED <<store, tabVars, due, events, publishing>>
    BY <1>3 DEF ReleaseNext
  <2>2. Writing(o) /\ runs[o].tab = t
    BY <1>t, <2>1 DEF Bound, ReleasingBound, Writing
  <2>3. releasing[t] \ {o} \in SUBSET Owners
    BY <1>t DEF LockTypeOK
  <2> QED
    BY <1>1, <2>1, <2>2, <2>3
<1>4. ASSUME NEW g \in Guards, Remount(t, g) PROVE LockInv'
  <2> DEFINE o == active[t]
  <2>1. /\ ~Calling(t) /\ erasing[t] = Nobody
        /\ IF o # Nobody /\ ~runs[o].released THEN Released(t, o) ELSE UNCHANGED <<erasing, runs>>
        /\ active' = [active EXCEPT ![t] = Nobody]
        /\ panel' = [panel EXCEPT ![t] = g]
        /\ publishing' = [publishing EXCEPT ![t] = Actions]
        /\ due' = [due EXCEPT ![t] = [a \in Actions |-> Nobody]]
        /\ UNCHANGED <<store, shown, events, releasing>>
    BY <1>4 DEF Remount, Calling
  <2>2. /\ panel' \in [Tabs -> Guards]
        /\ active' \in [Tabs -> Owners \cup {Nobody}]
        /\ shown' \in [Tabs -> [Actions -> Owners \cup {Nobody}]]
        /\ due' \in [Tabs -> [Actions -> (0..TTL) \cup {Nobody}]]
        /\ releasing' \in [Tabs -> SUBSET Owners]
        /\ publishing' \in [Tabs -> SUBSET Actions]
        /\ \A u \in Tabs : active'[u] = Nobody \/ active'[u] = active[u]
    BY <1>t, <2>1 DEF LockTypeOK
  <2>3. CASE o # Nobody /\ ~runs[o].released
    <3>1. o \in Owners /\ Writing(o) /\ runs[o].tab = t
      <4>1. o \in Owners
        BY <2>3, <1>t DEF LockTypeOK
      <4> QED
        BY <2>1, <2>3, <4>1, <1>t DEF Bound, ActiveBound, Calling, Writing
    <3>2. Released(t, o)
      BY <2>1, <2>3
    <3> HIDE DEF o
    <3> QED
      BY <2>1, <2>2, <3>1, <3>2, ReleasedStep
  <2>4. CASE UNCHANGED <<erasing, runs>>
    <3>1. LockTypeOK'
      BY <1>t, <2>1, <2>2, <2>4 DEF LockTypeOK
    <3>2. \A k \in Keys : Kept(k)'
      BY <1>t, <2>1, <2>4 DEF Kept
    <3>3. \A p \in Owners : RunBound(p)'
      BY <1>t, <2>4 DEF RunBound
    <3>4. \A u \in Tabs : ActiveBound(u)' /\ ReleasingBound(u)' /\ ErasingBound(u)'
      BY <1>t, <2>1, <2>2, <2>4 DEF Bound, ActiveBound, ReleasingBound, ErasingBound
    <3> QED
      BY <3>1, <3>2, <3>3, <3>4 DEF LockInv, NoOrphanClaim, Kept, LeasesBound
  <2> QED
    BY <2>1, <2>3, <2>4
<1> QED
  BY <1>2, <1>3, <1>4

LEMMA LostStep ==
  ASSUME LockInv, NEW t \in Tabs, NEW g \in Guards, Lost(t, g)
  PROVE  LockInv'
<1> USE LockAssumption, LockNoneAssumption
<1>t. /\ LockTypeOK /\ (\A k \in Keys : Kept(k)) /\ (\A p \in Owners : RunBound(p))
      /\ \A u \in Tabs : Bound(u)
  BY LockParts DEF Bound
<1> DEFINE left(o) == \E k \in Keys : store[k] # Nobody /\ store[k].owner = o
<1>1. /\ runs' = [o \in Owners |->
           IF runs[o] = Nobody \/ runs[o].tab # t THEN runs[o]
           ELSE IF left(o) THEN [runs[o] EXCEPT !.at = "lost", !.left = 0] ELSE Nobody]
      /\ active' = [active EXCEPT ![t] = Nobody]
      /\ panel' = [panel EXCEPT ![t] = g]
      /\ shown' = [shown EXCEPT ![t] = [a \in Actions |-> Nobody]]
      /\ due' = [due EXCEPT ![t] = [a \in Actions |-> Nobody]]
      /\ events' = [events EXCEPT ![t] = {}]
      /\ erasing' = [erasing EXCEPT ![t] = Nobody]
      /\ releasing' = [releasing EXCEPT ![t] = {}]
      /\ publishing' = [publishing EXCEPT ![t] = Actions]
      /\ store' = store
  BY DEF Lost
<1> HIDE DEF left
<1>2. ASSUME NEW o \in Owners, runs[o] # Nobody, runs[o].tab = t, left(o)
      PROVE  /\ runs'[o] \in Run /\ runs'[o] # Nobody /\ runs'[o].at = "lost"
             /\ runs'[o].key = runs[o].key
  <2>1. runs[o] \in Run
    BY <1>t, <1>2 DEF LockTypeOK
  <2>3. runs'[o] = [runs[o] EXCEPT !.at = "lost", !.left = 0]
    BY <1>1, <1>2
  <2>4. "lost" \in Stage /\ 0 \in 0..TTL
    BY DEF Stage
  <2>2. /\ runs'[o] \in Run /\ runs'[o].at = "lost" /\ runs'[o].key = runs[o].key
    BY <2>1, <2>3, <2>4 DEF Run
  <2> QED
    BY <2>2
<1>3. ASSUME NEW o \in Owners, runs[o] # Nobody, runs[o].tab = t, ~left(o)
      PROVE  runs'[o] = Nobody
  BY <1>1, <1>3
<1>4. ASSUME NEW o \in Owners, runs[o] = Nobody \/ runs[o].tab # t
      PROVE  runs'[o] = runs[o]
  BY <1>1, <1>4
<1>5. runs' \in [Owners -> Run \cup {Nobody}]
  <2>1. \A o \in Owners : runs'[o] \in Run \cup {Nobody}
    BY <1>t, <1>2, <1>3, <1>4 DEF LockTypeOK
  <2> QED
    BY <1>1, <2>1
<1>6. LockTypeOK'
  BY <1>t, <1>1, <1>5 DEF LockTypeOK
<1>7. ASSUME NEW j \in Keys PROVE Kept(j)'
  <2>1. store[j] # Nobody => store[j].owner \in Owners /\ left(store[j].owner)
    BY <1>t DEF LockTypeOK, Claim, left
  <2>2. CASE store[j] # Nobody /\ runs[store[j].owner].tab = t
    <3>1. runs[store[j].owner] # Nobody /\ runs[store[j].owner].key = j
      BY <2>2, <1>t DEF Kept
    <3>2. runs'[store[j].owner] # Nobody /\ runs'[store[j].owner].key = j
          /\ runs'[store[j].owner].at = "lost"
      BY <2>1, <2>2, <3>1, <1>2
    <3> QED
      BY <3>2, <1>1 DEF Kept
  <2>3. CASE store[j] # Nobody /\ runs[store[j].owner].tab # t
    <3>1. runs'[store[j].owner] = runs[store[j].owner]
      BY <2>1, <2>3, <1>4
    <3>2. \A u \in Tabs : u # t => erasing'[u] = erasing[u]
      BY <1>t, <1>1 DEF LockTypeOK
    <3>3. runs[store[j].owner].tab \in Tabs
      BY <2>1, <2>3, <1>t DEF Kept, LockTypeOK, Run
    <3>4. erasing'[runs[store[j].owner].tab] = erasing[runs[store[j].owner].tab]
      BY <2>3, <3>2, <3>3
    <3>5. Kept(j) /\ store'[j] = store[j]
      BY <1>t, <1>1
    <3> QED
      BY <3>1, <3>4, <3>5 DEF Kept
  <2> QED
    BY <2>2, <2>3, <1>1 DEF Kept
<1>8. ASSUME NEW p \in Owners PROVE RunBound(p)'
  BY <1>t, <1>2, <1>3, <1>4 DEF RunBound
<1>9. ASSUME NEW u \in Tabs PROVE Bound(u)'
  <2>1. CASE u = t
    <3>1. active'[u] = Nobody /\ releasing'[u] = {} /\ erasing'[u] = Nobody
      BY <2>1, <1>t, <1>1 DEF LockTypeOK
    <3> QED
      BY <3>1 DEF Bound, ActiveBound, ReleasingBound, ErasingBound
  <2>2. CASE u # t
    <3>1. active'[u] = active[u] /\ releasing'[u] = releasing[u] /\ erasing'[u] = erasing[u]
      BY <2>2, <1>t, <1>1 DEF LockTypeOK
    <3>2. \A p \in Owners : runs[p] # Nobody /\ runs[p].tab = u => runs'[p] = runs[p]
      BY <2>2, <1>4
    <3> QED
      BY <3>1, <3>2, <1>t, BoundStays
  <2> QED
    BY <2>1, <2>2
<1> QED
  BY <1>6, <1>7, <1>8, <1>9 DEF LockInv, NoOrphanClaim, Kept, LeasesBound, Bound

(* What a tab shows, and the clock, keep the invariant. *)
LEMMA ViewStep ==
  ASSUME LockInv, NEW t \in Tabs,
         \/ \E k \in Keys : StorageEvent(t, k)
         \/ \E a \in Actions : Timer(t, a) \/ Subscribe(t, a)
  PROVE  LockInv'
<1> USE LockAssumption, LockNoneAssumption
<1>t. /\ LockTypeOK /\ (\A k \in Keys : Kept(k)) /\ (\A p \in Owners : RunBound(p))
      /\ \A u \in Tabs : Bound(u)
  BY LockParts DEF Bound
<1>1. ASSUME \/ UNCHANGED <<viewVars, erasing>>
             \/ \E a \in Actions : erasing[t] = Nobody /\ Publish(t, a),
             events' \in [Tabs -> SUBSET Keys], publishing' \in [Tabs -> SUBSET Actions],
             UNCHANGED <<store, runs, panel, active, releasing>>
      PROVE  LockInv'
  <2>1. CASE UNCHANGED <<viewVars, erasing>>
    <3>1. LockTypeOK'
      BY <1>t, <1>1, <2>1 DEF LockTypeOK, viewVars
    <3>2. \A k \in Keys : Kept(k)'
      BY <1>t, <1>1, <2>1 DEF Kept
    <3>3. \A p \in Owners : RunBound(p)'
      BY <1>t, <1>1 DEF RunBound
    <3>4. \A u \in Tabs : ActiveBound(u)' /\ ReleasingBound(u)' /\ ErasingBound(u)'
      BY <1>t, <1>1, <2>1 DEF Bound, ActiveBound, ReleasingBound, ErasingBound
    <3> QED
      BY <3>1, <3>2, <3>3, <3>4 DEF LockInv, NoOrphanClaim, Kept, LeasesBound
  <2>2. ASSUME NEW a \in Actions, erasing[t] = Nobody, Publish(t, a) PROVE LockInv'
    <3> DEFINE k == <<panel[t], a>>
               x == Removed(k, {})
    <3>1. /\ shown' \in [Tabs -> [Actions -> Owners \cup {Nobody}]]
          /\ due' \in [Tabs -> [Actions -> (0..TTL) \cup {Nobody}]]
          /\ k \in Keys /\ erasing' = [erasing EXCEPT ![t] = x]
      BY <1>t, <2>2, PublishType DEF Read
    <3>2. x \in Erasure \cup {Nobody} /\ (x # Nobody => x.saw = Nobody)
      BY <1>t, <3>1, RemovedFacts
    <3> HIDE DEF x, k
    <3>3. LockTypeOK'
      BY <1>t, <1>1, <3>1, <3>2 DEF LockTypeOK
    <3>4. \A j \in Keys : Kept(j)'
      BY <1>t, <1>1, <2>2, <3>1, KeptByRead
    <3>5. \A p \in Owners : RunBound(p)'
      BY <1>t, <1>1 DEF RunBound
    <3>6. \A u \in Tabs : ActiveBound(u)' /\ ReleasingBound(u)'
      BY <1>t, <1>1 DEF Bound, ActiveBound, ReleasingBound
    <3>7. \A u \in Tabs : ErasingBound(u)'
      BY <1>t, <1>1, <2>2, <3>1, <3>2, ErasingStays DEF Bound
    <3> QED
      BY <3>3, <3>4, <3>5, <3>6, <3>7 DEF LockInv, NoOrphanClaim, Kept, LeasesBound
  <2> QED
    BY <1>1, <2>1, <2>2
<1>2. ASSUME NEW k \in Keys, StorageEvent(t, k) PROVE LockInv'
  <2>1. /\ erasing[t] = Nobody /\ events' = [events EXCEPT ![t] = @ \ {k}]
        /\ UNCHANGED <<store, runs, panel, active, releasing, publishing>>
        /\ Publish(t, k[2]) \/ UNCHANGED <<viewVars, erasing>>
    BY <1>2 DEF StorageEvent, Calling, tabVars, callVars
  <2>2. k[2] \in Actions
    BY DEF Keys
  <2>3. events' \in [Tabs -> SUBSET Keys] /\ publishing' \in [Tabs -> SUBSET Actions]
    BY <1>t, <2>1 DEF LockTypeOK
  <2> QED
    BY <1>1, <2>1, <2>2, <2>3
<1>3. ASSUME NEW a \in Actions, Timer(t, a) PROVE LockInv'
  <2>1. /\ erasing[t] = Nobody /\ Publish(t, a)
        /\ UNCHANGED <<store, runs, panel, active, events, releasing, publishing>>
    BY <1>3 DEF Timer, Calling, tabVars, callVars
  <2> QED
    BY <1>1, <1>t, <2>1 DEF LockTypeOK
<1>4. ASSUME NEW a \in Actions, Subscribe(t, a) PROVE LockInv'
  <2>1. /\ erasing[t] = Nobody /\ Publish(t, a)
        /\ publishing' = [publishing EXCEPT ![t] = @ \ {a}]
        /\ UNCHANGED <<store, runs, panel, active, events, releasing>>
    BY <1>4 DEF Subscribe, tabVars
  <2> QED
    BY <1>1, <1>t, <2>1 DEF LockTypeOK
<1> QED
  BY <1>2, <1>3, <1>4

LEMMA TickStep ==
  ASSUME LockInv, LockTick \/ UNCHANGED lockVars
  PROVE  LockInv'
<1> USE LockAssumption, LockNoneAssumption
<1>t. /\ LockTypeOK /\ (\A k \in Keys : Kept(k)) /\ (\A p \in Owners : RunBound(p))
      /\ \A u \in Tabs : Bound(u)
  BY LockParts DEF Bound
<1>1. CASE LockTick
  <2>1. /\ store' = [k \in Keys |->
             IF Live(k) THEN [store[k] EXCEPT !.left = @ - 1] ELSE store[k]]
        /\ due' = [t \in Tabs |-> [a \in Actions |->
             IF due[t][a] \in Nat \ {0} THEN due[t][a] - 1 ELSE due[t][a]]]
        /\ runs' = [o \in Owners |->
             IF runs[o] # Nobody /\ runs[o].left > 0 THEN [runs[o] EXCEPT !.left = @ - 1]
             ELSE runs[o]]
        /\ UNCHANGED <<panel, active, shown, events, erasing, releasing, publishing>>
    BY <1>1 DEF LockTick, tabVars, callVars
  <2>2. ASSUME NEW k \in Keys
        PROVE  /\ store'[k] \in Claim \cup {Nobody}
               /\ store'[k] # Nobody => store[k] # Nobody /\ store'[k].owner = store[k].owner
    <3>1. CASE Live(k)
      <4>1. store[k] \in Claim /\ store[k].left \in 1..TTL
        BY <1>t, <3>1 DEF Live, LockTypeOK, Claim
      <4>2. store'[k] = [store[k] EXCEPT !.left = store[k].left - 1]
        BY <2>1, <3>1
      <4> QED
        BY <4>1, <4>2 DEF Claim
    <3>2. CASE ~Live(k)
      BY <1>t, <2>1, <3>2 DEF LockTypeOK
    <3> QED
      BY <3>1, <3>2
  <2>3. ASSUME NEW o \in Owners
        PROVE  /\ runs'[o] \in Run \cup {Nobody}
               /\ runs[o] = Nobody => runs'[o] = Nobody
               /\ runs[o] # Nobody =>
                    /\ runs'[o] # Nobody /\ runs'[o].at = runs[o].at /\ runs'[o].tab = runs[o].tab
                    /\ runs'[o].key = runs[o].key /\ runs'[o].released = runs[o].released
    <3>1. CASE runs[o] # Nobody /\ runs[o].left > 0
      <4>1. runs[o] \in Run /\ runs[o].left \in 1..TTL
        BY <1>t, <3>1 DEF LockTypeOK, Run
      <4>2. runs'[o] = [runs[o] EXCEPT !.left = runs[o].left - 1]
        BY <2>1, <3>1
      <4>3. /\ runs'[o] \in Run /\ runs'[o].at = runs[o].at /\ runs'[o].tab = runs[o].tab
            /\ runs'[o].key = runs[o].key /\ runs'[o].released = runs[o].released
        BY <4>1, <4>2 DEF Run
      <4> QED
        BY <3>1, <4>3
    <3>2. CASE ~(runs[o] # Nobody /\ runs[o].left > 0)
      BY <1>t, <2>1, <3>2 DEF LockTypeOK
    <3> QED
      BY <3>1, <3>2
  <2>4. due' \in [Tabs -> [Actions -> (0..TTL) \cup {Nobody}]]
    <3>1. ASSUME NEW t \in Tabs, NEW a \in Actions
          PROVE  due'[t][a] \in (0..TTL) \cup {Nobody}
      <4>1. due[t][a] \in (0..TTL) \cup {Nobody}
        BY <1>t DEF LockTypeOK
      <4>2. due'[t][a] = IF due[t][a] \in Nat \ {0} THEN due[t][a] - 1 ELSE due[t][a]
        BY <2>1
      <4> QED
        BY <4>1, <4>2
    <3> QED
      BY <2>1, <3>1
  <2>5. store' \in [Keys -> Claim \cup {Nobody}] /\ runs' \in [Owners -> Run \cup {Nobody}]
    BY <2>1, <2>2, <2>3
  <2>6. LockTypeOK'
    BY <1>t, <2>1, <2>4, <2>5 DEF LockTypeOK
  <2>7. ASSUME NEW k \in Keys PROVE Kept(k)'
    <3>1. store[k] # Nobody => store[k].owner \in Owners
      BY <1>t DEF LockTypeOK, Claim
    <3> QED
      BY <3>1, <1>t, <2>1, <2>2, <2>3 DEF Kept
  <2>8. \A p \in Owners : RunBound(p)'
    BY <1>t, <2>3 DEF RunBound
  <2>9. ASSUME NEW u \in Tabs PROVE ActiveBound(u)' /\ ReleasingBound(u)' /\ ErasingBound(u)'
    <3>1. active[u] # Nobody => active[u] \in Owners
      BY <1>t DEF LockTypeOK
    <3>2. releasing[u] \in SUBSET Owners
      BY <1>t DEF LockTypeOK
    <3>3. erasing[u] # Nobody /\ erasing[u].saw # Nobody => erasing[u].saw \in Owners
      BY <1>t DEF LockTypeOK, Erasure
    <3> QED
      BY <3>1, <3>2, <3>3, <1>t, <2>1, <2>3
      DEF Bound, ActiveBound, ReleasingBound, ErasingBound
  <2> QED
    BY <2>6, <2>7, <2>8, <2>9 DEF LockInv, NoOrphanClaim, Kept, LeasesBound
<1>2. CASE UNCHANGED lockVars
  <2>1. LockTypeOK'
    BY <1>2, <1>t DEF LockTypeOK, lockVars
  <2>2. \A k \in Keys : Kept(k)'
    BY <1>2, <1>t DEF Kept, lockVars
  <2>3. \A p \in Owners : RunBound(p)'
    BY <1>2, <1>t DEF RunBound, lockVars
  <2>4. \A u \in Tabs : ActiveBound(u)' /\ ReleasingBound(u)' /\ ErasingBound(u)'
    BY <1>2, <1>t DEF Bound, ActiveBound, ReleasingBound, ErasingBound, lockVars
  <2> QED
    BY <2>1, <2>2, <2>3, <2>4 DEF LockInv, NoOrphanClaim, Kept, LeasesBound
<1> QED
  BY <1>1, <1>2

-----------------------------------------------------------------------------
LEMMA LockInitHolds == LockInit => LockInv
<1> USE LockAssumption, LockNoneAssumption
<1> SUFFICES ASSUME LockInit PROVE LockInv
  OBVIOUS
<1>1. LockTypeOK
  BY DEF LockInit, LockTypeOK
<1>2. NoOrphanClaim
  BY DEF LockInit, NoOrphanClaim
<1>3. LeasesBound
  BY DEF LockInit, LeasesBound, RunBound, ActiveBound, ReleasingBound, ErasingBound
<1> QED
  BY <1>1, <1>2, <1>3 DEF LockInv

LEMMA LockNextHolds == LockInv /\ [LockNext]_lockVars => LockInv'
BY LookStep, RenewStep, PutStep, ConfirmStep, WriteEndsStep, EraseStep, ReleaseStep, LostStep,
   ViewStep, TickStep DEF LockNext

LEMMA LockInvariant == LockSpec => []LockInv
BY LockInitHolds, LockNextHolds, PTL DEF LockSpec

(* The types of the lease protocol hold whatever the tabs and writes do.   *)
THEOREM LockTypes == LockSpec => []LockTypeOK
<1>1. LockInv => LockTypeOK
  BY DEF LockInv
<1> QED
  BY <1>1, LockInvariant, PTL

(* No claim outlives its write unless its tab was lost: acquire, the       *)
(* finally of run(), the panel's cleanup and pagehide between them release *)
(* every lease, for any number of tabs, guards, actions and writes.        *)
THEOREM ClaimsAreReleased == LockSpec => []NoOrphanClaim
<1>1. LockInv => NoOrphanClaim
  BY DEF LockInv
<1> QED
  BY <1>1, LockInvariant, PTL

-----------------------------------------------------------------------------
\* The live claim of key k stays, or its own run or one that has not seen it
\* ends it.
ClaimStays(k) ==
  Live(k) =>
    LET o == store[k].owner
    IN \/ store'[k] # Nobody /\ store'[k].owner = o
       \/ runs[o].released
       \/ \E t \in Tabs : Unseeing(t, k, o)

LEMMA ForeignStep ==
  ASSUME LockInv, [LockNext]_lockVars, NEW k \in Keys
  PROVE  ClaimStays(k)
<1> USE LockAssumption, LockNoneAssumption
<1>t. /\ LockTypeOK /\ (\A j \in Keys : Kept(j)) /\ (\A p \in Owners : RunBound(p))
      /\ \A u \in Tabs : Bound(u)
  BY LockParts DEF Bound
<1> SUFFICES ASSUME Live(k) PROVE ClaimStays(k)
  BY DEF ClaimStays
<1> DEFINE own == store[k].owner
<1>o. store[k] # Nobody /\ store[k] \in Claim /\ own \in Owners
  BY <1>t DEF Live, LockTypeOK, Claim
<1>s. store' = store => ClaimStays(k)
  BY <1>o DEF ClaimStays
<1>1. ASSUME NEW t \in Tabs, Erase(t) PROVE ClaimStays(k)
  <2> DEFINE j == erasing[t].key
             saw == erasing[t].saw
  <2>1. /\ erasing[t] # Nobody /\ store' = [store EXCEPT ![j] = Nobody]
        /\ erasing' = [erasing EXCEPT ![t] = Nobody]
    BY <1>1 DEF Erase
  <2>2. CASE j # k
    <3>1. store'[k] = store[k]
      BY <2>1, <2>2, <1>t DEF LockTypeOK
    <3> QED
      BY <3>1, <1>o DEF ClaimStays
  <2>3. CASE j = k /\ saw # own
    <3>1. erasing'[t] = Nobody
      BY <2>1, <1>t DEF LockTypeOK
    <3>2. Unseeing(t, k, own)
      BY <2>1, <2>3, <3>1 DEF Unseeing
    <3> QED
      BY <3>2 DEF ClaimStays
  <2>4. CASE saw = own
    <3>1. runs[own].released
      BY <2>1, <2>4, <1>o, <1>t DEF Bound, ErasingBound
    <3> QED
      BY <3>1 DEF ClaimStays
  <2> QED
    BY <2>2, <2>3, <2>4
<1>2. ASSUME NEW p \in Owners, Put(p) PROVE ClaimStays(k)
  <2> DEFINE j == runs[p].key
             t == runs[p].tab
             claim == [owner |-> p, left |-> runs[p].left]
             at == IF runs[p].at = "looked" THEN "put" ELSE "renewed"
  <2>1. /\ runs[p] # Nobody /\ runs[p].at \in {"looked", "renewing"} /\ t \in Tabs
    BY <1>2, <1>t DEF Put, LockTypeOK, Run
  <2>2. \/ store' = [store EXCEPT ![j] = claim] /\ runs' = At(p, at, 0)
        \/ store' = store
    BY <1>2, Zenon DEF Put
  <2>3. CASE store' = [store EXCEPT ![j] = claim] /\ runs' = At(p, at, 0) /\ j = k
    <3>1. store'[k] = claim
      BY <2>3, <1>t DEF LockTypeOK
    <3>2. CASE p = own
      <4>1. store'[k] # Nobody
        <5>1. store'[k] \in Claim
          BY <3>1, <2>1, <1>t DEF Claim, LockTypeOK, Run
        <5> QED
          BY <5>1
      <4> QED
        BY <3>1, <3>2, <4>1 DEF ClaimStays
    <3>3. CASE p # own
      <4>1. at \in Stage /\ 0 \in 0..TTL
        BY DEF Stage
      <4>2. runs'[p].at = at
        BY <4>1, <2>1, <2>3, <1>t, Moved
      <4>3. runs'[p] # runs[p]
        BY <4>2, <2>1
      <4>4. Unseeing(t, k, own)
        BY <2>1, <2>3, <3>3, <4>3 DEF Unseeing
      <4> QED
        BY <2>1, <4>4 DEF ClaimStays
    <3> QED
      BY <3>2, <3>3
  <2>4. CASE store' = [store EXCEPT ![j] = claim] /\ j # k
    <3>1. store'[k] = store[k]
      BY <2>4, <1>t DEF LockTypeOK
    <3> QED
      BY <3>1, <1>o DEF ClaimStays
  <2> QED
    BY <2>2, <2>3, <2>4, <1>s
<1>3. CASE LockTick
  <2>1. store'[k] = [store[k] EXCEPT !.left = store[k].left - 1]
    BY <1>3 DEF LockTick
  <2>2. store[k].left \in 1..TTL
    BY <1>o DEF Live, Claim
  <2>3. store'[k] \in Claim /\ store'[k].owner = own
    BY <1>o, <2>1, <2>2 DEF Claim
  <2> QED
    BY <2>3 DEF ClaimStays
<1>4. ASSUME NEW o \in Owners, Confirm(o) \/ Renew(o) \/ WriteEnds(o) PROVE store' = store
  BY <1>4 DEF Confirm, Renew, WriteEnds
<1>5. ASSUME NEW t \in Tabs,
             \/ PageHide(t) \/ \E o \in Owners : ReleaseNext(t, o)
             \/ \E g \in Guards : Remount(t, g) \/ Lost(t, g)
      PROVE  store' = store
  BY <1>5 DEF PageHide, ReleaseNext, Remount, Lost
<1>6. ASSUME NEW t \in Tabs,
             \/ \E j \in Keys : StorageEvent(t, j)
             \/ \E a \in Actions : Timer(t, a) \/ Subscribe(t, a)
             \/ \E a \in Actions, o \in Owners : Look(t, a, o)
      PROVE  store' = store
  BY <1>6 DEF StorageEvent, Timer, Subscribe, Look
<1>7. CASE UNCHANGED lockVars
  BY <1>7, <1>s DEF lockVars
<1> QED
  BY <1>s, <1>1, <1>2, <1>3, <1>4, <1>5, <1>6, <1>7 DEF LockNext

(* No tab removes or overwrites a live claim it has seen: a claim goes by  *)
(* the hand of its own run, or by that of a tab that looked before it was  *)
(* put and writes after.                                                   *)
THEOREM ClaimsAreTheirOwners == LockSpec => ForeignClaimKept
<1>1. LockInv /\ [LockNext]_lockVars => \A k \in Keys : ClaimStays(k)
  BY ForeignStep
<1>2. LockInv /\ [LockNext]_lockVars =>
        [\A k \in Keys : Live(k) =>
           LET o == store[k].owner
           IN \/ store'[k] # Nobody /\ store'[k].owner = o
              \/ runs[o].released
              \/ \E t \in Tabs : Unseeing(t, k, o)]_lockVars
  BY <1>1 DEF ClaimStays
<1> QED
  BY <1>2, LockInvariant, PTL DEF LockSpec, ForeignClaimKept

-----------------------------------------------------------------------------
(* The inductive invariant.                                                *)

Before == {"idle", "account", "discovery", "authorize", "authPrompt", "enforcement"}
Assembled == {"envelope", "envelopePrompt", "submission", "send"}

\* The envelope is the one of the sequence number that was reviewed.
Reviewed(w) == envelope[w] \in Envelope /\ envelope[w].seq = sequence[w] + 1

\* An outcome is true of what the network did with the transaction.
TrueOf(result, f) ==
  /\ Verdict(result) = "nothing" => f = "unsent"
  /\ Verdict(result) \in {"applied", "rejected"} => f = Verdict(result)
  /\ result.kind = "submitted" => f # "unsent"

\* A write has an account.  Nothing is told before the end nor sent before the
\* last boundary; what may be sent, or was, is the reviewed envelope; what is
\* told is true and filed.
WriteBound(w) ==
  /\ pc[w] # "idle" => bound[w] \in Accounts
  /\ pc[w] # "done" => outcome[w] = None
  /\ pc[w] \in {"authorize", "authPrompt"} => tries[w] > 0
  /\ pc[w] \in Before \cup Assembled => fate[w] = "unsent"
  /\ pc[w] \in Assembled \cup {"poll"} \/ fate[w] # "unsent" => Reviewed(w)
  /\ pc[w] = "done" => /\ outcome[w] \in Outcome
                       /\ history[w] = HistoryEntry(outcome[w])
                       /\ TrueOf(outcome[w], fate[w])

IInv == TypeOK /\ \A w \in Writes : WriteBound(w)

\* What WriteOutcome sees.
Told == [w \in Writes |-> Verdict(outcome[w])]

-----------------------------------------------------------------------------
(* Outcomes.                                                               *)

LEMMA Outcomes ==
  /\ \A stage \in {"discovery", "enforcement", "submission"} : Refused(stage) \in Outcome
  /\ \A phase \in {"authorization", "envelope", "submission"} :
       Interrupted(phase) \in Outcome
  /\ \A kind \in {"cancelled", "exported", "thrown"} : Ended(kind) \in Outcome
  /\ \A why \in {"expired", "rejected", "timeout"} : Failed(why) \in Outcome
  /\ \A status \in {"SUCCESS", "DUPLICATE"} : Submitted(status) \in Outcome
BY DEF Outcome, Refused, Interrupted, Ended, Failed, Submitted

\* An outcome that leaves nothing behind is true of a transaction never sent.
LEMMA NothingSent ==
  ASSUME NEW result,
         \/ \E stage \in {"discovery", "enforcement"} : result = Refused(stage)
         \/ \E phase \in {"authorization", "envelope", "submission"} :
              result = Interrupted(phase)
         \/ \E kind \in {"cancelled", "exported", "thrown"} : result = Ended(kind)
         \/ result = Failed("expired")
  PROVE  result \in Outcome /\ TrueOf(result, "unsent")
<1>1. result \in Outcome
  BY Outcomes
<1>2. result.kind # "submitted"
  BY DEF Refused, Interrupted, Ended, Failed
<1>3. result # Submitted("SUCCESS") /\ result # Failed("rejected")
  BY DEF Refused, Interrupted, Ended, Failed, Submitted
<1>4. Verdict(result) \notin {"applied", "rejected"}
  BY <1>1, <1>3, NoneAssumption DEF Verdict
<1> QED BY <1>1, <1>2, <1>4 DEF TrueOf

-----------------------------------------------------------------------------
(* The three kinds of step a write takes.                                  *)

\* A write that is told its outcome: Tell of WriteOutcome.
LEMMA EndStep ==
  ASSUME IInv, NEW w \in Writes, pc[w] \notin {"idle", "done"},
         NEW result \in Outcome, TrueOf(result, fate[w]),
         Finish(w, result), UNCHANGED worldVars
  PROVE  IInv' /\ Promise!Next
<1>1. TypeOK'
  <2>1. history' \in [Writes -> {None, "confirmed", "failed"}]
    BY DEF IInv, TypeOK, Finish, HistoryEntry
  <2>2. pc' \in [Writes -> Points] /\ outcome' \in [Writes -> Outcome \cup {None}]
    BY DEF IInv, TypeOK, Finish, Points
  <2> QED BY <2>1, <2>2 DEF IInv, TypeOK, Finish, worldVars
<1>2. ASSUME NEW u \in Writes
      PROVE  WriteBound(u)'
  <2>1. CASE u = w
    <3>1. pc'[w] = "done" /\ outcome'[w] = result /\ history'[w] = HistoryEntry(result)
      BY DEF IInv, TypeOK, Finish
    <3>2. UNCHANGED <<bound, sequence, envelope, fate>>
      BY DEF Finish, worldVars
    <3>3. (fate[w] # "unsent" => Reviewed(w)) /\ bound[w] \in Accounts
      BY DEF IInv, WriteBound, Before
    <3> QED BY <2>1, <3>1, <3>2, <3>3 DEF WriteBound, Reviewed, Before, Assembled
  <2>2. CASE u # w
    <3>1. /\ pc'[u] = pc[u] /\ outcome'[u] = outcome[u] /\ history'[u] = history[u]
          /\ UNCHANGED <<bound, sequence, tries, envelope, fate>>
      BY <2>2 DEF IInv, TypeOK, Finish, worldVars
    <3>2. WriteBound(u)
      BY DEF IInv
    <3> QED BY <3>1, <3>2 DEF WriteBound, Reviewed
  <2> QED BY <2>1, <2>2
<1>3. Promise!Tell(w, Verdict(result))
  <2>1. outcome[w] = None /\ Verdict(None) = None
    BY DEF IInv, WriteBound, Verdict
  <2>2. /\ fate' = fate
        /\ \A u \in Writes : outcome'[u] = IF u = w THEN result ELSE outcome[u]
    BY DEF IInv, TypeOK, Finish, worldVars
  <2>3. Told[w] = None
    BY <2>1 DEF Told
  <2>4. Told' = [Told EXCEPT ![w] = Verdict(result)]
    BY <2>2 DEF Told
  <2> QED BY <2>2, <2>3, <2>4 DEF Told, Promise!Tell, TrueOf
<1>4. Verdict(result) \in Promise!Verdicts
  BY NoneAssumption DEF Verdict, Promise!Verdicts
<1> QED BY <1>1, <1>2, <1>3, <1>4 DEF IInv, Promise!Next

\* A write that goes on to a point where it may be.
Fits(w, point, n) ==
  /\ point \in Points \ {"done"} /\ n \in Nat
  /\ point \in {"authorize", "authPrompt"} => n > 0
  /\ point \in Before \cup Assembled => fate[w] = "unsent"
  /\ point \in Assembled \cup {"poll"} => Reviewed(w)

LEMMA GoStep ==
  ASSUME IInv, NEW w \in Writes, pc[w] \notin {"idle", "done"},
         NEW point, NEW n, Fits(w, point, n),
         Proceed(w, point, n), UNCHANGED worldVars
  PROVE  IInv' /\ UNCHANGED <<fate, Told>>
<1>1. TypeOK'
  BY DEF IInv, TypeOK, Proceed, Fits, worldVars
<1>2. ASSUME NEW u \in Writes
      PROVE  WriteBound(u)'
  <2>1. CASE u = w
    <3>1. pc'[w] = point /\ tries'[w] = n
      BY DEF IInv, TypeOK, Proceed
    <3>2. UNCHANGED <<bound, sequence, envelope, fate, outcome>>
      BY DEF Proceed, worldVars
    <3>3. outcome[w] = None /\ bound[w] \in Accounts /\ (fate[w] # "unsent" => Reviewed(w))
      BY DEF IInv, WriteBound
    <3> QED BY <2>1, <3>1, <3>2, <3>3 DEF WriteBound, Reviewed, Fits
  <2>2. CASE u # w
    <3>1. /\ pc'[u] = pc[u] /\ tries'[u] = tries[u]
          /\ UNCHANGED <<bound, sequence, envelope, fate, outcome, history>>
      BY <2>2 DEF IInv, TypeOK, Proceed, worldVars
    <3>2. WriteBound(u)
      BY DEF IInv
    <3> QED BY <3>1, <3>2 DEF WriteBound, Reviewed
  <2> QED BY <2>1, <2>2
<1>3. UNCHANGED <<fate, Told>>
  BY DEF Proceed, worldVars, Told
<1> QED BY <1>1, <1>2, <1>3 DEF IInv

-----------------------------------------------------------------------------
(* Every action keeps the invariant and is a step of WriteOutcome, or none. *)

Promised == [Promise!Next]_<<fate, Told>>

\* A write that ends with nothing sent, or goes on.
LEMMA EndsUnsent ==
  ASSUME IInv, NEW w \in Writes, NEW result,
         pc[w] \in (Before \ {"idle"}) \cup Assembled,
         \/ \E stage \in {"discovery", "enforcement"} : result = Refused(stage)
         \/ \E phase \in {"authorization", "envelope", "submission"} :
              result = Interrupted(phase)
         \/ \E kind \in {"cancelled", "exported", "thrown"} : result = Ended(kind)
         \/ result = Failed("expired"),
         Finish(w, result), UNCHANGED worldVars
  PROVE  IInv' /\ Promised
<1>1. result \in Outcome /\ TrueOf(result, fate[w])
  BY NothingSent DEF IInv, WriteBound
<1>2. pc[w] \notin {"idle", "done"}
  BY DEF Before, Assembled
<1> QED BY <1>1, <1>2, EndStep DEF Promised

LEMMA StartStep ==
  ASSUME IInv, NEW w \in Writes, Start(w)
  PROVE  IInv' /\ Promised
<1>1. TypeOK'
  BY DEF IInv, TypeOK, Start, worldVars, Points
<1>2. ASSUME NEW u \in Writes
      PROVE  WriteBound(u)'
  <2>1. /\ \/ pc'[u] = pc[u] /\ bound'[u] = bound[u]
           \/ pc[u] = "idle" /\ pc'[u] = "account" /\ bound'[u] \in Accounts
        /\ UNCHANGED <<sequence, tries, envelope, outcome, history, fate>>
    BY DEF IInv, TypeOK, Start, worldVars
  <2>2. WriteBound(u)
    BY DEF IInv
  <2> QED BY <2>1, <2>2 DEF WriteBound, Reviewed, Before, Assembled
<1>3. UNCHANGED <<fate, Told>>
  BY DEF Start, worldVars, Told
<1> QED BY <1>1, <1>2, <1>3 DEF IInv, Promised

LEMMA LoadAccountStep ==
  ASSUME IInv, NEW w \in Writes, LoadAccount(w)
  PROVE  IInv' /\ Promised
<1>1. pc[w] = "account" /\ UNCHANGED worldVars
  BY DEF LoadAccount
<1>2. CASE Finish(w, Refused("discovery"))
  BY <1>1, <1>2, EndsUnsent DEF Before
<1>3. CASE /\ sequence' = [sequence EXCEPT ![w] = ledgerSeq[bound[w]]]
           /\ pc' = [pc EXCEPT ![w] = "discovery"]
           /\ UNCHANGED <<bound, tries, envelope, outcome, history>>
  <2>1. ASSUME NEW u \in Writes
        PROVE  WriteBound(u)'
    <3>1. CASE u = w
      <4>1. /\ pc'[w] = "discovery" /\ outcome'[w] = None /\ fate'[w] = "unsent"
            /\ bound'[w] \in Accounts
        BY <1>1, <1>3 DEF IInv, TypeOK, WriteBound, worldVars, Before
      <4> QED BY <3>1, <4>1 DEF WriteBound, Before, Assembled
    <3>2. CASE u # w
      <4>1. /\ pc'[u] = pc[u] /\ sequence'[u] = sequence[u]
            /\ UNCHANGED <<bound, tries, envelope, outcome, history, fate>>
        BY <1>1, <1>3, <3>2 DEF IInv, TypeOK, worldVars
      <4>2. WriteBound(u)
        BY DEF IInv
      <4> QED BY <4>1, <4>2 DEF WriteBound, Reviewed
    <3> QED BY <3>1, <3>2
  <2>2. TypeOK'
    <3>1. sequence' \in [Writes -> Nat]
      <4>1. bound[w] \in Accounts
        BY <1>1 DEF IInv, WriteBound
      <4> QED BY <1>3, <4>1 DEF IInv, TypeOK
    <3> QED BY <1>1, <1>3, <3>1 DEF IInv, TypeOK, worldVars, Points
  <2>3. UNCHANGED <<fate, Told>>
    BY <1>1, <1>3 DEF worldVars, Told
  <2> QED BY <2>1, <2>2, <2>3 DEF IInv, Promised
<1> QED BY <1>1, <1>2, <1>3 DEF LoadAccount

LEMMA DiscoverStep ==
  ASSUME IInv, NEW w \in Writes, Discover(w)
  PROVE  IInv' /\ Promised
<1>1. pc[w] = "discovery" /\ UNCHANGED worldVars
  BY DEF Discover
<1>2. CASE Finish(w, Refused("discovery")) \/ Finish(w, Ended("thrown"))
  BY <1>1, <1>2, EndsUnsent DEF Before
<1>3. ASSUME NEW n \in 0..MaxAuth,
             Proceed(w, IF n = 0 THEN "enforcement" ELSE "authorize", n)
      PROVE  IInv' /\ Promised
  <2>1. n \in Nat
    BY WriteAssumption
  <2>2. Fits(w, IF n = 0 THEN "enforcement" ELSE "authorize", n)
    BY <1>1, <2>1 DEF Fits, IInv, WriteBound, Points, Before, Assembled
  <2> QED BY <1>1, <1>3, <2>2, GoStep DEF Promised
<1> QED BY <1>1, <1>2, <1>3 DEF Discover

\* A boundary passed, or the end of a write that no longer has its wallet.
LEMMA BoundaryStep ==
  ASSUME IInv, NEW w \in Writes, NEW phase \in {"authorization", "envelope", "submission"},
         NEW point, pc[w] \in (Before \ {"idle"}) \cup Assembled, Fits(w, point, tries[w]),
         Boundary(w, phase, point), UNCHANGED worldVars
  PROVE  IInv' /\ Promised
<1>1. CASE Proceed(w, point, tries[w])
  BY <1>1, GoStep DEF Promised, Before, Assembled
<1>2. CASE Finish(w, Interrupted(phase))
  BY <1>2, EndsUnsent
<1> QED BY <1>1, <1>2 DEF Boundary

LEMMA CheckBeforeAuthStep ==
  ASSUME IInv, NEW w \in Writes, CheckBeforeAuth(w)
  PROVE  IInv' /\ Promised
<1>1. pc[w] = "authorize" /\ UNCHANGED worldVars
  BY DEF CheckBeforeAuth
<1>2. CASE Finish(w, Refused("discovery"))
  BY <1>1, <1>2, EndsUnsent DEF Before
<1>3. CASE Boundary(w, "authorization", "authPrompt")
  <2>1. Fits(w, "authPrompt", tries[w])
    BY <1>1 DEF Fits, IInv, TypeOK, WriteBound, Points, Before, Assembled
  <2> QED BY <1>1, <1>3, <2>1, BoundaryStep DEF Before
<1> QED BY <1>1, <1>2, <1>3 DEF CheckBeforeAuth

LEMMA PromptFailsStep ==
  ASSUME IInv, NEW w \in Writes, NEW phase \in {"authorization", "envelope", "submission"},
         pc[w] \in (Before \ {"idle"}) \cup Assembled,
         PromptFails(w, phase), UNCHANGED worldVars
  PROVE  IInv' /\ Promised
BY EndsUnsent DEF PromptFails

LEMMA AnswerAuthStep ==
  ASSUME IInv, NEW w \in Writes, AnswerAuth(w)
  PROVE  IInv' /\ Promised
<1>1. pc[w] = "authPrompt" /\ UNCHANGED worldVars
  BY DEF AnswerAuth
<1>2. tries[w] \in Nat /\ tries[w] > 0
  BY <1>1 DEF IInv, TypeOK, WriteBound
<1>3. CASE PromptFails(w, "authorization")
  BY <1>1, <1>3, PromptFailsStep DEF Before
<1>4. CASE tries[w] = 1 /\ Proceed(w, "enforcement", 0)
  <2>1. Fits(w, "enforcement", 0)
    BY <1>1 DEF Fits, IInv, WriteBound, Points, Before, Assembled
  <2> QED BY <1>1, <1>4, <2>1, GoStep DEF Promised
<1>5. CASE tries[w] # 1 /\ Proceed(w, "authorize", tries[w] - 1)
  <2>1. tries[w] - 1 \in Nat /\ tries[w] - 1 > 0
    BY <1>2, <1>5
  <2>2. Fits(w, "authorize", tries[w] - 1)
    BY <1>1, <2>1 DEF Fits, IInv, WriteBound, Points, Before, Assembled
  <2> QED BY <1>1, <1>5, <2>2, GoStep DEF Promised
<1> QED BY <1>1, <1>3, <1>4, <1>5 DEF AnswerAuth

LEMMA AssembleStep ==
  ASSUME IInv, NEW w \in Writes, pc[w] = "enforcement", Assemble(w), UNCHANGED worldVars
  PROVE  IInv' /\ Promised
<1> DEFINE built == [seq |-> BuiltSequence(w), maxTime |-> clock + Window]
<1>1. built \in Envelope /\ built.seq = sequence[w] + 1
  BY WriteAssumption DEF IInv, TypeOK, Envelope, BuiltSequence
<1>2. /\ envelope' = [envelope EXCEPT ![w] = built]
      /\ pc' = [pc EXCEPT ![w] = "envelope"]
      /\ UNCHANGED <<bound, sequence, tries, outcome, history>>
  BY DEF Assemble
<1> HIDE DEF built
<1>3. TypeOK'
  BY <1>1, <1>2 DEF IInv, TypeOK, Points, worldVars
<1>4. ASSUME NEW u \in Writes
      PROVE  WriteBound(u)'
  <2>1. WriteBound(u)
    BY DEF IInv
  <2>2. CASE u = w
    <3>1. pc'[w] = "envelope" /\ envelope'[w] = built /\ UNCHANGED <<sequence, fate>>
      BY <1>2 DEF IInv, TypeOK, worldVars
    <3>2. outcome'[w] = None /\ fate'[w] = "unsent" /\ bound'[w] \in Accounts
      BY <1>2, <2>1, <2>2, <3>1 DEF WriteBound, Before
    <3> QED BY <1>1, <2>2, <3>1, <3>2 DEF WriteBound, Reviewed, Before, Assembled
  <2>3. CASE u # w
    <3>1. /\ pc'[u] = pc[u] /\ envelope'[u] = envelope[u]
          /\ UNCHANGED <<bound, sequence, tries, outcome, history, fate>>
      BY <1>2, <2>3 DEF IInv, TypeOK, worldVars
    <3> QED BY <2>1, <3>1 DEF WriteBound, Reviewed
  <2> QED BY <2>2, <2>3
<1>5. UNCHANGED <<fate, Told>>
  BY <1>2 DEF worldVars, Told
<1> QED BY <1>3, <1>4, <1>5 DEF IInv, Promised

LEMMA EnforceStep ==
  ASSUME IInv, NEW w \in Writes, Enforce(w)
  PROVE  IInv' /\ Promised
<1>1. pc[w] = "enforcement" /\ UNCHANGED worldVars
  BY DEF Enforce
<1>2. CASE Proceed(w, "enforcement", tries[w] + 1)
  <2>1. Fits(w, "enforcement", tries[w] + 1)
    BY <1>1 DEF Fits, IInv, TypeOK, WriteBound, Points, Before, Assembled
  <2> QED BY <1>1, <1>2, <2>1, GoStep DEF Promised
<1>3. CASE \/ Finish(w, Ended("thrown")) \/ Finish(w, Refused("enforcement"))
           \/ Finish(w, Ended("exported"))
  BY <1>1, <1>3, EndsUnsent DEF Before
<1>4. CASE Assemble(w)
  BY <1>1, <1>4, AssembleStep
<1> QED BY <1>1, <1>2, <1>3, <1>4 DEF Enforce

LEMMA CheckBeforeEnvelopeStep ==
  ASSUME IInv, NEW w \in Writes, CheckBeforeEnvelope(w)
  PROVE  IInv' /\ Promised
<1>1. pc[w] = "envelope" /\ UNCHANGED worldVars /\ Boundary(w, "envelope", "envelopePrompt")
  BY DEF CheckBeforeEnvelope
<1>2. Fits(w, "envelopePrompt", tries[w])
  BY <1>1 DEF Fits, IInv, TypeOK, WriteBound, Points, Before, Assembled
<1> QED BY <1>1, <1>2, BoundaryStep DEF Assembled

LEMMA AnswerEnvelopeStep ==
  ASSUME IInv, NEW w \in Writes, AnswerEnvelope(w)
  PROVE  IInv' /\ Promised
<1>1. pc[w] = "envelopePrompt" /\ UNCHANGED worldVars
  BY DEF AnswerEnvelope
<1>2. CASE PromptFails(w, "envelope")
  BY <1>1, <1>2, PromptFailsStep DEF Assembled
<1>3. CASE Finish(w, Failed("expired"))
  BY <1>1, <1>3, EndsUnsent DEF Assembled
<1>4. CASE Proceed(w, "submission", 0)
  <2>1. Fits(w, "submission", 0)
    BY <1>1 DEF Fits, IInv, WriteBound, Points, Before, Assembled
  <2> QED BY <1>1, <1>4, <2>1, GoStep DEF Promised
<1> QED BY <1>1, <1>2, <1>3, <1>4 DEF AnswerEnvelope

LEMMA CheckBeforeSendStep ==
  ASSUME IInv, NEW w \in Writes, CheckBeforeSend(w)
  PROVE  IInv' /\ Promised
<1>1. pc[w] = "submission" /\ UNCHANGED worldVars /\ Boundary(w, "submission", "send")
  BY DEF CheckBeforeSend
<1>2. Fits(w, "send", tries[w])
  BY <1>1 DEF Fits, IInv, TypeOK, WriteBound, Points, Before, Assembled
<1> QED BY <1>1, <1>2, BoundaryStep DEF Assembled

\* The network takes the envelope: Broadcast of WriteOutcome, or
\* BroadcastUnanswered when the write ends with it.
LEMMA AcceptStep ==
  ASSUME IInv, NEW w \in Writes, pc[w] = "send",
         fate' = [fate EXCEPT ![w] = "pending"], UNCHANGED <<live, ledgerSeq, clock>>,
         \/ Proceed(w, "poll", 0)
         \/ Finish(w, Submitted("DUPLICATE"))
         \/ Finish(w, Refused("submission"))
  PROVE  IInv' /\ Promised
<1>1. /\ fate[w] = "unsent" /\ outcome[w] = None /\ Reviewed(w) /\ bound[w] \in Accounts
  BY DEF IInv, WriteBound, Assembled
<1>2. /\ fate' \in [Writes -> Fates] /\ fate'[w] = "pending"
      /\ \A u \in Writes : u # w => fate'[u] = fate[u]
  BY DEF IInv, TypeOK, Fates
<1>3. Told[w] = None
  BY <1>1 DEF Told, Verdict
<1>4. CASE Proceed(w, "poll", 0)
  <2>1. TypeOK'
    BY <1>2, <1>4 DEF IInv, TypeOK, Proceed, Points
  <2>2. ASSUME NEW u \in Writes
        PROVE  WriteBound(u)'
    <3>1. UNCHANGED <<bound, sequence, envelope, outcome, history>>
      BY <1>4 DEF Proceed
    <3>2. CASE u = w
      <4>1. pc'[w] = "poll"
        BY <1>4 DEF IInv, TypeOK, Proceed
      <4> QED BY <1>1, <3>1, <3>2, <4>1 DEF WriteBound, Reviewed, Before, Assembled
    <3>3. CASE u # w
      <4>1. pc'[u] = pc[u] /\ tries'[u] = tries[u] /\ fate'[u] = fate[u]
        BY <1>2, <1>4, <3>3 DEF IInv, TypeOK, Proceed
      <4>2. WriteBound(u)
        BY DEF IInv
      <4> QED BY <3>1, <4>1, <4>2 DEF WriteBound, Reviewed
    <3> QED BY <3>2, <3>3
  <2>3. UNCHANGED Told
    BY <1>4 DEF Proceed, Told
  <2>4. Promise!Broadcast(w)
    BY <1>1, <1>3, <2>3 DEF Promise!Broadcast, Told
  <2> QED BY <2>1, <2>2, <2>4 DEF IInv, Promised, Promise!Next
<1>5. ASSUME NEW result \in {Submitted("DUPLICATE"), Refused("submission")},
             Finish(w, result)
      PROVE  IInv' /\ Promised
  <2>1. result \in Outcome
    BY <1>5, Outcomes
  <2>2. Verdict(result) = "unknown"
    BY <1>5, <2>1, NoneAssumption DEF Verdict, Submitted, Refused, Failed
  <2>3. TypeOK'
    <3>1. history' \in [Writes -> {None, "confirmed", "failed"}]
      BY <1>5 DEF IInv, TypeOK, Finish, HistoryEntry
    <3> QED BY <1>2, <1>5, <2>1, <3>1 DEF IInv, TypeOK, Finish, Points
  <2>4. ASSUME NEW u \in Writes
        PROVE  WriteBound(u)'
    <3>1. UNCHANGED <<bound, sequence, tries, envelope>>
      BY <1>5 DEF Finish
    <3>2. CASE u = w
      <4>1. pc'[w] = "done" /\ outcome'[w] = result /\ history'[w] = HistoryEntry(result)
        BY <1>5 DEF IInv, TypeOK, Finish
      <4>2. TrueOf(result, fate'[w])
        BY <1>2, <2>2 DEF TrueOf
      <4> QED
        BY <1>1, <2>1, <3>1, <3>2, <4>1, <4>2 DEF WriteBound, Reviewed, Before, Assembled
    <3>3. CASE u # w
      <4>1. /\ pc'[u] = pc[u] /\ outcome'[u] = outcome[u] /\ history'[u] = history[u]
            /\ fate'[u] = fate[u]
        BY <1>2, <1>5, <3>3 DEF IInv, TypeOK, Finish
      <4>2. WriteBound(u)
        BY DEF IInv
      <4> QED BY <3>1, <4>1, <4>2 DEF WriteBound, Reviewed
    <3> QED BY <3>2, <3>3
  <2>5. Told' = [Told EXCEPT ![w] = "unknown"]
    <3>1. \A u \in Writes : outcome'[u] = IF u = w THEN result ELSE outcome[u]
      BY <1>5 DEF IInv, TypeOK, Finish
    <3> QED BY <2>2, <3>1 DEF Told
  <2>6. Promise!BroadcastUnanswered(w)
    BY <1>1, <1>3, <2>5 DEF Promise!BroadcastUnanswered, Told
  <2> QED BY <2>3, <2>4, <2>6 DEF IInv, Promised, Promise!Next
<1> QED BY <1>4, <1>5

LEMMA SendStep ==
  ASSUME IInv, NEW w \in Writes, Send(w)
  PROVE  IInv' /\ Promised
<1>1. pc[w] = "send" /\ UNCHANGED <<live, ledgerSeq, clock>>
  BY DEF Send
<1>2. CASE /\ Accept(w)
           /\ \/ Proceed(w, "poll", 0) \/ Finish(w, Submitted("DUPLICATE"))
              \/ Finish(w, Refused("submission"))
  BY <1>1, <1>2, AcceptStep DEF Accept
<1>3. CASE UNCHANGED fate /\ Proceed(w, "poll", 0)
  <2>1. Fits(w, "poll", 0)
    BY <1>1 DEF Fits, IInv, WriteBound, Points, Before, Assembled
  <2> QED BY <1>1, <1>3, <2>1, GoStep DEF Promised, worldVars
<1>4. CASE UNCHANGED fate /\ Finish(w, Refused("submission"))
  <2>1. TrueOf(Refused("submission"), fate[w])
    BY Outcomes, NoneAssumption DEF TrueOf, Verdict, Refused, Submitted, Failed
  <2> QED BY <1>1, <1>4, <2>1, Outcomes, EndStep DEF Promised, worldVars
<1> QED BY <1>1, <1>2, <1>3, <1>4 DEF Send

LEMMA PollStep ==
  ASSUME IInv, NEW w \in Writes, Poll(w)
  PROVE  IInv' /\ Promised
<1>1. pc[w] = "poll" /\ UNCHANGED worldVars
  BY DEF Poll
<1>2. CASE fate[w] = "applied" /\ Finish(w, Submitted("SUCCESS"))
  <2>1. TrueOf(Submitted("SUCCESS"), fate[w])
    BY <1>2, Outcomes, NoneAssumption DEF TrueOf, Verdict
  <2> QED BY <1>1, <1>2, <2>1, Outcomes, EndStep DEF Promised
<1>3. CASE fate[w] = "rejected" /\ Finish(w, Failed("rejected"))
  <2>1. TrueOf(Failed("rejected"), fate[w])
    BY <1>3, Outcomes, NoneAssumption DEF TrueOf, Verdict, Failed, Submitted
  <2> QED BY <1>1, <1>3, <2>1, Outcomes, EndStep DEF Promised
<1>4. CASE Proceed(w, "poll", tries[w] + 1)
  <2>1. Fits(w, "poll", tries[w] + 1)
    BY <1>1 DEF Fits, IInv, TypeOK, WriteBound, Points, Before, Assembled
  <2> QED BY <1>1, <1>4, <2>1, GoStep DEF Promised
<1>5. CASE Finish(w, Failed("timeout"))
  <2>1. TrueOf(Failed("timeout"), fate[w])
    BY Outcomes, NoneAssumption DEF TrueOf, Verdict, Failed, Submitted
  <2> QED BY <1>1, <1>5, <2>1, Outcomes, EndStep DEF Promised
<1> QED BY <1>1, <1>2, <1>3, <1>4, <1>5 DEF Poll

\* What the ledger does with a transaction it was given: Settle of WriteOutcome.
LEMMA SettleStep ==
  ASSUME IInv, NEW w \in Writes, fate[w] = "pending",
         NEW f \in {"applied", "rejected", "dropped"}, fate' = [fate EXCEPT ![w] = f],
         ledgerSeq' \in [Accounts -> Nat], UNCHANGED <<writeVars, live, clock>>
  PROVE  IInv' /\ Promised
<1>1. TypeOK'
  BY DEF IInv, TypeOK, writeVars, Fates
<1>2. /\ fate'[w] = f
      /\ \A u \in Writes : u # w => fate'[u] = fate[u]
  BY DEF IInv, TypeOK
<1>3. ASSUME NEW u \in Writes
      PROVE  WriteBound(u)'
  <2>1. WriteBound(u)
    BY DEF IInv
  <2>2. UNCHANGED <<pc, bound, sequence, tries, envelope, outcome, history>>
    BY DEF writeVars
  <2>3. CASE u = w
    <3>1. pc[u] \notin Before \cup Assembled
      BY <2>1, <2>3 DEF WriteBound
    <3>2. pc[u] = "done" => TrueOf(outcome[u], f)
      BY <2>1, <2>3 DEF WriteBound, TrueOf
    <3> QED BY <1>2, <2>1, <2>2, <2>3, <3>1, <3>2 DEF WriteBound, Reviewed
  <2>4. CASE u # w
    BY <1>2, <2>1, <2>2, <2>4 DEF WriteBound, Reviewed
  <2> QED BY <2>3, <2>4
<1>4. UNCHANGED Told
  BY DEF writeVars, Told
<1>5. Promise!Settle(w)
  BY <1>4 DEF Promise!Settle, Told
<1> QED BY <1>1, <1>3, <1>5 DEF IInv, Promised, Promise!Next

LEMMA IncludeStep ==
  ASSUME IInv, NEW w \in Writes, Include(w)
  PROVE  IInv' /\ Promised
<1>1. bound[w] \in Accounts
  BY DEF IInv, WriteBound, Include, Before
<1>2. ledgerSeq' \in [Accounts -> Nat]
  BY <1>1 DEF IInv, TypeOK, Include
<1> QED BY <1>2, SettleStep DEF Include

LEMMA DropStep ==
  ASSUME IInv, NEW w \in Writes, Drop(w)
  PROVE  IInv' /\ Promised
<1>1. ledgerSeq' \in [Accounts -> Nat]
  BY DEF IInv, TypeOK, Drop
<1> QED BY <1>1, SettleStep DEF Drop

\* The world moves beside the writes.
LEMMA WorldStep ==
  ASSUME IInv, UNCHANGED <<writeVars, fate>>,
         live' \in Accounts \cup {None}, ledgerSeq' \in [Accounts -> Nat], clock' \in Nat
  PROVE  IInv' /\ Promised
<1>1. TypeOK'
  BY DEF IInv, TypeOK, writeVars
<1>2. ASSUME NEW u \in Writes
      PROVE  WriteBound(u)'
  BY DEF IInv, WriteBound, Reviewed, writeVars
<1>3. UNCHANGED Told
  BY DEF writeVars, Told
<1> QED BY <1>1, <1>2, <1>3 DEF IInv, Promised

LEMMA Steps ==
  ASSUME IInv, [Next]_vars
  PROVE  IInv' /\ Promised
<1>1. ASSUME NEW w \in Writes, Runs(w)
      PROVE  IInv' /\ Promised
  BY <1>1, LoadAccountStep, DiscoverStep, CheckBeforeAuthStep, EnforceStep,
     CheckBeforeEnvelopeStep, CheckBeforeSendStep, SendStep, PollStep DEF Runs
<1>2. ASSUME NEW w \in Writes,
             \/ Start(w) \/ AnswerAuth(w) \/ AnswerEnvelope(w) \/ Include(w) \/ Drop(w)
      PROVE  IInv' /\ Promised
  BY <1>2, StartStep, AnswerAuthStep, AnswerEnvelopeStep, IncludeStep, DropStep
<1>3. ASSUME NEW a \in Accounts, UseElsewhere(a)
      PROVE  IInv' /\ Promised
  <2>1. /\ ledgerSeq' \in [Accounts -> Nat] /\ live' \in Accounts \cup {None}
        /\ clock' \in Nat /\ UNCHANGED <<writeVars, fate>>
    BY <1>3 DEF IInv, TypeOK, UseElsewhere
  <2> QED BY <2>1, WorldStep
<1>4. ASSUME NEW a \in Accounts \cup {None}, WalletMoves(a)
      PROVE  IInv' /\ Promised
  <2>1. /\ ledgerSeq' \in [Accounts -> Nat] /\ live' \in Accounts \cup {None}
        /\ clock' \in Nat /\ UNCHANGED <<writeVars, fate>>
    BY <1>4 DEF IInv, TypeOK, WalletMoves
  <2> QED BY <2>1, WorldStep
<1>5. CASE Tick \/ UNCHANGED vars
  <2>1. /\ ledgerSeq' \in [Accounts -> Nat] /\ live' \in Accounts \cup {None}
        /\ clock' \in Nat /\ UNCHANGED <<writeVars, fate>>
    BY <1>5 DEF IInv, TypeOK, Tick, vars, worldVars
  <2> QED BY <2>1, WorldStep
<1> QED BY <1>1, <1>2, <1>3, <1>4, <1>5 DEF Next

LEMMA InitHolds == Init => IInv
<1> SUFFICES ASSUME Init PROVE IInv
  OBVIOUS
<1>1. TypeOK
  BY WriteAssumption DEF Init, TypeOK, Points, Fates
<1>2. ASSUME NEW w \in Writes
      PROVE  WriteBound(w)
  BY DEF Init, WriteBound, Before, Assembled
<1> QED BY <1>1, <1>2 DEF IInv

LEMMA Inductive == Spec => []IInv
<1>1. IInv /\ [Next]_vars => IInv'
  BY Steps
<1> QED BY <1>1, InitHolds, PTL DEF Spec

-----------------------------------------------------------------------------
(* The theorems.                                                           *)

(* Every write of any number keeps its types: no step of the write path    *)
(* leaves the phases and outcomes of invokeWithWallet().                   *)
THEOREM WriteTypes == Spec => []TypeOK
<1>1. IInv => TypeOK
  BY DEF IInv
<1> QED BY <1>1, Inductive, PTL

(* Of a write that has ended, what the ledger included is filed in the     *)
(* transaction history under the name it deserves (invokeWithWallet's      *)
(* recordTx), for any number of writes side by side, except the one whose  *)
(* broadcast got no reply: it is told as refused and has no entry.         *)
THEOREM HistoryIsAccounted == Spec => []HistoryAccounts
<1>1. ASSUME IInv, NEW w \in Writes, pc[w] = "done"
      PROVE  /\ history[w] = "confirmed" => fate[w] # "unsent"
             /\ fate[w] \in {"applied", "rejected"} /\ outcome[w] # Refused("submission")
                  => history[w] # None
             /\ fate[w] = "rejected" /\ outcome[w].kind = "submitted"
                  => outcome[w].status = "DUPLICATE"
  <2>1. /\ outcome[w] \in Outcome /\ history[w] = HistoryEntry(outcome[w])
        /\ TrueOf(outcome[w], fate[w])
    BY <1>1 DEF IInv, WriteBound
  <2>2. history[w] = "confirmed" => outcome[w].kind = "submitted"
    BY <2>1, NoneAssumption DEF HistoryEntry
  <2>3. ASSUME fate[w] \in {"applied", "rejected"}, outcome[w] # Refused("submission")
        PROVE  history[w] # None
    <3>1. Verdict(outcome[w]) # "nothing"
      BY <2>1, <2>3 DEF TrueOf
    <3>2. outcome[w] \in {Submitted("SUCCESS"), Submitted("DUPLICATE"), Failed("rejected"),
                          Failed("timeout")}
      BY <2>1, <2>3, <3>1, NoneAssumption DEF Verdict
    <3>3. outcome[w].kind \in {"submitted", "failed"}
      BY <3>2 DEF Submitted, Failed
    <3> QED BY <2>1, <3>3, NoneAssumption DEF HistoryEntry
  <2>4. ASSUME fate[w] = "rejected", outcome[w].kind = "submitted"
        PROVE  outcome[w].status = "DUPLICATE"
    <3>1. outcome[w] # Submitted("SUCCESS")
      BY <2>1, <2>4, NoneAssumption, Outcomes DEF TrueOf, Verdict
    <3>2. \E status \in {"SUCCESS", "DUPLICATE"} : outcome[w] = Submitted(status)
      BY <2>1, <2>4 DEF Outcome, Submitted
    <3> QED BY <3>1, <3>2 DEF Submitted
  <2> QED BY <2>1, <2>2, <2>3, <2>4 DEF TrueOf
<1>2. IInv => HistoryAccounts
  BY <1>1 DEF HistoryAccounts
<1> QED BY <1>2, Inductive, PTL

(* Nothing was done with the account between the review of a write and its *)
(* inclusion, in any panel or tab: the sequence number the simulations     *)
(* read is the one every later pass is built on (freshAccount).            *)
THEOREM ReviewsAreCurrent == Spec => ReviewIsCurrent
<1>1. ASSUME IInv, [Next]_vars, NEW w \in Writes,
             fate[w] = "pending", fate'[w] \in {"applied", "rejected"}
      PROVE  ledgerSeq[bound[w]] = sequence[w]
  <2>1. Include(w)
    <3>1. ASSUME NEW u \in Writes, u # w, Include(u) \/ Drop(u)
          PROVE  fate'[w] = fate[w]
      <4>1. \E f : fate' = [fate EXCEPT ![u] = f]
        BY <3>1 DEF Include, Drop
      <4> QED BY <3>1, <4>1 DEF IInv, TypeOK
    <3>2. ~Drop(w)
      BY <1>1 DEF IInv, TypeOK, Drop
    <3>3. ASSUME NEW u \in Writes, Send(u)
          PROVE  fate'[w] \in {fate[w], "pending"}
      <4>1. fate' = fate \/ fate' = [fate EXCEPT ![u] = "pending"]
        BY <3>3 DEF Send, Accept
      <4>2. CASE fate' = fate
        BY <4>2
      <4>3. CASE fate' = [fate EXCEPT ![u] = "pending"]
        BY <4>3 DEF IInv, TypeOK
      <4> QED BY <4>1, <4>2, <4>3
    <3>4. ASSUME NEW u \in Writes,
                 \/ LoadAccount(u) \/ Discover(u) \/ CheckBeforeAuth(u) \/ Enforce(u)
                 \/ CheckBeforeEnvelope(u) \/ CheckBeforeSend(u) \/ Poll(u) \/ Start(u)
                 \/ AnswerAuth(u) \/ AnswerEnvelope(u)
          PROVE  fate' = fate
      BY <3>4 DEF LoadAccount, Discover, CheckBeforeAuth, Enforce, CheckBeforeEnvelope,
                  CheckBeforeSend, Poll, Start, AnswerAuth, AnswerEnvelope, worldVars
    <3>5. \/ \E a \in Accounts : UseElsewhere(a)
          \/ \E a \in Accounts \cup {None} : WalletMoves(a)
          \/ Tick \/ UNCHANGED vars
          => fate' = fate
      BY DEF UseElsewhere, WalletMoves, Tick, vars, worldVars
    <3> QED BY <1>1, <3>1, <3>2, <3>3, <3>4, <3>5 DEF Next, Runs
  <2>2. Reviewed(w) /\ bound[w] \in Accounts
    BY <1>1 DEF IInv, WriteBound, Before
  <2> QED BY <1>1, <2>1, <2>2 DEF Include, Reviewed, IInv, TypeOK
<1>2. IInv /\ [Next]_vars =>
        [\A w \in Writes : fate[w] = "pending" /\ fate'[w] \in {"applied", "rejected"} =>
           ledgerSeq[bound[w]] = sequence[w]]_vars
  BY <1>1
<1> QED BY <1>2, Inductive, PTL DEF Spec, ReviewIsCurrent

(* WritePipeline implements WriteOutcome: a write is handed over at most   *)
(* once and before its outcome is told, and the outcome is true.           *)
THEOREM OutcomesAreKept == Spec => OutcomesPromised
<1>1. Init => Promise!Init
  BY DEF Init, Promise!Init, Verdict
<1>2. IInv /\ [Next]_vars => [Promise!Next]_<<fate, Told>>
  BY Steps DEF Promised
<1>3. Told = [w \in Writes |-> Verdict(outcome[w])]
  BY DEF Told
<1> QED BY <1>1, <1>2, Inductive, PTL DEF Spec, OutcomesPromised, Promise!Spec, Told
=============================================================================

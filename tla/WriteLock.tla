----------------------------- MODULE WriteLock ------------------------------
(***************************************************************************)
(* The lease an emergency write takes out: lib/guard/tabSync.ts and        *)
(* components/PanicPanel.tsx.                                              *)
(*                                                                         *)
(* run() claims the guard and action it is about to write in localStorage, *)
(* which all tabs share, renews the claim while the write is in flight and *)
(* releases it when it is over.  The effect of the panel releases it as    *)
(* well when the panel leaves the guard, and so does pagehide.  A claim    *)
(* nobody renews expires.                                                  *)
(*                                                                         *)
(* Tabs run in processes of their own and localStorage has no transaction: *)
(* every getItem, setItem and removeItem is a step, and between two steps  *)
(* of one tab's call the other tabs and the clock move.  So a record found *)
(* expired or one's own may be another tab's when it is removed.           *)
(*                                                                         *)
(* What a tab shows as pending follows the storage through storage events, *)
(* a timer set to the expiry of the record it last read, and the notices   *)
(* of claims and releases of its own.                                      *)
(***************************************************************************)
EXTENDS Naturals, FiniteSets

CONSTANTS
  Tabs,
  Guards,
  Actions,        \* freeze and unfreeze
  Owners,         \* random ids of claims; bounds the writes alive at once
  Nobody,         \* null
  Watcher,        \* the tab and the claim the liveness properties are about,
  Watched,        \* which stand for any
  TTL             \* GUARD_WRITE_LOCK_TTL_MS, in ticks of the clock

ASSUME LockAssumption ==
  /\ TTL \in Nat \ {0}
  /\ Watcher \in Tabs /\ Watched \in Owners
  /\ Nobody \notin Owners \cup Tabs \cup Guards

Keys == Guards \X Actions

VARIABLES
  store,          \* the record of each key in localStorage
  runs,           \* the run() each claim belongs to
  panel,          \* the guard the panel of each tab is mounted for
  active,         \* activeWriteLease
  shown,          \* pendingFreeze and pendingUnfreeze: whose claim is shown
  due,            \* ticks to the timer of a subscription, which fires just after
                  \* the expiry it is set to, or Nobody
  events,         \* storage events not yet delivered
  erasing,        \* the removeItem a tab makes next
  releasing,      \* the leases a tab still releases in its call
  publishing      \* the subscriptions a panel has not taken out yet

lockVars == <<store, runs, panel, active, shown, due, events,
              erasing, releasing, publishing>>
tabVars == <<panel, active>>
callVars == <<releasing, publishing>>
viewVars == <<shown, due>>

\* A claim with the ticks it has left; with none left it has expired.
Claim == [owner : Owners, left : 0..TTL]

\* A run: within acquire (looked, put), writing, within renew (renewing,
\* renewed), over, or lost with its tab; with the ticks left to the expiresAt
\* it is about to put.
Stage == {"looked", "put", "writing", "renewing", "renewed", "over", "lost"}
Run == [tab : Tabs, key : Keys, at : Stage, left : 0..TTL, released : BOOLEAN]

\* A removal on its way, and whose live claim the look before it found.
Erasure == [key : Keys, saw : Owners \cup {Nobody}]

ASSUME LockNoneAssumption == Nobody \notin Claim \cup Run \cup Erasure \cup Nat

LockTypeOK ==
  /\ store \in [Keys -> Claim \cup {Nobody}]
  /\ runs \in [Owners -> Run \cup {Nobody}]
  /\ panel \in [Tabs -> Guards]
  /\ active \in [Tabs -> Owners \cup {Nobody}]
  /\ shown \in [Tabs -> [Actions -> Owners \cup {Nobody}]]
  /\ due \in [Tabs -> [Actions -> (0..TTL) \cup {Nobody}]]
  /\ events \in [Tabs -> SUBSET Keys]
  /\ erasing \in [Tabs -> Erasure \cup {Nobody}]
  /\ releasing \in [Tabs -> SUBSET Owners]
  /\ publishing \in [Tabs -> SUBSET Actions]

LockInit ==
  /\ store = [k \in Keys |-> Nobody]
  /\ runs = [o \in Owners |-> Nobody]
  /\ panel \in [Tabs -> Guards]
  /\ active = [t \in Tabs |-> Nobody]
  /\ shown = [t \in Tabs |-> [a \in Actions |-> Nobody]]
  /\ due = [t \in Tabs |-> [a \in Actions |-> Nobody]]
  /\ events = [t \in Tabs |-> {}]
  /\ erasing = [t \in Tabs |-> Nobody]
  /\ releasing = [t \in Tabs |-> {}]
  /\ publishing = [t \in Tabs |-> {}]

-----------------------------------------------------------------------------
(* The storage.                                                            *)

Live(k) == store[k] # Nobody /\ store[k].left > 0

\* readGuardWriteLock: whose live claim the key holds.
OwnerOf(k) == IF Live(k) THEN store[k].owner ELSE Nobody

\* Mutant: release() removes whatever record it finds.
RemovedBlindly(k, os) ==
  IF store[k] # Nobody /\ (~Live(k) \/ os # {})
    THEN [key |-> k, saw |-> OwnerOf(k)] ELSE Nobody

\* What a look at key k makes its tab remove next: a record that has expired,
\* and the claim of a lease in os, which is being released.
Removed(k, os) ==
  IF store[k] # Nobody /\ (~Live(k) \/ store[k].owner \in os)
    THEN [key |-> k, saw |-> OwnerOf(k)] ELSE Nobody

\* readGuardWriteLock in a call of tab t.
Read(t, k) == erasing' = [erasing EXCEPT ![t] = Removed(k, {})]

\* Storage events go to the tabs that did not write.
Tell(t, next) ==
  events' = [u \in Tabs |-> IF u = t THEN events[u]
                            ELSE events[u] \cup {k \in Keys : next[k] # store[k]}]

\* The listeners of t are told that key k is o's.
Notify(t, k, o) ==
  shown' = IF panel[t] = k[1] /\ k[2] \notin publishing[t]
             THEN [shown EXCEPT ![t][k[2]] = o] ELSE shown

Writing(o) == runs[o] # Nobody /\ runs[o].at = "writing"

\* The ids are random: none is used twice.
Fresh(o) ==
  /\ ~(runs[o] # Nobody /\ runs[o].at # "lost")
  /\ \A k \in Keys : store[k] # Nobody => store[k].owner # o
  /\ \A t \in Tabs : /\ \A a \in Actions : shown[t][a] # o
                     /\ erasing[t] # Nobody => erasing[t].saw # o

\* A tab is in one call at a time, and what it was about to remove goes first.
Calling(t) ==
  \/ erasing[t] # Nobody \/ releasing[t] # {} \/ publishing[t] # {}
  \/ \E o \in Owners : /\ runs[o] # Nobody /\ runs[o].tab = t
                       /\ runs[o].at \in {"looked", "put", "renewing", "renewed"}

\* removeItem.  A run that had ended but for it has ended.
Erase(t) ==
  /\ erasing[t] # Nobody
  /\ store' = [store EXCEPT ![erasing[t].key] = Nobody]
  /\ Tell(t, store')
  /\ erasing' = [erasing EXCEPT ![t] = Nobody]
  /\ runs' = [o \in Owners |->
       IF runs[o] # Nobody /\ runs[o].tab = t /\ runs[o].at = "over" THEN Nobody ELSE runs[o]]
  /\ UNCHANGED <<tabVars, viewVars, callVars>>

\* Run o ends, with what its tab is about to remove.
Ends(o) ==
  runs' = [runs EXCEPT ![o] =
    IF erasing'[runs[o].tab] = Nobody THEN Nobody
    ELSE [runs[o] EXCEPT !.at = "over", !.released = TRUE]]

\* Run o goes on, with the ticks left to the expiry it is about to put.
At(o, at, left) == [runs EXCEPT ![o].at = at, ![o].left = left]

-----------------------------------------------------------------------------
(* acquireGuardWriteLock and renew().                                      *)

\* A live claim turns the write away.
Look(t, a, o) ==
  LET k == <<panel[t], a>>
  IN /\ ~Calling(t) /\ Fresh(o)
     /\ ~Live(k)
     /\ Read(t, k)
     /\ runs' = [runs EXCEPT ![o] =
                   [tab |-> t, key |-> k, at |-> "looked", left |-> TTL, released |-> FALSE]]
     /\ UNCHANGED <<store, tabVars, viewVars, events, callVars>>

\* Mutant: the expiry is moved on from where it was.
RenewFromExpiry(o) ==
  LET t == runs[o].tab
      k == runs[o].key
  IN /\ Writing(o) /\ ~runs[o].released /\ ~Calling(t)
     /\ Read(t, k)
     /\ runs' = IF OwnerOf(k) = o THEN At(o, "renewing", store[k].left + TTL) ELSE runs
     /\ UNCHANGED <<store, tabVars, viewVars, events, callVars>>

\* Every 30 s: renew() looks whether the claim is still its own.  run() does
\* not look at what renew() returns.
Renew(o) ==
  LET t == runs[o].tab
      k == runs[o].key
  IN /\ Writing(o) /\ ~runs[o].released /\ ~Calling(t)
     /\ Read(t, k)
     /\ runs' = IF OwnerOf(k) = o THEN At(o, "renewing", TTL) ELSE runs
     /\ UNCHANGED <<store, tabVars, viewVars, events, callVars>>

\* write() is true: acquire has its lease, or renew() has extended it.
Won(o) ==
  LET t == runs[o].tab
  IN /\ runs' = At(o, "writing", 0)
     /\ active' = IF runs[o].at \in {"looked", "put"} THEN [active EXCEPT ![t] = o] ELSE active
     /\ Notify(t, runs[o].key, o)

\* It puts its record; a full storage throws, and the claim is kept in this
\* tab's memory instead, which a tab that has a storage never reads.
Put(o) ==
  LET t == runs[o].tab
      k == runs[o].key
  IN /\ runs[o] # Nobody /\ runs[o].at \in {"looked", "renewing"}
     /\ erasing[t] = Nobody
     /\ \/ /\ store' = [store EXCEPT ![k] = [owner |-> o, left |-> runs[o].left]]
           /\ runs' = At(o, IF runs[o].at = "looked" THEN "put" ELSE "renewed", 0)
           /\ UNCHANGED <<active, shown>>
        \/ /\ Won(o)
           /\ UNCHANGED store
     /\ Tell(t, store')
     /\ UNCHANGED <<panel, due, erasing, callVars>>

\* It reads the record back: another tab's means that acquire was too late,
\* or that renew() changes nothing.
Confirm(o) ==
  LET t == runs[o].tab
      k == runs[o].key
  IN /\ runs[o] # Nobody /\ runs[o].at \in {"put", "renewed"}
     /\ erasing[t] = Nobody
     /\ Read(t, k)
     /\ IF OwnerOf(k) = o THEN Won(o)
        ELSE /\ IF runs[o].at = "put" THEN Ends(o)
                ELSE runs' = At(o, "writing", 0)
             /\ UNCHANGED <<active, shown>>
     /\ UNCHANGED <<store, panel, due, events, callVars>>

-----------------------------------------------------------------------------
(* release().                                                              *)

\* The leases of tab t that release() would still act on.
Unreleased(t) == {o \in Owners : Writing(o) /\ runs[o].tab = t /\ ~runs[o].released}

\* Mutant: no release in the finally.
FinallyLeaks(o) == {}

\* The leases the finally of run() still releases.
Finally(o) == IF runs[o].released THEN {} ELSE {o}

\* The write is over, one way or the other; the tab is told that nothing is
\* pending, even when the claim had lapsed and is another tab's by now.
WriteEnds(o) ==
  LET t == runs[o].tab
      k == runs[o].key
  IN /\ Writing(o) /\ ~Calling(t)
     /\ erasing' = [erasing EXCEPT ![t] =
          IF Finally(o) = {} THEN Nobody ELSE Removed(k, Finally(o))]
     /\ Ends(o)
     /\ IF runs[o].released THEN UNCHANGED shown ELSE Notify(t, k, Nobody)
     /\ active' = [active EXCEPT ![t] = IF @ = o THEN Nobody ELSE @]
     /\ UNCHANGED <<store, panel, due, events, callVars>>

\* release() of lease o, which is not released yet, in a call of tab t.
Released(t, o) ==
  /\ erasing' = [erasing EXCEPT ![t] = Removed(runs[o].key, {o})]
  /\ runs' = [runs EXCEPT ![o].released = TRUE]

\* pagehide: every lease of the tab is released, one after the other; the
\* writes go on.
PageHide(t) ==
  /\ ~Calling(t)
  /\ \E o \in Unreleased(t) :
       /\ Released(t, o) /\ Notify(t, runs[o].key, Nobody)
       /\ releasing' = [releasing EXCEPT ![t] = Unreleased(t) \ {o}]
  /\ UNCHANGED <<store, tabVars, due, events, publishing>>

ReleaseNext(t, o) ==
  /\ o \in releasing[t] /\ erasing[t] = Nobody
  /\ Released(t, o) /\ Notify(t, runs[o].key, Nobody)
  /\ releasing' = [releasing EXCEPT ![t] = @ \ {o}]
  /\ UNCHANGED <<store, tabVars, due, events, publishing>>

-----------------------------------------------------------------------------
(* The panel.                                                              *)

\* Another guard, another page or another wallet network: the effect's cleanup
\* unsubscribes and releases the lease it knows of, whose write goes on, and
\* the effect subscribes anew.
Remount(t, g) ==
  LET o == active[t]
  IN /\ ~Calling(t)
     /\ IF o # Nobody /\ ~runs[o].released THEN Released(t, o) ELSE UNCHANGED <<erasing, runs>>
     /\ active' = [active EXCEPT ![t] = Nobody]
     /\ panel' = [panel EXCEPT ![t] = g]
     /\ publishing' = [publishing EXCEPT ![t] = Actions]
     /\ due' = [due EXCEPT ![t] = [a \in Actions |-> Nobody]]
     /\ UNCHANGED <<store, shown, events, releasing>>

\* The tab's process dies and the page is opened again.  Nobody is left of a
\* run that left no record.
Lost(t, g) ==
  /\ runs' = [o \in Owners |->
       IF runs[o] = Nobody \/ runs[o].tab # t THEN runs[o]
       ELSE IF \E k \in Keys : store[k] # Nobody /\ store[k].owner = o
         THEN [runs[o] EXCEPT !.at = "lost", !.left = 0] ELSE Nobody]
  /\ active' = [active EXCEPT ![t] = Nobody]
  /\ panel' = [panel EXCEPT ![t] = g]
  /\ shown' = [shown EXCEPT ![t] = [a \in Actions |-> Nobody]]
  /\ due' = [due EXCEPT ![t] = [a \in Actions |-> Nobody]]
  /\ events' = [events EXCEPT ![t] = {}]
  /\ erasing' = [erasing EXCEPT ![t] = Nobody]
  /\ releasing' = [releasing EXCEPT ![t] = {}]
  /\ publishing' = [publishing EXCEPT ![t] = Actions]
  /\ UNCHANGED store

\* Mutant: a storage event is taken for the end of the claim.
PublishNone(t, a) ==
  /\ shown' = [shown EXCEPT ![t][a] = Nobody]
  /\ due' = [due EXCEPT ![t][a] = Nobody]
  /\ UNCHANGED erasing

\* Mutant: no timer for the expiry of what is shown.
PublishUntimed(t, a) ==
  LET k == <<panel[t], a>>
  IN /\ shown' = [shown EXCEPT ![t][a] = OwnerOf(k)]
     /\ due' = [due EXCEPT ![t][a] = Nobody]
     /\ Read(t, k)

\* publish() of one subscription.
Publish(t, a) ==
  LET k == <<panel[t], a>>
  IN /\ shown' = [shown EXCEPT ![t][a] = OwnerOf(k)]
     /\ due' = [due EXCEPT ![t][a] = IF Live(k) THEN store[k].left ELSE Nobody]
     /\ Read(t, k)

\* The next subscription of a panel that has been mounted.
Subscribe(t, a) ==
  /\ a \in publishing[t] /\ erasing[t] = Nobody
  /\ Publish(t, a)
  /\ publishing' = [publishing EXCEPT ![t] = @ \ {a}]
  /\ UNCHANGED <<store, runs, tabVars, events, releasing>>

StorageEvent(t, k) ==
  /\ k \in events[t]
  /\ ~Calling(t)
  /\ IF panel[t] = k[1] THEN Publish(t, k[2]) ELSE UNCHANGED <<viewVars, erasing>>
  /\ events' = [events EXCEPT ![t] = @ \ {k}]
  /\ UNCHANGED <<store, runs, tabVars, callVars>>

Timer(t, a) ==
  /\ due[t][a] = 0
  /\ ~Calling(t)
  /\ Publish(t, a)
  /\ UNCHANGED <<store, runs, tabVars, events, callVars>>

LockTick ==
  /\ \/ \E k \in Keys : Live(k)
     \/ \E t \in Tabs, a \in Actions : due[t][a] \in Nat \ {0}
  /\ store' = [k \in Keys |->
       IF Live(k) THEN [store[k] EXCEPT !.left = @ - 1] ELSE store[k]]
  /\ due' = [t \in Tabs |-> [a \in Actions |->
       IF due[t][a] \in Nat \ {0} THEN due[t][a] - 1 ELSE due[t][a]]]
  /\ runs' = [o \in Owners |->
       IF runs[o] # Nobody /\ runs[o].left > 0 THEN [runs[o] EXCEPT !.left = @ - 1]
       ELSE runs[o]]
  /\ UNCHANGED <<tabVars, shown, events, erasing, callVars>>

-----------------------------------------------------------------------------
LockNext ==
  \/ \E o \in Owners : Put(o) \/ Confirm(o) \/ Renew(o) \/ WriteEnds(o)
  \/ \E t \in Tabs :
       \/ Erase(t) \/ PageHide(t)
       \/ \E o \in Owners : ReleaseNext(t, o)
       \/ \E g \in Guards : Remount(t, g) \/ Lost(t, g)
       \/ \E k \in Keys : StorageEvent(t, k)
       \/ \E a \in Actions : Timer(t, a) \/ Subscribe(t, a)
       \/ \E a \in Actions, o \in Owners : Look(t, a, o)
  \/ LockTick

LockSpec == LockInit /\ [][LockNext]_lockVars

(* Time passes, a call that began goes on, and the interval of the watched *)
(* claim and the timers and storage events of the watching tab come: a     *)
(* tab's tasks take turns, so the acquires of an operator who keeps        *)
(* clicking do not keep them waiting.  A wallet prompt may stay open for   *)
(* good.                                                                   *)
GoesOn(t) ==
  \/ Erase(t) \/ \E o \in Owners : ReleaseNext(t, o) \/ \E a \in Actions : Subscribe(t, a)
  \/ \E o \in Owners : runs[o] # Nobody /\ runs[o].tab = t /\ (Put(o) \/ Confirm(o))

FairLockSpec ==
  /\ LockSpec
  /\ SF_lockVars(LockTick)
  /\ SF_lockVars(Renew(Watched))
  /\ \A t \in Tabs : WF_lockVars(GoesOn(t))
  /\ \A k \in Keys : SF_lockVars(StorageEvent(Watcher, k))
  /\ \A a \in Actions : SF_lockVars(Timer(Watcher, a))

-----------------------------------------------------------------------------
(* Properties.                                                             *)

(* A claim outlives its write only when its tab was lost: every record in  *)
(* the storage is that of a run that will still release it, or is about to *)
(* be removed, or waits for its expiry because nobody is left to remove it *)
(* (the finally and the cleanup).                                          *)
NoOrphanClaim ==
  \A k \in Keys : store[k] # Nobody =>
    LET o == store[k].owner
    IN /\ runs[o] # Nobody /\ runs[o].key = k /\ runs[o].at # "looked"
       /\ \/ ~runs[o].released \/ runs[o].at = "lost"
          \/ erasing[runs[o].tab] # Nobody /\ erasing[runs[o].tab].key = k

\* Tab t writes to key k without having seen o's live claim there.
Unseeing(t, k, o) ==
  \/ /\ erasing[t] # Nobody /\ erasing[t].key = k /\ erasing[t].saw # o
     /\ erasing'[t] = Nobody
  \/ \E p \in Owners \ {o} :
       /\ runs[p] # Nobody /\ runs[p].tab = t /\ runs[p].key = k
       /\ runs[p].at \in {"looked", "renewing"} /\ runs'[p] # runs[p]

(* A live claim that its own run has not released goes away only in a call *)
(* whose look at the key did not find it: nobody overwrites or removes a   *)
(* claim he has seen, and a lease that lapsed takes the claim of the tab   *)
(* that came after with it only if that one was put between its look and   *)
(* its removal (readGuardWriteLock, renew, release).                       *)
ForeignClaimKept ==
  [][\A k \in Keys : Live(k) =>
       LET o == store[k].owner
       IN \/ store'[k] # Nobody /\ store'[k].owner = o
          \/ runs[o].released
          \/ \E t \in Tabs : Unseeing(t, k, o)]_lockVars

(* A write pending in another tab comes to be shown, or ends: events that  *)
(* cross with a tab's own notices hide it at most until the next renewal   *)
(* (subscribeGuardWriteLock).                                              *)
PendingShown ==
  \A k \in Keys :
    (OwnerOf(k) = Watched /\ panel[Watcher] = k[1]) ~>
      (OwnerOf(k) # Watched \/ panel[Watcher] # k[1] \/ shown[Watcher][k[2]] = Watched)

(* What is shown as pending is so: a claim that ended without a word, with *)
(* its tab, stops being shown and blocking the button (the expiry timer).  *)
PendingClears ==
  \A a \in Actions :
    (shown[Watcher][a] = Watched) ~>
      (shown[Watcher][a] # Watched \/ (Writing(Watched) /\ ~runs[Watched].released))
=============================================================================

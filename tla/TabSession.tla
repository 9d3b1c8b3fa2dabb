----------------------------- MODULE TabSession -----------------------------
(***************************************************************************)
(* What the rest of a tab does to the read path of GuardReads:             *)
(* components/GuardProvider.tsx, PanicPanel.tsx and PolicyForm.tsx, with   *)
(* lib/guard/memoryWiper.ts.                                               *)
(*                                                                         *)
(* A page reached by a client navigation (the fleet's view button) renders *)
(* before the address bar has moved: it shows the guard of the page left   *)
(* in its first commit and the link's guard in its second.  A page that is *)
(* loaded finds its guard at once.  A panel that writes keeps the          *)
(* refresh() of the render it began in and calls it when its write is      *)
(* over, whatever guard is then on screen.  The interval timer is cleared  *)
(* by memoryWiper.wipe() and set again only by the effect of a new         *)
(* refresh().                                                              *)
(***************************************************************************)
EXTENDS GuardReads

VARIABLES
  mounted,        \* the effects of the first commit of each tab have run
  timer,          \* the refresh timer of each tab is set
  panel           \* the guard a panel's pending write was begun on, or None

sessionVars == <<readVars, mounted, timer, panel>>

SessionTypeOK ==
  /\ TypeOK
  /\ mounted \in [Tabs -> BOOLEAN]
  /\ timer \in [Tabs -> BOOLEAN]
  /\ panel \in [Tabs -> Guards \cup {None}]

SessionInit ==
  /\ Init
  /\ mounted = [t \in Tabs |-> FALSE]
  /\ timer = [t \in Tabs |-> FALSE]
  /\ panel = [t \in Tabs |-> None]

-----------------------------------------------------------------------------
\* The first commit reads the guard h it shows, and adopts the guard g of the
\* page's link if that is another one; the commit of that reads g.  The epoch
\* does not move.
FirstCommits(t, h, g) ==
  /\ ~mounted[t]
  /\ mounted' = [mounted EXCEPT ![t] = TRUE]
  /\ timer' = [timer EXCEPT ![t] = TRUE]
  /\ guard' = [guard EXCEPT ![t] = g]
  /\ refreshing' = [refreshing EXCEPT ![t] = TRUE]
  /\ \E s1, s2 \in Slots :
       /\ s1 = s2 <=> g = h
       /\ reads' = [reads EXCEPT
            ![t][s1] = NewRead("refresh", Fields, h, epoch[t]),
            ![t][s2] = NewRead("refresh", Fields, g, epoch[t])]
  /\ UNCHANGED <<ledger, epoch, snap, snapErr, retrying, panel>>

TimerRefresh(t) ==
  /\ timer[t]
  /\ Refresh(t)
  /\ UNCHANGED <<mounted, timer, panel>>

\* The refresh button, and a change announced by another tab.
AskedRefresh(t) ==
  /\ mounted[t]
  /\ Refresh(t)
  /\ UNCHANGED <<mounted, timer, panel>>

\* A wallet connects or disconnects: refresh() is new, its effect reads and
\* sets the timer again, after the wipe of a disconnect.
WalletChanges(t) ==
  /\ mounted[t]
  /\ Refresh(t)
  /\ timer' = [timer EXCEPT ![t] = TRUE]
  /\ UNCHANGED <<mounted, panel>>

\* run() of a panel, up to its first await.
BeginWrite(t) ==
  /\ mounted[t]
  /\ panel[t] = None
  /\ panel' = [panel EXCEPT ![t] = guard[t]]
  /\ UNCHANGED <<readVars, mounted, timer>>

\* Mutant: refresh() also runs for a panel that has no write.
EndWriteUnasked(t) ==
  /\ \E s \in Slots : IssueRefresh(t, s, panel[t])
  /\ panel' = [panel EXCEPT ![t] = None]
  /\ UNCHANGED <<mounted, timer>>

\* Its write is over and verified: await refresh(), of the render it began in.
EndWrite(t) ==
  /\ panel[t] # None
  /\ \E s \in Slots : IssueRefresh(t, s, panel[t])
  /\ panel' = [panel EXCEPT ![t] = None]
  /\ UNCHANGED <<mounted, timer>>

\* The write threw or was exported: no refresh.
AbandonWrite(t) ==
  /\ panel[t] # None
  /\ panel' = [panel EXCEPT ![t] = None]
  /\ UNCHANGED <<readVars, mounted, timer>>

\* The effect of refresh() runs again only when the guard is another one.
Select(t, g) ==
  /\ mounted[t]
  /\ SwitchGuard(t, g)
  /\ timer' = [timer EXCEPT ![t] = @ \/ g # guard[t]]
  /\ UNCHANGED <<mounted, panel>>

\* pagehide or beforeunload, on a page that lives on: the operator stays, or
\* comes back to it.
Wipe(t) ==
  /\ timer[t]
  /\ timer' = [timer EXCEPT ![t] = FALSE]
  /\ UNCHANGED <<readVars, mounted, panel>>

\* The steps of GuardReads that answer what was asked.
Answers(t, s) ==
  /\ \/ SettleRefresh(t, s) \/ RejectRefresh(t, s) \/ SettleRetry(t, s)
     \/ \E f \in Fields : RetryRead(t, s, f) \/ ServeRead(t, s, f)
  /\ UNCHANGED <<mounted, timer, panel>>

SessionNext ==
  \/ \E g \in Guards : ChainMoves(g) /\ UNCHANGED <<mounted, timer, panel>>
  \/ \E t \in Tabs :
       \/ TimerRefresh(t) \/ AskedRefresh(t) \/ WalletChanges(t)
       \/ BeginWrite(t) \/ EndWrite(t) \/ AbandonWrite(t) \/ Wipe(t)
       \/ \E s \in Slots : Answers(t, s)
       \/ \E g \in Guards : Select(t, g)
       \/ \E h, g \in Guards : FirstCommits(t, h, g)

SessionSpec == SessionInit /\ [][SessionNext]_sessionVars

(* As in GuardReads, the page loads, and the interval fires only while it  *)
(* is set.                                                                 *)
SessionFairSpec ==
  /\ SessionSpec
  /\ \A t \in Tabs :
       /\ WF_sessionVars(\E h, g \in Guards : FirstCommits(t, h, g))
       /\ WF_sessionVars(TimerRefresh(t))
       /\ \A s \in Slots :
            /\ WF_sessionVars(SettleRefresh(t, s) /\ UNCHANGED <<mounted, timer, panel>>)
            /\ WF_sessionVars(SettleRetry(t, s) /\ UNCHANGED <<mounted, timer, panel>>)
            /\ \A f \in Fields :
                 WF_sessionVars(ServeRead(t, s, f) /\ UNCHANGED <<mounted, timer, panel>>)

-----------------------------------------------------------------------------
(* Properties.                                                             *)

\* The snapshot on screen was read from another guard than the one shown.
Painted(t) == snap[t] # None /\ snap[t].guard # guard[t]

(* A read of the first commit, or a panel's late refresh, may paint a      *)
(* guard over the one that was adopted or selected since (the link effect, *)
(* run); the next answers to the timer put that right, unless it is wiped. *)
PaintHeals == \A t \in Tabs : Painted(t) ~> (~Painted(t) \/ ~timer[t])

(* As ChangeShows, as long as the timer lives: panels that write, pages    *)
(* opened from links and wallets that come and go do not stop a change     *)
(* made elsewhere from showing up in the view of its own guard.            *)
ShowsWhileTimed ==
  \A t \in Tabs, g \in Guards, v \in 0..MaxVersion :
    (mounted[t] /\ guard[t] = g /\ ledger[g] = v) ~>
      \/ guard[t] # g \/ ledger[g] # v \/ ~timer[t]
      \/ ShowsOrFails(t, v) /\ ~Painted(t)
=============================================================================

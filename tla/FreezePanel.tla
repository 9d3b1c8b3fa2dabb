----------------------------- MODULE FreezePanel -----------------------------
(***************************************************************************)
(* The emergency panel of one tab: the balance that decides how a freeze   *)
(* is confirmed, the dialog, and the freezes and unfreezes in flight, each *)
(* read back from the chain, while the guard on screen changes under it.   *)
(* The leases between tabs are WriteLock's.                                *)
(***************************************************************************)
EXTENDS Naturals, FiniteSets

CONSTANTS
  PanicGuards,  \* guards the panel is shown for
  MaxReads,     \* bound: balances asked for
  MaxWrites,    \* bound: writes begun
  Nil

VARIABLES
  large,      \* guards at or above the threshold, on chain
  halted,     \* guards frozen on chain
  selected,
  balance,    \* the balance state: unread, or of a guard, read or not
  reads,      \* reads of a balance in flight
  token,      \* balanceToken
  dialog,     \* the confirmation is open, and what was acknowledged and typed in it
  writes,     \* writes in flight
  report,     \* the outcome on screen
  begun       \* bound

panicVars == <<large, halted, selected, balance, reads, token, dialog, writes, report, begun>>

Flags == [freeze |-> TRUE, unfreeze |-> FALSE]
Actions == DOMAIN Flags
Unread == [of |-> Nil, state |-> "unread"]

PanicTypes ==
  /\ large \subseteq PanicGuards /\ halted \subseteq PanicGuards /\ selected \in PanicGuards
  /\ balance.of \in PanicGuards \cup {Nil} /\ balance.state \in {"unread", "error", "small", "large"}
  /\ \A r \in reads : r.of \in PanicGuards /\ r.token \in 1..token
  /\ dialog # Nil => dialog.acknowledged \in BOOLEAN /\ dialog.typed \in PanicGuards \cup {Nil}
  /\ \A w \in writes : w.guard \in PanicGuards /\ w.action \in Actions
  /\ report # Nil => report.confirmed \in BOOLEAN
  /\ token \in 0..MaxReads + 1 /\ begun \in 0..MaxWrites

Init ==
  /\ large \in SUBSET PanicGuards /\ halted = {} /\ selected \in PanicGuards
  /\ balance = Unread /\ reads = {[of |-> selected, token |-> 1]} /\ token = 1
  /\ dialog = Nil /\ writes = {} /\ report = Nil /\ begun = 0

\* loadBalance: a later read makes every earlier answer late.  What is on screen stays.
LoadBalance(g, skipped) ==
  /\ token + skipped < MaxReads + 1 /\ token' = token + skipped + 1
  /\ reads' = reads \cup {[of |-> g, token |-> token + skipped + 1]}

-----------------------------------------------------------------------------
(* The chain and the selection                                             *)

Deposit(g) == /\ large' = large \cup {g} /\ g \notin large
              /\ UNCHANGED <<halted, selected, balance, reads, token, dialog, writes, report, begun>>

\* The effect of the guard before invalidates its reads; the one of the new guard reads.
SelectPanic(g) ==
  /\ g # selected /\ selected' = g /\ LoadBalance(g, 1)
  /\ UNCHANGED <<large, halted, balance, dialog, writes, report, begun>>

-----------------------------------------------------------------------------
(* The dialog                                                              *)

\* Mutant: any answer is taken.
AnyAnswer(r) == TRUE
Taken(r) == r.token = token

BalanceRead(r) ==
  /\ reads' = reads \ {r}
  /\ \E answer \in {"ok", "error"} :
       balance' = IF ~Taken(r) THEN balance
                  ELSE [of |-> r.of, state |-> IF answer = "error" THEN "error"
                                               ELSE IF r.of \in large THEN "large" ELSE "small"]
  /\ UNCHANGED <<large, halted, selected, token, dialog, writes, report, begun>>

Pending(g, action) == \E w \in writes : w.guard = g /\ w.action = action

\* The snapshot that disables a freeze may be of any age, so it is left open here.
OpenDialog ==
  /\ dialog = Nil /\ ~Pending(selected, "freeze")
  /\ dialog' = [acknowledged |-> FALSE, typed |-> Nil] /\ report' = Nil
  /\ LoadBalance(selected, 0)
  /\ UNCHANGED <<large, halted, selected, balance, writes, begun>>

Acknowledge == /\ dialog # Nil /\ dialog' = [dialog EXCEPT !.acknowledged = ~@]
               /\ UNCHANGED <<large, halted, selected, balance, reads, token, writes, report, begun>>

\* The operator types the end of the address on screen.
TypeChallenge ==
  /\ dialog # Nil /\ dialog.typed # selected /\ dialog' = [dialog EXCEPT !.typed = selected]
  /\ UNCHANGED <<large, halted, selected, balance, reads, token, writes, report, begun>>

CloseDialog == /\ dialog # Nil /\ dialog' = Nil
               /\ UNCHANGED <<large, halted, selected, balance, reads, token, writes, report, begun>>

-----------------------------------------------------------------------------
(* Writes                                                                  *)

\* Only a balance that was read and is below the threshold spares the challenge.
ChallengeRequired == balance.state # "small"
ChallengeSatisfied == ~ChallengeRequired \/ dialog.typed = selected

Run(action) ==
  /\ begun < MaxWrites /\ begun' = begun + 1 /\ ~Pending(selected, action)
  /\ writes' = writes \cup
       {[guard |-> selected, action |-> action, stage |-> "signing", sent |-> FALSE]}
  /\ dialog' = Nil /\ report' = Nil
  /\ UNCHANGED <<large, halted, selected, balance, reads, token>>

SignFreeze == dialog # Nil /\ dialog.acknowledged /\ ChallengeSatisfied /\ Run("freeze")
\* An unfreeze is offered whenever the dialog is closed, a freeze in flight or not.
Unfreeze == dialog = Nil /\ Run("unfreeze")

\* submit returns: refused, or failed, or included and in effect.  The phase of the panel is one
\* for all writes, so a dialog that was opened meanwhile closes.
Returns(w) ==
  /\ w.stage = "signing"
  /\ \E sent \in BOOLEAN :
       /\ halted' = IF ~sent THEN halted
                    ELSE IF Flags[w.action] THEN halted \cup {w.guard} ELSE halted \ {w.guard}
       /\ writes' = (writes \ {w}) \cup {[w EXCEPT !.stage = "verifying", !.sent = sent]}
  /\ dialog' = Nil
  /\ UNCHANGED <<large, selected, balance, reads, token, report, begun>>

\* Before an answer, or through a wallet that declines, the write throws.
Throws(w) ==
  /\ w.stage = "signing" /\ writes' = writes \ {w} /\ dialog' = Nil
  /\ UNCHANGED <<large, halted, selected, balance, reads, token, report, begun>>

\* What the chain says of the guard that was written decides.
Confirmed(w, readable) == readable /\ (w.guard \in halted) = Flags[w.action]

StatusReread(w) ==
  /\ w.stage = "verifying" /\ writes' = writes \ {w}
  /\ \E readable \in BOOLEAN :
       report' = [guard |-> w.guard, action |-> w.action, confirmed |-> Confirmed(w, readable),
                  held |-> (w.guard \in halted) = Flags[w.action]]
  /\ dialog' = Nil
  /\ UNCHANGED <<large, halted, selected, balance, reads, token, begun>>

\* Another console freezes and unfreezes.
OthersFlip(g) ==
  /\ halted' = IF g \in halted THEN halted \ {g} ELSE halted \cup {g}
  /\ UNCHANGED <<large, selected, balance, reads, token, dialog, writes, report, begun>>

Next ==
  \/ \E g \in PanicGuards : Deposit(g) \/ SelectPanic(g) \/ OthersFlip(g)
  \/ \E r \in reads : BalanceRead(r)
  \/ OpenDialog \/ Acknowledge \/ TypeChallenge \/ CloseDialog \/ SignFreeze \/ Unfreeze
  \/ \E w \in writes : Returns(w) \/ Throws(w) \/ StatusReread(w)

Spec == Init /\ [][Next]_panicVars

-----------------------------------------------------------------------------
(* With no read in flight the balance on screen is of the guard on screen, *)
(* and a freeze is reported as confirmed only when the chain said so.      *)
BalanceOwn == (\A r \in reads : ~Taken(r)) => balance.of = selected
FreezeTold == report # Nil /\ report.confirmed => report.held
PanicHonest == BalanceOwn /\ FreezeTold
=============================================================================

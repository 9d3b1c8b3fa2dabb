---------------------------- MODULE WebhookAlerts ----------------------------
(***************************************************************************)
(* The webhook alerts of a tab: components/WebhookAlertBridge.tsx with the *)
(* tracker, the cooldown and dispatchWebhook() of                          *)
(* lib/guard/webhookDispatcher.ts.                                         *)
(*                                                                         *)
(* Each new snapshot and each batch of events is a pass: the conditions    *)
(* that hold and are not cooling down are due, those that were not due in  *)
(* the pass before are sent, and an answer that says so arms the cooldown. *)
(* Answers come when they like.  Conditions stand for the alert types that *)
(* are selected; what they are made of is module WebhookRules.             *)
(***************************************************************************)
EXTENDS Naturals, SequencesExt

CONSTANTS
  Conditions,     \* the alert types that are selected
  Interval,       \* minIntervalMs, in ticks
  None,
  MaxClock,       \* bounds the time that is looked at
  MaxFlights      \* bounds the dispatches that have not answered

VARIABLES
  clock,
  enabled,        \* settings.enabled
  previous,       \* the tracker's last observation
  lastSent,       \* when the alert was begun that last arrived
  flights,        \* dispatches that have not answered
  told            \* auxiliary: begun since the condition was last seen not to hold

vars == <<clock, enabled, previous, lastSent, flights, told>>

\* mounted: the bridge that began it is still on the page.
Flight == [event : Conditions, at : 0..MaxClock, mounted : BOOLEAN]

WebhookTypes ==
  /\ clock \in 0..MaxClock /\ enabled \in BOOLEAN
  /\ previous \subseteq Conditions
  /\ lastSent \in [Conditions -> 0..MaxClock \cup {None}]
  /\ flights \in Seq(Flight)
  /\ told \subseteq Conditions

Never == [e \in Conditions |-> None]

Init ==
  /\ clock = 0 /\ enabled \in BOOLEAN
  /\ previous = {} /\ lastSent = Never
  /\ flights = <<>>
  /\ told = {}

-----------------------------------------------------------------------------
\* isRateLimited()
Cooling(e) == lastSent[e] # None /\ Interval > 0 /\ clock - lastSent[e] < Interval

\* Mutant: the edge is taken before the cooldown is looked at.
EdgeFirst(holding) ==
  [seen |-> holding, entered |-> {e \in holding \ previous : ~Cooling(e)}]

\* dueWebhookEvents() and then entered(): a condition that cools down counts as
\* not observed.
Edges(holding) ==
  LET due == {e \in holding : ~Cooling(e)}
  IN [seen |-> due, entered |-> due \ previous]

Dispatch(entered) ==
  SetToSeq({[event |-> e, at |-> clock, mounted |-> TRUE] : e \in entered})

\* A snapshot or a batch, from which these conditions are seen to hold; of a
\* snapshot that could not be read none does.  While alerts are off nothing is.
Pass(holding) ==
  LET edges == Edges(holding) IN
     /\ enabled
     /\ Len(flights) + Cardinality(edges.entered) <= MaxFlights
     /\ previous' = edges.seen
     /\ flights' = flights \o Dispatch(edges.entered)
     /\ told' = (told \cap holding) \cup edges.entered
     /\ UNCHANGED <<clock, enabled, lastSent>>

\* dispatchWebhook() is over.  Only a delivery arms the cooldown, with the time
\* it was begun at, for whatever guard is on screen by now.
Answer(i, delivered) ==
  LET f == flights[i]
  IN /\ flights' = RemoveAt(flights, i)
     /\ lastSent' = IF delivered /\ f.mounted
                    THEN [lastSent EXCEPT ![f.event] = f.at] ELSE lastSent
     /\ UNCHANGED <<clock, enabled, previous, told>>

Forget(left) ==
  /\ previous' = {} /\ lastSent' = Never
  /\ flights' = [i \in DOMAIN flights |->
                  [flights[i] EXCEPT !.mounted = @ /\ ~left]]
  /\ told' = {}
  /\ UNCHANGED clock

\* Another guard is selected: the tracker forgets, and so does the cooldown.
SwitchGuard == Forget(FALSE) /\ UNCHANGED enabled

\* The overview is left and opened again, with a bridge of its own, which reads
\* what is stored by then.
Remount == Forget(TRUE) /\ enabled' \in BOOLEAN

\* saveWebhookSettings(), which the bridge hears of; the dialog saves no settings
\* that are off.
SaveSettings ==
  /\ enabled' = TRUE
  /\ UNCHANGED <<clock, previous, lastSent, flights, told>>

Tick ==
  /\ clock < MaxClock
  /\ clock' = clock + 1
  /\ UNCHANGED <<enabled, previous, lastSent, flights, told>>

Next ==
  \/ \E holding \in SUBSET Conditions : Pass(holding)
  \/ \E i \in DOMAIN flights, delivered \in BOOLEAN : Answer(i, delivered)
  \/ SwitchGuard \/ Remount \/ SaveSettings \/ Tick

Spec == Init /\ [][Next]_vars

-----------------------------------------------------------------------------
(* Properties.                                                             *)

(* "The tracker has to see the due set, or a suppressed repeat would be    *)
(* recorded as an observed condition and the real transition would be      *)
(* lost": what a pass found due has been alerted since it began to hold,   *)
(* also when it began while its alert was cooling down.                    *)
OnsetTold == previous \subseteq told
=============================================================================

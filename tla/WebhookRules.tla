----------------------------- MODULE WebhookRules ------------------------------
(***************************************************************************)
(* The settings of the webhook alerts: the dialog of                       *)
(* components/WebhookSettings.tsx, what lib/guard/webhookDispatcher.ts     *)
(* stores and reads back, and which alerts a pass of the bridge finds      *)
(* (module WebhookAlerts) under the settings it acts on.                   *)
(*                                                                         *)
(* A URL is empty, one that is refused, or one that is accepted.  Secrets, *)
(* payloads and the signature are left out: an alert is its type.          *)
(***************************************************************************)
EXTENDS Integers, FiniteSets

CONSTANTS
  AlertTypes,     \* of FREEZE_ACTIVATED, DMS_EXPIRING, BLOCK_THRESHOLD_EXCEEDED
  MaxBlocks,      \* bounds the refusals in the feed
  Nil

VARIABLES
  stored,         \* the settings in the browser's storage, or Nil
  bridge,         \* settingsRef of the bridge on the page
  dialog,         \* the settings under edit, or Nil while it is closed
  problem,        \* it shows why it did not save
  testing,        \* what the ping under way was told when it was sent, or Nil
  ping            \* the result it shows

hookVars == <<stored, bridge, dialog, problem, testing, ping>>

Urls == {"empty", "refused", "accepted"}

SettingsWith(thresholds) ==
  [enabled : BOOLEAN, url : Urls, events : SUBSET AlertTypes, threshold : thresholds]

Settings == SettingsWith(1..MaxBlocks)

Window == 1       \* blockWindowSecs, in the unit of the ages

Outcomes == {"sent", "skipped", "rejected", "failed"}

HookTypes ==
  /\ stored \in Settings \cup {Nil} /\ bridge \in Settings
  /\ dialog \in SettingsWith(0..MaxBlocks + 1) \cup {Nil} /\ problem \in BOOLEAN
  /\ testing \in Settings \cup {Nil} /\ ping \in Outcomes \cup {Nil}

\* DEFAULT_WEBHOOK_SETTINGS
Defaults == [enabled |-> FALSE, url |-> "empty", events |-> AlertTypes, threshold |-> 1]

\* loadWebhookSettings()
Loaded(kept) == IF kept = Nil THEN Defaults ELSE kept

Init ==
  /\ stored = Nil /\ bridge = Defaults
  /\ dialog = Nil /\ problem = FALSE /\ testing = Nil /\ ping = Nil

-----------------------------------------------------------------------------
\* clampThreshold()
Clamped(n) == IF n < 1 THEN 1 ELSE IF n > MaxBlocks THEN MaxBlocks ELSE n

\* normalizeWebhookSettings(): the fields that do not fit are brought to fit.
Normalised(s) == [s EXCEPT !.threshold = Clamped(@)]

\* Mutant: that no alert type is selected is not looked at.
ProblemButEvents(s) == ~s.enabled \/ s.url # "accepted"

\* webhookConfigProblem()
ConfigProblem(s) == ~s.enabled \/ s.url # "accepted" \/ s.events = {}

\* countBlockedInWindow(): blocks are refusals by their age, Nil when it is not
\* known; those count as recent.
BlockedInWindow(blocks) ==
  Cardinality({b \in DOMAIN blocks : blocks[b] = Nil \/ blocks[b] <= Window})

\* webhookEventsFor(): the conditions that hold, of the types selected.
EventsFor(s, frozen, level, blocks) ==
  {e \in s.events :
     \/ e = "freeze" /\ frozen
     \/ e = "dms" /\ level # "none"
     \/ e = "blocks" /\ BlockedInWindow(blocks) >= s.threshold}

\* dispatchWebhook(), before anything is sent: event is an alert type, or "test".
Skipped(event, s) ==
  ~s.enabled \/ s.url # "accepted" \/ (event \notin s.events /\ event # "test")

\* dispatchWebhook(), for each answer the endpoint may give.
DispatchOutcome(event, s, answer) == IF Skipped(event, s) THEN "skipped" ELSE answer

-----------------------------------------------------------------------------
OpenSettings ==
  /\ dialog = Nil
  /\ dialog' = Loaded(stored)
  /\ problem' = FALSE /\ testing' = Nil /\ ping' = Nil
  /\ UNCHANGED <<stored, bridge>>

\* update(); a threshold typed may be out of its range.
EditSettings(field, value) ==
  /\ dialog # Nil
  /\ dialog' = [dialog EXCEPT ![field] = value]
  /\ problem' = FALSE /\ ping' = Nil
  /\ UNCHANGED <<stored, bridge, testing>>

\* toggleEvent() leaves the problem on screen.
ToggleAlert(e) ==
  /\ dialog # Nil
  /\ dialog' = [dialog EXCEPT !.events = IF e \in @ THEN @ \ {e} ELSE @ \cup {e}]
  /\ ping' = Nil
  /\ UNCHANGED <<stored, bridge, problem, testing>>

ResetSettings ==
  /\ dialog # Nil
  /\ dialog' = Defaults /\ problem' = FALSE /\ ping' = Nil
  /\ UNCHANGED <<stored, bridge, testing>>

\* save(): what has a problem is not saved.  The bridge reads what is stored,
\* also when the storage refused the new settings.
SaveRules(accepted) ==
  /\ dialog # Nil
  /\ IF ConfigProblem(Normalised(dialog))
       THEN problem' = TRUE /\ UNCHANGED <<stored, bridge, dialog>>
       ELSE /\ stored' = IF accepted THEN Normalised(dialog) ELSE stored
            /\ bridge' = Loaded(stored')
            /\ dialog' = Nil /\ problem' = FALSE
  /\ UNCHANGED <<testing, ping>>

\* testWebhook(): the settings under edit, as if they were on.
TestWebhook ==
  /\ dialog # Nil /\ testing = Nil
  /\ ping' = Nil /\ problem' = (dialog.url # "accepted")
  /\ testing' = IF problem' THEN Nil ELSE [Normalised(dialog) EXCEPT !.enabled = TRUE]
  /\ UNCHANGED <<stored, bridge, dialog>>

\* The ping is over; a dialog that was closed does not show it.
PingOver(answer) ==
  /\ testing # Nil
  /\ testing' = Nil
  /\ ping' = IF dialog = Nil THEN ping ELSE DispatchOutcome("test", testing, answer)
  /\ UNCHANGED <<stored, bridge, dialog, problem>>

CloseSettings ==
  /\ dialog # Nil
  /\ dialog' = Nil
  /\ UNCHANGED <<stored, bridge, problem, testing, ping>>

\* The stored settings are removed (module OperatorStorage, or another tab), which
\* the bridge does not hear of; the overview is opened again and it reads them.
Removed == stored' = Nil /\ UNCHANGED <<bridge, dialog, problem, testing, ping>>

Reloaded == bridge' = Loaded(stored) /\ UNCHANGED <<stored, dialog, problem, testing, ping>>

Next ==
  \/ OpenSettings \/ ResetSettings \/ TestWebhook \/ CloseSettings \/ Removed \/ Reloaded
  \/ \E on \in BOOLEAN : EditSettings("enabled", on)
  \/ \E url \in Urls : EditSettings("url", url)
  \/ \E n \in 0..MaxBlocks + 1 : EditSettings("threshold", n)
  \/ \E e \in AlertTypes : ToggleAlert(e)
  \/ \E accepted \in BOOLEAN : SaveRules(accepted)
  \/ \E answer \in Outcomes \ {"skipped"} : PingOver(answer)

Spec == Init /\ [][Next]_hookVars

-----------------------------------------------------------------------------
(* Properties.                                                             *)

(* webhookConfigProblem() names "the first thing that would stop a         *)
(* dispatch" before settings are saved: no alert that is on is stopped by  *)
(* the settings.  Of every alert the bridge finds under the settings it    *)
(* acts on, none is skipped, and there is one it may find.  (Whether it is *)
(* sent is a matter of its edge, the cooldown and the post: WebhookAlerts.)*)
OnCanSend ==
  bridge.enabled =>
    LET found == EventsFor(bridge, TRUE, "expired", [b \in 1..MaxBlocks |-> Nil])
    IN found # {} /\ \A e \in found : ~Skipped(e, bridge)
=============================================================================

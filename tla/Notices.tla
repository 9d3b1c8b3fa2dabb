------------------------------- MODULE Notices -------------------------------
(***************************************************************************)
(* What interrupts an operator: the toasts of the console (useToast.ts)    *)
(* and the chime and the desktop notifications of the telemetry panel      *)
(* (TelemetryAlerts.tsx, audioAlert.ts).  The panel is mounted and         *)
(* unmounted as tabs are chosen; what the operator turned on is kept in    *)
(* the browser, which also has a permission of its own to give.  Which     *)
(* events are new is EventBuffer's; here an event is worth an alert.       *)
(***************************************************************************)
EXTENDS Naturals, SequencesExt, FiniteSetsExt

CONSTANTS
  Visible,      \* MAX_VISIBLE
  MaxToasts,    \* bound: toasts dispatched
  MaxClicks,    \* bound: clicks and mounts of the panel
  Nil

VARIABLES
  toasts,       \* the queue, oldest first
  timers,       \* the toasts that have a timer
  nextId,
  kept,         \* the settings in the browser: Nil when there are none that can be read
  panel,        \* the mounted panel: its settings, its alerter, the permission it knows
  permission,   \* what the browser has been told
  prompts,      \* requests for permission in flight
  last,         \* auxiliary: what the last event did
  clicks

noticeVars == <<toasts, timers, nextId, kept, panel, permission, prompts, last, clicks>>

Settings == [audio : BOOLEAN, desktop : BOOLEAN]
Off == [audio |-> FALSE, desktop |-> FALSE]
Permissions == {"granted", "denied", "default", "unsupported"}
Unmounted == [mounted |-> FALSE]

Ids == {toasts[i].id : i \in DOMAIN toasts}

NoticeTypes ==
  /\ Len(toasts) <= Visible /\ timers \subseteq Ids /\ nextId \in 1..MaxToasts + 1
  /\ kept \in Settings \cup {Nil} /\ permission \in Permissions /\ prompts \in 0..MaxClicks
  /\ panel.mounted =>
       /\ panel.settings \in Settings /\ panel.context \in {"idle", "ready", "unsupported"}
       /\ panel.known \in Permissions /\ panel.api \in Permissions
       /\ panel.restored \in Settings \cup {Nil} /\ panel.clicked \in BOOLEAN
       /\ panel.asked \in BOOLEAN

-----------------------------------------------------------------------------
(* The toasts                                                              *)

Lasting(t) == t.kind = "error"

\* Mutant: the oldest goes.
VictimOldest(line) == 1
\* enforceCap: the oldest that is no error goes, and the oldest of all when all are errors.
Victim(line) ==
  LET noise == SelectInSeq(line, LAMBDA t : ~Lasting(t))
  IN  IF noise > 0 THEN noise ELSE 1

Capped(line) == IF Len(line) > Visible THEN RemoveAt(line, Victim(line)) ELSE line

\* dispatch: success, info and warning go by themselves.  A duration is given, or the kind's own, which an error has not.
Dispatch(kind, timed) ==
  /\ nextId <= MaxToasts /\ nextId' = nextId + 1
  /\ toasts' = Capped(Append(toasts, [id |-> nextId, kind |-> kind, timed |-> timed]))
  /\ timers' = (timers \cup (IF timed THEN {nextId} ELSE {})) \cap
                 {toasts'[i].id : i \in DOMAIN toasts'}
  /\ UNCHANGED <<kept, panel, permission, prompts, last, clicks>>

\* filter()
Filtered(line, keep) ==
  LET left[i \in 0..Len(line)] ==
        IF i = 0 THEN <<>>
        ELSE IF line[i] \in keep THEN Append(left[i - 1], line[i]) ELSE left[i - 1]
  IN left[Len(line)]

Gone(id) == /\ toasts' = Filtered(toasts, {t \in ToSet(toasts) : t.id # id}) /\ timers' = timers \ {id}
            /\ UNCHANGED <<nextId, kept, panel, permission, prompts, last, clicks>>
Dismiss(id) == id \in Ids /\ Gone(id)
TimerFires(id) == id \in timers /\ Gone(id)
ClearToasts == /\ toasts # <<>> /\ toasts' = <<>> /\ timers' = {}
               /\ UNCHANGED <<nextId, kept, panel, permission, prompts, last, clicks>>

-----------------------------------------------------------------------------
(* The panel of alerts                                                     *)

toastVars == <<toasts, timers, nextId>>
Click == clicks < MaxClicks /\ clicks' = clicks + 1

\* loadAlertSettings
Loaded == IF kept = Nil THEN Off ELSE kept

\* The first render has the defaults.  Its effects ask for the kept settings and then keep the
\* defaults; the permission is read now, and the object that notifies carries this reading.
Mount ==
  /\ ~panel.mounted /\ Click
  /\ panel' = [mounted |-> TRUE, settings |-> Off, restored |-> Loaded, context |-> "idle",
               known |-> permission, api |-> permission, clicked |-> FALSE, asked |-> FALSE]
  /\ kept' = Off
  /\ UNCHANGED <<toastVars, permission, prompts, last>>

\* The commit that follows shows what was asked for, and keeps it.
Restore ==
  /\ panel.mounted /\ panel.restored # Nil
  /\ panel' = [panel EXCEPT !.settings = panel.restored, !.restored = Nil]
  /\ kept' = panel.restored
  /\ UNCHANGED <<toastVars, permission, prompts, last, clicks>>

Shown == panel.mounted /\ panel.restored = Nil

\* The alerter is closed.  An answer to a panel that has gone changes the permission alone, as
\* SiteSettings does.
Unmount == /\ panel.mounted /\ panel' = Unmounted /\ prompts' = 0
           /\ UNCHANGED <<toastVars, kept, permission, last, clicks>>

\* saveAlertSettings, by the effect of every commit that changes them.
Keeps(settings) == kept' = settings

\* unlock, from the click: a context is made once, or the browser has none.
ToggleAudio ==
  /\ Shown /\ Click
  /\ IF panel.settings.audio
     THEN panel' = [panel EXCEPT !.settings.audio = FALSE]
     ELSE \E context \in IF panel.context = "idle" THEN {"ready", "unsupported"}
                         ELSE {panel.context} :
            panel' = [panel EXCEPT !.settings.audio = context = "ready", !.context = context,
                                   !.clicked = TRUE]
  /\ Keeps(panel'.settings)
  /\ UNCHANGED <<toastVars, permission, prompts, last>>

\* The button is off where notifications are refused or missing.
ToggleDesktop ==
  /\ Shown /\ panel.known \in {"granted", "default"} /\ Click
  /\ panel' = [panel EXCEPT !.settings.desktop = ~@, !.asked = TRUE]
  /\ prompts' = IF panel.settings.desktop THEN prompts ELSE prompts + 1
  /\ Keeps(panel'.settings)
  /\ UNCHANGED <<toastVars, permission, last>>

\* requestNotificationPermission: a permission that was given or refused is not asked for again,
\* and a prompt may be left unanswered.
Answered(answer) ==
  /\ prompts > 0 /\ prompts' = prompts - 1
  /\ IF permission = "default" THEN answer \in {"granted", "denied", "default"}
     ELSE answer = permission
  /\ permission' = answer
  /\ panel' = [panel EXCEPT !.known = answer, !.settings.desktop = @ /\ answer = "granted"]
  /\ Keeps(panel'.settings)
  /\ UNCHANGED <<toastVars, last, clicks>>

\* An operator changes it in the settings of the browser.
SiteSettings(to) ==
  /\ permission # "unsupported" /\ to \in {"granted", "denied", "default"} \ {permission} /\ Click
  /\ permission' = to
  /\ UNCHANGED <<toastVars, kept, panel, prompts, last>>

\* Mutant: a context that waits for a click is played all the same.
PlaysLocked(p) == p.settings.audio /\ p.context # "unsupported"
\* play and deliverNotification: neither says anything when it does nothing.
Plays(p) == p.settings.audio /\ p.context = "ready"

Notifies(p) == p.settings.desktop /\ p.api = "granted"
Alert ==
  /\ panel.mounted /\ (panel.settings.audio \/ panel.settings.desktop)
  /\ last' = [rang |-> Plays(panel), notified |-> Notifies(panel) /\ permission = "granted",
              clicked |-> panel.clicked, wanted |-> panel.settings]
  /\ UNCHANGED <<toastVars, kept, panel, permission, prompts, clicks>>

Init ==
  /\ toasts = <<>> /\ timers = {} /\ nextId = 1
  /\ kept = Nil /\ panel = Unmounted /\ permission \in Permissions /\ prompts = 0
  /\ last = Nil /\ clicks = 0

ToastNext ==
  \/ \E timed \in BOOLEAN : Dispatch("error", timed)
  \/ Dispatch("success", TRUE)
  \/ \E id \in 1..MaxToasts : Dismiss(id) \/ TimerFires(id)
  \/ ClearToasts

AlertNext ==
  \/ Mount \/ Restore \/ Unmount \/ ToggleAudio \/ ToggleDesktop \/ Alert
  \/ \E answer \in Permissions : Answered(answer) \/ SiteSettings(answer)

-----------------------------------------------------------------------------
(* "a persistent error is never evicted by noise": an error leaves when it *)
(* is dismissed or its own time is over, when all are cleared, or when it  *)
(* is the oldest of too many errors.                                       *)
ErrorsStay ==
  [][ \A i \in DOMAIN toasts :
        LET t == toasts[i]
        IN  Lasting(t) /\ ~Contains(toasts', t) =>
              \/ Dismiss(t.id) \/ (TimerFires(t.id) /\ t.timed) \/ ClearToasts
              \/ i = 1 /\ \A j \in DOMAIN toasts' : Lasting(toasts'[j]) ]_noticeVars

(* Every toast that should go by itself has its timer, and no timer is     *)
(* left of a toast that has gone.                                          *)
TimersFit == timers = {toasts[i].id : i \in {j \in DOMAIN toasts : toasts[j].timed}}

(* "an alert system never ambushes anyone": nothing rings before a click   *)
(* on this panel, and nothing comes through a channel that is off.         *)
NoAmbush ==
  last # Nil => /\ last.rang => last.clicked /\ last.wanted.audio
                /\ last.notified => last.wanted.desktop

(* What an operator sees on is what the next visit finds on, and a desktop *)
(* channel that was turned on here stays on only with the permission.      *)
ChannelsAgree ==
  Shown => /\ kept = panel.settings
           /\ panel.asked /\ panel.settings.desktop /\ prompts = 0 => panel.known = "granted"
=============================================================================

----------------------------- MODULE EventBuffer -----------------------------
(***************************************************************************)
(* The event list of a tab: the StreamBuffer of lib/guard/telemetry.ts, as *)
(* components/GuardProvider.tsx and components/TelemetryFeed.tsx drive it, *)
(* and the chime of components/TelemetryAlerts.tsx, which the tracker of   *)
(* lib/guard/audioAlert.ts rings for the rows.                             *)
(*                                                                         *)
(* Events come in batches, some of them again.  The rows can be paused,    *)
(* cleared, replaced by the events of a historical range and dropped with  *)
(* a switch of guard.  Every event is one worth a chime, and its identity  *)
(* is one key.  The demo's events, which are never compared, are left out. *)
(***************************************************************************)
EXTENDS Naturals, SequencesExt

CONSTANTS
  Events,
  Limit,          \* STREAM_BUFFER_LIMIT, and no smaller a page of a range
  Memory,         \* the keys the tracker remembers
  MaxBatch        \* bounds the events of a batch

VARIABLES
  rows, pending, paused, seen, dropped,     \* StreamBuffer
  armed,          \* alertsArmed()
  keys,           \* the tracker's, oldest first
  chimed,         \* auxiliary: how often a row's event was rung for, up to twice
  replaced,       \* auxiliary: the rows were once replaced or dropped
  since,          \* auxiliary: all that was accepted while paused, newest first
  before          \* auxiliary: and before that, since the rows were last emptied

bufferVars == <<rows, pending, paused, seen, dropped, since, before>>
alertVars == <<armed, keys, chimed>>
vars == <<bufferVars, alertVars, replaced>>

BufferTypes ==
  /\ rows \in Seq(Events) /\ pending \in Seq(Events)
  /\ paused \in BOOLEAN /\ seen \subseteq Events /\ dropped \in Nat
  /\ armed \in BOOLEAN /\ keys \in Seq(Events)
  /\ chimed \in [Events -> 0..2] /\ replaced \in BOOLEAN
  /\ since \in Seq(Events) /\ before \in Seq(Events)

Init ==
  /\ rows = <<>> /\ pending = <<>> /\ paused = FALSE /\ seen = {} /\ dropped = 0
  /\ armed = FALSE /\ keys = <<>> /\ chimed = [e \in Events |-> 0]
  /\ replaced = FALSE
  /\ since = <<>> /\ before = <<>>

\* What a poll brings, where an event may come twice, and what a range holds.
Polls == UNION {[1..k -> Events] : k \in 1..MaxBatch}
Ranges == {s \in UNION {[1..k -> Events] : k \in 0..Limit} : IsInjective(s)}

\* slice(0, limit)
Top(s) == SubSeq(s, 1, IF Len(s) < Limit THEN Len(s) ELSE Limit)

-----------------------------------------------------------------------------
(* The chime.                                                              *)

\* Mutant: the tracker remembers as many keys as there are rows.
RemembersRows(tracker, e) ==
  IF e \in ToSet(tracker.keys) THEN tracker
  ELSE [keys |-> LET longer == Append(tracker.keys, e)
                 IN IF Len(longer) > Limit THEN Tail(longer) ELSE longer,
        fresh |-> tracker.fresh \cup {e}]

\* One step of unseen(): a key that is new is remembered, and the oldest of too
\* many forgotten.
Remember(tracker, e) ==
  IF e \in ToSet(tracker.keys) THEN tracker
  ELSE [keys |-> LET longer == Append(tracker.keys, e)
                 IN IF Len(longer) > Memory THEN Tail(longer) ELSE longer,
        fresh |-> tracker.fresh \cup {e}]

\* unseen(), of the rows from the newest on.
Unseen(shown) ==
  LET upTo[i \in 0..Len(shown)] ==
        IF i = 0 THEN [keys |-> keys, fresh |-> {}] ELSE Remember(upTo[i - 1], shown[i])
  IN upTo[Len(shown)]

\* The effect of TelemetryAlerts, on rows that changed or alerts that were armed.
Ring(shown, arm) ==
  LET tracker == IF arm THEN Unseen(shown) ELSE [keys |-> keys, fresh |-> {}]
  IN /\ armed' = arm
     /\ keys' = tracker.keys
     /\ chimed' = [e \in Events |->
          IF e \notin ToSet(shown) THEN 0
          ELSE IF e \in tracker.fresh /\ chimed[e] < 2 THEN chimed[e] + 1 ELSE chimed[e]]

ToggleAlerts ==
  /\ Ring(rows, ~armed)
  /\ UNCHANGED <<bufferVars, replaced>>

-----------------------------------------------------------------------------
(* The buffer.                                                             *)

\* The events of a batch that were not seen, each once.
Fresh(batch) ==
  LET upTo[i \in 0..Len(batch)] ==
        IF i = 0 THEN <<>>
        ELSE IF batch[i] \in seen \cup ToSet(upTo[i - 1]) THEN upTo[i - 1]
        ELSE Append(upTo[i - 1], batch[i])
  IN upTo[Len(batch)]

\* pushEvents(): a round of the tail, or the refusals of a write.
Ingest(batch) ==
  LET fresh == Fresh(batch)
      queued == fresh \o pending
  IN /\ fresh # <<>>
     /\ seen' = seen \cup ToSet(fresh)
     /\ IF paused
          THEN /\ pending' = Top(queued)
               /\ dropped' = dropped + (Len(queued) - Len(Top(queued)))
               /\ since' = fresh \o since
               /\ UNCHANGED <<rows, before>>
          ELSE /\ rows' = Top(fresh \o rows)
               /\ before' = fresh \o before
               /\ UNCHANGED <<pending, dropped, since>>
     /\ Ring(rows', armed)
     /\ UNCHANGED <<paused, replaced>>

Pause ==
  /\ ~paused
  /\ paused' = TRUE
  /\ UNCHANGED <<rows, pending, seen, dropped, since, before, alertVars, replaced>>

\* Mutant: what was queued goes under the rows.
QueueUnderRows == Top(rows \o pending)

\* The queue is put on top of the rows.
QueueOnRows == Top(pending \o rows)

Resume ==
  /\ paused
  /\ paused' = FALSE
  /\ rows' = QueueOnRows
  /\ pending' = <<>> /\ dropped' = 0
  /\ before' = since \o before /\ since' = <<>>
  /\ Ring(rows', armed)
  /\ UNCHANGED <<seen, replaced>>

\* clearEvents(), of the button and on the way back to the live tail: what was
\* queued and what was seen stays.
Clear ==
  /\ rows' = <<>> /\ before' = <<>>
  /\ Ring(rows', armed)
  /\ UNCHANGED <<pending, paused, seen, dropped, since, replaced>>

\* resetEvents(), with a switch of guard or the idle lock.
Reset ==
  /\ rows' = <<>> /\ pending' = <<>> /\ paused' = FALSE /\ seen' = {} /\ dropped' = 0
  /\ since' = <<>> /\ before' = <<>>
  /\ replaced' = TRUE
  /\ Ring(rows', armed)

\* queryRange(): an answer replaces the buffer, whatever has become of it, of
\* the guard and of the tail since the range was asked for; an error is told.
AnswerRange(window) ==
  /\ rows' = window /\ seen' = ToSet(window)
  /\ pending' = <<>> /\ paused' = FALSE /\ dropped' = 0
  /\ since' = <<>> /\ before' = window
  /\ replaced' = TRUE
  /\ Ring(rows', armed)

Next ==
  \/ \E batch \in Polls : Ingest(batch)
  \/ Pause \/ Resume \/ Clear \/ Reset
  \/ \E window \in Ranges : AnswerRange(window)
  \/ ToggleAlerts

Spec == Init /\ [][Next]_vars

-----------------------------------------------------------------------------
(* Properties.                                                             *)

(* "Resuming applies them exactly as if the stream had never been paused,  *)
(* so a pause cannot duplicate a row or skip past one": rows and queue are *)
(* the newest of what was accepted before and since the pause, the rest of *)
(* the queue is told as dropped, and no event is held twice.               *)
PauseLosesNothing ==
  /\ rows = Top(before)
  /\ pending = Top(since)
  /\ dropped = Len(since) - Len(pending)
  /\ ~paused => since = <<>>
  /\ IsInjective(since \o before)

(* "It must not re-chime for an event it announced two minutes ago": while *)
(* an event of the live tail stays in the rows it is rung for once,        *)
(* although the tracker forgets keys and looks at all the rows each time.  *)
(* (A range, or the guard come back to, brings events whose keys are old   *)
(* and forgotten while they are shown; they are rung for again.)           *)
RowChimesOnce == ~replaced => \A e \in Events : chimed[e] <= 1
=============================================================================

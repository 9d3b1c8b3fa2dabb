------------------------------ MODULE StatusView -------------------------------
(***************************************************************************)
(* What the overview says of the dead-man switch: the alert of             *)
(* lib/guard/dmsAlert.ts, the clock it is projected with                   *)
(* (lib/guard/ledgerTime.ts) and the banner of components/StatusPanel.tsx. *)
(*                                                                         *)
(* A snapshot is read field by field (readGuardSnapshot() of               *)
(* lib/guard/guardOps.ts), each answer with the state of the ledger it was *)
(* read at, and one field may be read again.  The clock of the browser is  *)
(* wrong by an amount that does not change.  A grace of 0 stands for a     *)
(* switch that is off and for no policy.  The other fields are left out.   *)
(***************************************************************************)
EXTENDS Integers

CONSTANTS
  Graces,         \* the grace windows a policy may install
  Skews,          \* what the browser's clock may be wrong by
  WarningOf,      \* the alert warns below 1/WarningOf of the grace
  CriticalOf,     \* and is critical below 1/CriticalOf
  Soon,           \* DMS_WARNING_SECONDS
  MaxAge,         \* LEDGER_CLOCK_MAX_AGE_SECS
  MaxRead,        \* the longest a refresh or a retry takes
  MaxTime,        \* bounds the ledger's clock
  MaxWrites,      \* bounds the heartbeats and the policies installed
  NotRead,        \* a read that failed
  Nil

VARIABLES
  time,           \* the ledger's clock
  skew,
  beat,           \* last_heartbeat on chain, 0 for none
  grace,          \* the installed dms_grace_secs
  writes,         \* how often they changed
  reading,        \* the refresh in flight, or Nil
  again,          \* retryRead() in flight, or Nil
  shown           \* the snapshot, or Nil

viewVars == <<time, skew, beat, grace, writes, reading, again, shown>>

-----------------------------------------------------------------------------
Browser == time + skew

StatusFields == {"status", "policy"}

\* A read that succeeded, at a time of the ledger.
Value == [now : 0..MaxTime, beat : 0..MaxTime, expired : BOOLEAN, grace : Graces \cup {0}]

Answers == [StatusFields -> Value \cup {NotRead, Nil}]

ViewTypes ==
  /\ time \in 0..MaxTime /\ skew \in Skews
  /\ beat \in 0..MaxTime /\ grace \in Graces /\ writes \in 0..MaxWrites
  /\ reading = Nil \/ (reading.since \in 0..MaxTime /\ reading.got \in Answers)
  /\ again = Nil \/ (again.field \in StatusFields /\ again.got \in Value \cup {NotRead})
  /\ shown = Nil \/ (shown.at \in Int /\ shown.got \in Answers)

Init ==
  /\ time = 1 /\ skew \in Skews /\ beat = 0 /\ grace \in Graces /\ writes = 0
  /\ reading = Nil /\ again = Nil /\ shown = Nil

-----------------------------------------------------------------------------
(* The alert, and its projection.                                          *)

Rank == [none |-> 0, warning |-> 1, critical |-> 2, expired |-> 3]

\* classifyDmsLevel()
Level(remaining, total) ==
  IF remaining <= 0 THEN "expired"
  ELSE IF remaining * CriticalOf < total THEN "critical"
  ELSE IF remaining * WarningOf < total \/ remaining < Soon THEN "warning"
  ELSE "none"

\* evaluateDmsAlert(): without a policy there is no countdown, and the verdict of
\* the chain stands.
Alert(got) ==
  LET s == got["status"]
      total == IF got["policy"] \in Value THEN got["policy"].grace ELSE 0
      runs == s # NotRead /\ s.beat # 0 /\ total > 0
      remaining == IF runs THEN s.beat + total - s.now ELSE Nil
  IN [remaining |-> remaining, total |-> total,
      level |-> IF s = NotRead THEN "none"
                ELSE IF s.expired THEN "expired"
                ELSE IF runs THEN Level(remaining, total) ELSE "none"]

\* resolveReferenceTime(): the age of the reading, never negative.
Age(snapshot) == IF Browser > snapshot.at THEN Browser - snapshot.at ELSE 0

\* Mutant: the countdown is taken to the browser's clock.
ProjectedToBrowser(snapshot) ==
  LET alert == Alert(snapshot.got)
      s == snapshot.got["status"]
      left == s.beat + alert.total - Browser
  IN IF alert.remaining # Nil /\ Age(snapshot) <= MaxAge
     THEN [remaining |-> left, exact |-> TRUE,
           level |-> IF alert.level = "expired" THEN "expired" ELSE Level(left, alert.total)]
     ELSE [remaining |-> alert.remaining, exact |-> FALSE, level |-> alert.level]

\* projectDmsAlert(): a reading that is fresh is counted down by its age, one that
\* is not stays as it was read.
Projected(snapshot) ==
  LET alert == Alert(snapshot.got)
      left == alert.remaining - Age(snapshot)
  IN IF alert.remaining # Nil /\ Age(snapshot) <= MaxAge
     THEN [remaining |-> left, exact |-> TRUE,
           level |-> IF alert.level = "expired" THEN "expired" ELSE Level(left, alert.total)]
     ELSE [remaining |-> alert.remaining, exact |-> FALSE, level |-> alert.level]

\* The banner, which is there while the alert as it was read is one.
Banner == shown # Nil /\ Alert(shown.got).level # "none"

-----------------------------------------------------------------------------
Blank == [f \in StatusFields |-> Nil]

LedgerAnswers(f) ==
  IF f = "status"
  THEN [now |-> time, beat |-> beat, expired |-> beat # 0 /\ grace > 0 /\ time > beat + grace,
        grace |-> 0]
  ELSE [now |-> time, beat |-> 0, expired |-> FALSE, grace |-> grace]

Tick ==
  /\ time < MaxTime
  /\ \A read \in {reading, again} \ {Nil} : time - read.since < MaxRead
  /\ time' = time + 1
  /\ UNCHANGED <<skew, beat, grace, writes, reading, again, shown>>

\* The agent beats; the admin installs another policy.
Writes == writes < MaxWrites /\ writes' = writes + 1

Heartbeat ==
  /\ Writes
  /\ beat' = time
  /\ UNCHANGED <<time, skew, grace, reading, again, shown>>

Install(g) ==
  /\ Writes
  /\ grace' = g
  /\ UNCHANGED <<time, skew, beat, reading, again, shown>>

BeginRead ==
  /\ reading = Nil
  /\ reading' = [since |-> time, got |-> Blank]
  /\ UNCHANGED <<time, skew, beat, grace, writes, again, shown>>

\* A field is answered, or its read fails.
FieldRead(f, ok) ==
  /\ reading # Nil /\ reading.got[f] = Nil
  /\ reading' = [reading EXCEPT !.got[f] = IF ok THEN LedgerAnswers(f) ELSE NotRead]
  /\ UNCHANGED <<time, skew, beat, grace, writes, again, shown>>

\* All are answered, the slowest last.
SnapshotRead ==
  /\ reading # Nil /\ \A f \in StatusFields : reading.got[f] # Nil
  /\ shown' = [at |-> Browser, got |-> reading.got]
  /\ reading' = Nil
  /\ UNCHANGED <<time, skew, beat, grace, writes, again>>

\* retryRead() reads one field again; the ledger answers at once,
\* and the answer arrives later, into the snapshot on screen by then.
Retry(f, ok) ==
  /\ again = Nil /\ shown # Nil /\ shown.got[f] = NotRead
  /\ again' = [field |-> f, since |-> time, got |-> IF ok THEN LedgerAnswers(f) ELSE NotRead]
  /\ UNCHANGED <<time, skew, beat, grace, writes, reading, shown>>

EndRetry ==
  /\ again # Nil
  /\ shown' = [shown EXCEPT !.got[again.field] = again.got]
  /\ again' = Nil
  /\ UNCHANGED <<time, skew, beat, grace, writes, reading>>

Next ==
  \/ Tick \/ Heartbeat \/ BeginRead \/ SnapshotRead \/ EndRetry
  \/ \E g \in Graces : Install(g)
  \/ \E f \in StatusFields, ok \in BOOLEAN : FieldRead(f, ok) \/ Retry(f, ok)

Spec == Init /\ [][Next]_viewVars

-----------------------------------------------------------------------------
(* Properties.                                                             *)

(* A countdown that is said to be chain-verified promises, of the          *)
(* heartbeat and the grace that were read, no more than was left at the    *)
(* slowest field of the read, whatever the browser's clock is; and no      *)
(* level is below the one that was read.                                   *)
CountdownSound ==
  Banner =>
    LET told == Projected(shown)
        s == shown.got["status"]
    IN /\ Rank[told.level] >= Rank[Alert(shown.got).level]
       /\ told.exact =>
            told.remaining <= s.beat + shown.got["policy"].grace - time + MaxRead
=============================================================================

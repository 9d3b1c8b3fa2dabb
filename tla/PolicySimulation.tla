-------------------------- MODULE PolicySimulation --------------------------
(***************************************************************************)
(* Two rehearsals that read the console and write nothing.                 *)
(*                                                                         *)
(* The policy form replays the rows of the feed against the policy being   *)
(* typed, and tells how many calls it would have allowed.  The status      *)
(* panel plays a dead-man switch running out on top of a real status read. *)
(* Times are in seconds; rounding below a second is left out.              *)
(***************************************************************************)
EXTENDS Naturals, Integers, Sequences, SequencesExt

CONSTANTS
  Calls,        \* what may arrive: [at, amount], the amount Nil when not judgeable
  Candidates,   \* policies an operator may type
  RowLimit,     \* rows the feed keeps
  SimGrace,     \* length of the rehearsed countdown
  Horizon,      \* how far past the trip a rehearsal counts
  MaxClock,     \* bound on the wall clock
  Nil

VARIABLES
  fed,          \* the rows of the feed, newest first
  candidate,    \* the policy the form holds, Nil while it does not validate
  status,       \* the last status read: [frozen, lastBeat, at]
  rehearsal,    \* the rehearsal store
  wallClock

simVars == <<fed, candidate, status, rehearsal, wallClock>>

Scenarios == {"expiring", "tripped"}

IdleRehearsal == [scenario |-> Nil, startedAt |-> 0, now |-> 0]

-----------------------------------------------------------------------------
(* The replay of the feed against a candidate policy.                      *)

IsJudgeable(e) == e.amount # Nil

Spent(window) == FoldLeft(LAMBDA sum, w : sum + w.amount, 0, window)

\* Mutant: an entry as old as the window still counts.
DrainedLate(window, p, at) ==
  IF p.windowSecs = 0 THEN window
  ELSE LET kept == SelectInSeq(window, LAMBDA w : w.at >= at - p.windowSecs)
       IN  IF kept = 0 THEN <<>> ELSE SubSeq(window, kept, Len(window))

\* Entries leave the front of the window, until the first that still counts.
Drained(window, p, at) ==
  IF p.windowSecs = 0 THEN window
  ELSE LET kept == SelectInSeq(window, LAMBDA w : w.at > at - p.windowSecs)
       IN  IF kept = 0 THEN <<>> ELSE SubSeq(window, kept, Len(window))

\* The first check that refuses a call, in the order the contract makes them.
Verdict(p, e, spent) ==
  CASE p.paused -> "policy_paused"
    [] ~p.paused /\ (\/ p.from > 0 /\ e.at < p.from
                     \/ p.until > 0 /\ e.at >= p.until) -> "policy_not_active"
    [] OTHER -> IF p.perTx > 0 /\ e.amount > p.perTx THEN "per_tx_cap"
                ELSE IF p.cap > 0 /\ spent + e.amount > p.cap THEN "window_cap_exceeded"
                ELSE "approved"

Outcome(verdict) ==
  CASE verdict \in {"policy_paused", "policy_not_active", "per_tx_cap"} -> "rejected"
    [] verdict = "window_cap_exceeded" -> "throttled"
    [] OTHER -> verdict

SimulatePolicy(events, p) ==
  LET Judge(acc, e) ==
        LET before  == Drained(acc.window, p, e.at)
            verdict == Verdict(p, e, Spent(before))
            after   == IF verdict = "approved"
                       THEN Append(before, [at |-> e.at, amount |-> e.amount]) ELSE before
        IN  [window |-> after,
             judged |-> Append(acc.judged, verdict),
             curve  |-> Append(acc.curve, [at |-> e.at, spend |-> Spent(after)])]
      Step(acc, e) ==
        IF IsJudgeable(e) THEN Judge(acc, e)
        ELSE [acc EXCEPT !.judged = Append(@, "unjudged")]
  IN  FoldLeft(Step, [window |-> <<>>, judged |-> <<>>, curve |-> <<>>], events)

\* The counts of the summary line.
Count(judged, outcome) ==
  Len(SelectSeq(judged, LAMBDA v : Outcome(v) = outcome))

Summarize(sim) ==
  [approved  |-> Count(sim.judged, "approved"),
   throttled |-> Count(sim.judged, "throttled"),
   rejected  |-> Count(sim.judged, "rejected"),
   perTxCap  |-> Len(SelectSeq(sim.judged, LAMBDA v : v = "per_tx_cap"))]

\* What the form shows.
Simulation == SimulatePolicy(fed, candidate)

-----------------------------------------------------------------------------
(* The rehearsal of the dead-man switch.                                   *)

Elapsed(r) == IF r.now > r.startedAt THEN r.now - r.startedAt ELSE 0

Remaining(r) ==
  IF r.scenario = "tripped"
  THEN IF Elapsed(r) > Horizon THEN -Horizon ELSE -Elapsed(r)
  ELSE IF SimGrace - Elapsed(r) < -Horizon THEN -Horizon ELSE SimGrace - Elapsed(r)

TickScenario(r) ==
  IF r.scenario = "tripped" \/ Remaining(r) <= -Horizon THEN "fired"
  ELSE IF Remaining(r) <= 0 THEN "expired" ELSE "within-grace"

\* Mutant: the silence goes on growing after the switch has tripped.
SilenceGrows(r) ==
  LET drained == SimGrace - Remaining(r) IN IF drained < 0 THEN 0 ELSE drained

SilenceAge(r) ==
  LET drained == SimGrace - Remaining(r)
  IN  IF drained > SimGrace THEN SimGrace ELSE IF drained < 0 THEN 0 ELSE drained

\* The status read with the two fields of the dead-man switch replaced.
SimulatedStatus(real, r) ==
  [real EXCEPT !.lastBeat = real.at - SilenceAge(r),
               !.expired = TickScenario(r) \in {"expired", "fired"}]

\* What the panel shows: a rehearsal projects a read, and needs one.
ShownStatus ==
  IF status = Nil \/ rehearsal.scenario = Nil THEN status
  ELSE SimulatedStatus(status, rehearsal)

-----------------------------------------------------------------------------

SimTypes ==
  /\ Len(fed) <= RowLimit
  /\ \A i \in 1 .. Len(fed) : fed[i] \in Calls
  /\ candidate \in Candidates \cup {Nil}
  /\ status = Nil \/ status.at \in 0 .. MaxClock
  /\ rehearsal.scenario \in Scenarios \cup {Nil}
  /\ wallClock \in 0 .. MaxClock

Init ==
  /\ fed = <<>>
  /\ candidate = Nil
  /\ status = Nil
  /\ rehearsal = IdleRehearsal
  /\ wallClock = 0

\* The tail hands over the next committed event: it goes on top of the rows.
Arrive(e) ==
  /\ Len(fed) > 0 => e.at >= fed[1].at
  /\ LET rows == <<e>> \o fed
     IN  fed' = SubSeq(rows, 1, IF Len(rows) > RowLimit THEN RowLimit ELSE Len(rows))
  /\ UNCHANGED <<candidate, status, rehearsal, wallClock>>

\* The form validates, or stops validating.
Propose(p) ==
  /\ candidate # p
  /\ candidate' = p
  /\ UNCHANGED <<fed, status, rehearsal, wallClock>>

\* A snapshot brings a status, or a read that failed.
StatusRead(s) ==
  /\ status # s
  /\ status' = s
  /\ UNCHANGED <<fed, candidate, rehearsal, wallClock>>

StartRehearsal(scenario) ==
  /\ rehearsal.scenario = Nil
  /\ rehearsal' = [scenario |-> scenario, startedAt |-> wallClock, now |-> wallClock]
  /\ UNCHANGED <<fed, candidate, status, wallClock>>

StopRehearsal ==
  /\ rehearsal.scenario # Nil
  /\ rehearsal' = IdleRehearsal
  /\ UNCHANGED <<fed, candidate, status, wallClock>>

\* The interval of the store, while a rehearsal runs.
AdvanceRehearsal ==
  /\ rehearsal.scenario # Nil
  /\ rehearsal.now # wallClock
  /\ rehearsal' = [rehearsal EXCEPT !.now = wallClock]
  /\ UNCHANGED <<fed, candidate, status, wallClock>>

WallTicks ==
  /\ wallClock < MaxClock
  /\ wallClock' = wallClock + 1
  /\ UNCHANGED <<fed, candidate, status, rehearsal>>

StatusReads ==
  {[frozen |-> f, expired |-> FALSE, lastBeat |-> wallClock, at |-> wallClock] : f \in BOOLEAN}
    \cup {Nil}

Next ==
  \/ \E e \in Calls : Arrive(e)
  \/ \E p \in Candidates \cup {Nil} : Propose(p)
  \/ \E s \in StatusReads : StatusRead(s)
  \/ \E scenario \in Scenarios : StartRehearsal(scenario)
  \/ StopRehearsal
  \/ AdvanceRehearsal
  \/ WallTicks

Spec == Init /\ [][Next]_simVars

-----------------------------------------------------------------------------

\* The rows in ledger order.
InLedgerOrder == Reverse(fed)

\* The reference: a call counts against the window of every later call less
\* than a window length after it.
WindowAt(p, order, approved, i) ==
  LET counted == {j \in approved : p.windowSecs = 0 \/ order[j].at > order[i].at - p.windowSecs}
  IN  FoldLeft(LAMBDA sum, j : sum + (IF j \in counted THEN order[j].amount ELSE 0), 0,
               [j \in 1 .. i - 1 |-> j])

(* The replay is exact: fed calls in ledger order, every verdict is the    *)
(* one the sum of the approved calls still inside the window gives, and no *)
(* approval takes that sum past the cap (policySimulator.ts, the rolling   *)
(* window of simulatePolicy); and the counts shown account for every call  *)
(* that can be judged.                                                     *)
ReplayIsExact ==
  candidate # Nil =>
    LET order    == InLedgerOrder
        judged   == SimulatePolicy(order, candidate).judged
        approved == {i \in 1 .. Len(order) : judged[i] = "approved"}
        counts   == Summarize(Simulation)
    IN  /\ \A i \in 1 .. Len(order) :
             IsJudgeable(order[i]) =>
               LET before == WindowAt(candidate, order, approved, i)
               IN  /\ judged[i] = Verdict(candidate, order[i], before)
                   /\ i \in approved /\ candidate.cap > 0 =>
                        before + order[i].amount <= candidate.cap
        /\ counts.approved + counts.throttled + counts.rejected
             = Len(SelectSeq(fed, IsJudgeable))

(* The story a rehearsal tells holds together: the heartbeat it shows is   *)
(* never more than one grace old, a switch shown as expired is exactly one *)
(* grace old, and a freeze by the admin is never part of it                *)
(* (dmsSimulator.ts, simulatedStatus and simulatedHeartbeat).              *)
RehearsalHoldsTogether ==
  status # Nil =>
    /\ ShownStatus.at - ShownStatus.lastBeat <= SimGrace
    /\ ShownStatus.expired => ShownStatus.at - ShownStatus.lastBeat = SimGrace
    /\ ShownStatus.frozen = status.frozen
=============================================================================

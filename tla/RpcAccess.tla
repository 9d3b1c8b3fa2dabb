------------------------------ MODULE RpcAccess ------------------------------
(***************************************************************************)
(* How the console asks the network: a call that is tried again            *)
(* (withBackoff), with the wait a provider asks for and a caller that      *)
(* gives up; a read that races its deadline (withTimeout), with what each  *)
(* kind of read makes of an answer, an error and the deadline; the pool    *)
(* that changes endpoints (RpcPool); and the probe of an endpoint's health *)
(* (probeRpcHealth, WalletBar).  They share nothing: a behaviour is about  *)
(* one of them.                                                            *)
(***************************************************************************)
EXTENDS Naturals, Sequences, Functions

CONSTANTS
  Failures,       \* errors a call may end with: their text, status and Retry-After values
  Retries,        \* maxRetries
  BaseDelay, Ceiling,   \* baseDelayMs and maxDelayMs
  HintCeiling,    \* maxRetryAfterMs
  Endpoints,      \* sequence: the primary and the fallbacks
  MaxRequests,    \* bound: requests of the pool in flight
  MaxNow,         \* bound: the clock
  MaxProbes,      \* bound: probes
  Nil

VARIABLES
  now,
  call,       \* the retrying call
  failedAt,   \* the last failure that was retried, and when it came
  read,       \* a read under its deadline
  answer,     \* what the network answered it, whenever that was
  pool,       \* the pool: current and fallback endpoints, failures counted, the health timer
  requests,   \* the pool's requests in flight, by endpoint
  probe       \* the probe in flight, and what the bar says

accessVars == <<now, call, failedAt, read, answer, pool, requests, probe>>

Texts == {"NOT_FOUND", "TIMEOUT", "TRY_AGAIN_LATER", "429", "14290", "rate limit", "other"}
Ends == {"value", "error", "cancelled"}
Answers == {"value", "absent", "refused", "rejected"}
Urls == Range(Endpoints)
FailLimit == 3
Verdicts == {"healthy", "unavailable", "malformed", "timeout", "network"}
\* A status or a policy is simulated, an entry and a balance are looked up in the ledger, an
\* identity is the bytecode and the instance of a contract, a spec its interface.
Kinds == {"status", "policy", "entry", "balance", "identity", "spec"}
Tellings == {"value", "null", "failure", "throws", "timed out"}

AccessTypes ==
  /\ now \in 0..MaxNow
  /\ call.stage \in {"idle", "calling", "waiting", "done"} /\ call.attempt \in 0..Retries
  /\ call.tries \in 0..Retries + 1 /\ call.aborted \in BOOLEAN /\ call.due \in Nat
  /\ call.result \in Ends \cup {Nil}
  /\ failedAt # Nil => failedAt.failure \in Failures /\ failedAt.at \in 0..now
  /\ read.kind \in Kinds \cup {Nil} /\ read.told \in Tellings \cup {Nil} /\ read.running \in BOOLEAN
  /\ answer \in Answers \cup {Nil}
  /\ pool.current \in Urls /\ pool.fallbacks \in Seq(Urls) /\ pool.failures \in 0..FailLimit - 1
  /\ pool.timer \in BOOLEAN /\ \A u \in Urls : requests[u] \in 0..MaxRequests
  /\ probe.stage \in {"idle", "asking", "reading"} /\ probe.begun \in 0..MaxProbes
  /\ probe.said \in Verdicts \cup {Nil}

-----------------------------------------------------------------------------
(* The provider's hint                                                     *)

Absent == [form |-> "absent", n |-> 0]

\* parseRetryAfter: a delay, or Nil for what is no hint: text, zero, a date gone by.
Requested(hint, t) ==
  IF \/ hint.form = "delta" /\ hint.n > 0
     \/ hint.form = "date" /\ hint.n > t
  THEN hint.n - (IF hint.form = "date" THEN t ELSE 0)
  ELSE Nil

\* retryAfterFromError: the property of the error before its headers and those of the response.
Carried(f) ==
  IF f.property # Absent THEN f.property
  ELSE IF f.headers # Absent THEN f.headers ELSE f.response

\* The words that are searched for occur in other texts: a ledger's number may hold 429.
Retried(f) == f.text \in {"NOT_FOUND", "TIMEOUT", "TRY_AGAIN_LATER", "429", "14290"}
RateLimited(f) == f.status = 429 \/ f.text \in {"429", "TRY_AGAIN_LATER", "rate limit"}

Lesser(a, b) == IF a < b THEN a ELSE b

\* retryWait: the hint of a rate-limited answer, clamped, or this client's own jittered backoff.
RetryWaits(f, attempt, t) ==
  LET asked == Requested(Carried(f), t)
  IN  IF RateLimited(f) /\ asked # Nil
      THEN {[source |-> "retry-after", delay |-> Lesser(asked, HintCeiling),
             requested |-> asked, clamped |-> asked > HintCeiling]}
      ELSE {[source |-> "backoff", delay |-> d, requested |-> Nil, clamped |-> FALSE] :
              d \in 0..Lesser(Ceiling, BaseDelay * 2 ^ attempt)}
\* Mutant: the wait of the client's own schedule, whatever the provider asked for.
RetryWaitsBlind(f, attempt, t) ==
  {[source |-> "backoff", delay |-> d, requested |-> Nil, clamped |-> FALSE] :
     d \in 0..Lesser(Ceiling, BaseDelay * 2 ^ attempt)}

-----------------------------------------------------------------------------
(* The retrying call                                                       *)

Subjects == {"call", "pool", "probe"} \cup Kinds

Init ==
  /\ now = 0 /\ failedAt = Nil /\ answer = Nil
  /\ \E aborted \in BOOLEAN, subject \in Subjects :
       /\ call = [stage |-> IF subject = "call" THEN "idle" ELSE "done", attempt |-> 0,
                  tries |-> 0, due |-> 0, wait |-> Nil, aborted |-> aborted, result |-> Nil]
       /\ read = [kind |-> IF subject \in Kinds THEN subject ELSE Nil, told |-> Nil,
                  running |-> FALSE]
       /\ pool = [open |-> subject = "pool", current |-> Head(Endpoints),
                  fallbacks |-> Tail(Endpoints), failures |-> 0, timer |-> FALSE]
       /\ probe = [stage |-> IF subject = "probe" THEN "asking" ELSE "idle", said |-> Nil,
                   begun |-> IF subject = "probe" THEN 1 ELSE MaxProbes]
  /\ requests = [u \in Urls |-> 0]

readVars == <<read, answer>>
callVars == <<now, call, failedAt>>
poolVars == <<pool, requests>>

Done(c, result) == [c EXCEPT !.stage = "done", !.result = result]

\* The top of the loop: a signal that was raised stops it before the operation is called.
Attempt(c) == IF c.aborted THEN Done(c, "cancelled")
              ELSE [c EXCEPT !.stage = "calling", !.tries = @ + 1]

BeginCall == /\ call.stage = "idle" /\ call' = Attempt(call)
             /\ UNCHANGED <<now, failedAt, readVars, poolVars, probe>>

\* A result that arrives after the signal is returned all the same.
CallAnswers == /\ call.stage = "calling" /\ call' = Done(call, "value")
               /\ UNCHANGED <<now, failedAt, readVars, poolVars, probe>>

\* The wait is told (onWait), and whoever hears of it may cancel; a cancelled wait never begins.
CallFails(f) ==
  /\ call.stage = "calling"
  /\ IF call.attempt >= Retries \/ ~Retried(f)
     THEN call' = Done(call, "error") /\ UNCHANGED failedAt
     ELSE /\ failedAt' = [failure |-> f, at |-> now]
          /\ \E wait \in RetryWaits(f, call.attempt, now), cancels \in BOOLEAN :
               LET told == [call EXCEPT !.wait = wait, !.aborted = @ \/ cancels]
               IN  call' = IF told.aborted THEN Done(told, "cancelled")
                           ELSE [told EXCEPT !.stage = "waiting", !.due = now + wait.delay]
  /\ UNCHANGED <<now, readVars, poolVars, probe>>

\* The timer of a busy or a hidden page runs late, never early.
WaitOver ==
  /\ call.stage = "waiting" /\ now >= call.due
  /\ call' = Attempt([call EXCEPT !.attempt = @ + 1])
  /\ UNCHANGED <<now, failedAt, readVars, poolVars, probe>>

\* A wait in progress ends with the signal; an operation in progress is not stopped by it.
Cancel ==
  /\ ~call.aborted /\ call.stage \in {"calling", "waiting"}
  /\ LET told == [call EXCEPT !.aborted = TRUE]
     IN  call' = IF call.stage = "waiting" THEN Done(told, "cancelled") ELSE told
  /\ UNCHANGED <<now, failedAt, readVars, poolVars, probe>>

Passes == /\ call.stage # "done" /\ now < MaxNow /\ now' = now + 1
          /\ UNCHANGED <<call, failedAt, readVars, poolVars, probe>>

-----------------------------------------------------------------------------
(* A read and its deadline                                                 *)

\* Which reads have a deadline: all but the balance that decides the freeze challenge.
Timed(kind) == kind # "balance"

\* What a read makes of an answer.  No policy, no entry and no balance are answers; a refusal
\* and a transport error are failures, and thrown by the reads that promise a bare value.
Empty == {"policy", "entry", "balance"}
Tell(kind, a) ==
  CASE a = "value" -> "value"
    [] a = "absent" /\ kind \in Empty -> "null"
    [] kind = "identity" -> "throws"
    [] OTHER -> "failure"
\* Mutant: an error reads as an empty entry.
TellEmpty(kind, a) ==
  CASE a = "value" -> "value"
    [] kind \in Empty -> "null"
    [] kind = "identity" -> "throws"
    [] OTHER -> "failure"

BeginRead ==
  /\ read.kind # Nil /\ ~read.running /\ read.told = Nil
  /\ read' = [read EXCEPT !.running = TRUE]
  /\ UNCHANGED <<callVars, answer, poolVars, probe>>

\* The first to settle wins the race, and the timer goes with it.
ReadAnswered(a) ==
  /\ read.running \/ read.told # Nil
  /\ answer = Nil /\ answer' = a
  /\ read' = IF read.told # Nil THEN read
             ELSE [read EXCEPT !.told = Tell(read.kind, a), !.running = FALSE]
  /\ UNCHANGED <<callVars, poolVars, probe>>

\* Only the read of a contract's interface turns its own deadline into a failure.
DeadlinePasses ==
  /\ read.running /\ Timed(read.kind)
  /\ read' = [read EXCEPT !.running = FALSE,
                          !.told = IF read.kind = "spec" THEN "failure" ELSE "timed out"]
  /\ UNCHANGED <<callVars, answer, poolVars, probe>>

-----------------------------------------------------------------------------
(* The pool of endpoints                                                   *)

PoolSends ==
  /\ pool.open /\ requests[pool.current] < MaxRequests
  /\ requests' = [requests EXCEPT ![pool.current] = @ + 1]
  /\ UNCHANGED <<callVars, readVars, pool, probe>>

\* failover: the endpoint that is left goes to the end of the line; with nobody in it, it stays.
Failover(p) ==
  IF p.fallbacks = <<>> THEN [p EXCEPT !.failures = 0]
  ELSE [p EXCEPT !.failures = 0, !.current = Head(p.fallbacks),
                 !.fallbacks = Append(Tail(@), p.current)]
\* Mutant: the endpoint that is left is forgotten.
FailoverDrops(p) ==
  IF p.fallbacks = <<>> THEN [p EXCEPT !.failures = 0]
  ELSE [p EXCEPT !.failures = 0, !.current = Head(p.fallbacks), !.fallbacks = Tail(@)]

HandleFailure(p) ==
  IF p.failures + 1 >= FailLimit THEN Failover(p) ELSE [p EXCEPT !.failures = @ + 1]

\* Whatever endpoint a request went to, its answer counts for the one that is current now.
PoolHears(u, failed) ==
  /\ requests[u] > 0 /\ requests' = [requests EXCEPT ![u] = @ - 1]
  /\ pool' = IF failed THEN HandleFailure(pool) ELSE [pool EXCEPT !.failures = 0]
  /\ UNCHANGED <<callVars, readVars, probe>>

StartHealthCheck == /\ pool.open /\ pool' = [pool EXCEPT !.timer = TRUE] /\ ~pool.timer
                    /\ UNCHANGED <<callVars, readVars, requests, probe>>
StopHealthCheck == /\ pool.timer /\ pool' = [pool EXCEPT !.timer = FALSE]
                   /\ UNCHANGED <<callVars, readVars, requests, probe>>
\* The timer asks the current endpoint and starts again, without waiting for the answer.
HealthCheck == pool.timer /\ PoolSends

-----------------------------------------------------------------------------
(* The probe of the wallet bar, once when it mounts and then when asked    *)

Said(verdict) == [probe EXCEPT !.stage = "idle", !.said = verdict]

CheckAgain ==
  /\ probe.stage = "idle" /\ probe.begun < MaxProbes
  /\ probe' = [probe EXCEPT !.stage = "asking", !.begun = @ + 1]
  /\ UNCHANGED <<callVars, readVars, poolVars>>

ProbeAnswered ==
  /\ probe.stage = "asking"
  /\ probe' \in {[probe EXCEPT !.stage = "reading"], Said("unavailable"), Said("network")}
  /\ UNCHANGED <<callVars, readVars, poolVars>>

\* readHealthStatus: a record with a status, or anything else.
ProbeRead ==
  /\ probe.stage = "reading"
  /\ probe' \in {Said("healthy"), Said("malformed")}
  /\ UNCHANGED <<callVars, readVars, poolVars>>

\* The deadline ends the request; while the body is read, what it ends is read as no record.
ProbeDeadline ==
  /\ probe.stage \in {"asking", "reading"}
  /\ probe' = Said(IF probe.stage = "asking" THEN "timeout" ELSE "malformed")
  /\ UNCHANGED <<callVars, readVars, poolVars>>

Next ==
  \/ BeginCall \/ CallAnswers \/ WaitOver \/ Cancel \/ Passes
  \/ \E f \in Failures : CallFails(f)
  \/ BeginRead \/ DeadlinePasses
  \/ \E a \in Answers : ReadAnswered(a)
  \/ PoolSends \/ StartHealthCheck \/ StopHealthCheck \/ HealthCheck
  \/ \E u \in Urls, failed \in BOOLEAN : PoolHears(u, failed)
  \/ CheckAgain \/ ProbeAnswered \/ ProbeRead \/ ProbeDeadline

-----------------------------------------------------------------------------
(* The quiet a provider asked for is kept, up to the ceiling: no attempt   *)
(* is made before it is over ("Ignoring it makes the outage worse"), and   *)
(* a wait is never longer than the ceiling it falls under.                 *)
QuietKept ==
  call.stage = "waiting" =>
    LET asked == Requested(Carried(failedAt.failure), failedAt.at)
    IN  /\ RateLimited(failedAt.failure) /\ asked # Nil =>
             call.due >= failedAt.at + Lesser(asked, HintCeiling)
        /\ call.due <= failedAt.at + (IF call.wait.source = "backoff" THEN Ceiling ELSE HintCeiling)

(* "Absence is a real answer, not a failure", and nothing else reads as    *)
(* absence: no error, no refusal and no deadline.                          *)
AbsenceWasRead ==
  /\ read.told = "null" => answer = "absent"
  /\ read.told = "value" => answer = "value"

(* The pool has each of its endpoints exactly once, however many failures  *)
(* of how many requests arrive in whatever order.                          *)
EndpointsKept ==
  LET line == <<pool.current>> \o pool.fallbacks
  IN  Len(line) = Len(Endpoints) /\ Range(line) = Urls

AccessHonest == QuietKept /\ AbsenceWasRead /\ EndpointsKept

(* A call that was cancelled makes no further attempt, and a read that     *)
(* told something never tells anything else, however late the answer is.   *)
CallsSettle ==
  [][ /\ call.aborted => call'.tries = call.tries
      /\ read.told # Nil => read'.told = read.told ]_accessVars
=============================================================================

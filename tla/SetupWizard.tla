----------------------------- MODULE SetupWizard -----------------------------
(***************************************************************************)
(* The post-deploy checklist of a guard, derived from reads of the chain.  *)
(*                                                                         *)
(* Each result is kept with the guard it was read for, and shown only      *)
(* while that guard is on screen.  The read made on arrival is dropped     *)
(* when the operator leaves; the reads asked for by a button answer into   *)
(* the same one place whenever they arrive.  What the chain says only      *)
(* grows: a guard is deployed, initialized, and given a policy.            *)
(***************************************************************************)
EXTENDS Naturals, FiniteSets

CONSTANTS
  SetupGuards,  \* the guards an operator moves between
  MaxAsked,     \* bound on the reads asked for and the entries written
  Nil

VARIABLES
  onScreen,     \* the guard on screen
  initialized,  \* guards whose keys are registered on chain
  policies,     \* guards with a policy on chain
  snapshot,     \* the console's last snapshot: [guard, status, policy] or Nil
  initRead,     \* the initialize read kept: [guard, answer]
  verified,     \* the verification kept: [guard, answer], or Nil
  verifying,    \* the verification on its way: [guard, before], or Nil
  reading,      \* reads of the initialize state on their way, each with whether it
                \* was made on arrival and what the chain said when it was made
  asked,        \* reads asked for and entries written so far
  setup,        \* what the browser keeps: guard -> [dismissed, marker]
  corrupt       \* whether the browser's record cannot be parsed

setupVars == <<onScreen, initialized, policies, snapshot, initRead, verified, verifying,
               reading, asked, setup, corrupt>>

\* A read not made yet, one that failed, and the two answers of the chain.
Answers == {"unread", "failed", "yes", "no"}
Fresh == [dismissed |-> FALSE, marker |-> FALSE]

Says(truth) == IF truth THEN "yes" ELSE "no"

ReadOf(g, arrival, id) ==
  [guard |-> g, arrival |-> arrival, before |-> Says(g \in initialized), id |-> id]

\* The state a checklist step derives from an answer.
StepOf(answer) ==
  CASE answer = "yes"                  -> "done"
    [] answer = "no"                   -> "pending"
    [] answer \in {"failed", "unread"} -> "error"

\* A record that cannot be parsed reads as an empty one.
SetupOf(g) == IF corrupt THEN Fresh ELSE setup[g]

\* The initialize read shown: the one kept, if it is of the guard on screen.
InitShown == IF initRead.guard = onScreen THEN initRead.answer ELSE "unread"

DeriveDeployed == IF SetupOf(onScreen).marker THEN "done" ELSE "pending"
DeriveInitialized == StepOf(InitShown)

\* A policy needs both reads of the snapshot, and that they agree.
DerivePolicy ==
  IF snapshot = Nil THEN "error"
  ELSE IF snapshot.guard # onScreen \/ snapshot.status # snapshot.policy THEN "error"
       ELSE StepOf(snapshot.status)

\* The last step is green on the operator's own re-read only.
DeriveVerified ==
  IF verified = Nil THEN "pending"
  ELSE IF verified.guard # onScreen THEN "pending" ELSE StepOf(verified.answer)

SetupTypes ==
  /\ onScreen \in SetupGuards
  /\ initialized \subseteq SetupGuards /\ policies \subseteq SetupGuards
  /\ snapshot = Nil \/ snapshot \in [guard : SetupGuards, status : Answers, policy : Answers]
  /\ initRead \in [guard : SetupGuards, answer : Answers]
  /\ verified = Nil \/ verified \in [guard : SetupGuards, answer : Answers]
  /\ verifying = Nil \/ verifying \in [guard : SetupGuards, before : Answers]
  /\ reading \subseteq [guard : SetupGuards, arrival : BOOLEAN, before : Answers, id : 1..MaxAsked]
  /\ asked \in 0..MaxAsked
  /\ setup \in [SetupGuards -> [dismissed : BOOLEAN, marker : BOOLEAN]]
  /\ corrupt \in BOOLEAN

Init ==
  /\ onScreen \in SetupGuards
  /\ initialized \in SUBSET SetupGuards /\ policies \in SUBSET initialized
  /\ snapshot = Nil
  /\ initRead = [guard |-> onScreen, answer |-> "unread"]
  /\ verified = Nil /\ verifying = Nil
  /\ reading = {ReadOf(onScreen, TRUE, 1)} /\ asked = 1
  /\ setup = [g \in SetupGuards |-> Fresh]
  /\ corrupt \in BOOLEAN

-----------------------------------------------------------------------------
(* The chain, and the console around the checklist.                        *)

Initialize(g) ==
  /\ g \notin initialized
  /\ initialized' = initialized \cup {g}
  /\ UNCHANGED <<onScreen, policies, snapshot, initRead, verified, verifying, reading, asked,
                 setup, corrupt>>

InstallPolicy(g) ==
  /\ g \in initialized \ policies
  /\ policies' = policies \cup {g}
  /\ UNCHANGED <<onScreen, initialized, snapshot, initRead, verified, verifying, reading,
                 asked, setup, corrupt>>

\* The console paints the two reads of a snapshot; either may fail, and either may
\* have been made before the policy was installed.
Snapshot(status, policy) ==
  /\ {status, policy} \subseteq {"failed", Says(onScreen \in policies), "no"}
  /\ snapshot' = [guard |-> onScreen, status |-> status, policy |-> policy]
  /\ UNCHANGED <<onScreen, initialized, policies, initRead, verified, verifying, reading,
                 asked, setup, corrupt>>

\* The operator moves to another guard: the read made on arrival at the last one
\* is dropped, and one is made for the new one.
SwitchSetup(g) ==
  /\ g # onScreen /\ asked < MaxAsked
  /\ onScreen' = g
  /\ asked' = asked + 1
  /\ reading' = {r \in reading : ~r.arrival} \cup {ReadOf(g, TRUE, asked + 1)}
  /\ UNCHANGED <<initialized, policies, snapshot, initRead, verified, verifying, setup, corrupt>>

\* Re-reading keeps what is shown meanwhile; recovering forgets it first.
RereadInitialized ==
  /\ ~SetupOf(onScreen).dismissed /\ asked < MaxAsked
  /\ asked' = asked + 1
  /\ reading' = reading \cup {ReadOf(onScreen, FALSE, asked + 1)}
  /\ initRead' \in {initRead, [guard |-> onScreen, answer |-> "unread"]}
  /\ UNCHANGED <<onScreen, initialized, policies, snapshot, verified, verifying, setup, corrupt>>

\* Mutant: an answer is kept as one about the guard on screen.
KeptAsShown(r) == onScreen

\* The guard an answer is kept with.
KeptFor(r) == r.guard

\* An initialize read answers, with what the chain said while it was on its way.
InitAnswers(r) ==
  /\ \E answer \in {"failed", r.before, Says(r.guard \in initialized)} :
       initRead' = [guard |-> KeptFor(r), answer |-> answer]
  /\ reading' = reading \ {r}
  /\ UNCHANGED <<onScreen, initialized, policies, snapshot, verified, verifying, asked, setup,
                 corrupt>>

\* The operator asks for the status and the policy to be read again.
Verify ==
  /\ ~SetupOf(onScreen).dismissed /\ verifying = Nil
  /\ verified' = Nil
  /\ verifying' = [guard |-> onScreen, before |-> Says(onScreen \in policies)]
  /\ UNCHANGED <<onScreen, initialized, policies, snapshot, initRead, reading, asked, setup,
                 corrupt>>

\* Both have answered, or one has failed.
Verified ==
  /\ verifying # Nil
  /\ \E answer \in {"failed", verifying.before, Says(verifying.guard \in policies)} :
       verified' = [guard |-> KeptFor(verifying), answer |-> answer]
  /\ verifying' = Nil
  /\ UNCHANGED <<onScreen, initialized, policies, snapshot, initRead, reading, asked, setup,
                 corrupt>>

-----------------------------------------------------------------------------
(* What the browser keeps.                                                 *)

\* One guard's entry is written: the whole record, as far as it can be parsed.
WriteSetup(g, entry) ==
  /\ asked < MaxAsked
  /\ asked' = asked + 1
  /\ setup' = [(IF corrupt THEN [h \in SetupGuards |-> Fresh] ELSE setup) EXCEPT ![g] = entry]
  /\ corrupt' = FALSE
  /\ UNCHANGED <<onScreen, initialized, policies, snapshot, initRead, verified, verifying,
                 reading>>

RememberDeployment(g) ==
  /\ ~SetupOf(g).marker
  /\ WriteSetup(g, [SetupOf(g) EXCEPT !.marker = TRUE])
Dismiss ==
  /\ ~SetupOf(onScreen).dismissed
  /\ WriteSetup(onScreen, [SetupOf(onScreen) EXCEPT !.dismissed = TRUE])
Restore ==
  /\ SetupOf(onScreen).dismissed
  /\ WriteSetup(onScreen, [SetupOf(onScreen) EXCEPT !.dismissed = FALSE])

Next ==
  \/ \E g \in SetupGuards : Initialize(g) \/ InstallPolicy(g) \/ SwitchSetup(g)
  \/ \E status, policy \in Answers : Snapshot(status, policy)
  \/ RereadInitialized
  \/ \E r \in reading : InitAnswers(r)
  \/ Verify \/ Verified
  \/ \E g \in SetupGuards : RememberDeployment(g)
  \/ Dismiss \/ Restore

Spec == Init /\ [][Next]_setupVars

-----------------------------------------------------------------------------
\* "A wizard that lies about having completed is worse than no wizard": a step
\* that is green is true of the guard on screen, however late and in whatever
\* order the reads of the guards visited answer (deriveSetupSteps).
GreenIsTrue ==
  /\ DeriveInitialized = "done" => onScreen \in initialized
  /\ DerivePolicy = "done" => onScreen \in policies
  /\ DeriveVerified = "done" => onScreen \in policies

=============================================================================

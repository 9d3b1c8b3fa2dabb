--------------------------- MODULE PolicyMigration ---------------------------
(***************************************************************************)
(* Moving a policy from one guard to another: the live policy of a source  *)
(* is read, held against the fields this build writes, turned into a draft *)
(* and back by the form's own validator, and installed on the target.  The *)
(* source and the target change while it is read and while it is written.  *)
(***************************************************************************)
EXTENDS Naturals, FiniteSets

CONSTANTS
  MoveGuards,  \* guards
  Sources,     \* what a guard may answer: [policy, lacks, odd, unknown], or Nil
  Network,     \* the network of the build
  Nil

VARIABLES
  onChain,    \* what each guard answers
  target,     \* the guard a policy is moved to
  source,     \* the guard chosen to copy from
  reading,    \* the read in flight: source and destination
  preview,    \* the answer on screen
  applying,   \* the installation in flight
  moved       \* what was last handed to the wallet: guard, configuration, and its preview

moveVars == <<onChain, target, source, reading, preview, applying, moved>>

Readable(s) == s # Nil /\ s.lacks = {} /\ ~s.odd

MoveTypes ==
  /\ onChain \in [MoveGuards -> Sources] /\ target \in MoveGuards \cup {Nil}
  /\ source \in MoveGuards \cup {Nil}
  /\ reading # Nil => reading.from \in MoveGuards /\ reading.to \in MoveGuards
  /\ preview # Nil => preview.kind \in {"error", "empty", "read"}
  /\ applying # Nil => applying.guard \in MoveGuards

Init ==
  /\ onChain \in [MoveGuards -> Sources] /\ target \in MoveGuards \cup {Nil}
  /\ source = Nil /\ reading = Nil /\ preview = Nil /\ applying = Nil /\ moved = Nil

-----------------------------------------------------------------------------
(* The conversion.  A policy is [window, secs, assets, recipients, any,    *)
(* from, until, rule]: caps as numbers, lists by whether they hold anyone, *)
(* and a protocol rule: absent, every function, some of them, or none.     *)

\* renderBigint and parseCap: zero is a blank field.
Text(n) == IF n = 0 THEN Nil ELSE n
Parsed(t) == IF t = Nil THEN 0 ELSE t

Caps == {"window", "secs", "from", "until"}

\* draftFromConfig: an empty function list is written as a bare contract.
DraftFromConfig(p) ==
  [f \in DOMAIN p |-> IF f \in Caps THEN Text(p[f])
                      ELSE IF f = "rule" /\ p[f] = "none" THEN "every" ELSE p[f]]

\* buildPolicyConfig
ConfigOf(d) == [f \in DOMAIN d |-> IF f \in Caps THEN Parsed(d[f]) ELSE d[f]]
Buildable(d) ==
  LET c == ConfigOf(d)
  IN /\ c.window > 0 => c.secs > 0
     /\ c.from > 0 /\ c.until > 0 => c.until > c.from
     /\ c.any \/ c.recipients \/ ~c.assets

\* validateSourcePolicy: a field that is missing or of the wrong type blocks the move, one that
\* is unknown is dropped and said so.
Compatible(s) == s.lacks = {} /\ ~s.odd
Dropped(s) == s.unknown

\* planMigration
Portable(s) == Compatible(s) /\ Buildable(DraftFromConfig(s.policy))
PlanFor(s) == [portable |-> Portable(s), dropped |-> Dropped(s),
               shown |-> s.policy, draft |-> DraftFromConfig(s.policy)]

-----------------------------------------------------------------------------
(* The steps                                                               *)

\* Another session, or this one, installs a policy.
ChainMoves(g, s) ==
  /\ s # onChain[g] /\ onChain' = [onChain EXCEPT ![g] = s]
  /\ UNCHANGED <<target, source, reading, preview, applying, moved>>

Retarget(g) ==
  /\ g # target /\ target' = g
  /\ UNCHANGED <<onChain, source, reading, preview, applying, moved>>

ChooseSource(g) ==
  /\ g \notin {source, target} /\ source' = g
  /\ UNCHANGED <<onChain, target, reading, preview, applying, moved>>

\* fetchSource and readSource; without a destination there is nothing to read.
FetchSource ==
  /\ reading = Nil /\ source # Nil
  /\ IF target = Nil
     THEN preview' = [kind |-> "error"] /\ UNCHANGED reading
     ELSE preview' = Nil /\ reading' = [from |-> source, to |-> target]
  /\ UNCHANGED <<onChain, target, source, applying, moved>>

\* buildMigrationPreview binds the plan to the destination it was read with.
Previewed(r) ==
  IF onChain[r.from] = Nil THEN [kind |-> "empty"]
  ELSE [kind |-> "read", from |-> r.from, destination |-> r.to, network |-> Network,
        read |-> onChain[r.from], plan |-> PlanFor(onChain[r.from])]

SourceAnswers ==
  /\ reading # Nil /\ reading' = Nil
  /\ preview' \in {[kind |-> "error"], Previewed(reading)}
  /\ UNCHANGED <<onChain, target, source, applying, moved>>

\* Mutant: a preview is good for whatever guard is selected.
ValidAnywhere(p) == p.network = Network
Valid(p) == p.network = Network /\ p.destination = target

\* canSubmitMigrationPreview, asked by the button and again by applyToTarget.
CanApply(p) == p # Nil /\ p.kind = "read" /\ Valid(p) /\ p.plan.portable

ApplyToTarget ==
  /\ applying = Nil /\ CanApply(preview)
  /\ applying' = [guard |-> preview.destination, config |-> ConfigOf(preview.plan.draft)]
  /\ moved' = [guard |-> preview.destination, config |-> ConfigOf(preview.plan.draft),
               selected |-> target, preview |-> preview]
  /\ UNCHANGED <<onChain, target, source, reading, preview>>

\* installPolicy lands or does not.
Applied ==
  /\ applying # Nil /\ applying' = Nil
  /\ \/ onChain' = [onChain EXCEPT ![applying.guard] =
                      [policy |-> applying.config, lacks |-> {}, odd |-> FALSE, unknown |-> {}]]
     \/ UNCHANGED onChain
  /\ UNCHANGED <<target, source, reading, preview, moved>>

Next ==
  \/ \E g \in MoveGuards, s \in Sources : ChainMoves(g, s)
  \/ \E g \in MoveGuards : Retarget(g) \/ ChooseSource(g)
  \/ FetchSource \/ SourceAnswers \/ ApplyToTarget \/ Applied

Spec == Init /\ [][Next]_moveVars

-----------------------------------------------------------------------------
(* What is handed to the wallet is for the guard the operator is looking   *)
(* at, was read whole from the source, and says what the source said,      *)
(* field by field, save that an empty function list has become a rule for  *)
(* every function.                                                         *)
MovedAsRead ==
  moved # Nil =>
    LET read == moved.preview.read.policy
    IN /\ moved.guard = moved.selected /\ moved.preview.destination = moved.guard
       /\ Readable(moved.preview.read)
       /\ \A f \in DOMAIN read :
            moved.config[f] = read[f] \/ (f = "rule" /\ read[f] = "none")
=============================================================================

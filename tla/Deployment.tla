----------------------------- MODULE Deployment -----------------------------
(***************************************************************************)
(* Deploying a guard from the browser: components/DeployPanel.tsx with     *)
(* deployGuard, submitOperation and planDeploy of lib/guard/guardOps.ts    *)
(* and the salt and prediction of lib/guard/saltGenerator.ts.              *)
(*                                                                         *)
(* A guard's address follows from the deployer and the salt.  The panel    *)
(* plans and inspects the address on screen; a deploy checks it again,     *)
(* verifies the artifact, uploads the bytecode if the chain has lost it,   *)
(* creates the contract and reads it back.  Each attempt goes on when the  *)
(* operator leaves the page, which then waits for it no longer.            *)
(*                                                                         *)
(* Costs, funding and the bytecode inspector change nothing a deploy       *)
(* reads and are left out; so are the panel's own look at the artifact,    *)
(* which a deploy repeats, the refresh after a deploy, and the             *)
(* initialisation of the guard.  The bytecode that is created is named by  *)
(* its hash, so a contract at an address is the pinned one.                *)
(***************************************************************************)
EXTENDS Naturals, Sequences, SequencesExt

CONSTANTS
  Accounts, Salts,
  None,
  MaxAttempts,    \* bounds the deploys that are begun
  MaxMoves        \* bounds what the operator and the wallet do between them

VARIABLES
  account,        \* the account connected to the console, or None
  extension,      \* the account the wallet answers with, or None
  salt,           \* the salt that would be deployed
  searching,      \* a vanity search is under way
  plan,           \* planFor: the address last planned, or None
  planning,       \* the address whose plan is being read, or None
  inspecting,     \* the address that is being looked up, or None
  inspection,     \* the address last looked up and what was found
  attempts,       \* the deploys begun, in order
  awaited,        \* the attempt the panel on screen waits for, or 0
  outcome,        \* what the panel tells of the last attempt
  saved,          \* the guards this browser knows it deployed
  code,           \* the bytecode is live on chain
  contracts,      \* the addresses where a contract is
  fate,           \* auxiliary: what became of an attempt's transactions,
                  \* "done" being one of which the chain had the result already
  moves           \* auxiliary: how much the operator and the wallet did

inputVars == <<account, extension, salt, searching>>
viewVars == <<plan, planning, inspecting, inspection>>
chainVars == <<code, contracts>>
vars == <<inputVars, viewVars, attempts, awaited, outcome, saved, chainVars, fate, moves>>

-----------------------------------------------------------------------------
Address == Accounts \X Salts

Ops == {"upload", "create"}

\* InvokeResult, of which a deploy looks at the kind.
Step == [op : Ops, kind : {"submitted", "failed", "refused", "cancelled"}]

Pc == {"check", "artifact", "code", "recheck", "prepare", "prompt", "sign",
       "send", "poll", "read", "over"}

Attempt == [at : Address, pc : Pc, op : Ops, steps : Seq(Step)]

Headlines == {"deployed", "unread", "rejected", "declined", "refused",
              "declined later", "refused later", "not completed"}

Fates == {"unsent", "done", "pending", "applied", "rejected", "lost"}

DeployTypes ==
  /\ account \in Accounts \cup {None} /\ extension \in Accounts \cup {None}
  /\ salt \in Salts /\ searching \in BOOLEAN
  /\ plan \in Address \cup {None} /\ planning \in Address \cup {None}
  /\ inspecting \in Address \cup {None}
  /\ inspection \in [at : Address \cup {None},
                     state : {"checking", "available", "existing", "error"}]
  /\ attempts \in Seq(Attempt) /\ Len(attempts) <= MaxAttempts
  /\ awaited \in 0..Len(attempts)
  /\ outcome \in [of : 0..Len(attempts), headline : Headlines \cup {None}]
  /\ saved \subseteq Address
  /\ code \in BOOLEAN /\ contracts \subseteq Address
  /\ fate \in [1..MaxAttempts -> [Ops -> Fates]]
  /\ moves \in 0..MaxMoves

Nothing == [at |-> None, state |-> "checking"]
Untold == [of |-> 0, headline |-> None]

Init ==
  /\ extension \in Accounts /\ account \in {None, extension}
  /\ salt \in Salts /\ searching = FALSE
  /\ plan = None /\ inspecting = None /\ inspection = Nothing
  /\ planning = IF account = None THEN None ELSE <<account, salt>>
  /\ attempts = <<>> /\ awaited = 0 /\ outcome = Untold
  /\ saved = {}
  /\ code \in BOOLEAN /\ contracts = {}
  /\ fate = [n \in 1..MaxAttempts |-> [op \in Ops |-> "unsent"]]
  /\ moves = 0

-----------------------------------------------------------------------------
(* What the panel shows.                                                   *)

\* deployPredictionKey(): the address the inputs stand for.
Predicted == IF account = None THEN None ELSE <<account, salt>>

\* A plan of other inputs is not shown.
Plan == IF plan = Predicted THEN plan ELSE None

\* deployControl, of a plan whose address was found free.
MayDeploy ==
  /\ account # None
  /\ awaited = 0
  /\ Plan # None
  /\ inspection = [at |-> Plan, state |-> "available"]

Moves == moves < MaxMoves /\ moves' = moves + 1

\* The effect of the inputs: a new plan is read, and the answer of an older
\* read is ignored.
Replan == planning' = IF account' = None THEN None ELSE <<account', salt'>>

\* The effect of the plan on screen: another address is looked up, and the
\* answer of an older look is ignored.
Reinspect == inspecting' = IF Plan' = Plan THEN inspecting ELSE Plan'

-----------------------------------------------------------------------------
(* Inputs.                                                                 *)

Connect ==
  /\ Moves
  /\ account # extension
  /\ account' = extension
  /\ UNCHANGED <<extension, salt, searching, plan, inspection>>
  /\ Replan /\ Reinspect
  /\ UNCHANGED <<attempts, awaited, outcome, saved, chainVars, fate>>

\* The operator turns to another account in the wallet, or closes it.
ExtensionMoves(a) ==
  /\ Moves
  /\ extension' = a
  /\ a # extension
  /\ UNCHANGED <<account, salt, searching, viewVars, attempts, awaited, outcome,
                 saved, chainVars, fate>>

\* A salt is typed or rolled, which a deploy under way forbids.
ChooseSalt(s) ==
  /\ Moves
  /\ awaited = 0
  /\ salt' = s /\ s # salt
  /\ UNCHANGED <<account, extension, searching, plan, inspection>>
  /\ Replan /\ Reinspect
  /\ UNCHANGED <<attempts, awaited, outcome, saved, chainVars, fate>>

StartSearch ==
  /\ Moves
  /\ account # None /\ ~searching
  /\ searching' = TRUE
  /\ UNCHANGED <<account, extension, salt, viewVars, attempts, awaited, outcome,
                 saved, chainVars, fate>>

\* The search may find its salt while a deploy is under way.
SearchEnds(s) ==
  /\ searching
  /\ searching' = FALSE
  /\ salt' = s
  /\ UNCHANGED <<account, extension, plan, inspection>>
  /\ IF s = salt THEN UNCHANGED <<planning, inspecting>> ELSE Replan /\ Reinspect
  /\ UNCHANGED <<attempts, awaited, outcome, saved, chainVars, fate, moves>>

\* The page is left, and opened again with a salt of its own.
Leave(s) ==
  /\ Moves
  /\ salt' = s /\ searching' = FALSE
  /\ plan' = None /\ inspection' = Nothing
  /\ UNCHANGED <<account, extension>>
  /\ Replan /\ Reinspect
  /\ awaited' = 0 /\ outcome' = Untold
  /\ UNCHANGED <<attempts, saved, chainVars, fate>>

-----------------------------------------------------------------------------
(* The plan and the inspection of its address.                             *)

\* planDeploy(); a read that fails leaves what was planned.
PlanRead(answers) ==
  /\ planning # None
  /\ plan' = IF answers THEN planning ELSE plan
  /\ planning' = None
  /\ UNCHANGED inputVars /\ Reinspect
  /\ UNCHANGED <<inspection, attempts, awaited, outcome, saved,
                 chainVars, fate, moves>>

\* contractAlreadyDeployed(), for the plan on screen.
Inspect(answers) ==
  /\ inspecting # None
  /\ inspecting' = None
  /\ inspection' = [at |-> inspecting,
                    state |-> IF ~answers THEN "error"
                              ELSE IF inspecting \in contracts THEN "existing"
                              ELSE "available"]
  /\ UNCHANGED <<inputVars, plan, planning, attempts, awaited, outcome, saved,
                 chainVars, fate, moves>>

-----------------------------------------------------------------------------
(* What is told of an attempt.                                             *)

Landed(steps) == \E i \in DOMAIN steps : steps[i].kind \in {"submitted", "failed"}

\* Mutant: what an earlier step did is forgotten.
HeadlineOfLast(steps, answers) ==
  CASE Last(steps).kind = "submitted" -> IF answers THEN "deployed" ELSE "unread"
    [] Last(steps).kind = "failed" -> "rejected"
    [] Last(steps).kind = "cancelled" -> "declined"
    [] OTHER -> "refused"

\* classifyDeploySteps() and deployOutcomeView(): the last step decides, and
\* the earlier ones say whether anything landed.
Headline(steps, answers) ==
  CASE Last(steps).kind = "submitted" -> IF answers THEN "deployed" ELSE "unread"
    [] Last(steps).kind = "failed" -> "rejected"
    [] Last(steps).kind = "cancelled" -> IF Landed(steps) THEN "declined later" ELSE "declined"
    [] OTHER -> IF Landed(steps) THEN "refused later" ELSE "refused"

\* The attempt is over: the panel that still waits for it tells the headline.
Finish(n, steps, headline) ==
  /\ attempts' = [attempts EXCEPT ![n].pc = "over", ![n].steps = steps]
  /\ IF awaited = n
       THEN awaited' = 0 /\ outcome' = [of |-> n, headline |-> headline]
       ELSE UNCHANGED <<awaited, outcome>>

\* A read or the wallet throws.
Throw(n) == Finish(n, attempts[n].steps, "not completed")

Goto(n, pc) ==
  /\ attempts' = [attempts EXCEPT ![n].pc = pc]
  /\ UNCHANGED <<awaited, outcome>>

\* record(): a step is over.  An upload that was submitted is followed by the
\* create, which is followed by the reading back; any other step is the last.
Record(n, kind) ==
  LET a == attempts[n]
      steps == Append(a.steps, [op |-> a.op, kind |-> kind])
  IN IF kind = "submitted"
       THEN /\ attempts' = [attempts EXCEPT
                 ![n].steps = steps,
                 ![n].pc = IF a.op = "upload" THEN "recheck" ELSE "read"]
            /\ UNCHANGED <<awaited, outcome>>
       ELSE Finish(n, steps, Headline(steps, FALSE))

-----------------------------------------------------------------------------
(* deployGuard().                                                          *)

\* What the chain holds already of what an attempt begun now is for: the
\* bytecode, or a guard at the address, which the panel does not look up again
\* after a deploy and may offer still.
Done(op) == IF op = "upload" THEN code ELSE Predicted \in contracts

Deploy ==
  /\ MayDeploy
  /\ Len(attempts) < MaxAttempts
  /\ attempts' = Append(attempts,
       [at |-> Predicted, pc |-> "check", op |-> "upload", steps |-> <<>>])
  /\ awaited' = Len(attempts')
  /\ outcome' = Untold
  /\ fate' = [fate EXCEPT ![Len(attempts')] =
                [op \in Ops |-> IF Done(op) THEN "done" ELSE "unsent"]]
  /\ UNCHANGED <<inputVars, viewVars, saved, chainVars, moves>>

\* assertDeploymentAddressAvailable(), before the artifact and once more before
\* the create.
CheckAddress(n, answers) ==
  /\ attempts[n].pc \in {"check", "recheck"}
  /\ IF ~answers \/ attempts[n].at \in contracts
       THEN Throw(n)
       ELSE IF attempts[n].pc = "check"
       THEN Goto(n, "artifact")
       ELSE /\ attempts' = [attempts EXCEPT ![n].pc = "prepare", ![n].op = "create"]
            /\ UNCHANGED <<awaited, outcome>>
  /\ UNCHANGED <<inputVars, viewVars, saved, chainVars, fate, moves>>

\* checkArtifact(): the bytes on chain are the pinned ones, or it throws.
CheckArtifact(n, ok) ==
  /\ attempts[n].pc = "artifact"
  /\ IF ok THEN Goto(n, "code") ELSE Throw(n)
  /\ UNCHANGED <<inputVars, viewVars, saved, chainVars, fate, moves>>

\* Mutant: a look that fails is taken for bytecode that is not there.
ReadCodeOrUpload(n, answers) ==
  /\ attempts[n].pc = "code"
  /\ Goto(n, IF answers /\ code THEN "recheck" ELSE "prepare")
  /\ UNCHANGED <<inputVars, viewVars, saved, chainVars, fate, moves>>

\* artifactCodePresent(), and the bytes to upload if it is not.
ReadCode(n, answers) ==
  /\ attempts[n].pc = "code"
  /\ IF ~answers THEN Throw(n)
     ELSE Goto(n, IF code THEN "recheck" ELSE "prepare")
  /\ UNCHANGED <<inputVars, viewVars, saved, chainVars, fate, moves>>

-----------------------------------------------------------------------------
(* submitOperation(), for the operation the attempt has come to.           *)

\* The simulation accepts what the chain would.
Accepted(n) == attempts[n].op = "create" => code /\ attempts[n].at \notin contracts

\* The account and the simulation, each of which may not be had.
Prepare(n, answers) ==
  /\ attempts[n].pc = "prepare"
  /\ IF answers /\ Accepted(n) THEN Goto(n, "prompt") ELSE Record(n, "refused")
  /\ UNCHANGED <<inputVars, viewVars, saved, chainVars, fate, moves>>

\* writeBoundary(): the wallet is still on the account that deploys.
Bound(n) == extension = attempts[n].at[1]

Prompt(n) ==
  /\ attempts[n].pc = "prompt"
  /\ IF Bound(n) THEN Goto(n, "sign") ELSE Record(n, "refused")
  /\ UNCHANGED <<inputVars, viewVars, saved, chainVars, fate, moves>>

Sign(n, answer) ==
  /\ attempts[n].pc = "sign"
  /\ \/ answer = "signed" /\ Goto(n, "send")
     \/ answer = "declined" /\ Record(n, "cancelled")
     \/ answer = "error" /\ Throw(n)
  /\ UNCHANGED <<inputVars, viewVars, saved, chainVars, fate, moves>>

Sends(n) == fate' = [fate EXCEPT ![n][attempts[n].op] = "pending"]

\* The boundary once more, then the broadcast: refused by the server, taken, or
\* without an answer, when the transaction may have been taken or not.
Send(n, answer) ==
  /\ attempts[n].pc = "send"
  /\ \/ ~Bound(n) /\ Record(n, "refused") /\ UNCHANGED fate
     \/ Bound(n) /\ answer = "refused" /\ Record(n, "refused") /\ UNCHANGED fate
     \/ Bound(n) /\ answer = "taken" /\ Goto(n, "poll") /\ Sends(n)
     \/ Bound(n) /\ answer = "none" /\ Throw(n) /\ (Sends(n) \/ UNCHANGED fate)
  /\ UNCHANGED <<inputVars, viewVars, saved, chainVars, moves>>

\* The result, or the end of thirty attempts to get it.
Poll(n) ==
  LET f == fate[n][attempts[n].op]
  IN /\ attempts[n].pc = "poll"
     /\ \/ f = "applied" /\ Record(n, "submitted")
        \/ Record(n, "failed")
     /\ UNCHANGED <<inputVars, viewVars, saved, chainVars, fate, moves>>

\* verifyWasmIdentity() of the new instance; one that is verified is remembered.
ReadBack(n, answers) ==
  /\ attempts[n].pc = "read"
  /\ Finish(n, attempts[n].steps,
            Headline(attempts[n].steps, answers /\ attempts[n].at \in contracts))
  /\ saved' = saved \cup IF answers /\ attempts[n].at \in contracts
                         THEN {attempts[n].at} ELSE {}
  /\ UNCHANGED <<inputVars, viewVars, chainVars, fate, moves>>

-----------------------------------------------------------------------------
(* The network.                                                            *)

Include(n, op) ==
  LET lands == op = "upload" \/ (code /\ attempts[n].at \notin contracts)
  IN /\ fate[n][op] = "pending"
     /\ fate' = [fate EXCEPT ![n][op] = IF lands THEN "applied" ELSE "rejected"]
     /\ code' = (code \/ op = "upload")
     /\ contracts' = contracts \cup IF lands /\ op = "create" THEN {attempts[n].at} ELSE {}
     /\ UNCHANGED <<inputVars, viewVars, attempts, awaited, outcome, saved, moves>>

\* It expires without having been included.
Lose(n, op) ==
  /\ fate[n][op] = "pending"
  /\ fate' = [fate EXCEPT ![n][op] = "lost"]
  /\ UNCHANGED <<inputVars, viewVars, attempts, awaited, outcome, saved, chainVars, moves>>

-----------------------------------------------------------------------------
Submit(n) ==
  \/ \E answers \in BOOLEAN :
       \/ CheckAddress(n, answers) \/ CheckArtifact(n, answers)
       \/ ReadCode(n, answers) \/ Prepare(n, answers) \/ ReadBack(n, answers)
  \/ Prompt(n) \/ Poll(n)
  \/ \E answer \in {"signed", "declined", "error"} : Sign(n, answer)
  \/ \E answer \in {"taken", "refused", "none"} : Send(n, answer)

Next ==
  \/ Connect \/ StartSearch \/ Deploy
  \/ \E a \in Accounts \cup {None} : ExtensionMoves(a)
  \/ \E s \in Salts : ChooseSalt(s) \/ SearchEnds(s) \/ Leave(s)
  \/ \E answers \in BOOLEAN : PlanRead(answers) \/ Inspect(answers)
  \/ \E n \in DOMAIN attempts :
       Submit(n) \/ \E op \in Ops : Include(n, op) \/ Lose(n, op)

Spec == Init /\ [][Next]_vars

-----------------------------------------------------------------------------
(* Properties.                                                             *)

Unsent(n, op) == fate[n][op] \in {"unsent", "done"}

(* The headline of a deploy is true of the chain: a guard that is told as  *)
(* deployed, or as created, exists at the address that was announced, and  *)
(* this browser remembers a deployed one and no guard that does not exist; *)
(* of an attempt told as declined or refused nothing was broadcast, and of *)
(* one told to have got past an earlier step exactly the upload has        *)
(* landed.  ("rejected on chain" is also told of an upload, and of what    *)
(* was not included in time; it promises only that something was sent.)    *)
DeployTold ==
  LET n == outcome.of
      h == outcome.headline
  IN /\ saved \subseteq contracts
     /\ n # 0 =>
          /\ h \in {"deployed", "unread"} => attempts[n].at \in contracts
          /\ h = "deployed" => attempts[n].at \in saved
          /\ h \in {"declined", "refused"} => Unsent(n, "upload") /\ Unsent(n, "create")
          /\ h \in {"declined later", "refused later"} =>
               fate[n]["upload"] = "applied" /\ Unsent(n, "create")
          /\ h = "rejected" => ~Unsent(n, "upload") \/ ~Unsent(n, "create")

(* A deploy begun again finds what was done before it.  For what the chain *)
(* held when an attempt was begun, the bytecode or a guard at its address, *)
(* the wallet is not asked to sign and nothing is broadcast, whoever had   *)
(* done it: an attempt that was left, one whose reply was lost, or one     *)
(* that was told as rejected because its polls ran out.                    *)
NothingIsDoneTwice ==
  \A n \in DOMAIN attempts :
    attempts[n].pc \in {"sign", "send", "poll"} => fate[n][attempts[n].op] # "done"
=============================================================================

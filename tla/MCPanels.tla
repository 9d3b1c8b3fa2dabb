------------------------------ MODULE MCPanels -------------------------------
(***************************************************************************)
(* The parts of the console that share no state with one another, checked  *)
(* in one run: the deployment of a guard, the wallet session, the webhook  *)
(* alerts and the list of events.  A behaviour is one of one part, chosen  *)
(* at the beginning from Parts; the others stay in an initial state.       *)
(* Accounts and salts are alike, so a deployment begins with the first.    *)
(***************************************************************************)
EXTENDS Naturals, FiniteSets, SequencesExt, FiniteSetTheorems, WellFoundedInduction, TLAPS

CONSTANTS
  Parts, None,
  Accounts, Salts, MaxAttempts, MaxMoves,
  Tabs, Providers, Switches, Timeout, MaxActs,
  Conditions, Interval, MaxClock, MaxFlights,
  Events, Limit, Memory, MaxBatch

VARIABLES
  part,
  account, extension, salt, searching, plan, planning, inspecting, inspection, attempts,
  awaited, outcome, saved, code, contracts, fate, moves,
  pref, rightNet, session, connector, chosen, mismatch, connecting, connections,
  switching, timer, left, unheard, acts,
  clock, enabled, previous, lastSent, flights, told,
  rows, pending, paused, seen, dropped, armed, keys, chimed, replaced, since, before

deployVars == <<account, extension, salt, searching, plan, planning, inspecting,
                inspection, attempts, awaited, outcome, saved, code, contracts, fate, moves>>
walletVars == <<pref, rightNet, session, connector, chosen, mismatch, connecting,
                connections, switching, timer, left, unheard, acts>>
webhookVars == <<clock, enabled, previous, lastSent, flights, told>>
bufferVars == <<rows, pending, paused, seen, dropped, armed, keys, chimed, replaced,
                since, before>>
vars == <<part, deployVars, walletVars, webhookVars, bufferVars>>

D == INSTANCE Deployment
W == INSTANCE WalletSession
H == INSTANCE WebhookAlerts
B == INSTANCE EventBuffer

Init ==
  /\ part \in Parts
  /\ D!Init /\ W!Init /\ H!Init /\ B!Init
  /\ extension = (CHOOSE a \in Accounts : TRUE) /\ salt = (CHOOSE s \in Salts : TRUE)
  /\ part = "deploy" \/ (account = None /\ ~code)
  /\ part = "wallet" \/ rightNet = {}
  /\ part = "webhooks" \/ ~enabled

Next ==
  \/ part = "deploy" /\ D!Next /\ UNCHANGED <<part, walletVars, webhookVars, bufferVars>>
  \/ part = "wallet" /\ W!Next /\ UNCHANGED <<part, deployVars, webhookVars, bufferVars>>
  \/ part = "webhooks" /\ H!Next /\ UNCHANGED <<part, deployVars, walletVars, bufferVars>>
  \/ part = "buffer" /\ B!Next /\ UNCHANGED <<part, deployVars, walletVars, webhookVars>>

Spec == Init /\ [][Next]_vars /\ W!Fairness

-----------------------------------------------------------------------------
(* Each part keeps its types.                                              *)
PanelTypes == D!DeployTypes /\ W!WalletTypes /\ H!WebhookTypes /\ B!BufferTypes

(* A deploy is told as it happened, whatever the chain, the wallet and the *)
(* operator did meanwhile.                                                 *)
DeployTold == D!DeployTold

(* What was on chain when a deploy was begun, it neither signs nor sends.  *)
NothingIsDoneTwice == D!NothingIsDoneTwice

(* What signs is what is shown as connected, and it is timed.              *)
SessionIsWhole == W!SessionIsWhole

(* A tab nobody works in loses its session.                                *)
LocksAtLast == W!LocksAtLast

(* A condition that is due has been alerted since it began to hold.        *)
OnsetTold == H!OnsetTold

(* A pause neither loses, doubles nor misplaces an event.                  *)
PauseLosesNothing == B!PauseLosesNothing

(* An event in the rows of the live tail chimes once.                      *)
RowChimesOnce == B!RowChimesOnce

-----------------------------------------------------------------------------
(* The wallet session.  Each way it begins or ends changes what is shown,  *)
(* what signs and the timer in one step, whatever else is under way.       *)

\* The types of what a session is made of.
SessionParts ==
  /\ session \in [Tabs -> Providers \cup {None}]
  /\ connector \in [Tabs -> Providers \cup {None}]
  /\ chosen \in [Tabs -> Providers \cup {None}]
  /\ mismatch \in [Tabs -> BOOLEAN]
  /\ timer \in [Tabs -> BOOLEAN] /\ left \in [Tabs -> 0..Timeout]

LEMMA EntersTyped ==
  ASSUME W!WalletTypes, Timeout \in Nat, NEW t \in Tabs, NEW p \in Providers,
  W!Enter(t, p)
  PROVE  SessionParts'
BY DEF W!WalletTypes, SessionParts, W!Enter, W!SetSession, W!Timed

LEMMA EndsTyped ==
  ASSUME W!WalletTypes, Timeout \in Nat, NEW t \in Tabs, W!NoSession(t, TRUE)
  PROVE  SessionParts'
BY DEF W!WalletTypes, SessionParts, W!NoSession, W!SetSession, W!Timed

LEMMA FailsTyped ==
  ASSUME W!WalletTypes, Timeout \in Nat, NEW t \in Tabs, W!ConnectFails(t)
  PROVE  SessionParts'
BY DEF W!WalletTypes, SessionParts, W!ConnectFails, W!SetSession, W!Timed

LEMMA WalletTypesStep ==
  ASSUME W!WalletTypes, W!Next, Timeout \in Nat, MaxActs \in Nat
  PROVE  W!WalletTypes'
<1>1. CASE W!Tick
  BY <1>1 DEF W!WalletTypes, W!Tick, W!sessionVars, W!askVars
<1>2. ASSUME NEW p \in Providers, W!WalletMoves(p)
      PROVE  W!WalletTypes'
  BY <1>2 DEF W!WalletTypes, W!WalletMoves, W!Acts, W!sessionVars, W!askVars
<1>3. ASSUME NEW t \in Tabs, W!AskSwitch(t)
      PROVE  W!WalletTypes'
  BY <1>3 DEF W!WalletTypes, W!AskSwitch, W!Acts, W!sessionVars
<1>4. ASSUME NEW t \in Tabs, W!Disconnect(t)
      PROVE  W!WalletTypes'
  BY <1>4
  DEF W!WalletTypes, W!Disconnect, W!EndSession, W!NoSession, W!SetSession, W!Timed,
  W!Acts, W!askVars
<1>5. ASSUME NEW t \in Tabs, W!HearDisconnect(t)
      PROVE  W!WalletTypes'
  BY <1>5 DEF W!WalletTypes, W!HearDisconnect, W!NoSession, W!SetSession, W!Timed,
     W!askVars
<1>6. ASSUME NEW t \in Tabs, W!Activity(t)
      PROVE  W!WalletTypes'
  BY <1>6 DEF W!WalletTypes, W!Activity, W!Acts, W!askVars
<1>7. ASSUME NEW t \in Tabs, W!Expire(t)
      PROVE  W!WalletTypes'
  BY <1>7 DEF W!WalletTypes, W!Expire, W!EndSession, W!NoSession, W!SetSession,
     W!Timed, W!askVars
<1>8. ASSUME NEW t \in Tabs, NEW p \in Providers, W!OpenPage(t, p)
      PROVE  W!WalletTypes'
  BY <1>8 DEF W!WalletTypes, W!OpenPage, W!SetSession, W!Timed, W!Acts, W!Kinds
<1>9. ASSUME NEW t \in Tabs, NEW p \in Providers, W!BeginConnect(t, p)
      PROVE  W!WalletTypes'
  BY <1>9 DEF W!WalletTypes, W!BeginConnect, W!Acts, W!Ask, W!Kinds
<1>10. ASSUME NEW t \in Tabs, NEW p \in Providers, NEW yes \in BOOLEAN,
             W!SilentAnswer(t, p, yes)
      PROVE  W!WalletTypes'
  <2>1. connections' \in [Tabs -> SUBSET (W!Kinds \X Providers)]
    BY <1>10 DEF W!WalletTypes, W!SilentAnswer, W!Answered
  <2>2. SessionParts'
    BY <1>10, EntersTyped, EndsTyped, FailsTyped DEF W!WalletTypes, SessionParts,
       W!SilentAnswer, W!sessionVars
  <2> QED BY <1>10, <2>1, <2>2 DEF W!WalletTypes, SessionParts, W!SilentAnswer
<1>11. ASSUME NEW t \in Tabs, NEW p \in Providers, NEW yes \in BOOLEAN,
             W!EndConnect(t, p, yes)
      PROVE  W!WalletTypes'
  <2>1. connections' \in [Tabs -> SUBSET (W!Kinds \X Providers)]
    BY <1>11 DEF W!WalletTypes, W!EndConnect, W!Answered
  <2>2. SessionParts'
    BY <1>11, EntersTyped, EndsTyped, FailsTyped DEF W!WalletTypes, SessionParts,
       W!EndConnect
  <2> QED BY <1>11, <2>1, <2>2 DEF W!WalletTypes, SessionParts, W!EndConnect
<1>12. ASSUME NEW t \in Tabs, NEW p \in Providers, NEW yes \in BOOLEAN,
             W!AnswerSwitch(t, p, yes)
      PROVE  W!WalletTypes'
  <2>1. /\ connections' \in [Tabs -> SUBSET (W!Kinds \X Providers)]
        /\ rightNet' \subseteq Providers
    BY <1>12 DEF W!WalletTypes, W!AnswerSwitch, W!Ask, W!Kinds
  <2>2. /\ mismatch' \in [Tabs -> BOOLEAN] /\ connecting' \in [Tabs -> BOOLEAN]
        /\ switching' \in [Tabs -> BOOLEAN]
    BY <1>12 DEF W!WalletTypes, W!AnswerSwitch
  <2>3. UNCHANGED <<pref, session, connector, chosen, timer, left, unheard, acts>>
    BY <1>12 DEF W!AnswerSwitch
  <2> QED BY <2>1, <2>2, <2>3 DEF W!WalletTypes
<1> QED
  BY <1>1, <1>2, <1>3, <1>4, <1>5, <1>6, <1>7, <1>8, <1>9, <1>10, <1>11,
     <1>12 DEF W!Next

LEMMA WalletWholeStep ==
  ASSUME W!WalletTypes, W!SessionIsWhole, W!Next
  PROVE  W!SessionIsWhole'
<1>1. CASE W!Tick
  BY <1>1 DEF W!WalletTypes, W!SessionIsWhole, W!Tick, W!sessionVars, W!askVars
<1>2. ASSUME NEW p \in Providers, W!WalletMoves(p)
      PROVE  W!SessionIsWhole'
  BY <1>2 DEF W!WalletTypes, W!SessionIsWhole, W!WalletMoves, W!Acts, W!sessionVars,
     W!askVars
<1>3. ASSUME NEW t \in Tabs, W!AskSwitch(t)
      PROVE  W!SessionIsWhole'
  BY <1>3 DEF W!WalletTypes, W!SessionIsWhole, W!AskSwitch, W!Acts, W!sessionVars
<1>4. ASSUME NEW t \in Tabs, W!Disconnect(t)
      PROVE  W!SessionIsWhole'
  BY <1>4 DEF W!WalletTypes, W!SessionIsWhole, W!Disconnect, W!EndSession, W!NoSession,
     W!SetSession, W!Timed, W!Acts, W!askVars
<1>5. ASSUME NEW t \in Tabs, W!HearDisconnect(t)
      PROVE  W!SessionIsWhole'
  BY <1>5 DEF W!WalletTypes, W!SessionIsWhole, W!HearDisconnect, W!NoSession,
     W!SetSession,
     W!Timed, W!askVars
<1>6. ASSUME NEW t \in Tabs, W!Activity(t)
      PROVE  W!SessionIsWhole'
  BY <1>6 DEF W!WalletTypes, W!SessionIsWhole, W!Activity, W!Acts, W!askVars
<1>7. ASSUME NEW t \in Tabs, W!Expire(t)
      PROVE  W!SessionIsWhole'
  BY <1>7 DEF W!WalletTypes, W!SessionIsWhole, W!Expire, W!EndSession, W!NoSession,
     W!SetSession,
     W!Timed, W!askVars
<1>8. ASSUME NEW t \in Tabs, NEW p \in Providers, W!OpenPage(t, p)
      PROVE  W!SessionIsWhole'
  BY <1>8 DEF W!WalletTypes, W!SessionIsWhole, W!OpenPage, W!SetSession, W!Timed,
     W!Acts, W!Kinds
<1>9. ASSUME NEW t \in Tabs, NEW p \in Providers, W!BeginConnect(t, p)
      PROVE  W!SessionIsWhole'
  BY <1>9 DEF W!WalletTypes, W!SessionIsWhole, W!BeginConnect, W!Acts, W!Ask, W!Kinds
<1>10. ASSUME NEW t \in Tabs, NEW p \in Providers, NEW yes \in BOOLEAN,
             W!SilentAnswer(t, p, yes)
      PROVE  W!SessionIsWhole'
  BY <1>10 DEF W!WalletTypes, W!SessionIsWhole, W!SilentAnswer, W!Answered, W!Enter,
     W!NoSession,
     W!SetSession, W!Timed, W!sessionVars, W!Kinds
<1>11. ASSUME NEW t \in Tabs, NEW p \in Providers, NEW yes \in BOOLEAN,
             W!EndConnect(t, p, yes)
      PROVE  W!SessionIsWhole'
  BY <1>11 DEF W!WalletTypes, W!SessionIsWhole, W!EndConnect, W!Answered,
     W!ConnectFails, W!Enter,
     W!NoSession, W!SetSession, W!Timed, W!Kinds
<1>12. ASSUME NEW t \in Tabs, NEW p \in Providers, NEW yes \in BOOLEAN,
             W!AnswerSwitch(t, p, yes)
      PROVE  W!SessionIsWhole'
  BY <1>12 DEF W!WalletTypes, W!SessionIsWhole, W!AnswerSwitch, W!Ask, W!Kinds
<1> QED
  BY <1>1, <1>2, <1>3, <1>4, <1>5, <1>6, <1>7, <1>8, <1>9, <1>10, <1>11,
     <1>12 DEF W!Next

(* For any tabs, wallets, timeout and bound on what operators do: what      *)
(* signs is what is shown as connected, and exactly a session has a timer   *)
(* (GuardProvider's connect, disconnect, silent reconnect and idle lock).   *)
THEOREM SessionsAreWhole ==
  ASSUME Timeout \in Nat, MaxActs \in Nat
  PROVE  W!Spec => [](W!WalletTypes /\ W!SessionIsWhole)
<1>1. W!Init => W!WalletTypes /\ W!SessionIsWhole
  <2> SUFFICES ASSUME W!Init PROVE W!WalletTypes /\ W!SessionIsWhole
    OBVIOUS
  <2>1. connections \in [Tabs -> SUBSET (W!Kinds \X Providers)]
    BY DEF W!Init
  <2>2. W!SessionIsWhole
    BY DEF W!Init, W!SessionIsWhole
  <2>3. rightNet \subseteq Providers /\ pref \in Providers \cup {None}
    BY DEF W!Init
  <2> QED BY <2>1, <2>2, <2>3 DEF W!Init, W!WalletTypes
<1>2. W!WalletTypes /\ W!SessionIsWhole /\ [W!Next]_(W!vars)
        => (W!WalletTypes /\ W!SessionIsWhole)'
  <2>1. CASE UNCHANGED W!vars
    BY <2>1 DEF W!vars, W!sessionVars, W!askVars, W!WalletTypes, W!SessionIsWhole
  <2> QED BY <2>1, WalletTypesStep, WalletWholeStep
<1> QED BY <1>1, <1>2, PTL DEF W!Spec

-----------------------------------------------------------------------------
(* The webhook alerts.  Nothing is observed as due that has not been told.  *)

LEMMA OnsetStep ==
  ASSUME H!OnsetTold, [H!Next]_(H!vars)
  PROVE  H!OnsetTold'
<1>1. ASSUME NEW holding \in SUBSET Conditions, H!Pass(holding)
      PROVE  H!OnsetTold'
  BY <1>1 DEF H!OnsetTold, H!Pass, H!Edges
<1>2. ASSUME NEW i \in DOMAIN flights, NEW delivered \in BOOLEAN, H!Answer(i, delivered)
      PROVE  H!OnsetTold'
  BY <1>2 DEF H!OnsetTold, H!Answer
<1>3. CASE H!SwitchGuard \/ H!Remount
  BY <1>3 DEF H!OnsetTold, H!SwitchGuard, H!Remount, H!Forget
<1>4. CASE H!SaveSettings \/ H!Tick \/ UNCHANGED H!vars
  BY <1>4 DEF H!OnsetTold, H!SaveSettings, H!Tick, H!vars
<1> QED BY <1>1, <1>2, <1>3, <1>4 DEF H!Next

(* For any alert types, interval and bounds: a condition that a pass found  *)
(* due has been alerted since it began to hold (the tracker and cooldown of *)
(* webhookDispatcher.ts).                                                   *)
THEOREM OnsetsAreTold == H!Spec => []H!OnsetTold
<1>1. H!Init => H!OnsetTold
  BY DEF H!Init, H!OnsetTold
<1> QED BY <1>1, OnsetStep, PTL DEF H!Spec

-----------------------------------------------------------------------------
(* The deployment.  What an attempt has sent is known from how far it is.   *)

Unsent(n) == D!Unsent(n, "upload") /\ D!Unsent(n, "create")

\* The steps of an attempt whose create is still to come: either its upload has
\* landed, or it needed none.
UploadTold(n) ==
  \/ attempts[n].steps = <<>> /\ D!Unsent(n, "upload")
  \/ /\ attempts[n].steps = <<[op |-> "upload", kind |-> "submitted"]>>
     /\ fate[n]["upload"] = "applied"

\* How far an attempt is, and what has become of its transactions by then.
Progress(n) ==
  LET a == attempts[n]
  IN /\ a.pc \in {"check", "artifact", "code"} =>
          a.op = "upload" /\ a.steps = <<>> /\ Unsent(n)
     /\ a.pc \in {"prepare", "prompt", "sign", "send"} =>
          /\ D!Unsent(n, "create")
          /\ UploadTold(n)
          /\ a.op = "upload" => a.steps = <<>>
     /\ a.pc = "recheck" =>
          a.op = "upload" /\ D!Unsent(n, "create") /\ UploadTold(n)
     /\ a.pc = "poll" =>
          /\ ~D!Unsent(n, a.op)
          /\ a.op = "create" => UploadTold(n)
          /\ a.op = "upload" => a.steps = <<>> /\ D!Unsent(n, "create")
     /\ a.pc = "read" =>
          /\ a.steps # <<>> /\ D!Last(a.steps).kind = "submitted"
          /\ fate[n]["create"] = "applied"

\* What is true of every attempt, and of those that are not begun.
AttemptsAgree ==
  /\ \A n \in 1..Len(attempts) :
       /\ Progress(n)
       /\ fate[n]["create"] = "applied" => attempts[n].at \in contracts
  /\ \A n \in 1..MaxAttempts : n > Len(attempts) => Unsent(n)

\* What is told is told of an attempt that is over.
ToldOfOver == outcome.of # 0 => attempts[outcome.of].pc = "over"

DeployInv == D!DeployTypes /\ AttemptsAgree /\ ToldOfOver /\ D!DeployTold

\* What DeployTold says of an attempt and a headline.
Told(n, h) ==
  /\ h \in {"deployed", "unread"} => attempts[n].at \in contracts
  /\ h = "deployed" => attempts[n].at \in saved
  /\ h \in {"declined", "refused"} => Unsent(n)
  /\ h \in {"declined later", "refused later"} =>
       fate[n]["upload"] = "applied" /\ D!Unsent(n, "create")
  /\ h = "rejected" => ~Unsent(n)

LastTold == outcome.of # 0 => Told(outcome.of, outcome.headline)

LEMMA ToldMeans ==
  /\ D!DeployTold <=> saved \subseteq contracts /\ LastTold
  /\ (D!DeployTold <=> saved \subseteq contracts /\ LastTold)'
BY DEF D!DeployTold, LastTold, Told, Unsent

\* An attempt moves on; the others stay as they are, and so does its address.
Moved(n) ==
  /\ attempts' \in Seq(D!Attempt) /\ Len(attempts') = Len(attempts)
  /\ \A m \in 1..Len(attempts) : m # n => attempts'[m] = attempts[m]
  /\ attempts'[n].at = attempts[n].at

LEMMA AttemptMoves ==
  ASSUME D!DeployTypes, NEW n \in 1..Len(attempts), NEW a \in D!Attempt,
         a.at = attempts[n].at, attempts' = [attempts EXCEPT ![n] = a]
  PROVE  Moved(n) /\ attempts'[n] = a
<1>1. attempts \in Seq(D!Attempt)
  BY DEF D!DeployTypes
<1> QED BY <1>1 DEF Moved

\* An attempt's record, one field after the other.
LEMMA WithPc ==
  ASSUME NEW a \in D!Attempt, NEW pc
  PROVE  [a EXCEPT !.pc = pc] = [at |-> a.at, pc |-> pc, op |-> a.op, steps |-> a.steps]
BY DEF D!Attempt

LEMMA WithPcAndSteps ==
  ASSUME NEW a \in D!Attempt, NEW pc, NEW steps
  PROVE  [a EXCEPT !.pc = pc, !.steps = steps]
           = [at |-> a.at, pc |-> pc, op |-> a.op, steps |-> steps]
<1> DEFINE b == [a EXCEPT !.pc = pc]
<1>1. b = [at |-> a.at, pc |-> pc, op |-> a.op, steps |-> a.steps]
  BY WithPc
<1>2. [a EXCEPT !.pc = pc, !.steps = steps] = [b EXCEPT !.steps = steps]
  OBVIOUS
<1> HIDE DEF b
<1>3. [b EXCEPT !.steps = steps] = [at |-> b.at, pc |-> b.pc, op |-> b.op, steps |-> steps]
  BY <1>1
<1> QED BY <1>1, <1>2, <1>3

LEMMA WithStepsAndPc ==
  ASSUME NEW a \in D!Attempt, NEW pc, NEW steps
  PROVE  [a EXCEPT !.steps = steps, !.pc = pc]
           = [at |-> a.at, pc |-> pc, op |-> a.op, steps |-> steps]
<1> DEFINE b == [a EXCEPT !.pc = pc]
<1>1. b = [at |-> a.at, pc |-> pc, op |-> a.op, steps |-> a.steps]
  BY WithPc
<1>2. [a EXCEPT !.steps = steps, !.pc = pc] = [b EXCEPT !.steps = steps]
  OBVIOUS
<1> HIDE DEF b
<1>3. [b EXCEPT !.steps = steps] = [at |-> b.at, pc |-> b.pc, op |-> b.op, steps |-> steps]
  BY <1>1
<1> QED BY <1>1, <1>2, <1>3

LEMMA WithPcAndOp ==
  ASSUME NEW a \in D!Attempt, NEW pc, NEW op
  PROVE  [a EXCEPT !.pc = pc, !.op = op]
           = [at |-> a.at, pc |-> pc, op |-> op, steps |-> a.steps]
<1> DEFINE b == [a EXCEPT !.pc = pc]
<1>1. b = [at |-> a.at, pc |-> pc, op |-> a.op, steps |-> a.steps]
  BY WithPc
<1>2. [a EXCEPT !.pc = pc, !.op = op] = [b EXCEPT !.op = op]
  OBVIOUS
<1> HIDE DEF b
<1>3. [b EXCEPT !.op = op] = [at |-> b.at, pc |-> b.pc, op |-> op, steps |-> b.steps]
  BY <1>1
<1> QED BY <1>1, <1>2, <1>3

LEMMA GotoMoves ==
  ASSUME D!DeployTypes, NEW n \in 1..Len(attempts), NEW pc \in D!Pc, D!Goto(n, pc)
  PROVE  /\ Moved(n)
         /\ attempts'[n].pc = pc
         /\ UNCHANGED <<awaited, outcome>>
         /\ attempts'[n].op = attempts[n].op /\ attempts'[n].steps = attempts[n].steps
<1>1. attempts[n] \in D!Attempt /\ attempts \in Seq(D!Attempt)
  BY DEF D!DeployTypes
<1> DEFINE a == [at |-> attempts[n].at, pc |-> pc, op |-> attempts[n].op,
                 steps |-> attempts[n].steps]
<1>2. a \in D!Attempt
  BY <1>1 DEF D!Attempt
<1>3. attempts' = [attempts EXCEPT ![n] = [attempts[n] EXCEPT !.pc = pc]]
  BY <1>1 DEF D!Goto
<1>4. attempts' = [attempts EXCEPT ![n] = a]
  BY <1>1, <1>3, WithPc
<1>5. /\ a.at = attempts[n].at /\ a.pc = pc /\ a.op = attempts[n].op
      /\ a.steps = attempts[n].steps
  OBVIOUS
<1> HIDE DEF a
<1>6. Moved(n) /\ attempts'[n] = a
  BY <1>2, <1>4, <1>5, AttemptMoves
<1> QED BY <1>5, <1>6 DEF D!Goto

LEMMA FinishMoves ==
  ASSUME D!DeployTypes, NEW n \in 1..Len(attempts), NEW steps \in Seq(D!Step),
         NEW h \in D!Headlines, D!Finish(n, steps, h)
  PROVE  /\ Moved(n)
         /\ attempts'[n].pc = "over"
         /\ awaited' \in {awaited, 0}
         /\ UNCHANGED outcome \/ outcome' = [of |-> n, headline |-> h]
<1>1. attempts[n] \in D!Attempt /\ attempts \in Seq(D!Attempt)
  BY DEF D!DeployTypes
<1> DEFINE a == [at |-> attempts[n].at, pc |-> "over", op |-> attempts[n].op,
                 steps |-> steps]
<1>2. a \in D!Attempt
  BY <1>1 DEF D!Attempt, D!Pc
<1>3. attempts' = [attempts EXCEPT ![n] = [attempts[n] EXCEPT !.pc = "over",
                                                              !.steps = steps]]
  BY <1>1 DEF D!Finish
<1>4. attempts' = [attempts EXCEPT ![n] = a]
  BY <1>1, <1>3, WithPcAndSteps
<1>5. a.at = attempts[n].at /\ a.pc = "over"
  OBVIOUS
<1> HIDE DEF a
<1>6. Moved(n) /\ attempts'[n] = a
  BY <1>2, <1>4, <1>5, AttemptMoves
<1> QED BY <1>5, <1>6 DEF D!Finish

LEMMA RecheckMoves ==
  ASSUME D!DeployTypes, NEW n \in 1..Len(attempts),
         attempts' = [attempts EXCEPT ![n].pc = "prepare", ![n].op = "create"]
  PROVE  /\ Moved(n)
         /\ attempts'[n].pc = "prepare" /\ attempts'[n].op = "create"
         /\ attempts'[n].steps = attempts[n].steps
<1>1. attempts[n] \in D!Attempt /\ attempts \in Seq(D!Attempt)
  BY DEF D!DeployTypes
<1> DEFINE a == [at |-> attempts[n].at, pc |-> "prepare", op |-> "create",
                 steps |-> attempts[n].steps]
<1>2. a \in D!Attempt
  BY <1>1 DEF D!Attempt, D!Pc, D!Ops
<1>3. attempts' = [attempts EXCEPT ![n] = [attempts[n] EXCEPT !.pc = "prepare",
                                                              !.op = "create"]]
  BY <1>1
<1>4. attempts' = [attempts EXCEPT ![n] = a]
  <2>1. [attempts[n] EXCEPT !.pc = "prepare", !.op = "create"] = a
    BY <1>1, WithPcAndOp
  <2> QED BY <1>3, <2>1
<1>5. /\ a.at = attempts[n].at /\ a.pc = "prepare" /\ a.op = "create"
      /\ a.steps = attempts[n].steps
  OBVIOUS
<1> HIDE DEF a
<1>6. Moved(n) /\ attempts'[n] = a
  BY <1>2, <1>4, <1>5, AttemptMoves
<1> QED BY <1>5, <1>6

\* The steps of an attempt after record() has put one more on the list.
Recorded(n, kind) == Append(attempts[n].steps, [op |-> attempts[n].op, kind |-> kind])

LEMMA SubmittedMoves ==
  ASSUME D!DeployTypes, NEW n \in 1..Len(attempts), D!Record(n, "submitted")
  PROVE  /\ Moved(n)
         /\ attempts'[n].pc = IF attempts[n].op = "upload" THEN "recheck" ELSE "read"
         /\ attempts'[n].op = attempts[n].op
         /\ attempts'[n].steps = Recorded(n, "submitted")
         /\ UNCHANGED <<awaited, outcome>>
<1>1. attempts[n] \in D!Attempt /\ attempts \in Seq(D!Attempt)
  BY DEF D!DeployTypes
<1> DEFINE pc == IF attempts[n].op = "upload" THEN "recheck" ELSE "read"
           a == [at |-> attempts[n].at, pc |-> pc, op |-> attempts[n].op,
                 steps |-> Recorded(n, "submitted")]
<1>2. Recorded(n, "submitted") \in Seq(D!Step)
  BY <1>1 DEF D!Attempt, D!Step, Recorded
<1>3. a \in D!Attempt
  BY <1>1, <1>2 DEF D!Attempt, D!Pc
<1>4. attempts' = [attempts EXCEPT ![n].steps = Recorded(n, "submitted"), ![n].pc = pc]
  BY DEF D!Record, Recorded
<1>5. attempts' = [attempts EXCEPT ![n] = [attempts[n] EXCEPT
                                             !.steps = Recorded(n, "submitted"),
                                             !.pc = pc]]
  BY <1>1, <1>4
<1>6. attempts' = [attempts EXCEPT ![n] = a]
  BY <1>1, <1>5, WithStepsAndPc
<1>7. /\ a.at = attempts[n].at /\ a.pc = pc /\ a.op = attempts[n].op
      /\ a.steps = Recorded(n, "submitted")
  OBVIOUS
<1> HIDE DEF a
<1>8. Moved(n) /\ attempts'[n] = a
  BY <1>3, <1>6, <1>7, AttemptMoves
<1> QED BY <1>7, <1>8 DEF D!Record

LEMMA EndedMoves ==
  ASSUME D!DeployTypes, NEW n \in 1..Len(attempts),
         NEW kind \in {"failed", "refused", "cancelled"}, D!Record(n, kind)
  PROVE  /\ Moved(n)
         /\ attempts'[n].pc = "over"
         /\ awaited' \in {awaited, 0}
         /\ \/ UNCHANGED outcome
            \/ outcome' = [of |-> n, headline |-> D!Headline(Recorded(n, kind), FALSE)]
         /\ D!Headline(Recorded(n, kind), FALSE) \in D!Headlines
<1>1. attempts[n] \in D!Attempt
  BY DEF D!DeployTypes
<1>2. Recorded(n, kind) \in Seq(D!Step)
  BY <1>1 DEF D!Attempt, D!Step, Recorded
<1>3. D!Headline(Recorded(n, kind), FALSE) \in D!Headlines
  BY DEF D!Headline, D!Headlines
<1>4. D!Finish(n, Recorded(n, kind), D!Headline(Recorded(n, kind), FALSE))
  BY DEF D!Record, Recorded
<1> QED BY <1>2, <1>3, <1>4, FinishMoves

FateTypes ==
  fate \in [1..MaxAttempts -> [D!Ops -> D!Fates]]

\* What one attempt's move has to keep, for all of the invariant to be kept.
LEMMA AttemptStep ==
  ASSUME DeployInv, MaxAttempts \in Nat, NEW n \in 1..Len(attempts), Moved(n),
         attempts[n].pc # "over",
         \A m \in 1..MaxAttempts : m # n => fate'[m] = fate[m],
         fate'[n]["create"] = "applied" => fate[n]["create"] = "applied",
         contracts' = contracts, saved \subseteq saved', saved' \subseteq contracts',
         Progress(n)',
         \/ UNCHANGED outcome
         \/ outcome'.of = n /\ attempts'[n].pc = "over" /\ LastTold'
  PROVE  AttemptsAgree' /\ ToldOfOver' /\ D!DeployTold'
<1>1. /\ Len(attempts) \in 0..MaxAttempts /\ Len(attempts') = Len(attempts)
      /\ outcome.of \in 0..Len(attempts)
  BY DEF DeployInv, D!DeployTypes, Moved
<1>2. AttemptsAgree'
  <2>1. ASSUME NEW m \in 1..Len(attempts), m # n
        PROVE  Progress(m)' /\ (fate[m]["create"] = "applied"
                                  => attempts[m].at \in contracts)'
    <3>1. attempts'[m] = attempts[m] /\ fate'[m] = fate[m]
      BY <1>1, <2>1 DEF Moved
    <3>2. Progress(m) /\ (fate[m]["create"] = "applied" => attempts[m].at \in contracts)
      BY DEF DeployInv, AttemptsAgree
    <3> QED BY <3>1, <3>2 DEF Progress, Unsent, UploadTold, D!Unsent
  <2>2. (fate[n]["create"] = "applied" => attempts[n].at \in contracts)'
    BY DEF DeployInv, AttemptsAgree, Moved
  <2>3. ASSUME NEW m \in 1..MaxAttempts, m > Len(attempts')
        PROVE  Unsent(m)'
    BY <1>1, <2>3 DEF DeployInv, AttemptsAgree, Unsent, D!Unsent
  <2> QED BY <1>1, <2>1, <2>2, <2>3 DEF AttemptsAgree
<1>3. CASE UNCHANGED outcome
  <2>1. CASE outcome.of = 0
    BY <1>2, <1>3, <2>1, ToldMeans DEF ToldOfOver, LastTold
  <2>2. CASE outcome.of # 0
    <3> DEFINE m == outcome.of
    <3>1. m \in 1..Len(attempts) /\ m # n
      BY <1>1, <2>2 DEF DeployInv, ToldOfOver
    <3>2. attempts'[m] = attempts[m] /\ fate'[m] = fate[m]
      BY <1>1, <3>1 DEF Moved
    <3>3. Told(m, outcome.headline) /\ attempts[m].pc = "over"
      BY <2>2, ToldMeans DEF DeployInv, LastTold, ToldOfOver
    <3>4. Told(m, outcome.headline)'
      BY <1>3, <3>2, <3>3 DEF Told, Unsent, D!Unsent
    <3> HIDE DEF m
    <3>5. LastTold' /\ ToldOfOver'
      BY <1>3, <3>2, <3>3, <3>4 DEF LastTold, ToldOfOver, m
    <3> QED BY <1>2, <3>5, ToldMeans
  <2> QED BY <1>2, <2>1, <2>2
<1>4. CASE outcome'.of = n /\ attempts'[n].pc = "over" /\ LastTold'
  BY <1>2, <1>4, ToldMeans DEF ToldOfOver
<1> QED BY <1>2, <1>3, <1>4

\* The rest of the types, when an attempt moves.
LEMMA AttemptTypes ==
  ASSUME D!DeployTypes, NEW n \in 1..Len(attempts), Moved(n),
         UNCHANGED <<D!inputVars, D!viewVars, D!chainVars, moves>>,
         saved' \subseteq D!Address, FateTypes', awaited' \in {awaited, 0},
         \/ UNCHANGED outcome
         \/ \E h \in D!Headlines : outcome' = [of |-> n, headline |-> h]
  PROVE  D!DeployTypes'
BY DEF D!DeployTypes, Moved, FateTypes, D!inputVars, D!viewVars, D!chainVars

\* The last step decides the headline, and what landed before it.
LEMMA HeadlineOfEnd ==
  ASSUME D!DeployTypes, NEW n \in 1..Len(attempts),
         NEW kind \in {"failed", "refused", "cancelled"}
  PROVE  D!Headline(Recorded(n, kind), FALSE)
           = IF kind = "failed" THEN "rejected"
             ELSE IF D!Landed(attempts[n].steps)
             THEN IF kind = "cancelled" THEN "declined later" ELSE "refused later"
             ELSE IF kind = "cancelled" THEN "declined" ELSE "refused"
<1> DEFINE s == attempts[n].steps
           e == [op |-> attempts[n].op, kind |-> kind]
           t == Append(s, e)
<1>1. s \in Seq(D!Step)
  <2>1. attempts[n] \in D!Attempt
    BY DEF D!DeployTypes
  <2> QED BY <2>1 DEF D!Attempt
<1>2. /\ Len(t) = Len(s) + 1 /\ t[Len(t)] = e /\ DOMAIN t = 1..(Len(s) + 1)
      /\ \A i \in 1..Len(s) : t[i] = s[i]
  BY <1>1
<1>3. DOMAIN s = 1..Len(s) /\ Len(s) \in Nat
  BY <1>1
<1> HIDE DEF t
<1>4. D!Last(t).kind = kind
  BY <1>2 DEF D!Last
<1> HIDE DEF s, e
<1>5. kind # "failed" => (D!Landed(t) <=> D!Landed(s))
  <2>1. e.kind = kind
    BY DEF e
  <2> QED BY <1>2, <1>3, <2>1 DEF D!Landed
<1>6. Recorded(n, kind) = t
  BY DEF Recorded, t, s, e
<1> QED BY <1>4, <1>5, <1>6 DEF D!Headline, s

\* record() of a step that is the last one.
LEMMA EndedStep ==
  ASSUME DeployInv, MaxAttempts \in Nat, NEW n \in 1..Len(attempts),
         NEW kind \in {"failed", "refused", "cancelled"}, D!Record(n, kind),
         UNCHANGED <<D!inputVars, D!viewVars, saved, D!chainVars, fate, moves>>,
         attempts[n].pc # "over",
         kind # "failed" => UploadTold(n) /\ D!Unsent(n, "create"),
         kind = "failed" => ~Unsent(n)
  PROVE  DeployInv'
<1> PICK h : h = D!Headline(Recorded(n, kind), FALSE)
  OBVIOUS
<1>1. /\ Moved(n) /\ attempts'[n].pc = "over" /\ awaited' \in {awaited, 0}
      /\ UNCHANGED outcome \/ outcome' = [of |-> n, headline |-> h]
      /\ h \in D!Headlines
  BY EndedMoves DEF DeployInv
<1>2. D!DeployTypes'
  BY <1>1, AttemptTypes DEF DeployInv, D!DeployTypes, FateTypes, D!chainVars
<1>3. Progress(n)'
  BY <1>1 DEF Progress
<1>4. Told(n, h)'
  <2>1. h = IF kind = "failed" THEN "rejected"
            ELSE IF D!Landed(attempts[n].steps)
            THEN IF kind = "cancelled" THEN "declined later" ELSE "refused later"
            ELSE IF kind = "cancelled" THEN "declined" ELSE "refused"
    BY HeadlineOfEnd DEF DeployInv
  <2>2. UNCHANGED <<fate, contracts, saved>>
    BY DEF D!chainVars
  <2>3. CASE kind = "failed"
    BY <2>1, <2>2, <2>3 DEF Told, Unsent, D!Unsent
  <2>4. CASE kind # "failed" /\ D!Landed(attempts[n].steps)
    <3>1. attempts[n].steps # <<>>
      BY <2>4 DEF D!Landed
    <3>2. fate[n]["upload"] = "applied" /\ D!Unsent(n, "create")
      BY <2>4, <3>1 DEF UploadTold
    <3> QED BY <2>1, <2>2, <2>4, <3>2 DEF Told, Unsent, D!Unsent
  <2>5. CASE kind # "failed" /\ ~D!Landed(attempts[n].steps)
    <3>1. D!Unsent(n, "upload") /\ D!Unsent(n, "create")
      <4>1. ASSUME attempts[n].steps = <<[op |-> "upload", kind |-> "submitted"]>>
            PROVE  D!Landed(attempts[n].steps)
        BY <4>1 DEF D!Landed
      <4> QED BY <2>5, <4>1 DEF UploadTold
    <3> QED BY <2>1, <2>2, <2>5, <3>1 DEF Told, Unsent, D!Unsent
  <2> QED BY <2>3, <2>4, <2>5
<1>5. ASSUME outcome' = [of |-> n, headline |-> h]
      PROVE  outcome'.of = n /\ LastTold'
  <2>1. outcome'.of = n /\ outcome'.headline = h
    BY <1>5
  <2> QED BY <1>4, <2>1 DEF LastTold, Told
<1>6. saved' \subseteq contracts' /\ contracts' = contracts /\ saved' = saved
  BY ToldMeans DEF DeployInv, D!chainVars
<1>7. \/ UNCHANGED outcome
      \/ outcome'.of = n /\ attempts'[n].pc = "over" /\ LastTold'
  BY <1>1, <1>5
<1>8. AttemptsAgree' /\ ToldOfOver' /\ D!DeployTold'
  BY <1>1, <1>3, <1>6, <1>7, AttemptStep
<1> QED BY <1>2, <1>8 DEF DeployInv

\* A read or the wallet threw: nothing is claimed of what was sent.
LEMMA ThrownStep ==
  ASSUME DeployInv, MaxAttempts \in Nat, NEW n \in 1..Len(attempts), D!Throw(n),
         UNCHANGED <<D!inputVars, D!viewVars, saved, D!chainVars, moves>>,
         attempts[n].pc # "over", FateTypes',
         \A m \in 1..MaxAttempts : m # n => fate'[m] = fate[m],
         fate'[n]["create"] = "applied" => fate[n]["create"] = "applied"
  PROVE  DeployInv'
<1>1. /\ Moved(n) /\ attempts'[n].pc = "over" /\ awaited' \in {awaited, 0}
      /\ UNCHANGED outcome \/ outcome' = [of |-> n, headline |-> "not completed"]
  <2>1. attempts[n] \in D!Attempt
    BY DEF DeployInv, D!DeployTypes
  <2>2. attempts[n].steps \in Seq(D!Step) /\ "not completed" \in D!Headlines
    BY <2>1 DEF D!Attempt, D!Headlines
  <2> QED BY <2>2, FinishMoves DEF DeployInv, D!Throw
<1>2. D!DeployTypes'
  BY <1>1, AttemptTypes DEF DeployInv, D!DeployTypes, D!Headlines
<1>3. Progress(n)'
  BY <1>1 DEF Progress
<1>4. ASSUME outcome' = [of |-> n, headline |-> "not completed"]
      PROVE  outcome'.of = n /\ LastTold'
  <2>1. outcome'.of = n /\ outcome'.headline = "not completed"
    BY <1>4
  <2> QED BY <2>1 DEF LastTold, Told
<1>5. saved' \subseteq contracts' /\ contracts' = contracts /\ saved' = saved
  BY ToldMeans DEF DeployInv, D!chainVars
<1>7. \/ UNCHANGED outcome
      \/ outcome'.of = n /\ attempts'[n].pc = "over" /\ LastTold'
  BY <1>1, <1>4
<1>6. AttemptsAgree' /\ ToldOfOver' /\ D!DeployTold'
  BY <1>1, <1>3, <1>5, <1>7, AttemptStep
<1> QED BY <1>2, <1>6 DEF DeployInv

\* It goes on, and nothing else changes than perhaps what it has sent.
LEMMA GoingStep ==
  ASSUME DeployInv, MaxAttempts \in Nat, NEW n \in 1..Len(attempts), Moved(n),
         UNCHANGED <<D!inputVars, D!viewVars, awaited, outcome, saved, D!chainVars, moves>>,
         attempts[n].pc # "over", FateTypes',
         \A m \in 1..MaxAttempts : m # n => fate'[m] = fate[m],
         fate'[n]["create"] = "applied" => fate[n]["create"] = "applied",
         Progress(n)'
  PROVE  DeployInv'
<1>1. D!DeployTypes'
  BY AttemptTypes DEF DeployInv, D!DeployTypes
<1>2. saved' \subseteq contracts' /\ contracts' = contracts /\ saved' = saved
  BY ToldMeans DEF DeployInv, D!chainVars
<1>3. AttemptsAgree' /\ ToldOfOver' /\ D!DeployTold'
  BY <1>2, AttemptStep
<1> QED BY <1>1, <1>3 DEF DeployInv

LEMMA InvFacts ==
  ASSUME DeployInv, MaxAttempts \in Nat, NEW n \in 1..Len(attempts)
  PROVE  /\ attempts[n] \in D!Attempt /\ attempts[n].op \in D!Ops
         /\ attempts[n].pc \in D!Pc /\ attempts[n].steps \in Seq(D!Step)
         /\ n \in 1..MaxAttempts /\ FateTypes
         /\ Progress(n) /\ saved \subseteq contracts
<1>1. attempts[n] \in D!Attempt
  BY DEF DeployInv, D!DeployTypes
<1>2. n \in 1..MaxAttempts /\ FateTypes
  BY DEF DeployInv, D!DeployTypes, FateTypes
<1>3. Progress(n) /\ saved \subseteq contracts
  BY ToldMeans DEF DeployInv, AttemptsAgree
<1> QED BY <1>1, <1>2, <1>3 DEF D!Attempt

LEMMA ChecksStep ==
  ASSUME DeployInv, MaxAttempts \in Nat, NEW n \in 1..Len(attempts), NEW answers \in BOOLEAN,
         D!CheckAddress(n, answers) \/ D!CheckArtifact(n, answers) \/ D!ReadCode(n, answers)
  PROVE  DeployInv'
<1>1. /\ UNCHANGED <<D!inputVars, D!viewVars, saved, D!chainVars, moves>> /\ fate' = fate
      /\ attempts[n].pc # "over" /\ FateTypes' /\ Progress(n)
  BY InvFacts DEF D!CheckAddress, D!CheckArtifact, D!ReadCode, FateTypes
<1>2. CASE D!Throw(n)
  BY <1>1, <1>2, ThrownStep
<1>3. ASSUME NEW pc \in {"artifact", "code", "recheck", "prepare"}, D!Goto(n, pc),
             attempts[n].pc \in {"check", "artifact", "code"}
      PROVE  DeployInv'
  <2>1. /\ Moved(n) /\ attempts'[n].pc = pc /\ UNCHANGED <<awaited, outcome>>
        /\ attempts'[n].op = attempts[n].op /\ attempts'[n].steps = attempts[n].steps
    BY <1>3, GotoMoves DEF DeployInv, D!Pc
  <2>2. Progress(n)'
    BY <1>1, <1>3, <2>1 DEF Progress, UploadTold, Unsent, D!Unsent
  <2> QED BY <1>1, <2>1, <2>2, GoingStep
<1>4. CASE /\ attempts[n].pc = "recheck"
           /\ attempts' = [attempts EXCEPT ![n].pc = "prepare", ![n].op = "create"]
           /\ UNCHANGED <<awaited, outcome>>
  <2>1. /\ Moved(n) /\ attempts'[n].pc = "prepare" /\ attempts'[n].op = "create"
        /\ attempts'[n].steps = attempts[n].steps
    BY <1>4, RecheckMoves DEF DeployInv
  <2>2. Progress(n)'
    BY <1>1, <1>4, <2>1 DEF Progress, UploadTold, D!Unsent
  <2> QED BY <1>1, <1>4, <2>1, <2>2, GoingStep
<1>5. CASE D!CheckAddress(n, answers)
  BY <1>2, <1>3, <1>4, <1>5 DEF D!CheckAddress
<1>6. CASE D!CheckArtifact(n, answers)
  BY <1>2, <1>3, <1>6 DEF D!CheckArtifact
<1>7. CASE D!ReadCode(n, answers)
  BY <1>2, <1>3, <1>7 DEF D!ReadCode
<1> QED BY <1>5, <1>6, <1>7

\* Until it is sent, the operation that is being submitted has no transaction.
LEMMA BeforeSending ==
  ASSUME DeployInv, MaxAttempts \in Nat, NEW n \in 1..Len(attempts),
         UNCHANGED <<D!inputVars, D!viewVars, saved, D!chainVars, fate, moves>>,
         attempts[n].pc \in {"prepare", "prompt", "sign", "send"},
         \/ \E pc \in {"prompt", "sign", "send"} : D!Goto(n, pc)
         \/ \E kind \in {"refused", "cancelled"} : D!Record(n, kind)
         \/ D!Throw(n)
  PROVE  DeployInv'
<1>1. FateTypes' /\ Progress(n)
  BY InvFacts DEF FateTypes
<1>2. ASSUME NEW pc \in {"prompt", "sign", "send"}, D!Goto(n, pc)
      PROVE  DeployInv'
  <2>1. /\ Moved(n) /\ attempts'[n].pc = pc /\ UNCHANGED <<awaited, outcome>>
        /\ attempts'[n].op = attempts[n].op /\ attempts'[n].steps = attempts[n].steps
    BY <1>2, GotoMoves DEF DeployInv, D!Pc
  <2>2. Progress(n)'
    BY <1>1, <1>2, <2>1 DEF Progress, UploadTold, D!Unsent
  <2> QED BY <1>1, <2>1, <2>2, GoingStep
<1>3. ASSUME NEW kind \in {"refused", "cancelled"}, D!Record(n, kind)
      PROVE  DeployInv'
  <2>1. UploadTold(n) /\ D!Unsent(n, "create")
    BY <1>1 DEF Progress
  <2> QED BY <1>3, <2>1, EndedStep
<1>4. CASE D!Throw(n)
  BY <1>1, <1>4, ThrownStep
<1> QED BY <1>2, <1>3, <1>4

LEMMA PromptsStep ==
  ASSUME DeployInv, MaxAttempts \in Nat, NEW n \in 1..Len(attempts),
         \/ \E answers \in BOOLEAN : D!Prepare(n, answers)
         \/ D!Prompt(n)
         \/ \E answer \in {"signed", "declined", "error"} : D!Sign(n, answer)
  PROVE  DeployInv'
<1>1. ASSUME NEW answers \in BOOLEAN, D!Prepare(n, answers)
      PROVE  DeployInv'
  BY <1>1, BeforeSending DEF D!Prepare
<1>2. CASE D!Prompt(n)
  BY <1>2, BeforeSending DEF D!Prompt
<1>3. ASSUME NEW answer \in {"signed", "declined", "error"}, D!Sign(n, answer)
      PROVE  DeployInv'
  BY <1>3, BeforeSending DEF D!Sign
<1> QED BY <1>1, <1>2, <1>3

LEMMA SendsStep ==
  ASSUME DeployInv, MaxAttempts \in Nat, NEW n \in 1..Len(attempts),
         NEW answer \in {"taken", "refused", "none"}, D!Send(n, answer)
  PROVE  DeployInv'
<1>1. /\ UNCHANGED <<D!inputVars, D!viewVars, saved, D!chainVars, moves>>
      /\ attempts[n].pc = "send"
  BY DEF D!Send
<1>2. /\ n \in 1..MaxAttempts /\ FateTypes /\ Progress(n) /\ attempts[n].op \in D!Ops
  BY InvFacts
<1>3. CASE D!Record(n, "refused") /\ UNCHANGED fate
  BY <1>1, <1>3, BeforeSending
<1>4. CASE D!Throw(n) /\ UNCHANGED fate
  BY <1>1, <1>4, BeforeSending
<1>5. ASSUME D!Sends(n)
      PROVE  /\ FateTypes' /\ \A m \in 1..MaxAttempts : m # n => fate'[m] = fate[m]
             /\ fate'[n]["create"] = "applied" => fate[n]["create"] = "applied"
             /\ fate'[n][attempts[n].op] = "pending"
             /\ \A op \in D!Ops : op # attempts[n].op => fate'[n][op] = fate[n][op]
  BY <1>2, <1>5 DEF D!Sends, FateTypes, D!Fates, D!Ops
<1>6. CASE D!Throw(n) /\ D!Sends(n)
  BY <1>1, <1>5, <1>6, ThrownStep
<1>7. CASE D!Goto(n, "poll") /\ D!Sends(n)
  <2>1. /\ Moved(n) /\ attempts'[n].pc = "poll" /\ UNCHANGED <<awaited, outcome>>
        /\ attempts'[n].op = attempts[n].op /\ attempts'[n].steps = attempts[n].steps
    BY <1>7, GotoMoves DEF DeployInv, D!Pc
  <2>2. Progress(n)'
    <3>1. CASE attempts[n].op = "upload"
      BY <1>1, <1>2, <1>5, <1>7, <2>1, <3>1 DEF Progress, D!Unsent, D!Ops
    <3>2. CASE attempts[n].op = "create"
      BY <1>1, <1>2, <1>5, <1>7, <2>1, <3>2 DEF Progress, UploadTold, D!Unsent, D!Ops
    <3> QED BY <1>2, <3>1, <3>2 DEF D!Ops
  <2> QED BY <1>1, <1>5, <1>7, <2>1, <2>2, GoingStep
<1> QED BY <1>3, <1>4, <1>6, <1>7 DEF D!Send

LEMMA PollsStep ==
  ASSUME DeployInv, MaxAttempts \in Nat, NEW n \in 1..Len(attempts), D!Poll(n)
  PROVE  DeployInv'
<1>1. /\ UNCHANGED <<D!inputVars, D!viewVars, saved, D!chainVars, fate, moves>>
      /\ attempts[n].pc = "poll"
  BY DEF D!Poll
<1>2. /\ n \in 1..MaxAttempts /\ FateTypes /\ Progress(n) /\ attempts[n].op \in D!Ops
      /\ attempts[n].steps \in Seq(D!Step)
  BY InvFacts
<1>3. ~Unsent(n)
  BY <1>1, <1>2 DEF Progress, Unsent, D!Ops
<1>4. CASE D!Record(n, "failed")
  BY <1>1, <1>3, <1>4, EndedStep
<1>5. CASE fate[n][attempts[n].op] = "applied" /\ D!Record(n, "submitted")
  <2>1. /\ Moved(n) /\ attempts'[n].op = attempts[n].op
        /\ attempts'[n].pc = IF attempts[n].op = "upload" THEN "recheck" ELSE "read"
        /\ attempts'[n].steps = Recorded(n, "submitted") /\ UNCHANGED <<awaited, outcome>>
    BY <1>5, SubmittedMoves DEF DeployInv
  <2>2. CASE attempts[n].op = "upload"
    <3>1. attempts'[n].steps = <<[op |-> "upload", kind |-> "submitted"]>>
      <4>1. attempts[n].steps = <<>>
        BY <1>1, <1>2, <2>2 DEF Progress
      <4>2. Append(<<>>, [op |-> "upload", kind |-> "submitted"])
              = <<[op |-> "upload", kind |-> "submitted"]>>
        OBVIOUS
      <4> QED BY <2>1, <2>2, <4>1, <4>2 DEF Recorded
    <3>2. Progress(n)'
      BY <1>1, <1>2, <1>5, <2>1, <2>2, <3>1 DEF Progress, UploadTold, D!Unsent
    <3> QED BY <1>1, <1>2, <2>1, <3>2, GoingStep DEF FateTypes
  <2>3. CASE attempts[n].op = "create"
    <3>1. attempts'[n].steps # <<>> /\ D!Last(attempts'[n].steps).kind = "submitted"
      BY <1>2, <2>1 DEF Recorded, D!Last
    <3>2. Progress(n)'
      BY <1>1, <1>2, <1>5, <2>1, <2>3, <3>1 DEF Progress
    <3> QED BY <1>1, <1>2, <2>1, <3>2, GoingStep DEF FateTypes
  <2> QED BY <1>2, <2>2, <2>3 DEF D!Ops
<1> QED BY <1>4, <1>5 DEF D!Poll

LEMMA ReadsBackStep ==
  ASSUME DeployInv, MaxAttempts \in Nat, NEW n \in 1..Len(attempts), NEW answers \in BOOLEAN,
         D!ReadBack(n, answers)
  PROVE  DeployInv'
<1> DEFINE found == answers /\ attempts[n].at \in contracts
<1>1. /\ UNCHANGED <<D!inputVars, D!viewVars, D!chainVars, fate, moves>>
      /\ attempts[n].pc = "read" /\ contracts' = contracts /\ fate' = fate
  BY DEF D!ReadBack, D!chainVars
<1>2. /\ n \in 1..MaxAttempts /\ FateTypes /\ Progress(n) /\ saved \subseteq contracts
      /\ attempts[n] \in D!Attempt /\ attempts[n].steps \in Seq(D!Step)
  BY InvFacts
<1>3. attempts[n].at \in contracts /\ D!Last(attempts[n].steps).kind = "submitted"
  BY <1>1, <1>2 DEF Progress, DeployInv, AttemptsAgree
<1> PICK h : h = IF answers THEN "deployed" ELSE "unread"
  OBVIOUS
<1>4. D!Headline(attempts[n].steps, found) = h
  BY <1>3 DEF D!Headline
<1>5. h \in D!Headlines /\ D!Finish(n, attempts[n].steps, h)
  BY <1>4 DEF D!Headlines, D!ReadBack
<1>6. /\ Moved(n) /\ attempts'[n].pc = "over" /\ awaited' \in {awaited, 0}
      /\ UNCHANGED outcome \/ outcome' = [of |-> n, headline |-> h]
  BY <1>2, <1>5, FinishMoves DEF DeployInv
<1>7. /\ saved' = saved \cup IF answers THEN {attempts[n].at} ELSE {}
      /\ saved' \subseteq contracts' /\ saved \subseteq saved'
  BY <1>1, <1>2, <1>3 DEF D!ReadBack
<1>8. saved' \subseteq D!Address
  BY <1>2, <1>7 DEF DeployInv, D!DeployTypes, D!Attempt
<1>9. D!DeployTypes'
  BY <1>1, <1>2, <1>5, <1>6, <1>8, AttemptTypes DEF DeployInv, FateTypes
<1>10. Progress(n)'
  BY <1>6 DEF Progress
<1>11. ASSUME outcome' = [of |-> n, headline |-> h]
       PROVE  outcome'.of = n /\ LastTold'
  <2>1. outcome'.of = n /\ outcome'.headline = h
    BY <1>11
  <2>2. attempts'[n].at = attempts[n].at /\ attempts[n].at \in contracts'
    BY <1>1, <1>3, <1>6 DEF Moved
  <2> QED BY <1>7, <2>1, <2>2 DEF LastTold, Told
<1>12. \/ UNCHANGED outcome
       \/ outcome'.of = n /\ attempts'[n].pc = "over" /\ LastTold'
  BY <1>6, <1>11
<1>13. AttemptsAgree' /\ ToldOfOver' /\ D!DeployTold'
  BY <1>1, <1>6, <1>7, <1>10, <1>12, AttemptStep
<1> QED BY <1>9, <1>13 DEF DeployInv

\* The network decides what is pending, and takes back nothing.
LEMMA NetworkStep ==
  ASSUME DeployInv, MaxAttempts \in Nat, NEW n \in 1..Len(attempts), NEW op \in D!Ops,
         D!Include(n, op) \/ D!Lose(n, op)
  PROVE  DeployInv'
<1>1. /\ UNCHANGED <<D!inputVars, D!viewVars, moves>>
      /\ attempts' = attempts /\ awaited' = awaited /\ outcome' = outcome /\ saved' = saved
      /\ fate[n][op] = "pending"
      /\ contracts \subseteq contracts'
      /\ contracts' \subseteq contracts \cup {attempts[n].at}
  BY DEF D!Include, D!Lose, D!chainVars
<1>2. /\ n \in 1..MaxAttempts /\ FateTypes /\ attempts[n] \in D!Attempt
      /\ saved \subseteq contracts
  BY InvFacts
<1>3. PICK f \in {"applied", "rejected", "lost"} :
        /\ fate' = [fate EXCEPT ![n][op] = f]
        /\ f = "applied" /\ op = "create" => attempts[n].at \in contracts'
  BY DEF D!Include, D!Lose
<1>4. /\ FateTypes'
      /\ \A m \in 1..MaxAttempts, o \in D!Ops :
           /\ fate[m][o] # "pending" => fate'[m][o] = fate[m][o]
           /\ fate[m][o] = "pending" => fate'[m][o] \notin {"unsent", "done"}
           /\ fate'[m][o] = "applied" =>
                fate[m][o] = "applied" \/ (m = n /\ o = op /\ f = "applied")
  BY <1>1, <1>2, <1>3 DEF FateTypes, D!Fates
<1>5. D!DeployTypes'
  <2>1. contracts' \subseteq D!Address /\ code' \in BOOLEAN
    BY <1>1, <1>2 DEF DeployInv, D!DeployTypes, D!Attempt, D!Include, D!Lose, D!chainVars
  <2> QED BY <1>1, <1>4, <2>1
      DEF DeployInv, D!DeployTypes, FateTypes, D!inputVars, D!viewVars
<1>6. Len(attempts) \in 0..MaxAttempts
  BY DEF DeployInv, D!DeployTypes
<1>7. AttemptsAgree'
  <2>1. ASSUME NEW m \in 1..Len(attempts)
        PROVE  Progress(m)' /\ (fate[m]["create"] = "applied"
                                  => attempts[m].at \in contracts)'
    <3>1. Progress(m) /\ (fate[m]["create"] = "applied" => attempts[m].at \in contracts)
      BY DEF DeployInv, AttemptsAgree
    <3>2. m \in 1..MaxAttempts /\ attempts[m].op \in D!Ops
      BY InvFacts
    <3>3. Progress(m)'
      BY <1>1, <1>4, <3>1, <3>2 DEF Progress, Unsent, UploadTold, D!Unsent, D!Ops
    <3>4. (fate[m]["create"] = "applied" => attempts[m].at \in contracts)'
      BY <1>1, <1>3, <1>4, <3>1, <3>2 DEF D!Ops
    <3> QED BY <3>3, <3>4
  <2>2. ASSUME NEW m \in 1..MaxAttempts, m > Len(attempts)
        PROVE  Unsent(m)'
    <3>1. Unsent(m)
      BY <2>2 DEF DeployInv, AttemptsAgree
    <3> QED BY <1>4, <3>1 DEF Unsent, D!Unsent, D!Ops
  <2> QED BY <1>1, <2>1, <2>2 DEF AttemptsAgree
<1>8. ToldOfOver'
  BY <1>1 DEF DeployInv, ToldOfOver
<1>9. LastTold'
  <2> DEFINE m == outcome.of
  <2>1. CASE m = 0
    BY <1>1, <2>1 DEF LastTold
  <2>2. CASE m # 0
    <3>1. m \in 1..MaxAttempts
      BY <1>6, <2>2 DEF DeployInv, D!DeployTypes
    <3>2. Told(m, outcome.headline)
      BY <2>2, ToldMeans DEF DeployInv, LastTold
    <3>3. Told(m, outcome.headline)'
      BY <1>1, <1>4, <3>1, <3>2 DEF Told, Unsent, D!Unsent, D!Ops
    <3> QED BY <1>1, <3>3 DEF LastTold
  <2> QED BY <2>1, <2>2
<1>10. saved' \subseteq contracts'
  BY <1>1, <1>2
<1> QED BY <1>5, <1>7, <1>8, <1>9, <1>10, ToldMeans DEF DeployInv

\* What the operator does before and beside a deploy touches no attempt.
LEMMA ViewStep ==
  ASSUME DeployInv, D!DeployTypes',
         UNCHANGED <<attempts, saved, contracts, fate>>,
         outcome' = outcome \/ outcome' = D!Untold
  PROVE  DeployInv'
<1>1. AttemptsAgree'
  BY DEF DeployInv, AttemptsAgree, Progress, UploadTold, Unsent, D!Unsent
<1>2. CASE outcome' = outcome
  BY <1>1, <1>2 DEF DeployInv, ToldOfOver, D!DeployTold, D!Unsent
<1>3. CASE outcome' = D!Untold
  <2>1. outcome'.of = 0
    BY <1>3 DEF D!Untold
  <2> QED BY <1>1, <2>1 DEF DeployInv, ToldOfOver, D!DeployTold
<1> QED BY <1>2, <1>3

LEMMA ReplanTypes ==
  ASSUME D!Replan, (account \in Accounts \cup {None})', (salt \in Salts)'
  PROVE  planning' \in D!Address \cup {None}
BY DEF D!Replan, D!Address

LEMMA ReinspectTypes ==
  ASSUME D!DeployTypes, D!Reinspect, plan' \in D!Address \cup {None}
  PROVE  inspecting' \in D!Address \cup {None}
BY DEF D!Reinspect, D!DeployTypes, D!Plan

LEMMA InputsStep ==
  ASSUME DeployInv, MaxMoves \in Nat,
         \/ D!Connect \/ D!StartSearch
         \/ \E a \in Accounts \cup {None} : D!ExtensionMoves(a)
         \/ \E s \in Salts : D!ChooseSalt(s) \/ D!SearchEnds(s) \/ D!Leave(s)
  PROVE  DeployInv'
<1>1. D!DeployTypes
  BY DEF DeployInv
<1>2. CASE D!Connect
  <2>1. D!DeployTypes'
    BY <1>1, <1>2 DEF D!Connect, D!DeployTypes, D!Moves, D!Replan, D!Reinspect, D!Plan,
       D!Predicted, D!chainVars, D!Address
  <2> QED BY <1>2, <2>1, ViewStep DEF D!Connect, D!chainVars
<1>3. CASE D!StartSearch
  <2>1. D!DeployTypes'
    BY <1>1, <1>3 DEF D!StartSearch, D!DeployTypes, D!Moves, D!viewVars, D!chainVars
  <2> QED BY <1>3, <2>1, ViewStep DEF D!StartSearch, D!chainVars
<1>4. ASSUME NEW a \in Accounts \cup {None}, D!ExtensionMoves(a)
      PROVE  DeployInv'
  <2>1. D!DeployTypes'
    BY <1>1, <1>4 DEF D!ExtensionMoves, D!DeployTypes, D!Moves, D!viewVars, D!chainVars
  <2> QED BY <1>4, <2>1, ViewStep DEF D!ExtensionMoves, D!chainVars
<1>5. ASSUME NEW s \in Salts, D!ChooseSalt(s)
      PROVE  DeployInv'
  <2>1. D!DeployTypes'
    BY <1>1, <1>5 DEF D!ChooseSalt, D!DeployTypes, D!Moves, D!Replan, D!Reinspect, D!Plan,
       D!Predicted, D!chainVars, D!Address
  <2> QED BY <1>5, <2>1, ViewStep DEF D!ChooseSalt, D!chainVars
<1>6. ASSUME NEW s \in Salts, D!SearchEnds(s)
      PROVE  DeployInv'
  <2>1. D!DeployTypes'
    <3>1. planning' \in D!Address \cup {None} /\ inspecting' \in D!Address \cup {None}
      BY <1>1, <1>6, ReplanTypes, ReinspectTypes DEF D!SearchEnds, D!DeployTypes
    <3> QED BY <1>1, <1>6, <3>1 DEF D!SearchEnds, D!DeployTypes, D!chainVars
  <2> QED BY <1>6, <2>1, ViewStep DEF D!SearchEnds, D!chainVars
<1>7. ASSUME NEW s \in Salts, D!Leave(s)
      PROVE  DeployInv'
  <2>1. D!DeployTypes'
    <3>1. planning' \in D!Address \cup {None} /\ inspecting' \in D!Address \cup {None}
      BY <1>1, <1>7, ReplanTypes, ReinspectTypes DEF D!Leave, D!DeployTypes
    <3>2. inspection' \in [at : D!Address \cup {None},
                          state : {"checking", "available", "existing", "error"}]
      BY <1>7 DEF D!Leave, D!Nothing
    <3>3. (/\ awaited \in 0..Len(attempts)
           /\ outcome \in [of : 0..Len(attempts), headline : D!Headlines \cup {None}])'
      <4>1. Len(attempts') \in Nat
        BY <1>1, <1>7 DEF D!DeployTypes, D!Leave
      <4> QED BY <1>7, <4>1 DEF D!Leave, D!Untold
    <3>4. /\ UNCHANGED <<account, extension, attempts, saved, code, contracts, fate>>
          /\ salt' = s /\ searching' = FALSE /\ plan' = None /\ moves' \in 0..MaxMoves
      BY <1>1, <1>7 DEF D!Leave, D!DeployTypes, D!Moves, D!chainVars
    <3> QED BY <1>1, <3>1, <3>2, <3>3, <3>4 DEF D!DeployTypes
  <2> QED BY <1>7, <2>1, ViewStep DEF D!Leave, D!chainVars
<1> QED BY <1>2, <1>3, <1>4, <1>5, <1>6, <1>7

LEMMA LooksStep ==
  ASSUME DeployInv, NEW answers \in BOOLEAN, D!PlanRead(answers) \/ D!Inspect(answers)
  PROVE  DeployInv'
<1>1. D!DeployTypes
  BY DEF DeployInv
<1>2. CASE D!PlanRead(answers)
  <2>1. D!DeployTypes'
    BY <1>1, <1>2 DEF D!PlanRead, D!DeployTypes, D!Reinspect, D!Plan, D!Predicted,
       D!inputVars, D!chainVars, D!Address
  <2> QED BY <1>2, <2>1, ViewStep DEF D!PlanRead, D!chainVars
<1>3. CASE D!Inspect(answers)
  <2>1. D!DeployTypes'
    BY <1>1, <1>3 DEF D!Inspect, D!DeployTypes, D!inputVars, D!chainVars
  <2> QED BY <1>3, <2>1, ViewStep DEF D!Inspect, D!chainVars
<1> QED BY <1>2, <1>3

LEMMA DeployBegins ==
  ASSUME DeployInv, MaxAttempts \in Nat, D!Deploy
  PROVE  DeployInv'
<1> PICK n : n = Len(attempts) + 1
  OBVIOUS
<1> DEFINE a == [at |-> D!Predicted, pc |-> "check", op |-> "upload", steps |-> <<>>]
<1>1. /\ attempts \in Seq(D!Attempt) /\ Len(attempts) \in 0..MaxAttempts
      /\ n \in 1..MaxAttempts /\ D!DeployTypes
  BY DEF DeployInv, D!DeployTypes, D!Deploy
<1>2. D!Predicted \in D!Address
  BY <1>1 DEF D!Deploy, D!MayDeploy, D!Predicted, D!Address, D!DeployTypes
<1>3. a \in D!Attempt
  BY <1>2 DEF D!Attempt, D!Pc, D!Ops
<1>4. attempts' = Append(attempts, a)
  BY DEF D!Deploy
<1>5. /\ a.pc = "check" /\ a.op = "upload" /\ a.steps = <<>>
  OBVIOUS
<1> HIDE DEF a
<1>6. /\ attempts' \in Seq(D!Attempt) /\ Len(attempts') = n /\ attempts'[n] = a
      /\ \A m \in 1..Len(attempts) : attempts'[m] = attempts[m]
  BY <1>1, <1>3, <1>4
<1>7. /\ UNCHANGED <<D!inputVars, D!viewVars, D!chainVars, moves>>
      /\ contracts' = contracts /\ saved' = saved
      /\ awaited' = n /\ outcome' = D!Untold
  BY <1>6 DEF D!Deploy, D!chainVars
<1> DEFINE found == [op \in D!Ops |-> IF D!Done(op) THEN "done" ELSE "unsent"]
<1>12. FateTypes' /\ Unsent(n)' /\ \A m \in 1..MaxAttempts : m # n => fate'[m] = fate[m]
  <2>1. found \in [D!Ops -> D!Fates] /\ \A op \in D!Ops : found[op] \in {"unsent", "done"}
    BY DEF D!Fates
  <2>2. fate' = [fate EXCEPT ![n] = found]
    BY <1>6 DEF D!Deploy
  <2> HIDE DEF found
  <2> QED BY <1>1, <2>1, <2>2 DEF D!DeployTypes, FateTypes, Unsent, D!Unsent, D!Ops
<1>8. D!DeployTypes'
  BY <1>1, <1>6, <1>7, <1>12 DEF FateTypes, D!DeployTypes, D!Untold, D!inputVars, D!viewVars, D!chainVars
<1>9. AttemptsAgree'
  <2>2. Progress(n)' /\ (fate[n]["create"] = "applied" => attempts[n].at \in contracts)'
    BY <1>5, <1>6, <1>7, <1>12 DEF Progress, Unsent, D!Unsent
  <2>3. ASSUME NEW m \in 1..Len(attempts)
        PROVE  Progress(m)' /\ (fate[m]["create"] = "applied"
                                  => attempts[m].at \in contracts)'
    <3>1. attempts'[m] = attempts[m] /\ fate'[m] = fate[m]
      BY <1>1, <1>6, <1>12
    <3> QED BY <1>7, <3>1 DEF DeployInv, AttemptsAgree, Progress, UploadTold, Unsent, D!Unsent
  <2>4. ASSUME NEW m \in 1..MaxAttempts, m > n
        PROVE  Unsent(m)'
    BY <1>1, <1>12, <2>4 DEF DeployInv, AttemptsAgree, Unsent, D!Unsent
  <2> QED BY <1>1, <1>6, <2>2, <2>3, <2>4 DEF AttemptsAgree
<1>10. outcome'.of = 0
  BY <1>7 DEF D!Untold
<1>11. saved' \subseteq contracts'
  BY <1>7, ToldMeans DEF DeployInv
<1> QED BY <1>8, <1>9, <1>10, <1>11 DEF DeployInv, ToldOfOver, D!DeployTold

LEMMA DeployStep ==
  ASSUME DeployInv, MaxAttempts \in Nat, MaxMoves \in Nat, [D!Next]_(D!vars)
  PROVE  DeployInv'
<1>1. CASE UNCHANGED D!vars
  <2>1. D!DeployTypes'
    BY <1>1 DEF D!vars, D!inputVars, D!viewVars, D!chainVars, DeployInv, D!DeployTypes
  <2> QED BY <1>1, <2>1, ViewStep DEF D!vars, D!chainVars
<1>2. ASSUME NEW n \in DOMAIN attempts, D!Submit(n)
      PROVE  DeployInv'
  <2>1. n \in 1..Len(attempts)
    BY <1>2 DEF DeployInv, D!DeployTypes
  <2> QED BY <1>2, <2>1, ChecksStep, PromptsStep, SendsStep, PollsStep, ReadsBackStep
      DEF D!Submit
<1>3. ASSUME NEW n \in DOMAIN attempts, NEW op \in D!Ops, D!Include(n, op) \/ D!Lose(n, op)
      PROVE  DeployInv'
  <2>1. n \in 1..Len(attempts)
    BY <1>3 DEF DeployInv, D!DeployTypes
  <2> QED BY <1>3, <2>1, NetworkStep
<1> QED BY <1>1, <1>2, <1>3, InputsStep, LooksStep, DeployBegins DEF D!Next

LEMMA DeployStarts ==
  ASSUME MaxAttempts \in Nat, MaxMoves \in Nat, D!Init
  PROVE  DeployInv
<1>1. D!DeployTypes
  <2>1. /\ account \in Accounts \cup {None} /\ extension \in Accounts \cup {None}
        /\ salt \in Salts /\ plan = None /\ inspecting = None
        /\ saved = {} /\ contracts = {}
    BY Zenon DEF D!Init
  <2>2. searching \in BOOLEAN /\ code \in BOOLEAN
    BY Zenon DEF D!Init
  <2>3. moves \in 0..MaxMoves
    BY DEF D!Init
  <2>4. planning \in D!Address \cup {None}
    <3>1. planning = IF account = None THEN None ELSE <<account, salt>>
      BY DEF D!Init
    <3> QED BY <2>1, <3>1 DEF D!Address
  <2>5. inspection \in [at : D!Address \cup {None},
                       state : {"checking", "available", "existing", "error"}]
    BY DEF D!Init, D!Nothing
  <2>6. /\ attempts \in Seq(D!Attempt) /\ Len(attempts) = 0 /\ awaited = 0
        /\ outcome \in [of : 0..0, headline : D!Headlines \cup {None}]
    BY DEF D!Init, D!Untold
  <2>7. FateTypes
    BY DEF D!Init, FateTypes, D!Fates
  <2> QED BY <2>1, <2>2, <2>3, <2>4, <2>5, <2>6, <2>7 DEF D!DeployTypes, FateTypes
<1>2. AttemptsAgree
  BY DEF D!Init, AttemptsAgree, Unsent, D!Unsent, D!Ops
<1>3. outcome.of = 0 /\ saved = {}
  BY DEF D!Init, D!Untold
<1> QED BY <1>1, <1>2, <1>3 DEF DeployInv, ToldOfOver, D!DeployTold

(* For any accounts, salts and bounds: what the deploy panel tells of an    *)
(* attempt is true of the chain (deployGuard(), submitOperation() and       *)
(* classifyDeploySteps()), whatever happened while it was under way.        *)
THEOREM DeploysAreTold ==
  ASSUME MaxAttempts \in Nat, MaxMoves \in Nat
  PROVE  D!Spec => [](D!DeployTypes /\ D!DeployTold)
<1>1. D!Init => DeployInv
  BY DeployStarts
<1>2. DeployInv => D!DeployTypes /\ D!DeployTold
  BY DEF DeployInv
<1> QED BY <1>1, <1>2, DeployStep, PTL DEF D!Spec

\* What the chain held when an attempt was begun it holds still, and the
\* operation an attempt has come to is none of it.
NoneDone(n) ==
  /\ fate[n]["upload"] = "done" => code
  /\ fate[n]["create"] = "done" => attempts[n].at \in contracts
  /\ attempts[n].pc \in {"prepare", "prompt", "sign", "send", "poll"}
       => fate[n][attempts[n].op] # "done"

AgainInv == DeployInv /\ \A n \in 1..Len(attempts) : NoneDone(n)

\* Nothing is taken back from the chain, and only a new attempt meets it anew.
Onward(n) ==
  /\ code => code'
  /\ contracts \subseteq contracts'
  /\ \A op \in D!Ops : fate'[n][op] = "done" => fate[n][op] = "done"
  /\ attempts'[n].at = attempts[n].at

LEMMA NoneDoneOnward ==
  ASSUME NEW n, attempts[n].op \in D!Ops, NoneDone(n), Onward(n),
         attempts'[n].op \in D!Ops,
         \/ attempts'[n].pc \notin {"prepare", "prompt", "sign", "send", "poll"}
         \/ /\ attempts[n].pc \in {"prepare", "prompt", "sign", "send", "poll"}
            /\ attempts'[n].op = attempts[n].op
         \/ fate[n][attempts'[n].op] # "done"
  PROVE  NoneDone(n)'
BY DEF NoneDone, Onward, D!Ops

\* Where the step of an attempt leaves it: at no operation, at the one it was at,
\* or at one that the chain has just been seen without.
LEMMA SubmitLeaves ==
  ASSUME DeployInv, NEW n \in 1..Len(attempts), NoneDone(n), D!Submit(n)
  PROVE  /\ Moved(n) /\ UNCHANGED D!chainVars
         /\ \/ attempts'[n].pc \notin {"prepare", "prompt", "sign", "send", "poll"}
            \/ /\ attempts[n].pc \in {"prepare", "prompt", "sign", "send", "poll"}
               /\ attempts'[n].op = attempts[n].op
            \/ fate[n][attempts'[n].op] # "done"
<1>1. attempts[n].op \in D!Ops /\ attempts[n].steps \in Seq(D!Step)
  <2>1. attempts[n] \in D!Attempt
    BY DEF DeployInv, D!DeployTypes
  <2> QED BY <2>1 DEF D!Attempt
<1>2. UNCHANGED D!chainVars
  BY DEF D!Submit, D!CheckAddress, D!CheckArtifact, D!ReadCode, D!Prepare, D!ReadBack,
     D!Prompt, D!Poll, D!Sign, D!Send
<1>3. ASSUME D!Throw(n)
      PROVE  Moved(n) /\ attempts'[n].pc = "over"
  <2>1. "not completed" \in D!Headlines
    BY DEF D!Headlines
  <2> QED BY <1>1, <1>3, <2>1, FinishMoves DEF DeployInv, D!Throw
<1>4. ASSUME NEW pc \in D!Pc, D!Goto(n, pc)
      PROVE  Moved(n) /\ attempts'[n].pc = pc /\ attempts'[n].op = attempts[n].op
  BY <1>4, GotoMoves DEF DeployInv
<1>5. ASSUME NEW kind \in {"failed", "refused", "cancelled"}, D!Record(n, kind)
      PROVE  Moved(n) /\ attempts'[n].pc = "over"
  BY <1>5, EndedMoves DEF DeployInv
<1>6. CASE \E answers \in BOOLEAN : D!CheckAddress(n, answers)
  <2>1. CASE /\ attempts[n].at \notin contracts
             /\ attempts' = [attempts EXCEPT ![n].pc = "prepare", ![n].op = "create"]
    <3>1. Moved(n) /\ attempts'[n].op = "create"
      BY <2>1, RecheckMoves DEF DeployInv
    <3> QED BY <1>2, <2>1, <3>1 DEF NoneDone
  <2>2. CASE D!Throw(n)
    BY <1>2, <1>3, <2>2
  <2>3. CASE D!Goto(n, "artifact")
    BY <1>2, <1>4, <2>3 DEF D!Pc
  <2> QED BY <1>6, <2>1, <2>2, <2>3 DEF D!CheckAddress
<1>7. CASE \E ok \in BOOLEAN : D!CheckArtifact(n, ok)
  BY <1>2, <1>3, <1>4, <1>7 DEF D!CheckArtifact, D!Pc
<1>8. CASE \E answers \in BOOLEAN : D!ReadCode(n, answers)
  <2>1. attempts[n].pc = "code" /\ attempts[n].op = "upload"
    BY <1>8 DEF D!ReadCode, DeployInv, AttemptsAgree, Progress
  <2>2. CASE D!Throw(n)
    BY <1>2, <1>3, <2>2
  <2>3. CASE D!Goto(n, "recheck")
    BY <1>2, <1>4, <2>3 DEF D!Pc
  <2>4. CASE ~code /\ D!Goto(n, "prepare")
    BY <1>2, <1>4, <2>1, <2>4 DEF D!Pc, NoneDone
  <2> QED BY <1>8, <2>2, <2>3, <2>4 DEF D!ReadCode
<1>9. CASE \/ \E answers \in BOOLEAN : D!Prepare(n, answers)
           \/ D!Prompt(n)
           \/ \E answer \in {"signed", "declined", "error"} : D!Sign(n, answer)
           \/ \E answer \in {"taken", "refused", "none"} : D!Send(n, answer)
  <2>1. /\ attempts[n].pc \in {"prepare", "prompt", "sign", "send"}
        /\ \/ D!Throw(n)
           \/ \E pc \in {"prompt", "sign", "send", "poll"} : D!Goto(n, pc)
           \/ \E kind \in {"refused", "cancelled"} : D!Record(n, kind)
    BY <1>9 DEF D!Prepare, D!Prompt, D!Sign, D!Send
  <2> QED BY <1>2, <1>3, <1>4, <1>5, <2>1 DEF D!Pc
<1>10. CASE D!Poll(n)
  <2>1. CASE D!Record(n, "failed")
    BY <1>2, <1>5, <2>1
  <2>2. CASE D!Record(n, "submitted")
    BY <1>2, <2>2, SubmittedMoves DEF DeployInv
  <2> QED BY <1>10, <2>1, <2>2 DEF D!Poll
<1>11. CASE \E answers \in BOOLEAN : D!ReadBack(n, answers)
  <2>1. PICK h : D!Finish(n, attempts[n].steps, h) /\ h \in {"deployed", "unread"}
    <3>1. attempts[n].pc = "read" /\ Progress(n)
      BY <1>11 DEF D!ReadBack, DeployInv, AttemptsAgree
    <3>2. D!Last(attempts[n].steps).kind = "submitted"
      BY <3>1 DEF Progress
    <3> QED BY <1>11, <3>2 DEF D!ReadBack, D!Headline
  <2>2. Moved(n) /\ attempts'[n].pc = "over"
    BY <1>1, <2>1, FinishMoves DEF DeployInv, D!Headlines
  <2> QED BY <1>2, <2>2
<1> QED BY <1>6, <1>7, <1>8, <1>9, <1>10, <1>11 DEF D!Submit

\* What an attempt sends, and what the network decides, is never done before.
LEMMA FatesGoOn ==
  ASSUME DeployInv, MaxAttempts \in Nat, NEW n \in 1..Len(attempts),
         D!Submit(n) \/ \E op \in D!Ops : D!Include(n, op) \/ D!Lose(n, op)
  PROVE  \A m \in 1..MaxAttempts, op \in D!Ops : fate'[m][op] = "done" => fate[m][op] = "done"
<1>1. n \in 1..MaxAttempts /\ FateTypes /\ attempts[n].op \in D!Ops
  BY InvFacts
<1>2. \/ fate' = fate
      \/ \E op \in D!Ops, f \in {"pending", "applied", "rejected", "lost"} :
           fate' = [fate EXCEPT ![n][op] = f]
  BY <1>1 DEF D!Submit, D!CheckAddress, D!CheckArtifact, D!ReadCode, D!Prepare, D!ReadBack,
     D!Prompt, D!Poll, D!Sign, D!Send, D!Sends, D!Include, D!Lose
<1> QED BY <1>1, <1>2 DEF FateTypes

\* One attempt moves, and the others meet the chain as before.
LEMMA SubmitAgain ==
  ASSUME AgainInv, MaxAttempts \in Nat, MaxMoves \in Nat, NEW n \in 1..Len(attempts),
         D!Submit(n), DeployInv'
  PROVE  AgainInv'
<1>1. DeployInv /\ NoneDone(n)
  BY DEF AgainInv
<1>2. /\ Moved(n) /\ code' = code /\ contracts' = contracts
      /\ \/ attempts'[n].pc \notin {"prepare", "prompt", "sign", "send", "poll"}
         \/ /\ attempts[n].pc \in {"prepare", "prompt", "sign", "send", "poll"}
            /\ attempts'[n].op = attempts[n].op
         \/ fate[n][attempts'[n].op] # "done"
  BY <1>1, SubmitLeaves DEF D!chainVars
<1>3. ASSUME NEW m \in 1..Len(attempts')
      PROVE  NoneDone(m)'
  <2>1. m \in 1..Len(attempts) /\ NoneDone(m)
    BY <1>2 DEF Moved, AgainInv
  <2>6. attempts[m].op \in D!Ops /\ m \in 1..MaxAttempts
    BY <1>1, <2>1, InvFacts
  <2>2. attempts[m].op \in D!Ops /\ attempts'[m].op \in D!Ops
    <3>1. attempts'[m] \in D!Attempt
      BY <1>2 DEF Moved
    <3> QED BY <2>6, <3>1 DEF D!Attempt
  <2>3. m # n => attempts'[m] = attempts[m]
    BY <1>2, <2>1 DEF Moved
  <2>4. Onward(m)
    BY <1>1, <1>2, <2>3, <2>6, FatesGoOn DEF Onward, Moved
  <2>5. \/ attempts'[m].pc \notin {"prepare", "prompt", "sign", "send", "poll"}
        \/ /\ attempts[m].pc \in {"prepare", "prompt", "sign", "send", "poll"}
           /\ attempts'[m].op = attempts[m].op
        \/ fate[m][attempts'[m].op] # "done"
    BY <1>2, <2>3
  <2> QED BY <2>1, <2>2, <2>4, <2>5, NoneDoneOnward
<1> QED BY <1>3 DEF AgainInv

\* A step that moves no attempt, and takes nothing back.
LEMMA StillAgain ==
  ASSUME AgainInv, DeployInv', attempts' = attempts, code => code', contracts \subseteq contracts',
         \A m \in 1..Len(attempts), op \in D!Ops : fate'[m][op] = "done" => fate[m][op] = "done"
  PROVE  AgainInv'
<1>1. ASSUME NEW m \in 1..Len(attempts)
      PROVE  NoneDone(m)'
  <2>1. attempts[m] \in D!Attempt /\ NoneDone(m)
    BY DEF AgainInv, DeployInv, D!DeployTypes
  <2>2. attempts[m].op \in D!Ops
    BY <2>1 DEF D!Attempt
  <2> QED BY <2>1, <2>2 DEF NoneDone, D!Ops
<1> QED BY <1>1 DEF AgainInv

\* An attempt begins with what the chain holds then.
LEMMA BeginsAgain ==
  ASSUME AgainInv, MaxAttempts \in Nat, MaxMoves \in Nat, D!Deploy, DeployInv'
  PROVE  AgainInv'
<1> PICK n : n = Len(attempts) + 1
  OBVIOUS
<1> DEFINE a == [at |-> D!Predicted, pc |-> "check", op |-> "upload", steps |-> <<>>]
           found == [op \in D!Ops |-> IF D!Done(op) THEN "done" ELSE "unsent"]
<1>1. /\ attempts \in Seq(D!Attempt) /\ n \in 1..MaxAttempts /\ FateTypes
      /\ attempts' = Append(attempts, a) /\ code' = code /\ contracts' = contracts
  BY DEF AgainInv, DeployInv, D!DeployTypes, D!Deploy, FateTypes, D!chainVars
<1>2. a.at = D!Predicted /\ a.pc = "check"
  OBVIOUS
<1>3. /\ found["upload"] = "done" => code
      /\ found["create"] = "done" => D!Predicted \in contracts
  BY DEF D!Done, D!Ops
<1> HIDE DEF a
<1>4. /\ Len(attempts') = n /\ attempts'[n] = a
      /\ \A m \in 1..Len(attempts) : attempts'[m] = attempts[m]
  BY <1>1
<1>5. fate' = [fate EXCEPT ![n] = found]
  BY <1>4 DEF D!Deploy
<1> HIDE DEF found
<1>6. fate'[n] = found /\ \A m \in 1..Len(attempts) : fate'[m] = fate[m]
  BY <1>1, <1>5 DEF FateTypes
<1>7. NoneDone(n)'
  BY <1>1, <1>2, <1>3, <1>4, <1>6 DEF NoneDone
<1>8. ASSUME NEW m \in 1..Len(attempts)
      PROVE  NoneDone(m)'
  <2>1. attempts'[m] = attempts[m] /\ fate'[m] = fate[m] /\ NoneDone(m)
    BY <1>4, <1>6 DEF AgainInv
  <2> QED BY <1>1, <2>1 DEF NoneDone
<1> QED BY <1>1, <1>4, <1>7, <1>8 DEF AgainInv

LEMMA AgainStep ==
  ASSUME AgainInv, MaxAttempts \in Nat, MaxMoves \in Nat, [D!Next]_(D!vars)
  PROVE  AgainInv'
<1>1. DeployInv /\ DeployInv'
  BY DeployStep DEF AgainInv
<1>2. DOMAIN attempts = 1..Len(attempts) /\ Len(attempts) \in 0..MaxAttempts
  BY <1>1 DEF DeployInv, D!DeployTypes
<1>3. ASSUME NEW n \in DOMAIN attempts, D!Submit(n)
      PROVE  AgainInv'
  BY <1>1, <1>2, <1>3, SubmitAgain
<1>4. ASSUME NEW n \in DOMAIN attempts, NEW op \in D!Ops, D!Include(n, op) \/ D!Lose(n, op)
      PROVE  AgainInv'
  <2>1. attempts' = attempts /\ (code => code') /\ contracts \subseteq contracts'
    <3>1. CASE D!Include(n, op)
      <4>1. attempts' = attempts
        BY <3>1 DEF D!Include
      <4>2. code => code'
        BY Zenon, <3>1 DEF D!Include
      <4>3. contracts \subseteq contracts'
        BY <3>1 DEF D!Include
      <4> QED BY <4>1, <4>2, <4>3
    <3>2. CASE D!Lose(n, op)
      BY <3>2 DEF D!Lose, D!chainVars
    <3> QED BY <1>4, <3>1, <3>2
  <2>2. \A m \in 1..Len(attempts), o \in D!Ops : fate'[m][o] = "done" => fate[m][o] = "done"
    <3>1. n \in 1..Len(attempts) /\ \A m \in 1..Len(attempts) : m \in 1..MaxAttempts
      BY <1>2
    <3>3. \E o \in D!Ops : D!Include(n, o) \/ D!Lose(n, o)
      BY <1>4
    <3>2. \A m \in 1..MaxAttempts, o \in D!Ops : fate'[m][o] = "done" => fate[m][o] = "done"
      BY <1>1, <3>1, <3>3, FatesGoOn
    <3> QED BY <3>1, <3>2
  <2> QED BY <1>1, <2>1, <2>2, StillAgain
<1>5. CASE D!Deploy
  BY <1>1, <1>5, BeginsAgain
<1>6. ASSUME \/ UNCHANGED D!vars
             \/ D!Connect \/ D!StartSearch
             \/ \E a \in Accounts \cup {None} : D!ExtensionMoves(a)
             \/ \E s \in Salts : D!ChooseSalt(s) \/ D!SearchEnds(s) \/ D!Leave(s)
             \/ \E answers \in BOOLEAN : D!PlanRead(answers) \/ D!Inspect(answers)
      PROVE  AgainInv'
  <2>1. UNCHANGED <<attempts, code, contracts, fate>>
    BY <1>6 DEF D!vars, D!Connect, D!StartSearch, D!ExtensionMoves, D!ChooseSalt,
       D!SearchEnds, D!Leave, D!PlanRead, D!Inspect, D!chainVars
  <2> QED BY <1>1, <2>1, StillAgain
<1> QED BY <1>3, <1>4, <1>5, <1>6 DEF D!Next

(* For any accounts, salts and bounds: what the chain held when an attempt  *)
(* was begun, the bytecode or the guard, deployGuard() has nobody sign and  *)
(* does not broadcast, whichever attempt had done it and however that ended. *)
THEOREM DeploysOnce ==
  ASSUME MaxAttempts \in Nat, MaxMoves \in Nat
  PROVE  D!Spec => []D!NothingIsDoneTwice
<1>1. D!Init => AgainInv
  <2> SUFFICES ASSUME D!Init
               PROVE  AgainInv
    OBVIOUS
  <2>1. attempts = <<>>
    BY DEF D!Init
  <2> QED BY <2>1, DeployStarts DEF AgainInv
<1>2. AgainInv => D!NothingIsDoneTwice
  BY DEF AgainInv, DeployInv, D!DeployTypes, D!NothingIsDoneTwice, NoneDone
<1> QED BY <1>1, <1>2, AgainStep, PTL DEF D!Spec

-----------------------------------------------------------------------------
(* The list of events.  What a batch adds is computed event by event, so    *)
(* what is true of it is proved up to each of them.                         *)

\* Induction over the numbers, for a set of them.
LEMMA LeastNumber ==
  ASSUME NEW S, S \subseteq Nat, S # {}
  PROVE  \E m \in S : \A k \in S : m <= k
<1>1. PICK m \in S : \A k \in S : ~(<<k, m>> \in OpToRel(<, Nat))
  BY NatLessThanWellFounded, WFMin
<1>2. \A k \in S : ~(k < m)
  BY <1>1 DEF OpToRel
<1> QED BY <1>2

LEMMA Induction ==
  ASSUME NEW N \in Nat, NEW S, 0 \in S, \A k \in 1..N : k - 1 \in S => k \in S
  PROVE  \A k \in 0..N : k \in S
<1> SUFFICES ASSUME NEW x \in 0..N, x \notin S PROVE FALSE
  OBVIOUS
<1> DEFINE T == (0..N) \ S
<1>1. PICK m \in T : \A k \in T : m <= k
  BY LeastNumber, T # {}, T \subseteq Nat
<1>2. m \in 1..N /\ m - 1 \in 0..N /\ ~(m <= m - 1)
  BY <1>1
<1>3. m - 1 \in S
  BY <1>1, <1>2
<1> QED BY <1>1, <1>2, <1>3

\* The events of a batch that are new, up to each of them.
UpTo(batch, f) ==
  f = [i \in 0..Len(batch) |->
        IF i = 0 THEN <<>>
        ELSE IF batch[i] \in seen \cup B!ToSet(f[i - 1]) THEN f[i - 1]
        ELSE Append(f[i - 1], batch[i])]

LEMMA FreshExists ==
  ASSUME NEW batch \in Seq(Events)
  PROVE  \E f : UpTo(batch, f)
<1> DEFINE next(i, s) == IF batch[i] \in seen \cup B!ToSet(s) THEN s ELSE Append(s, batch[i])
           computes(k, f) == f = [i \in 0..k |-> IF i = 0 THEN <<>> ELSE next(i, f[i - 1])]
           S == {k \in Nat : \E f : computes(k, f)}
<1>1. Len(batch) \in Nat
  OBVIOUS
<1> HIDE DEF next
<1>2. 0 \in S
  <2> DEFINE f == [i \in 0..0 |-> <<>>]
  <2>1. computes(0, f)
    OBVIOUS
  <2> QED BY <2>1
<1>3. ASSUME NEW k \in 1..Len(batch), k - 1 \in S
      PROVE  k \in S
  <2>1. PICK f : computes(k - 1, f)
    BY <1>3
  <2> DEFINE g == [i \in 0..k |-> IF i = k THEN next(k, f[k - 1]) ELSE f[i]]
  <2>2. \A i \in 0..(k - 1) : g[i] = f[i]
    BY <1>1
  <2>3. \A i \in 0..k : g[i] = IF i = 0 THEN <<>> ELSE next(i, g[i - 1])
    <3> SUFFICES ASSUME NEW i \in 0..k PROVE g[i] = IF i = 0 THEN <<>> ELSE next(i, g[i - 1])
      OBVIOUS
    <3>1. CASE i = k
      BY <1>1, <2>2, <3>1
    <3>2. CASE i # k
      <4>1. i \in 0..(k - 1) /\ g[i] = f[i] /\ (i # 0 => g[i - 1] = f[i - 1])
        BY <1>1, <2>2, <3>2
      <4> QED BY <2>1, <4>1
    <3> QED BY <3>1, <3>2
  <2>4. g = [i \in 0..k |-> IF i = 0 THEN <<>> ELSE next(i, g[i - 1])]
    <3> HIDE DEF next
    <3> QED BY <2>3
  <2>5. computes(k, g)
    BY <2>4
  <2> HIDE DEF g
  <2> QED BY <1>1, <2>5
<1> HIDE DEF S
<1>4. \A k \in 1..Len(batch) : k - 1 \in S => k \in S
  BY <1>3
<1>5. \A k \in 0..Len(batch) : k \in S
  BY <1>1, <1>2, <1>4, Induction
<1>6. Len(batch) \in S
  BY <1>1, <1>5
<1>7. PICK f : computes(Len(batch), f)
  BY <1>6 DEF S
<1> QED BY <1>7 DEF UpTo, next

LEMMA FreshIsComputed ==
  ASSUME NEW batch \in Seq(Events)
  PROVE  \E f : UpTo(batch, f) /\ B!Fresh(batch) = f[Len(batch)]
<1> DEFINE g == CHOOSE f : UpTo(batch, f)
<1>1. UpTo(batch, g)
  BY FreshExists
<1>2. B!Fresh(batch) = g[Len(batch)]
  BY DEF B!Fresh, UpTo
<1> QED BY <1>1, <1>2

LEMMA FreshIsNew ==
  ASSUME NEW batch \in Seq(Events)
  PROVE  /\ B!Fresh(batch) \in Seq(Events)
         /\ B!IsInjective(B!Fresh(batch))
         /\ \A i \in 1..Len(B!Fresh(batch)) : B!Fresh(batch)[i] \notin seen
<1> DEFINE sound(s) == /\ s \in Seq(Events)
                       /\ \A i, j \in 1..Len(s) : s[i] = s[j] => i = j
                       /\ \A i \in 1..Len(s) : s[i] \notin seen
<1>1. Len(batch) \in Nat
  OBVIOUS
<1>2. PICK f : UpTo(batch, f) /\ B!Fresh(batch) = f[Len(batch)]
  BY FreshIsComputed
<1>8. /\ f[0] = <<>>
      /\ \A k \in 1..Len(batch) :
           f[k] = IF batch[k] \in seen \cup B!ToSet(f[k - 1]) THEN f[k - 1]
                  ELSE Append(f[k - 1], batch[k])
  <2>1. \A k \in 0..Len(batch) :
          f[k] = IF k = 0 THEN <<>>
                 ELSE IF batch[k] \in seen \cup B!ToSet(f[k - 1]) THEN f[k - 1]
                 ELSE Append(f[k - 1], batch[k])
    BY <1>2, Zenon DEF UpTo
  <2>2. 0 \in 0..Len(batch) /\ \A k \in 1..Len(batch) : k \in 0..Len(batch) /\ k # 0
    BY <1>1
  <2>3. f[0] = <<>>
    BY <2>1, <2>2, Zenon
  <2>4. ASSUME NEW k \in 1..Len(batch)
        PROVE  f[k] = IF batch[k] \in seen \cup B!ToSet(f[k - 1]) THEN f[k - 1]
                      ELSE Append(f[k - 1], batch[k])
    BY <2>1, <2>2, Zenon
  <2> QED BY <2>3, <2>4
<1> DEFINE S == {i \in Nat : sound(f[i])}
<1>3. 0 \in S
  <2>1. sound(<<>>)
    OBVIOUS
  <2> HIDE DEF sound
  <2> QED BY <1>8, <2>1
<1>4. ASSUME NEW k \in 1..Len(batch), k - 1 \in S
      PROVE  k \in S
  <2> DEFINE s == f[k - 1]
             e == batch[k]
  <2>1. sound(s) /\ e \in Events
    BY <1>4
  <2>2. f[k] = IF e \in seen \cup B!ToSet(s) THEN s ELSE Append(s, e)
    BY <1>8
  <2> HIDE DEF s, e
  <2>3. B!ToSet(s) = {s[i] : i \in 1..Len(s)}
    BY <2>1 DEF B!ToSet
  <2>4. CASE e \in seen \cup B!ToSet(s)
    BY <2>1, <2>2, <2>4
  <2>5. CASE e \notin seen \cup B!ToSet(s)
    <3> DEFINE t == Append(s, e)
    <3>1. /\ t \in Seq(Events) /\ Len(t) = Len(s) + 1 /\ t[Len(s) + 1] = e
          /\ \A i \in 1..Len(s) : t[i] = s[i]
      BY <2>1
    <3>2. Len(s) \in Nat
      BY <2>1
    <3> HIDE DEF t
    <3>3. ASSUME NEW i \in 1..Len(t), NEW j \in 1..Len(t), t[i] = t[j]
          PROVE  i = j
      <4>1. \A n \in 1..Len(s) : s[n] # e
        BY <2>3, <2>5
      <4> QED BY <2>1, <3>1, <3>2, <3>3, <4>1
    <3>4. \A i \in 1..Len(t) : t[i] \notin seen
      BY <2>1, <2>5, <3>1, <3>2
    <3>5. f[k] = t
      BY <2>2, <2>5 DEF t
    <3>6. sound(t)
      BY <3>1, <3>3, <3>4
    <3> QED BY <3>5, <3>6
  <2> QED BY <2>4, <2>5
<1> HIDE DEF S
<1>5. \A k \in 1..Len(batch) : k - 1 \in S => k \in S
  BY <1>4
<1>6. \A k \in 0..Len(batch) : k \in S
  BY <1>1, <1>3, <1>5, Induction
<1>7. sound(B!Fresh(batch))
  BY <1>1, <1>2, <1>6 DEF S
<1> QED BY <1>7 DEF B!IsInjective

\* The newest of a list, as it is cut off.
LEMMA TopIs ==
  ASSUME Limit \in Nat, NEW s \in Seq(Events)
  PROVE  /\ B!Top(s) \in Seq(Events)
         /\ Len(B!Top(s)) = IF Len(s) < Limit THEN Len(s) ELSE Limit
         /\ \A i \in 1..Len(B!Top(s)) : B!Top(s)[i] = s[i]
<1> DEFINE n == IF Len(s) < Limit THEN Len(s) ELSE Limit
<1>1. n \in 0..Len(s)
  OBVIOUS
<1> HIDE DEF n
<1>2. /\ SubSeq(s, 1, n) \in Seq(Events) /\ Len(SubSeq(s, 1, n)) = n
      /\ \A i \in 1..n : SubSeq(s, 1, n)[i] = s[i]
  BY <1>1
<1> QED BY <1>2 DEF B!Top, n

LEMMA SameSequence ==
  ASSUME NEW s \in Seq(Events), NEW t \in Seq(Events), Len(s) = Len(t),
         \A i \in 1..Len(s) : s[i] = t[i]
  PROVE  s = t
OBVIOUS

LEMMA Joined ==
  ASSUME NEW s \in Seq(Events), NEW t \in Seq(Events)
  PROVE  /\ s \o t \in Seq(Events) /\ Len(s \o t) = Len(s) + Len(t)
         /\ \A i \in 1..Len(s) : (s \o t)[i] = s[i]
         /\ \A i \in 1..Len(t) : (s \o t)[Len(s) + i] = t[i]
         /\ \A i \in 1..Len(s \o t) :
              (s \o t)[i] = IF i <= Len(s) THEN s[i] ELSE t[i - Len(s)]
OBVIOUS

\* Two lists have the same newest ones, if they agree on as many as are kept.
LEMMA SameTop ==
  ASSUME Limit \in Nat, NEW u \in Seq(Events), NEW v \in Seq(Events),
         Len(u) = Len(v) \/ (Limit <= Len(u) /\ Limit <= Len(v)),
         \A i \in 1..Limit : i <= Len(u) => u[i] = v[i]
  PROVE  B!Top(u) = B!Top(v)
<1>1. /\ B!Top(u) \in Seq(Events)
      /\ Len(B!Top(u)) = IF Len(u) < Limit THEN Len(u) ELSE Limit
      /\ \A i \in 1..Len(B!Top(u)) : B!Top(u)[i] = u[i]
  BY TopIs
<1>2. /\ B!Top(v) \in Seq(Events)
      /\ Len(B!Top(v)) = IF Len(v) < Limit THEN Len(v) ELSE Limit
      /\ \A i \in 1..Len(B!Top(v)) : B!Top(v)[i] = v[i]
  BY TopIs
<1>3. Len(u) \in Nat /\ Len(v) \in Nat
  OBVIOUS
<1>4. Len(B!Top(u)) = Len(B!Top(v))
  BY <1>1, <1>2, <1>3
<1>5. \A i \in 1..Len(B!Top(u)) : i \in 1..Limit /\ i <= Len(u)
  BY <1>1, <1>3
<1>6. \A i \in 1..Len(B!Top(u)) : B!Top(u)[i] = B!Top(v)[i]
  BY <1>1, <1>2, <1>4, <1>5
<1> QED BY <1>1, <1>2, <1>4, <1>6, SameSequence

\* What was cut off before something was put on top, or under, is cut off after.
LEMMA TopOfJoined ==
  ASSUME Limit \in Nat, NEW s \in Seq(Events), NEW t \in Seq(Events)
  PROVE  /\ B!Top(s \o B!Top(t)) = B!Top(s \o t)
         /\ B!Top(B!Top(s) \o t) = B!Top(s \o t)
<1>1. /\ s \o t \in Seq(Events) /\ Len(s \o t) = Len(s) + Len(t)
      /\ \A i \in 1..Len(s \o t) :
           (s \o t)[i] = IF i <= Len(s) THEN s[i] ELSE t[i - Len(s)]
  BY Joined
<1>2. Len(s) \in Nat /\ Len(t) \in Nat
  OBVIOUS
<1>3. B!Top(s \o B!Top(t)) = B!Top(s \o t)
  <2> PICK p \in Seq(Events) : p = B!Top(t)
    BY TopIs
  <2>1. /\ Len(p) = IF Len(t) < Limit THEN Len(t) ELSE Limit
        /\ \A i \in 1..Len(p) : p[i] = t[i]
    BY TopIs
  <2>2. /\ s \o p \in Seq(Events) /\ Len(s \o p) = Len(s) + Len(p)
        /\ \A i \in 1..Len(s \o p) :
             (s \o p)[i] = IF i <= Len(s) THEN s[i] ELSE p[i - Len(s)]
    BY Joined
  <2>3. \/ Len(s \o p) = Len(s \o t)
        \/ Limit <= Len(s \o p) /\ Limit <= Len(s \o t)
    BY <1>1, <1>2, <2>1, <2>2
  <2>4. ASSUME NEW i \in 1..Limit, i <= Len(s \o p)
        PROVE  (s \o p)[i] = (s \o t)[i]
    <3>1. i \in 1..Len(s \o p) /\ i \in 1..Len(s \o t)
      BY <1>1, <1>2, <2>1, <2>2, <2>4
    <3>2. i > Len(s) => i - Len(s) \in 1..Len(p)
      BY <1>2, <2>1, <2>2, <3>1
    <3> QED BY <1>1, <1>2, <2>1, <2>2, <3>1, <3>2
  <2> QED BY <1>1, <2>2, <2>3, <2>4, SameTop
<1>4. B!Top(B!Top(s) \o t) = B!Top(s \o t)
  <2> PICK p \in Seq(Events) : p = B!Top(s)
    BY TopIs
  <2>1. /\ Len(p) = IF Len(s) < Limit THEN Len(s) ELSE Limit
        /\ \A i \in 1..Len(p) : p[i] = s[i]
    BY TopIs
  <2>2. /\ p \o t \in Seq(Events) /\ Len(p \o t) = Len(p) + Len(t)
        /\ \A i \in 1..Len(p \o t) :
             (p \o t)[i] = IF i <= Len(p) THEN p[i] ELSE t[i - Len(p)]
    BY Joined
  <2>3. \/ Len(p \o t) = Len(s \o t)
        \/ Limit <= Len(p \o t) /\ Limit <= Len(s \o t)
    BY <1>1, <1>2, <2>1, <2>2
  <2>4. ASSUME NEW i \in 1..Limit, i <= Len(p \o t)
        PROVE  (p \o t)[i] = (s \o t)[i]
    <3>1. i \in 1..Len(p \o t) /\ i \in 1..Len(s \o t)
      BY <1>1, <1>2, <2>1, <2>2, <2>4
    <3>2. IF i <= Len(p) THEN i <= Len(s) /\ i \in 1..Len(p) ELSE Len(p) = Len(s)
      BY <1>2, <2>1, <2>2, <3>1
    <3> QED BY <1>1, <1>2, <2>1, <2>2, <3>1, <3>2
  <2> QED BY <1>1, <2>2, <2>3, <2>4, SameTop
<1> QED BY <1>3, <1>4

\* Two lists hold no event twice when neither does and they share none.
Apart(s, t) ==
  /\ \A i, j \in 1..Len(s) : s[i] = s[j] => i = j
  /\ \A i, j \in 1..Len(t) : t[i] = t[j] => i = j
  /\ \A i \in 1..Len(s), j \in 1..Len(t) : s[i] # t[j]

LEMMA ApartIsInjective ==
  ASSUME NEW s \in Seq(Events), NEW t \in Seq(Events)
  PROVE  B!IsInjective(s \o t) <=> Apart(s, t)
<1>1. /\ DOMAIN (s \o t) = 1..(Len(s) + Len(t)) /\ Len(s) \in Nat /\ Len(t) \in Nat
      /\ \A i \in 1..Len(s) : (s \o t)[i] = s[i]
      /\ \A i \in 1..Len(t) : (s \o t)[Len(s) + i] = t[i]
      /\ \A i \in 1..(Len(s) + Len(t)) :
              (s \o t)[i] = IF i <= Len(s) THEN s[i] ELSE t[i - Len(s)]
  BY Joined
<1>2. ASSUME B!IsInjective(s \o t) PROVE Apart(s, t)
  <2>1. \A a, b \in 1..(Len(s) + Len(t)) : (s \o t)[a] = (s \o t)[b] => a = b
    BY <1>1, <1>2 DEF B!IsInjective
  <2>2. ASSUME NEW i \in 1..Len(s), NEW k \in 1..Len(s), s[i] = s[k] PROVE i = k
    BY <1>1, <2>1, <2>2
  <2>3. ASSUME NEW i \in 1..Len(t), NEW k \in 1..Len(t), t[i] = t[k] PROVE i = k
    <3>1. /\ Len(s) + i \in 1..(Len(s) + Len(t)) /\ Len(s) + k \in 1..(Len(s) + Len(t))
          /\ (s \o t)[Len(s) + i] = (s \o t)[Len(s) + k]
      BY <1>1, <2>3
    <3>2. Len(s) + i = Len(s) + k
      BY <2>1, <3>1
    <3> QED BY <1>1, <3>2
  <2>4. ASSUME NEW i \in 1..Len(s), NEW k \in 1..Len(t) PROVE s[i] # t[k]
    <3>1. /\ i \in 1..(Len(s) + Len(t)) /\ Len(s) + k \in 1..(Len(s) + Len(t))
          /\ i # Len(s) + k
      BY <1>1
    <3> QED BY <1>1, <2>1, <3>1
  <2> QED BY <2>2, <2>3, <2>4 DEF Apart
<1>3. ASSUME Apart(s, t) PROVE B!IsInjective(s \o t)
  <2> SUFFICES ASSUME NEW a \in 1..(Len(s) + Len(t)), NEW b \in 1..(Len(s) + Len(t)),
                      (s \o t)[a] = (s \o t)[b]
               PROVE  a = b
    BY <1>1 DEF B!IsInjective
  <2>1. /\ a <= Len(s) => a \in 1..Len(s)
        /\ b <= Len(s) => b \in 1..Len(s)
        /\ a > Len(s) => a - Len(s) \in 1..Len(t)
        /\ b > Len(s) => b - Len(s) \in 1..Len(t)
    BY <1>1
  <2>2. CASE a <= Len(s) /\ b <= Len(s)
    BY <1>1, <1>3, <2>1, <2>2 DEF Apart
  <2>3. CASE a > Len(s) /\ b > Len(s)
    <3>1. a - Len(s) = b - Len(s)
      BY <1>1, <1>3, <2>1, <2>3 DEF Apart
    <3> QED BY <1>1, <3>1
  <2>4. CASE a <= Len(s) /\ b > Len(s)
    BY <1>1, <1>3, <2>1, <2>4 DEF Apart
  <2>5. CASE a > Len(s) /\ b <= Len(s)
    BY <1>1, <1>3, <2>1, <2>5 DEF Apart
  <2> QED BY <1>1, <2>2, <2>3, <2>4, <2>5
<1> QED BY <1>2, <1>3

\* Of what has been accepted everything is known as seen.
BufferInv ==
  /\ since \in Seq(Events) /\ before \in Seq(Events)
  /\ \A i \in 1..Len(since) : since[i] \in seen
  /\ \A i \in 1..Len(before) : before[i] \in seen
  /\ Apart(since, before)
  /\ rows = B!Top(before) /\ pending = B!Top(since)
  /\ dropped = Len(since) - Len(pending)
  /\ ~paused => since = <<>>

LEMMA NothingIsTop ==
  ASSUME Limit \in Nat
  PROVE  /\ B!Top(<<>>) = <<>>
         /\ \A s \in Seq(Events) : Len(s) <= Limit => B!Top(s) = s
<1>1. ASSUME NEW s \in Seq(Events), Len(s) <= Limit PROVE B!Top(s) = s
  BY <1>1, TopIs, SameSequence
<1>2. <<>> \in Seq(Events) /\ Len(<<>>) <= Limit
  OBVIOUS
<1> QED BY <1>1, <1>2

LEMMA IngestKeeps ==
  ASSUME Limit \in Nat, BufferInv, NEW batch \in Seq(Events), B!Ingest(batch)
  PROVE  BufferInv'
<1> PICK fresh : fresh = B!Fresh(batch)
  OBVIOUS
<1>1. /\ fresh \in Seq(Events) /\ Len(fresh) \in Nat /\ DOMAIN fresh = 1..Len(fresh)
      /\ \A i, j \in 1..Len(fresh) : fresh[i] = fresh[j] => i = j
      /\ \A i \in 1..Len(fresh) : fresh[i] \notin seen
  BY FreshIsNew DEF B!IsInjective
<1>2. /\ seen' = seen \cup B!ToSet(fresh) /\ paused' = paused
      /\ \A i \in 1..Len(fresh) : fresh[i] \in B!ToSet(fresh)
  BY <1>1 DEF B!Ingest, B!ToSet
<1>3. since \in Seq(Events) /\ before \in Seq(Events)
  BY DEF BufferInv
<1>4. CASE paused
  <2>1. /\ pending' = B!Top(fresh \o pending) /\ since' = fresh \o since
        /\ dropped' = dropped + (Len(fresh \o pending) - Len(B!Top(fresh \o pending)))
        /\ rows' = rows /\ before' = before
    BY <1>4 DEF B!Ingest
  <2>2. pending' = B!Top(since')
    BY <1>1, <1>3, <2>1, TopOfJoined DEF BufferInv
  <2>3. dropped' = Len(since') - Len(pending')
    <3>1. pending \in Seq(Events) /\ Len(fresh \o pending) = Len(fresh) + Len(pending)
      BY <1>1, <1>3, TopIs, Joined DEF BufferInv
    <3>2. Len(since') = Len(fresh) + Len(since)
      BY <1>1, <1>3, <2>1, Joined
    <3>3. Len(pending') = Len(B!Top(fresh \o pending)) /\ Len(pending') \in Nat
      BY <1>1, <3>1, <2>1, Joined, TopIs
    <3>4. dropped = Len(since) - Len(pending) /\ Len(since) \in Nat /\ Len(pending) \in Nat
      BY <1>3, <3>1 DEF BufferInv
    <3> QED BY <1>1, <2>1, <3>1, <3>2, <3>3, <3>4
  <2>4. /\ since' \in Seq(Events) /\ Len(since') = Len(fresh) + Len(since)
        /\ \A i \in 1..Len(since') :
             since'[i] = IF i <= Len(fresh) THEN fresh[i] ELSE since[i - Len(fresh)]
    BY <1>1, <1>3, <2>1, Joined
  <2>5. \A i \in 1..Len(since') : since'[i] \in seen'
    <3> SUFFICES ASSUME NEW i \in 1..Len(since') PROVE since'[i] \in seen'
      OBVIOUS
    <3>1. IF i <= Len(fresh) THEN i \in 1..Len(fresh) ELSE i - Len(fresh) \in 1..Len(since)
      BY <1>1, <1>3, <2>4
    <3> QED BY <1>2, <2>4, <3>1 DEF BufferInv
  <2>6. Apart(fresh, since) /\ Apart(fresh, before)
    BY <1>1 DEF BufferInv, Apart
  <2>7. Apart(since', before')
    <3>1. \A i, k \in 1..Len(since') : since'[i] = since'[k] => i = k
      <4>1. B!IsInjective(since')
        BY <1>1, <1>3, <2>1, <2>6, ApartIsInjective
      <4>2. DOMAIN since' = 1..Len(since')
        BY <2>4
      <4> QED BY <4>1, <4>2 DEF B!IsInjective
    <3>2. ASSUME NEW i \in 1..Len(since'), NEW k \in 1..Len(before)
          PROVE  since'[i] # before[k]
      <4>1. IF i <= Len(fresh) THEN i \in 1..Len(fresh) ELSE i - Len(fresh) \in 1..Len(since)
        BY <1>1, <1>3, <2>4
      <4>2. CASE i <= Len(fresh)
        BY <2>4, <2>6, <4>1, <4>2 DEF Apart
      <4>3. CASE ~(i <= Len(fresh))
        <5>1. since'[i] = since[i - Len(fresh)] /\ i - Len(fresh) \in 1..Len(since)
          BY <2>4, <4>1, <4>3
        <5>2. \A n \in 1..Len(since), q \in 1..Len(before) : since[n] # before[q]
          BY DEF BufferInv, Apart
        <5> QED BY <5>1, <5>2
      <4> QED BY <4>2, <4>3
    <3> QED BY <2>1, <3>1, <3>2 DEF Apart, BufferInv
  <2>8. \A i \in 1..Len(before') : before'[i] \in seen'
    BY <1>2, <2>1 DEF BufferInv
  <2>9. rows' = B!Top(before)'
    BY <2>1 DEF BufferInv, B!Top
  <2> QED BY <1>2, <1>3, <1>4, <2>1, <2>2, <2>3, <2>4, <2>5, <2>7, <2>8, <2>9
      DEF BufferInv, B!Top
<1>5. CASE ~paused
  <2>1. /\ rows' = B!Top(fresh \o rows) /\ before' = fresh \o before
        /\ pending' = pending /\ dropped' = dropped /\ since' = since
    BY <1>5 DEF B!Ingest
  <2>2. since = <<>> /\ since' = <<>>
    BY <1>5, <2>1 DEF BufferInv
  <2>3. rows' = B!Top(before')
    BY <1>1, <1>3, <2>1, TopOfJoined DEF BufferInv
  <2>4. /\ before' \in Seq(Events) /\ Len(before') = Len(fresh) + Len(before)
        /\ \A i \in 1..Len(before') :
             before'[i] = IF i <= Len(fresh) THEN fresh[i] ELSE before[i - Len(fresh)]
    BY <1>1, <1>3, <2>1, Joined
  <2>5. \A i \in 1..Len(before') : before'[i] \in seen'
    <3> SUFFICES ASSUME NEW i \in 1..Len(before') PROVE before'[i] \in seen'
      OBVIOUS
    <3>1. IF i <= Len(fresh) THEN i \in 1..Len(fresh) ELSE i - Len(fresh) \in 1..Len(before)
      BY <1>1, <1>3, <2>4
    <3> QED BY <1>2, <2>4, <3>1 DEF BufferInv
  <2>6. Apart(fresh, before)
    BY <1>1 DEF BufferInv, Apart
  <2>7. Apart(since', before')
    <3>1. B!IsInjective(before')
      BY <1>1, <1>3, <2>1, <2>6, ApartIsInjective
    <3>2. DOMAIN before' = 1..Len(before')
      BY <2>4
    <3> QED BY <2>2, <3>1, <3>2 DEF Apart, B!IsInjective
  <2> QED BY <1>2, <1>3, <1>5, <2>1, <2>2, <2>3, <2>4, <2>5, <2>7 DEF BufferInv, B!Top
<1> QED BY <1>4, <1>5

LEMMA ReplacesKeeps ==
  ASSUME Limit \in Nat, BufferInv, NEW window \in Seq(Events), Len(window) <= Limit,
         \A i, j \in 1..Len(window) : window[i] = window[j] => i = j,
         rows' = window, before' = window, pending' = <<>>, since' = <<>>, dropped' = 0,
         paused' = FALSE, \A i \in 1..Len(window) : window[i] \in seen'
  PROVE  BufferInv'
<1>1. B!Top(before)' = window /\ B!Top(since)' = <<>>
  BY NothingIsTop DEF B!Top
<1>2. Apart(since', before')
  BY DEF Apart
<1>3. dropped' = Len(since') - Len(pending')
  OBVIOUS
<1>4. since' \in Seq(Events) /\ \A i \in 1..Len(since') : since'[i] \in seen'
  OBVIOUS
<1> QED BY <1>1, <1>2, <1>3, <1>4 DEF BufferInv

LEMMA BufferStep ==
  ASSUME Limit \in Nat, BufferInv, [B!Next]_(B!vars)
  PROVE  BufferInv'
<1>1. ASSUME NEW batch \in B!Polls, B!Ingest(batch)
      PROVE  BufferInv'
  <2>1. batch \in Seq(Events)
    BY DEF B!Polls
  <2> QED BY <1>1, <2>1, IngestKeeps
<1>2. CASE B!Pause
  BY <1>2 DEF B!Pause, BufferInv, B!Top, Apart
<1>3. CASE B!Resume
  <2>1. /\ rows' = B!Top(pending \o rows) /\ pending' = <<>> /\ dropped' = 0
        /\ before' = since \o before /\ since' = <<>> /\ paused' = FALSE /\ seen' = seen
    BY <1>3 DEF B!Resume, B!QueueOnRows
  <2>2. since \in Seq(Events) /\ before \in Seq(Events)
    BY DEF BufferInv
  <2>3. rows' = B!Top(before')
    <3>1. B!Top(since) \in Seq(Events)
      BY <2>2, TopIs
    <3>2. B!Top(B!Top(since) \o B!Top(before)) = B!Top(B!Top(since) \o before)
      BY <2>2, <3>1, TopOfJoined
    <3>3. B!Top(B!Top(since) \o before) = B!Top(since \o before)
      BY <2>2, TopOfJoined
    <3> QED BY <2>1, <3>2, <3>3 DEF BufferInv
  <2>4. /\ before' \in Seq(Events) /\ Len(before') = Len(since) + Len(before)
        /\ \A i \in 1..Len(before') :
             before'[i] = IF i <= Len(since) THEN since[i] ELSE before[i - Len(since)]
        /\ Len(since) \in Nat /\ Len(before) \in Nat
    BY <2>1, <2>2, Joined
  <2>5. \A i \in 1..Len(before') : before'[i] \in seen'
    <3> SUFFICES ASSUME NEW i \in 1..Len(before') PROVE before'[i] \in seen'
      OBVIOUS
    <3>1. IF i <= Len(since) THEN i \in 1..Len(since) ELSE i - Len(since) \in 1..Len(before)
      BY <2>4
    <3> QED BY <2>1, <2>4, <3>1 DEF BufferInv
  <2>6. Apart(since', before')
    <3>1. B!IsInjective(before')
      BY <2>1, <2>2, ApartIsInjective DEF BufferInv
    <3>2. DOMAIN before' = 1..Len(before')
      BY <2>4
    <3> QED BY <2>1, <3>1, <3>2 DEF Apart, B!IsInjective
  <2>7. B!Top(since)' = <<>>
    BY <2>1, NothingIsTop DEF B!Top
  <2>8. rows' = B!Top(before)'
    BY <2>3 DEF B!Top
  <2>9. dropped' = Len(since') - Len(pending')
    BY <2>1
  <2>10. since' \in Seq(Events) /\ \A i \in 1..Len(since') : since'[i] \in seen'
    BY <2>1
  <2> QED BY <2>1, <2>4, <2>5, <2>6, <2>7, <2>8, <2>9, <2>10 DEF BufferInv
<1>4. CASE B!Clear
  <2>1. /\ rows' = <<>> /\ before' = <<>> /\ pending' = pending /\ since' = since
        /\ dropped' = dropped /\ paused' = paused /\ seen' = seen
    BY <1>4 DEF B!Clear
  <2>2. B!Top(before)' = <<>> /\ B!Top(since)' = B!Top(since)
    BY <2>1, NothingIsTop DEF B!Top
  <2>3. Apart(since', before')
    BY <2>1 DEF BufferInv, Apart
  <2> QED BY <2>1, <2>2, <2>3 DEF BufferInv
<1>5. CASE B!Reset
  <2>1. <<>> \in Seq(Events) /\ Len(<<>>) = 0 /\ 1..0 = {}
    OBVIOUS
  <2>2. /\ rows' = <<>> /\ before' = <<>> /\ pending' = <<>> /\ since' = <<>>
        /\ dropped' = 0 /\ paused' = FALSE
    BY <1>5 DEF B!Reset
  <2>3. PICK empty : empty = <<>>
    OBVIOUS
  <2>4. /\ empty \in Seq(Events) /\ Len(empty) <= Limit
        /\ \A i, j \in 1..Len(empty) : empty[i] = empty[j] => i = j
        /\ \A i \in 1..Len(empty) : empty[i] \in seen'
    BY <2>1, <2>3
  <2>5. rows' = empty /\ before' = empty /\ since' = <<>> /\ pending' = <<>>
    BY <2>2, <2>3
  <2> QED BY <2>2, <2>4, <2>5, ReplacesKeeps
<1>6. ASSUME NEW window \in B!Ranges, B!AnswerRange(window)
      PROVE  BufferInv'
  <2>1. PICK k \in 0..Limit : window \in [1..k -> Events]
    BY DEF B!Ranges
  <2>2. window \in Seq(Events) /\ Len(window) <= Limit /\ DOMAIN window = 1..Len(window)
    BY <2>1
  <2>3. \A i, j \in 1..Len(window) : window[i] = window[j] => i = j
    BY <2>2 DEF B!Ranges, B!IsInjective
  <2>4. \A i \in 1..Len(window) : window[i] \in seen'
    BY <1>6, <2>2 DEF B!AnswerRange, B!ToSet
  <2> QED BY <1>6, <2>2, <2>3, <2>4, ReplacesKeeps DEF B!AnswerRange
<1>7. CASE B!ToggleAlerts \/ UNCHANGED B!vars
  BY <1>7 DEF B!ToggleAlerts, B!vars, B!bufferVars, BufferInv, B!Top, Apart
<1> QED BY <1>1, <1>2, <1>3, <1>4, <1>5, <1>6, <1>7 DEF B!Next

LEMMA BufferStarts ==
  ASSUME Limit \in Nat, B!Init
  PROVE  BufferInv
<1>1. Apart(since, before)
  BY DEF B!Init, Apart
<1>2. since = <<>> /\ before = <<>> /\ rows = <<>> /\ pending = <<>> /\ dropped = 0
  BY DEF B!Init
<1>3. dropped = Len(since) - Len(pending)
  BY <1>2
<1> QED BY <1>1, <1>2, <1>3, NothingIsTop DEF BufferInv

(* For any events, limit and memory: a pause neither loses, doubles nor     *)
(* misplaces an event (ingestEvents(), resumeStream() and what replaces and *)
(* clears the StreamBuffer).                                                *)
THEOREM PausesLoseNothing ==
  ASSUME Limit \in Nat
  PROVE  B!Spec => []B!PauseLosesNothing
<1>1. B!Init => BufferInv
  BY BufferStarts
<1>2. BufferInv => B!PauseLosesNothing
  BY ApartIsInjective DEF BufferInv, B!PauseLosesNothing
<1> QED BY <1>1, <1>2, BufferStep, PTL DEF B!Spec

-----------------------------------------------------------------------------
(* The chime.  The tracker goes over all the rows each time, from the       *)
(* newest on, so the rows it has not heard of are the newest ones, and of   *)
(* every other the key is near enough to the end not to be forgotten.       *)

\* The tracker's steps over the rows.
Hears(shown, f) ==
  f = [i \in 0..Len(shown) |->
        IF i = 0 THEN [keys |-> keys, fresh |-> {}] ELSE B!Remember(f[i - 1], shown[i])]

LEMMA HearsExists ==
  ASSUME NEW shown \in Seq(Events)
  PROVE  \E f : Hears(shown, f)
<1> DEFINE start == [keys |-> keys, fresh |-> {}]
           next(i, t) == B!Remember(t, shown[i])
           computes(k, f) == f = [i \in 0..k |-> IF i = 0 THEN start ELSE next(i, f[i - 1])]
           S == {k \in Nat : \E f : computes(k, f)}
<1>1. Len(shown) \in Nat
  OBVIOUS
<1> HIDE DEF next, start
<1>2. 0 \in S
  <2> DEFINE f == [i \in 0..0 |-> start]
  <2>1. computes(0, f)
    OBVIOUS
  <2> QED BY <2>1
<1>3. ASSUME NEW k \in 1..Len(shown), k - 1 \in S
      PROVE  k \in S
  <2>1. PICK f : computes(k - 1, f)
    BY <1>3
  <2> DEFINE g == [i \in 0..k |-> IF i = k THEN next(k, f[k - 1]) ELSE f[i]]
  <2>2. \A i \in 0..(k - 1) : g[i] = f[i]
    BY <1>1
  <2>3. \A i \in 0..k : g[i] = IF i = 0 THEN start ELSE next(i, g[i - 1])
    <3> SUFFICES ASSUME NEW i \in 0..k PROVE g[i] = IF i = 0 THEN start ELSE next(i, g[i - 1])
      OBVIOUS
    <3>1. CASE i = k
      BY <1>1, <2>2, <3>1
    <3>2. CASE i # k
      <4>1. i \in 0..(k - 1) /\ g[i] = f[i] /\ (i # 0 => g[i - 1] = f[i - 1])
        BY <1>1, <2>2, <3>2
      <4> QED BY <2>1, <4>1
    <3> QED BY <3>1, <3>2
  <2>4. g = [i \in 0..k |-> IF i = 0 THEN start ELSE next(i, g[i - 1])]
    BY <2>3
  <2>5. computes(k, g)
    BY <2>4
  <2> HIDE DEF g
  <2> QED BY <1>1, <2>5
<1> HIDE DEF S
<1>4. \A k \in 1..Len(shown) : k - 1 \in S => k \in S
  BY <1>3
<1>5. \A k \in 0..Len(shown) : k \in S
  BY <1>1, <1>2, <1>4, Induction
<1>6. PICK f : computes(Len(shown), f)
  BY <1>1, <1>5 DEF S
<1> QED BY <1>6 DEF Hears, next, start

LEMMA UnseenIsHeard ==
  ASSUME NEW shown \in Seq(Events)
  PROVE  \E f : /\ B!Unseen(shown) = f[Len(shown)]
                /\ f[0] = [keys |-> keys, fresh |-> {}]
                /\ \A i \in 1..Len(shown) : f[i] = B!Remember(f[i - 1], shown[i])
<1> DEFINE g == CHOOSE f : Hears(shown, f)
<1>1. Hears(shown, g)
  BY HearsExists
<1>2. B!Unseen(shown) = g[Len(shown)]
  BY DEF B!Unseen, Hears
<1> HIDE DEF g
<1>3. \A k \in 0..Len(shown) :
        g[k] = IF k = 0 THEN [keys |-> keys, fresh |-> {}] ELSE B!Remember(g[k - 1], shown[k])
  BY <1>1, Zenon DEF Hears
<1>4. Len(shown) \in Nat
  OBVIOUS
<1>5. 0 \in 0..Len(shown) /\ \A k \in 1..Len(shown) : k \in 0..Len(shown) /\ k # 0
  BY <1>4
<1>6. g[0] = [keys |-> keys, fresh |-> {}]
  BY <1>3, <1>5, Zenon
<1>7. ASSUME NEW k \in 1..Len(shown)
      PROVE  g[k] = B!Remember(g[k - 1], shown[k])
  BY <1>3, <1>5, Zenon
<1> QED BY <1>2, <1>6, <1>7

\* What the tracker is.
Tracker == [keys : Seq(Events), fresh : SUBSET Events]

\* The keys with one more, of which the oldest is forgotten if they are too many.
Longer(s, e) == IF Len(Append(s, e)) > Memory THEN Tail(Append(s, e)) ELSE Append(s, e)

LEMMA LongerKeeps ==
  ASSUME Memory \in Nat, NEW s \in Seq(Events), NEW e \in Events
  PROVE  LET r == Longer(s, e)
         IN /\ r \in Seq(Events)
            /\ \A k \in 1..Len(r) : r[k] = e \/ \E j \in 1..Len(s) : r[k] = s[j]
            /\ Memory > 0 => Len(r) > 0 /\ r[Len(r)] = e
            /\ \A j \in 1..Len(s) : Len(s) - j + 2 <= Memory =>
                 \E k \in 1..Len(r) : r[k] = s[j] /\ Len(r) - k = Len(s) - j + 1
<1> DEFINE t == Append(s, e)
           r == Longer(s, e)
<1>1. /\ t \in Seq(Events) /\ Len(t) = Len(s) + 1 /\ t[Len(s) + 1] = e
      /\ \A i \in 1..Len(s) : t[i] = s[i]
      /\ Len(s) \in Nat /\ t # <<>>
  OBVIOUS
<1>2. r = IF Len(t) > Memory THEN Tail(t) ELSE t
  BY DEF Longer
<1> HIDE DEF t, r
<1>3. CASE Len(t) > Memory
  <2>1. r \in Seq(Events) /\ Len(r) = Len(s) /\ \A i \in 1..Len(s) : r[i] = t[i + 1]
    BY <1>1, <1>2, <1>3
  <2>2. \A k \in 1..Len(r) : r[k] = e \/ \E j \in 1..Len(s) : r[k] = s[j]
    <3> SUFFICES ASSUME NEW k \in 1..Len(r), r[k] # e PROVE \E j \in 1..Len(s) : r[k] = s[j]
      OBVIOUS
    <3>1. r[k] = t[k + 1] /\ k + 1 \in 1..(Len(s) + 1)
      BY <1>1, <2>1
    <3>2. k + 1 \in 1..Len(s)
      BY <1>1, <3>1
    <3> QED BY <1>1, <3>1, <3>2
  <2>3. Memory > 0 => Len(r) > 0 /\ r[Len(r)] = e
    BY <1>1, <1>3, <2>1
  <2>4. ASSUME NEW j \in 1..Len(s), Len(s) - j + 2 <= Memory
        PROVE  \E k \in 1..Len(r) : r[k] = s[j] /\ Len(r) - k = Len(s) - j + 1
    <3>1. j - 1 \in 1..Len(r) /\ (j - 1) + 1 = j
      BY <1>1, <1>3, <2>1, <2>4
    <3>2. r[j - 1] = t[j]
      BY <2>1, <3>1
    <3> QED BY <1>1, <2>1, <3>1, <3>2
  <2> QED BY <2>1, <2>2, <2>3, <2>4 DEF r
<1>4. CASE ~(Len(t) > Memory)
  <2>1. r = t
    BY <1>2, <1>4
  <2>2. \A k \in 1..Len(r) : r[k] = e \/ \E j \in 1..Len(s) : r[k] = s[j]
    <3> SUFFICES ASSUME NEW k \in 1..Len(r), k # Len(s) + 1
                 PROVE  \E j \in 1..Len(s) : r[k] = s[j]
      BY <1>1, <2>1
    <3>1. k \in 1..Len(s)
      BY <1>1, <2>1
    <3> QED BY <1>1, <2>1, <3>1
  <2>3. ASSUME NEW j \in 1..Len(s)
        PROVE  \E k \in 1..Len(r) : r[k] = s[j] /\ Len(r) - k = Len(s) - j + 1
    <3>1. j \in 1..Len(r) /\ r[j] = s[j] /\ Len(r) - j = Len(s) - j + 1
      BY <1>1, <2>1
    <3> QED BY <3>1
  <2> QED BY <1>1, <2>1, <2>2, <2>3 DEF r
<1> QED BY <1>3, <1>4

LEMMA RememberIs ==
  ASSUME NEW t \in Tracker, NEW e
  PROVE  /\ (\E k \in 1..Len(t.keys) : t.keys[k] = e) => B!Remember(t, e) = t
         /\ (\A k \in 1..Len(t.keys) : t.keys[k] # e) =>
              B!Remember(t, e) = [keys |-> Longer(t.keys, e), fresh |-> t.fresh \cup {e}]
<1>1. B!ToSet(t.keys) = {t.keys[k] : k \in 1..Len(t.keys)}
  BY DEF B!ToSet, Tracker
<1> QED BY <1>1 DEF B!Remember, Longer

LEMMA UnseenTyped ==
  ASSUME Memory \in Nat, keys \in Seq(Events), NEW shown \in Seq(Events)
  PROVE  B!Unseen(shown) \in Tracker
<1>1. PICK f : /\ B!Unseen(shown) = f[Len(shown)]
               /\ f[0] = [keys |-> keys, fresh |-> {}]
               /\ \A i \in 1..Len(shown) : f[i] = B!Remember(f[i - 1], shown[i])
  BY UnseenIsHeard
<1> DEFINE S == {i \in Nat : f[i] \in Tracker}
<1>2. 0 \in S
  BY <1>1 DEF Tracker
<1>3. ASSUME NEW i \in 1..Len(shown), i - 1 \in S
      PROVE  i \in S
  <2>1. f[i - 1] \in Tracker /\ shown[i] \in Events
    BY <1>3
  <2>2. /\ Longer(f[i - 1].keys, shown[i]) \in Seq(Events)
        /\ f[i - 1].fresh \cup {shown[i]} \in SUBSET Events
    BY <2>1, LongerKeeps DEF Tracker
  <2>3. B!Remember(f[i - 1], shown[i]) \in Tracker
    <3>1. CASE \E k \in 1..Len(f[i - 1].keys) : f[i - 1].keys[k] = shown[i]
      BY <2>1, <3>1, RememberIs
    <3>2. CASE \A k \in 1..Len(f[i - 1].keys) : f[i - 1].keys[k] # shown[i]
      <4>1. B!Remember(f[i - 1], shown[i])
              = [keys |-> Longer(f[i - 1].keys, shown[i]), fresh |-> f[i - 1].fresh \cup {shown[i]}]
        BY <2>1, <3>2, RememberIs
      <4> QED BY <2>2, <4>1 DEF Tracker
    <3> QED BY <3>1, <3>2
  <2> QED BY <1>1, <2>3
<1> HIDE DEF S
<1>4. Len(shown) \in Nat /\ \A i \in 1..Len(shown) : i - 1 \in S => i \in S
  BY <1>3
<1>5. \A i \in 0..Len(shown) : i \in S
  BY <1>2, <1>4, Induction
<1> QED BY <1>1, <1>4, <1>5 DEF S

\* Of the rows shown the first u are new to the tracker; the key of each other
\* one has at most Limit - 1 keys after it that are of no row above it.
Rung(shown, ks, rung, u) ==
  \A i \in 1..Len(shown) :
    /\ i <= u => rung[shown[i]] = 0 /\ \A k \in 1..Len(ks) : ks[k] # shown[i]
    /\ i > u => /\ rung[shown[i]] <= 1
                /\ \E k \in 1..Len(ks) :
                     ks[k] = shown[i] /\ Len(ks) - k <= (i - 1 - u) + (Limit - 1)

\* What the tracker has come to after i rows, of which u are new to it.
Heard(shown, u, t, i) ==
  LET m == IF i < u THEN i ELSE u IN
  /\ t \in Tracker
  /\ \A j \in 1..Len(shown) : shown[j] \in t.fresh <=> j <= m
  /\ \A k \in 1..Len(t.keys) :
       \/ \E j \in 1..Len(keys) : t.keys[k] = keys[j]
       \/ \E j \in 1..i : t.keys[k] = shown[j]
  /\ \A j \in 1..Len(shown) :
       j <= m => \E k \in 1..Len(t.keys) : t.keys[k] = shown[j] /\ Len(t.keys) - k <= m - j
  /\ \A j \in 1..Len(shown) :
       j > u => \E k \in 1..Len(t.keys) :
                  t.keys[k] = shown[j] /\ Len(t.keys) - k <= (j - 1 - u) + (Limit - 1) + m

\* The tracker remembers twice the rows but one.
Reaches == Limit \in Nat /\ Memory \in Nat /\ 2 * Limit - 1 <= Memory

LEMMA HeardStep ==
  ASSUME Reaches, keys \in Seq(Events),
         NEW shown \in Seq(Events), Len(shown) <= Limit,
         \A i, j \in 1..Len(shown) : shown[i] = shown[j] => i = j,
         NEW u \in 0..Len(shown), Rung(shown, keys, chimed, u),
         NEW t, NEW i \in 1..Len(shown), Heard(shown, u, t, i - 1)
  PROVE  Heard(shown, u, B!Remember(t, shown[i]), i)
<1>1. /\ Len(shown) \in Nat /\ i \in Nat /\ u \in Nat /\ Limit \in Nat /\ Memory \in Nat
      /\ 2 * Limit - 1 <= Memory /\ i <= Len(shown) /\ u <= Len(shown) /\ i > 0
  BY DEF Reaches
<1>2. t \in Tracker /\ t.keys \in Seq(Events) /\ Len(t.keys) \in Nat /\ shown[i] \in Events
  BY DEF Heard, Tracker
<1>3. CASE i > u
  <2>1. \E k \in 1..Len(t.keys) : t.keys[k] = shown[i]
    BY <1>3 DEF Heard
  <2>2. B!Remember(t, shown[i]) = t
    BY <1>2, <2>1, RememberIs
  <2>3. (IF i < u THEN i ELSE u) = u /\ (IF i - 1 < u THEN i - 1 ELSE u) = u
    BY <1>1, <1>3
  <2>4. \A j \in 1..(i - 1) : j \in 1..i
    BY <1>1
  <2>5. \A k \in 1..Len(t.keys) : \/ \E j \in 1..Len(keys) : t.keys[k] = keys[j]
                                  \/ \E j \in 1..i : t.keys[k] = shown[j]
    BY <2>4 DEF Heard
  <2>6. Heard(shown, u, t, i)
    BY <2>3, <2>5 DEF Heard
  <2> QED BY <2>2, <2>6
<1>4. CASE i <= u
  <2> DEFINE s == t.keys
             r == Longer(t.keys, shown[i])
  <2>1. (IF i < u THEN i ELSE u) = i /\ (IF i - 1 < u THEN i - 1 ELSE u) = i - 1
    BY <1>1, <1>4
  <2>2. /\ \A j \in 1..Len(shown) : shown[j] \in t.fresh <=> j <= i - 1
        /\ \A k \in 1..Len(s) : \/ \E j \in 1..Len(keys) : s[k] = keys[j]
                                \/ \E j \in 1..(i - 1) : s[k] = shown[j]
        /\ \A j \in 1..Len(shown) :
             j <= i - 1 => \E k \in 1..Len(s) : s[k] = shown[j] /\ Len(s) - k <= (i - 1) - j
        /\ \A j \in 1..Len(shown) :
             j > u => \E k \in 1..Len(s) :
                        s[k] = shown[j] /\ Len(s) - k <= (j - 1 - u) + (Limit - 1) + (i - 1)
    BY <2>1 DEF Heard
  <2>3. \A k \in 1..Len(s) : s[k] # shown[i]
    <3> SUFFICES ASSUME NEW k \in 1..Len(s), s[k] = shown[i] PROVE FALSE
      OBVIOUS
    <3>1. CASE \E j \in 1..Len(keys) : s[k] = keys[j]
      BY <1>4, <3>1 DEF Rung
    <3>2. CASE \E j \in 1..(i - 1) : s[k] = shown[j]
      <4>1. PICK j \in 1..(i - 1) : shown[i] = shown[j]
        BY <3>2
      <4>2. j \in 1..Len(shown) /\ j # i
        BY <1>1
      <4> QED BY <4>1, <4>2
    <3> QED BY <2>2, <3>1, <3>2
  <2>4. B!Remember(t, shown[i]) = [keys |-> r, fresh |-> t.fresh \cup {shown[i]}]
    BY <1>2, <2>3, RememberIs
  <2>5. /\ r \in Seq(Events)
        /\ \A k \in 1..Len(r) : r[k] = shown[i] \/ \E j \in 1..Len(s) : r[k] = s[j]
        /\ Memory > 0 => Len(r) > 0 /\ r[Len(r)] = shown[i]
        /\ \A j \in 1..Len(s) : Len(s) - j + 2 <= Memory =>
             \E k \in 1..Len(r) : r[k] = s[j] /\ Len(r) - k = Len(s) - j + 1
    BY <1>1, <1>2, LongerKeeps
  <2>6. Len(r) \in Nat
    BY <2>5
  <2> PICK n : n = [keys |-> r, fresh |-> t.fresh \cup {shown[i]}]
    OBVIOUS
  <2>7. n.keys = r /\ n.fresh = t.fresh \cup {shown[i]} /\ n \in Tracker
    <3>1. t.fresh \cup {shown[i]} \in SUBSET Events
      BY <1>2 DEF Tracker
    <3> HIDE DEF r
    <3> QED BY <2>5, <3>1 DEF Tracker
  <2> HIDE DEF r, s
  <2>8. \A j \in 1..Len(shown) : shown[j] \in n.fresh <=> j <= i
    <3> SUFFICES ASSUME NEW j \in 1..Len(shown) PROVE shown[j] \in n.fresh <=> j <= i
      OBVIOUS
    <3>1. shown[j] = shown[i] <=> j = i
      OBVIOUS
    <3> QED BY <1>1, <2>2, <2>7, <3>1
  <2>9. \A k \in 1..Len(r) : \/ \E j \in 1..Len(keys) : r[k] = keys[j]
                             \/ \E j \in 1..i : r[k] = shown[j]
    <3> SUFFICES ASSUME NEW k \in 1..Len(r)
                 PROVE  \/ \E j \in 1..Len(keys) : r[k] = keys[j]
                        \/ \E j \in 1..i : r[k] = shown[j]
      OBVIOUS
    <3>1. CASE r[k] = shown[i]
      BY <1>1, <3>1
    <3>2. ASSUME NEW q \in 1..Len(s), r[k] = s[q]
          PROVE  \/ \E j \in 1..Len(keys) : r[k] = keys[j]
                 \/ \E j \in 1..i : r[k] = shown[j]
      <4>1. \A j \in 1..(i - 1) : j \in 1..i
        BY <1>1
      <4>2. CASE \E j \in 1..Len(keys) : s[q] = keys[j]
        BY <3>2, <4>2
      <4>3. CASE \E j \in 1..(i - 1) : s[q] = shown[j]
        <5>1. PICK j \in 1..(i - 1) : s[q] = shown[j]
          BY <4>3
        <5> QED BY <3>2, <4>1, <5>1
      <4> QED BY <2>2, <4>2, <4>3
    <3> QED BY <2>5, <3>1, <3>2
  <2>10. ASSUME NEW j \in 1..Len(shown), j <= i
         PROVE  \E k \in 1..Len(r) : r[k] = shown[j] /\ Len(r) - k <= i - j
    <3>1. CASE j = i
      <4>1. Len(r) \in 1..Len(r) /\ r[Len(r)] = shown[j] /\ Len(r) - Len(r) <= i - j
        BY <1>1, <2>5, <2>6, <3>1
      <4> QED BY <4>1
    <3>2. CASE j # i
      <4>1. PICK k \in 1..Len(s) : s[k] = shown[j] /\ Len(s) - k <= (i - 1) - j
        BY <1>1, <2>2, <2>10, <3>2
      <4>a. Len(s) \in Nat /\ k \in Nat /\ j \in Nat /\ j > 0
        BY <1>2 DEF s
      <4>b. Len(s) - k <= Limit - 2
        BY <1>1, <4>1, <4>a
      <4>2. Len(s) - k + 2 <= Memory /\ Len(s) \in Nat
        BY <1>1, <4>a, <4>b
      <4>3. PICK q \in 1..Len(r) : r[q] = s[k] /\ Len(r) - q = Len(s) - k + 1
        BY <2>5, <4>2
      <4>4. Len(r) - q <= i - j
        <5>1. j \in Nat /\ k \in Nat /\ q \in Nat
          OBVIOUS
        <5> QED BY <1>1, <2>6, <4>1, <4>2, <4>3, <5>1, SMTT(30)
      <4> QED BY <4>1, <4>3, <4>4
    <3> QED BY <3>1, <3>2
  <2>11. ASSUME NEW j \in 1..Len(shown), j > u
         PROVE  \E k \in 1..Len(r) :
                  r[k] = shown[j] /\ Len(r) - k <= (j - 1 - u) + (Limit - 1) + i
    <3>1. PICK k \in 1..Len(s) :
            s[k] = shown[j] /\ Len(s) - k <= (j - 1 - u) + (Limit - 1) + (i - 1)
      BY <2>2, <2>11
    <3>2. Len(s) - k + 2 <= Memory /\ Len(s) \in Nat
      <4>1. Len(s) \in Nat /\ k \in Nat
        BY <1>2 DEF s
      <4>2. j \in Nat /\ j <= Limit
        BY <1>1
      <4>3. Len(s) - k <= j + Limit - 3
        BY <1>1, <1>4, <3>1, <4>1, <4>2
      <4>4. Len(s) - k + 2 <= 2 * Limit - 1
        BY <1>1, <4>1, <4>2, <4>3
      <4> QED BY <1>1, <4>1, <4>4
    <3>3. PICK q \in 1..Len(r) : r[q] = s[k] /\ Len(r) - q = Len(s) - k + 1
      BY <2>5, <3>2
    <3>4. Len(r) - q <= (j - 1 - u) + (Limit - 1) + i
      <4>1. j \in Nat /\ k \in Nat /\ q \in Nat
        OBVIOUS
      <4> QED BY <1>1, <2>6, <3>1, <3>2, <3>3, <4>1, SMTT(30)
    <3> QED BY <3>1, <3>3, <3>4
  <2>12. Heard(shown, u, n, i)
    <3> DEFINE m == IF i < u THEN i ELSE u
    <3>1. m = i
      BY <2>1
    <3> HIDE DEF m
    <3>2. \A j \in 1..Len(shown) : shown[j] \in n.fresh <=> j <= m
      BY <2>8, <3>1
    <3>3. \A k \in 1..Len(n.keys) : \/ \E j \in 1..Len(keys) : n.keys[k] = keys[j]
                                    \/ \E j \in 1..i : n.keys[k] = shown[j]
      BY <2>7, <2>9
    <3>4. \A j \in 1..Len(shown) :
            j <= m => \E k \in 1..Len(n.keys) : n.keys[k] = shown[j] /\ Len(n.keys) - k <= m - j
      BY <2>7, <2>10, <3>1
    <3>5. \A j \in 1..Len(shown) :
            j > u => \E k \in 1..Len(n.keys) :
                       n.keys[k] = shown[j] /\ Len(n.keys) - k <= (j - 1 - u) + (Limit - 1) + m
      BY <2>7, <2>11, <3>1
    <3> QED BY <2>7, <3>2, <3>3, <3>4, <3>5, Zenon DEF Heard, m
  <2> QED BY <2>4, <2>12 DEF r
<1> QED BY <1>1, <1>3, <1>4

LEMMA AllHeard ==
  ASSUME Reaches, keys \in Seq(Events),
         NEW shown \in Seq(Events), Len(shown) <= Limit,
         \A i, j \in 1..Len(shown) : shown[i] = shown[j] => i = j,
         NEW u \in 0..Len(shown), Rung(shown, keys, chimed, u)
  PROVE  Heard(shown, u, B!Unseen(shown), Len(shown))
<1>1. PICK f : /\ B!Unseen(shown) = f[Len(shown)]
               /\ f[0] = [keys |-> keys, fresh |-> {}]
               /\ \A i \in 1..Len(shown) : f[i] = B!Remember(f[i - 1], shown[i])
  BY UnseenIsHeard
<1> DEFINE S == {i \in Nat : Heard(shown, u, f[i], i)}
<1>2. 0 \in S
  <2>1. PICK t : t = f[0]
    OBVIOUS
  <2>2. t \in Tracker /\ t.keys = keys /\ t.fresh = {}
    BY <1>1, <2>1 DEF Tracker
  <2>3. (IF 0 < u THEN 0 ELSE u) = 0
    OBVIOUS
  <2>4. ASSUME NEW j \in 1..Len(shown), j > u
        PROVE  \E k \in 1..Len(keys) :
                 keys[k] = shown[j] /\ Len(keys) - k <= (j - 1 - u) + (Limit - 1) + 0
    <3>1. PICK k \in 1..Len(keys) :
            keys[k] = shown[j] /\ Len(keys) - k <= (j - 1 - u) + (Limit - 1)
      BY <2>4 DEF Rung
    <3>2. Len(keys) \in Nat /\ Limit \in Nat
      BY DEF Reaches
    <3> QED BY <3>1, <3>2
  <2>5. Heard(shown, u, t, 0)
    BY <2>2, <2>3, <2>4 DEF Heard
  <2> QED BY <2>1, <2>5
<1>3. \A i \in 1..Len(shown) : i - 1 \in S => i \in S
  BY <1>1, HeardStep
<1> HIDE DEF S
<1>4. Len(shown) \in Nat
  OBVIOUS
<1>5. \A i \in 0..Len(shown) : i \in S
  BY <1>2, <1>3, <1>4, Induction
<1> QED BY <1>1, <1>4, <1>5 DEF S

LEMMA RingKeeps ==
  ASSUME Reaches, keys \in Seq(Events), chimed \in [Events -> 0..2], NEW arm \in BOOLEAN,
         NEW shown \in Seq(Events), Len(shown) <= Limit,
         \A i, j \in 1..Len(shown) : shown[i] = shown[j] => i = j,
         NEW u \in 0..Len(shown), Rung(shown, keys, chimed, u), B!Ring(shown, arm)
  PROVE  /\ \E w \in 0..Len(shown) : Rung(shown, keys', chimed', w)
         /\ \A e \in Events : (\A i \in 1..Len(shown) : shown[i] # e) => chimed'[e] = 0
         /\ \A k \in 1..Len(keys') : \/ \E j \in 1..Len(keys) : keys'[k] = keys[j]
                                     \/ \E j \in 1..Len(shown) : keys'[k] = shown[j]
<1> DEFINE t == IF arm THEN B!Unseen(shown) ELSE [keys |-> keys, fresh |-> {}]
<1>1. /\ keys' = t.keys
      /\ chimed' = [e \in Events |->
           IF e \notin B!ToSet(shown) THEN 0
           ELSE IF e \in t.fresh /\ chimed[e] < 2 THEN chimed[e] + 1 ELSE chimed[e]]
  BY DEF B!Ring
<1> HIDE DEF t
<1>2. /\ B!ToSet(shown) = {shown[i] : i \in 1..Len(shown)} /\ Len(shown) \in Nat
      /\ \A i \in 1..Len(shown) : shown[i] \in Events
  BY DEF B!ToSet
<1>3. /\ \A e \in Events : (\A i \in 1..Len(shown) : shown[i] # e) => chimed'[e] = 0
      /\ \A i \in 1..Len(shown) :
           /\ shown[i] \in t.fresh /\ chimed[shown[i]] = 0 => chimed'[shown[i]] = 1
           /\ shown[i] \notin t.fresh => chimed'[shown[i]] = chimed[shown[i]]
  <2>1. \A e \in Events :
          chimed'[e] = IF e \notin B!ToSet(shown) THEN 0
                       ELSE IF e \in t.fresh /\ chimed[e] < 2 THEN chimed[e] + 1 ELSE chimed[e]
    BY <1>1
  <2>2. ASSUME NEW e \in Events, \A i \in 1..Len(shown) : shown[i] # e
        PROVE  chimed'[e] = 0
    BY <1>2, <2>1, <2>2
  <2>3. ASSUME NEW i \in 1..Len(shown)
        PROVE  /\ shown[i] \in t.fresh /\ chimed[shown[i]] = 0 => chimed'[shown[i]] = 1
               /\ shown[i] \notin t.fresh => chimed'[shown[i]] = chimed[shown[i]]
    <3>1. shown[i] \in Events /\ shown[i] \in B!ToSet(shown)
      BY <1>2
    <3> QED BY <2>1, <3>1
  <2> QED BY <2>2, <2>3
<1>4. CASE arm
  <2>1. Heard(shown, u, t, Len(shown))
    BY <1>4, AllHeard DEF t
  <2>2. (IF Len(shown) < u THEN Len(shown) ELSE u) = u
    BY <1>2
  <2>3. /\ t.keys \in Seq(Events)
        /\ \A j \in 1..Len(shown) : shown[j] \in t.fresh <=> j <= u
        /\ \A k \in 1..Len(t.keys) : \/ \E j \in 1..Len(keys) : t.keys[k] = keys[j]
                                     \/ \E j \in 1..Len(shown) : t.keys[k] = shown[j]
        /\ \A j \in 1..Len(shown) :
             j <= u => \E k \in 1..Len(t.keys) : t.keys[k] = shown[j] /\ Len(t.keys) - k <= u - j
        /\ \A j \in 1..Len(shown) :
             j > u => \E k \in 1..Len(t.keys) :
                        t.keys[k] = shown[j] /\ Len(t.keys) - k <= (j - 1 - u) + (Limit - 1) + u
    BY <2>1, <2>2 DEF Heard, Tracker
  <2>4. ASSUME NEW i \in 1..Len(shown)
        PROVE  /\ chimed'[shown[i]] <= 1
               /\ \E k \in 1..Len(t.keys) :
                    t.keys[k] = shown[i] /\ Len(t.keys) - k <= (i - 1 - 0) + (Limit - 1)
    <3>1. i \in Nat /\ i <= Limit /\ i >= 1 /\ Limit \in Nat /\ Len(t.keys) \in Nat
      BY <1>2, <2>3 DEF Reaches
    <3>2. CASE i <= u
      <4>1. shown[i] \in t.fresh /\ chimed[shown[i]] = 0
        BY <2>3, <3>2 DEF Rung
      <4>2. PICK k \in 1..Len(t.keys) : t.keys[k] = shown[i] /\ Len(t.keys) - k <= u - i
        BY <2>3, <3>2
      <4>3. Len(t.keys) - k <= (i - 1 - 0) + (Limit - 1)
        BY <1>2, <3>1, <3>2, <4>2
      <4> QED BY <1>3, <4>1, <4>2, <4>3
    <3>3. CASE i > u
      <4>1. shown[i] \notin t.fresh /\ chimed[shown[i]] <= 1
        BY <2>3, <3>1, <3>3 DEF Rung
      <4>2. PICK k \in 1..Len(t.keys) :
              t.keys[k] = shown[i] /\ Len(t.keys) - k <= (i - 1 - u) + (Limit - 1) + u
        BY <2>3, <3>3
      <4>3. Len(t.keys) - k <= (i - 1 - 0) + (Limit - 1)
        BY <3>1, <4>2
      <4>4. chimed'[shown[i]] = chimed[shown[i]]
        BY <1>3, <4>1
      <4> QED BY <4>1, <4>2, <4>3, <4>4
    <3> QED BY <3>1, <3>2, <3>3
  <2>5. Rung(shown, keys', chimed', 0)
    BY <1>1, <2>4 DEF Rung
  <2>6. 0 \in 0..Len(shown)
    BY <1>2
  <2>7. \E w \in 0..Len(shown) : Rung(shown, keys', chimed', w)
    BY <2>5, <2>6
  <2> QED BY <1>1, <1>3, <2>3, <2>7
<1>5. CASE ~arm
  <2>1. t = [keys |-> keys, fresh |-> {}]
    BY <1>5 DEF t
  <2>2. keys' = keys /\ \A i \in 1..Len(shown) : chimed'[shown[i]] = chimed[shown[i]]
    BY <1>1, <1>3, <2>1
  <2>3. Rung(shown, keys', chimed', u)
    BY <2>2 DEF Rung
  <2> QED BY <1>3, <2>2, <2>3
<1> QED BY <1>4, <1>5

\* Events that are new to the tracker come on top of the rows.
LEMMA RungOnTop ==
  ASSUME Limit \in Nat, NEW s \in Seq(Events), NEW added \in Seq(Events),
         NEW u \in 0..Len(s), Rung(s, keys, chimed, u),
         \A i \in 1..Len(added) :
           chimed[added[i]] = 0 /\ \A k \in 1..Len(keys) : keys[k] # added[i]
  PROVE  \E w \in 0..Len(B!Top(added \o s)) : Rung(B!Top(added \o s), keys, chimed, w)
<1>1. PICK top : top = B!Top(added \o s)
  OBVIOUS
<1> PICK all : all = added \o s
  OBVIOUS
<1>2. /\ all \in Seq(Events) /\ Len(all) = Len(added) + Len(s)
      /\ \A i \in 1..Len(all) :
           all[i] = IF i <= Len(added) THEN added[i] ELSE s[i - Len(added)]
      /\ Len(added) \in Nat /\ Len(s) \in Nat
  BY Joined
<1>3. /\ top \in Seq(Events) /\ Len(top) \in Nat /\ Len(top) <= Len(added) + Len(s)
      /\ \A i \in 1..Len(top) : top[i] = IF i <= Len(added) THEN added[i] ELSE s[i - Len(added)]
  <2>1. /\ top \in Seq(Events) /\ Len(top) = IF Len(all) < Limit THEN Len(all) ELSE Limit
        /\ \A i \in 1..Len(top) : top[i] = all[i]
    BY <1>1, <1>2, TopIs
  <2>2. Len(top) \in Nat /\ Len(top) <= Len(all) /\ \A i \in 1..Len(top) : i \in 1..Len(all)
    BY <1>2, <2>1
  <2> QED BY <1>2, <2>1, <2>2
<1> DEFINE w == IF Len(added) + u <= Len(top) THEN Len(added) + u ELSE Len(top)
<1>4. w \in 0..Len(top)
  BY <1>2, <1>3
<1>5. ASSUME NEW i \in 1..Len(top), i <= w
      PROVE  chimed[top[i]] = 0 /\ \A k \in 1..Len(keys) : keys[k] # top[i]
  <2>1. CASE i <= Len(added)
    <3>1. i \in 1..Len(added)
      BY <1>3, <2>1
    <3> QED BY <1>3, <2>1, <3>1
  <2>2. CASE ~(i <= Len(added))
    <3>1. i - Len(added) \in 1..Len(s) /\ i - Len(added) <= u
      BY <1>2, <1>3, <1>5, <2>2
    <3>2. top[i] = s[i - Len(added)]
      BY <1>3, <2>2
    <3> HIDE DEF w
    <3>3. /\ chimed[s[i - Len(added)]] = 0
          /\ \A k \in 1..Len(keys) : keys[k] # s[i - Len(added)]
      BY <3>1 DEF Rung
    <3> QED BY <3>2, <3>3
  <2> QED BY <2>1, <2>2
<1>6. ASSUME NEW i \in 1..Len(top), i > w
      PROVE  /\ chimed[top[i]] <= 1
             /\ \E k \in 1..Len(keys) :
                  keys[k] = top[i] /\ Len(keys) - k <= (i - 1 - w) + (Limit - 1)
  <2>1. w = Len(added) + u
    BY <1>2, <1>3, <1>6
  <2>2. i - Len(added) \in 1..Len(s) /\ i - Len(added) > u /\ ~(i <= Len(added))
    BY <1>2, <1>3, <1>6, <2>1
  <2>3. (i - Len(added)) - 1 - u = i - 1 - w
    BY <1>2, <2>1
  <2> HIDE DEF w
  <2>4. top[i] = s[i - Len(added)]
    BY <1>3, <2>2
  <2>5. /\ chimed[s[i - Len(added)]] <= 1
        /\ \E k \in 1..Len(keys) :
             keys[k] = s[i - Len(added)]
               /\ Len(keys) - k <= ((i - Len(added)) - 1 - u) + (Limit - 1)
    BY <2>2 DEF Rung
  <2> QED BY <2>3, <2>4, <2>5
<1> HIDE DEF w
<1>7. Rung(top, keys, chimed, w)
  BY <1>5, <1>6 DEF Rung
<1> QED BY <1>1, <1>4, <1>7

\* What the tracker has and what it is still to hear of.
ChimeInv ==
  ~replaced =>
    /\ \A e \in Events : (\A i \in 1..Len(rows) : rows[i] # e) => chimed[e] = 0
    /\ \E u \in 0..Len(rows) : Rung(rows, keys, chimed, u)
    /\ \A k \in 1..Len(keys) : keys[k] \in seen
    /\ \A k \in 1..Len(keys), i \in 1..Len(pending) : keys[k] # pending[i]

ChimeTypes ==
  /\ keys \in Seq(Events) /\ chimed \in [Events -> 0..2]
  /\ armed \in BOOLEAN /\ replaced \in BOOLEAN

\* What the buffer's invariant says of rows and queue.
LEMMA RowsAre ==
  ASSUME Limit \in Nat, BufferInv
  PROVE  /\ rows \in Seq(Events) /\ Len(rows) <= Limit /\ Len(rows) \in Nat
         /\ pending \in Seq(Events)
         /\ \A i \in 1..Len(rows) : rows[i] \in seen
         /\ \A i \in 1..Len(pending) : pending[i] \in seen
         /\ \A i, j \in 1..Len(rows) : rows[i] = rows[j] => i = j
         /\ \A i \in 1..Len(pending), j \in 1..Len(rows) : pending[i] # rows[j]
<1>1. since \in Seq(Events) /\ before \in Seq(Events)
  BY DEF BufferInv
<1>2. /\ rows \in Seq(Events) /\ Len(rows) <= Limit /\ Len(rows) \in Nat
      /\ Len(rows) <= Len(before)
      /\ \A i \in 1..Len(rows) : i \in 1..Len(before) /\ rows[i] = before[i]
  <2>1. /\ rows \in Seq(Events) /\ Len(rows) = IF Len(before) < Limit THEN Len(before) ELSE Limit
        /\ \A i \in 1..Len(rows) : rows[i] = before[i]
    BY <1>1, TopIs DEF BufferInv
  <2>2. Len(rows) \in Nat /\ Len(before) \in Nat /\ Len(rows) <= Limit /\ Len(rows) <= Len(before)
    BY <1>1, <2>1
  <2> QED BY <2>1, <2>2
<1>3. /\ pending \in Seq(Events)
      /\ \A i \in 1..Len(pending) : i \in 1..Len(since) /\ pending[i] = since[i]
  <2>1. /\ pending \in Seq(Events)
        /\ Len(pending) = IF Len(since) < Limit THEN Len(since) ELSE Limit
        /\ \A i \in 1..Len(pending) : pending[i] = since[i]
    BY <1>1, TopIs DEF BufferInv
  <2>2. Len(pending) \in Nat /\ Len(since) \in Nat /\ Len(pending) <= Len(since)
    BY <1>1, <2>1
  <2> QED BY <2>1, <2>2
<1>4. /\ \A i, j \in 1..Len(before) : before[i] = before[j] => i = j
      /\ \A i \in 1..Len(since), j \in 1..Len(before) : since[i] # before[j]
  BY DEF BufferInv, Apart
<1> QED BY <1>2, <1>3, <1>4 DEF BufferInv

LEMMA RingTyped ==
  ASSUME Memory \in Nat, ChimeTypes, NEW shown \in Seq(Events), NEW arm \in BOOLEAN,
         B!Ring(shown, arm)
  PROVE  keys' \in Seq(Events) /\ chimed' \in [Events -> 0..2] /\ armed' \in BOOLEAN
<1> DEFINE t == IF arm THEN B!Unseen(shown) ELSE [keys |-> keys, fresh |-> {}]
<1>1. /\ keys' = t.keys /\ armed' = arm
      /\ chimed' = [e \in Events |->
           IF e \notin B!ToSet(shown) THEN 0
           ELSE IF e \in t.fresh /\ chimed[e] < 2 THEN chimed[e] + 1 ELSE chimed[e]]
  BY DEF B!Ring
<1>2. t \in Tracker
  <2>1. CASE arm
    BY <2>1, UnseenTyped DEF ChimeTypes
  <2>2. CASE ~arm
    BY <2>2 DEF ChimeTypes, Tracker
  <2> QED BY <2>1, <2>2
<1> HIDE DEF t
<1>3. \A e \in Events : chimed[e] \in 0..2
  BY DEF ChimeTypes
<1>4. chimed' \in [Events -> 0..2]
  BY <1>1, <1>3
<1> QED BY <1>1, <1>2, <1>4 DEF Tracker

LEMMA ChimeTypesStep ==
  ASSUME Limit \in Nat, Memory \in Nat, BufferInv, ChimeTypes, [B!Next]_(B!vars)
  PROVE  ChimeTypes'
<1>1. BufferInv'
  BY BufferStep
<1>2. rows \in Seq(Events) /\ rows' \in Seq(Events)
  <2>1. rows' = B!Top(before') /\ before' \in Seq(Events)
    BY <1>1 DEF BufferInv, B!Top
  <2>2. B!Top(before') \in Seq(Events)
    BY <2>1, TopIs
  <2> QED BY <2>1, <2>2, RowsAre
<1>3. ASSUME NEW arm \in BOOLEAN, B!Ring(rows', arm), replaced' \in BOOLEAN
      PROVE  ChimeTypes'
  <2>1. PICK shown : shown = rows'
    OBVIOUS
  <2>2. B!Ring(shown, arm) /\ shown \in Seq(Events)
    BY <1>2, <1>3, <2>1
  <2> QED BY <1>3, <2>2, RingTyped DEF ChimeTypes
<1>4. ASSUME NEW batch \in B!Polls, B!Ingest(batch)
      PROVE  ChimeTypes'
  BY <1>3, <1>4 DEF B!Ingest, ChimeTypes
<1>5. CASE B!Pause \/ UNCHANGED B!vars
  BY <1>5 DEF B!Pause, B!vars, B!alertVars, ChimeTypes
<1>6. CASE B!Resume \/ B!Clear \/ B!Reset
  BY <1>3, <1>6 DEF B!Resume, B!Clear, B!Reset, ChimeTypes
<1>7. ASSUME NEW window \in B!Ranges, B!AnswerRange(window)
      PROVE  ChimeTypes'
  BY <1>3, <1>7 DEF B!AnswerRange, ChimeTypes
<1>8. CASE B!ToggleAlerts
  <2>1. B!Ring(rows, ~armed) /\ replaced' = replaced
    BY <1>8 DEF B!ToggleAlerts
  <2>2. PICK arm \in BOOLEAN : arm = ~armed
    OBVIOUS
  <2> QED BY <1>2, <2>1, <2>2, RingTyped DEF ChimeTypes
<1> QED BY <1>4, <1>5, <1>6, <1>7, <1>8 DEF B!Next

\* A step that leaves the tracker to go over rows it knows, with events that are
\* new to it on top, or over none.
LEMMA RingsOn ==
  ASSUME Reaches, ChimeTypes, BufferInv, BufferInv', ~replaced, ChimeInv,
         NEW added \in Seq(Events), NEW arm \in BOOLEAN,
         B!Ring(rows', arm),
         rows' = <<>> \/ rows' = B!Top(added \o rows),
         \A i \in 1..Len(added) :
           chimed[added[i]] = 0 /\ \A k \in 1..Len(keys) : keys[k] # added[i],
         seen \subseteq seen',
         \A i \in 1..Len(pending') :
           \A k \in 1..Len(keys) : keys[k] # pending'[i]
  PROVE  ChimeInv'
<1>1. PICK shown : shown = rows'
  OBVIOUS
<1>2. /\ shown \in Seq(Events) /\ Len(shown) <= Limit /\ Len(shown) \in Nat
      /\ \A i, j \in 1..Len(shown) : shown[i] = shown[j] => i = j
      /\ \A i \in 1..Len(shown) : shown[i] \in seen'
      /\ \A i \in 1..Len(pending'), j \in 1..Len(shown) : pending'[i] # shown[j]
  <2>1. PICK s2, b2, p2, n2 : s2 = since' /\ b2 = before' /\ p2 = pending' /\ n2 = seen'
    OBVIOUS
  <2>2. /\ s2 \in Seq(Events) /\ b2 \in Seq(Events) /\ \A i \in 1..Len(b2) : b2[i] \in n2
        /\ Apart(s2, b2) /\ shown = B!Top(b2) /\ p2 = B!Top(s2)
    BY <1>1, <2>1 DEF BufferInv, Apart, B!Top
  <2>3. /\ shown \in Seq(Events) /\ Len(shown) = IF Len(b2) < Limit THEN Len(b2) ELSE Limit
        /\ \A i \in 1..Len(shown) : shown[i] = b2[i]
    BY <2>2, TopIs DEF Reaches
  <2>4. /\ p2 \in Seq(Events) /\ Len(p2) = IF Len(s2) < Limit THEN Len(s2) ELSE Limit
        /\ \A i \in 1..Len(p2) : p2[i] = s2[i]
    BY <2>2, TopIs DEF Reaches
  <2>5. /\ Len(shown) <= Limit /\ Len(shown) \in Nat
        /\ \A i \in 1..Len(shown) : i \in 1..Len(b2)
        /\ \A i \in 1..Len(p2) : i \in 1..Len(s2)
    BY <2>2, <2>3, <2>4 DEF Reaches
  <2>6. \A i, j \in 1..Len(shown) : shown[i] = shown[j] => i = j
    BY <2>2, <2>3, <2>5 DEF Apart
  <2>7. \A i \in 1..Len(p2), j \in 1..Len(shown) : p2[i] # shown[j]
    BY <2>2, <2>3, <2>4, <2>5 DEF Apart
  <2> QED BY <2>1, <2>2, <2>3, <2>5, <2>6, <2>7
<1>3. PICK u \in 0..Len(shown) : Rung(shown, keys, chimed, u)
  <2>1. CASE rows' = <<>>
    <3>1. Len(shown) = 0 /\ 0 \in 0..Len(shown)
      BY <1>1, <2>1
    <3>2. Rung(shown, keys, chimed, 0)
      BY <3>1 DEF Rung
    <3> QED BY <3>1, <3>2
  <2>2. CASE rows' = B!Top(added \o rows)
    <3>1. PICK v \in 0..Len(rows) : Rung(rows, keys, chimed, v)
      BY DEF ChimeInv
    <3>2. \E w \in 0..Len(B!Top(added \o rows)) : Rung(B!Top(added \o rows), keys, chimed, w)
      BY <3>1, RungOnTop, RowsAre DEF Reaches
    <3> QED BY <1>1, <2>2, <3>2
  <2> QED BY <2>1, <2>2
<1>4. /\ \E w \in 0..Len(shown) : Rung(shown, keys', chimed', w)
      /\ \A e \in Events : (\A i \in 1..Len(shown) : shown[i] # e) => chimed'[e] = 0
      /\ \A k \in 1..Len(keys') : \/ \E j \in 1..Len(keys) : keys'[k] = keys[j]
                                  \/ \E j \in 1..Len(shown) : keys'[k] = shown[j]
  <2>1. B!Ring(shown, arm) /\ keys \in Seq(Events) /\ chimed \in [Events -> 0..2]
    BY <1>1 DEF ChimeTypes
  <2> QED BY <1>2, <1>3, <2>1, RingKeeps
<1>5. \A k \in 1..Len(keys') : keys'[k] \in seen'
  <2>1. \A j \in 1..Len(keys) : keys[j] \in seen
    BY DEF ChimeInv
  <2> QED BY <1>2, <1>4, <2>1
<1>6. \A k \in 1..Len(keys'), i \in 1..Len(pending') : keys'[k] # pending'[i]
  BY <1>2, <1>4
<1>7. \E w \in 0..Len(rows') : Rung(rows', keys', chimed', w)
  BY <1>1, <1>4
<1>8. (\E w \in 0..Len(rows) : Rung(rows, keys, chimed, w))'
  BY <1>7 DEF Rung
<1>9. \A e \in Events : (\A i \in 1..Len(rows') : rows'[i] # e) => chimed'[e] = 0
  BY <1>1, <1>4
<1> QED BY <1>5, <1>6, <1>8, <1>9 DEF ChimeInv

LEMMA ChimeStep ==
  ASSUME Reaches, BufferInv, ChimeTypes, ChimeInv, [B!Next]_(B!vars)
  PROVE  ChimeInv'
<1>1. BufferInv'
  BY BufferStep DEF Reaches
<1>2. armed \in BOOLEAN
  BY DEF ChimeTypes
<1>3. /\ rows \in Seq(Events) /\ pending \in Seq(Events) /\ Len(rows) <= Limit
      /\ \A i \in 1..Len(rows) : rows[i] \in seen
      /\ \A i \in 1..Len(pending) : pending[i] \in seen
      /\ \A i \in 1..Len(pending), j \in 1..Len(rows) : pending[i] # rows[j]
  BY RowsAre DEF Reaches
<1> PICK nothing : nothing = <<>>
  OBVIOUS
<1>4. nothing \in Seq(Events) /\ Len(nothing) = 0 /\ rows = B!Top(nothing \o rows)
  <2>1. nothing \in Seq(Events) /\ Len(nothing) = 0 /\ nothing \o rows = rows
    BY <1>3
  <2> QED BY <1>3, <2>1, NothingIsTop DEF Reaches
<1>5. CASE replaced'
  BY <1>5 DEF ChimeInv
<1>6. ASSUME ~replaced, NEW batch \in B!Polls, B!Ingest(batch)
      PROVE  ChimeInv'
  <2>1. batch \in Seq(Events)
    BY DEF B!Polls
  <2> PICK fresh : fresh = B!Fresh(batch)
    OBVIOUS
  <2>2. /\ fresh \in Seq(Events) /\ Len(fresh) \in Nat
        /\ \A i \in 1..Len(fresh) : fresh[i] \notin seen
    BY <2>1, FreshIsNew
  <2>3. /\ seen' = seen \cup B!ToSet(fresh) /\ B!Ring(rows', armed)
    BY <1>6 DEF B!Ingest
  <2>4. \A i \in 1..Len(fresh) :
          chimed[fresh[i]] = 0 /\ \A k \in 1..Len(keys) : keys[k] # fresh[i]
    <3> SUFFICES ASSUME NEW i \in 1..Len(fresh)
                 PROVE  chimed[fresh[i]] = 0 /\ \A k \in 1..Len(keys) : keys[k] # fresh[i]
      OBVIOUS
    <3>1. fresh[i] \in Events /\ fresh[i] \notin seen
      BY <2>2
    <3> QED BY <1>3, <1>6, <3>1 DEF ChimeInv
  <2>5. CASE paused
    <3>1. rows' = rows /\ pending' = B!Top(fresh \o pending)
      BY <1>6, <2>5 DEF B!Ingest
    <3>2. ASSUME NEW i \in 1..Len(pending'), NEW k \in 1..Len(keys)
          PROVE  keys[k] # pending'[i]
      <4> PICK all, top : all = fresh \o pending /\ top = pending'
        OBVIOUS
      <4>1. /\ all \in Seq(Events) /\ Len(all) = Len(fresh) + Len(pending)
            /\ Len(pending) \in Nat
            /\ \A j \in 1..Len(all) :
                 all[j] = IF j <= Len(fresh) THEN fresh[j] ELSE pending[j - Len(fresh)]
        BY <1>3, <2>2, Joined
      <4>2. /\ top \in Seq(Events) /\ Len(top) = IF Len(all) < Limit THEN Len(all) ELSE Limit
            /\ \A j \in 1..Len(top) : top[j] = all[j]
        BY <3>1, <4>1, TopIs DEF Reaches
      <4>3. i \in 1..Len(all) /\ pending'[i] = all[i]
        <5>1. i \in 1..Len(top) /\ pending'[i] = top[i]
          OBVIOUS
        <5>2. Len(top) <= Len(all) /\ Len(top) \in Nat /\ Len(all) \in Nat
          BY <4>1, <4>2
        <5>3. i \in 1..Len(all)
          BY <5>1, <5>2, <4>2
        <5>4. top[i] = all[i]
          BY <4>2, <5>1
        <5> QED BY <5>1, <5>3, <5>4
      <4>4. CASE i <= Len(fresh)
        <5>1. i \in 1..Len(fresh) /\ all[i] = fresh[i]
          BY <4>1, <4>3, <4>4
        <5> QED BY <2>4, <4>3, <5>1
      <4>5. CASE ~(i <= Len(fresh))
        <5>1. i - Len(fresh) \in 1..Len(pending) /\ all[i] = pending[i - Len(fresh)]
          BY <2>2, <4>1, <4>3, <4>5
        <5>2. \A j \in 1..Len(pending) : keys[k] # pending[j]
          BY <1>6 DEF ChimeInv
        <5> QED BY <4>3, <5>1, <5>2
      <4> QED BY <4>4, <4>5
    <3>3. /\ rows' = B!Top(nothing \o rows)
          /\ \A i \in 1..Len(nothing) :
               chimed[nothing[i]] = 0 /\ \A k \in 1..Len(keys) : keys[k] # nothing[i]
      BY <1>4, <3>1
    <3> QED BY <1>1, <1>2, <1>4, <1>6, <2>3, <3>2, <3>3, RingsOn
  <2>6. CASE ~paused
    <3>1. rows' = B!Top(fresh \o rows) /\ pending' = pending
      BY <1>6, <2>6 DEF B!Ingest
    <3>2. \A i \in 1..Len(pending') : \A k \in 1..Len(keys) : keys[k] # pending'[i]
      BY <1>6, <3>1 DEF ChimeInv
    <3> QED BY <1>1, <1>2, <1>6, <2>2, <2>3, <2>4, <3>1, <3>2, RingsOn
  <2> QED BY <2>5, <2>6
<1>7. ASSUME ~replaced, B!Pause \/ UNCHANGED B!vars
      PROVE  ChimeInv'
  <2>1. /\ rows' = rows /\ pending' = pending /\ seen' = seen
        /\ keys' = keys /\ chimed' = chimed
    BY <1>7 DEF B!Pause, B!vars, B!bufferVars, B!alertVars
  <2> QED BY <1>7, <2>1, ZenonT(40) DEF ChimeInv, Rung
<1>8. ASSUME ~replaced, B!Resume
      PROVE  ChimeInv'
  <2>1. /\ rows' = B!Top(pending \o rows) /\ pending' = <<>> /\ seen' = seen
        /\ B!Ring(rows', armed)
    BY <1>8 DEF B!Resume, B!QueueOnRows
  <2>2. \A i \in 1..Len(pending) :
          chimed[pending[i]] = 0 /\ \A k \in 1..Len(keys) : keys[k] # pending[i]
    <3> SUFFICES ASSUME NEW i \in 1..Len(pending)
                 PROVE  chimed[pending[i]] = 0 /\ \A k \in 1..Len(keys) : keys[k] # pending[i]
      OBVIOUS
    <3>1. pending[i] \in Events /\ \A j \in 1..Len(rows) : rows[j] # pending[i]
      BY <1>3
    <3> QED BY <1>8, <3>1 DEF ChimeInv
  <2>3. \A i \in 1..Len(pending') : \A k \in 1..Len(keys) : keys[k] # pending'[i]
    BY <2>1
  <2> QED BY <1>1, <1>2, <1>3, <1>8, <2>1, <2>2, <2>3, RingsOn
<1>9. ASSUME ~replaced, B!Clear
      PROVE  ChimeInv'
  <2>1. rows' = <<>> /\ pending' = pending /\ seen' = seen /\ B!Ring(rows', armed)
    BY <1>9 DEF B!Clear
  <2>2. \A i \in 1..Len(pending') : \A k \in 1..Len(keys) : keys[k] # pending'[i]
    BY <1>9, <2>1 DEF ChimeInv
  <2>3. \A i \in 1..Len(nothing) :
          chimed[nothing[i]] = 0 /\ \A k \in 1..Len(keys) : keys[k] # nothing[i]
    BY <1>4
  <2> QED BY <1>1, <1>2, <1>4, <1>9, <2>1, <2>2, <2>3, RingsOn
<1>10. ASSUME ~replaced, B!ToggleAlerts
       PROVE  ChimeInv'
  <2>1. /\ rows' = rows /\ pending' = pending /\ seen' = seen
        /\ B!Ring(rows, ~armed)
    BY <1>10 DEF B!ToggleAlerts, B!bufferVars
  <2>2. PICK arm \in BOOLEAN : arm = ~armed
    OBVIOUS
  <2>3. B!Ring(rows', arm)
    BY <2>1, <2>2
  <2>4. \A i \in 1..Len(pending') : \A k \in 1..Len(keys) : keys[k] # pending'[i]
    BY <1>10, <2>1 DEF ChimeInv
  <2>5. /\ rows' = B!Top(nothing \o rows)
        /\ \A i \in 1..Len(nothing) :
             chimed[nothing[i]] = 0 /\ \A k \in 1..Len(keys) : keys[k] # nothing[i]
    BY <1>4, <2>1
  <2> QED BY <1>1, <1>4, <1>10, <2>1, <2>3, <2>4, <2>5, RingsOn
<1>11. CASE B!Reset \/ \E window \in B!Ranges : B!AnswerRange(window)
  BY <1>5, <1>11 DEF B!Reset, B!AnswerRange
<1>12. ASSUME ~replaced', [B!Next]_(B!vars)
       PROVE  ~replaced
  BY <1>12 DEF B!Next, B!Ingest, B!Pause, B!Resume, B!Clear, B!Reset, B!AnswerRange,
     B!ToggleAlerts, B!vars
<1> QED BY <1>5, <1>6, <1>7, <1>8, <1>9, <1>10, <1>11, <1>12 DEF B!Next

(* For any events, any limit and a memory of twice the rows but one (250    *)
(* and 500 in the code): an event that stays in the rows of the live tail   *)
(* is rung for once, although keys are forgotten and rows looked at again   *)
(* (the tracker of audioAlert.ts under TelemetryAlerts.tsx).                *)
THEOREM RowsChimeOnce ==
  ASSUME Reaches
  PROVE  B!Spec => [](BufferInv /\ ChimeTypes /\ B!RowChimesOnce)
<1>1. B!Init => BufferInv /\ ChimeTypes /\ ChimeInv
  <2> SUFFICES ASSUME B!Init PROVE BufferInv /\ ChimeTypes /\ ChimeInv
    OBVIOUS
  <2>1. BufferInv
    BY BufferStarts DEF Reaches
  <2>2. ChimeTypes
    <3>1. keys \in Seq(Events) /\ chimed \in [Events -> 0..2]
      BY DEF B!Init
    <3>2. armed = FALSE /\ replaced = FALSE
      BY DEF B!Init
    <3> QED BY <3>1, <3>2 DEF ChimeTypes
  <2>3. /\ rows = <<>> /\ keys = <<>> /\ pending = <<>>
        /\ \A e \in Events : chimed[e] = 0
    BY DEF B!Init
  <2>4. 0 \in 0..Len(rows) /\ Rung(rows, keys, chimed, 0)
    BY <2>3 DEF Rung
  <2> QED BY <2>1, <2>2, <2>3, <2>4 DEF ChimeInv
<1>2. BufferInv /\ ChimeTypes /\ ChimeInv => B!RowChimesOnce
  <2> SUFFICES ASSUME BufferInv, ChimeTypes, ChimeInv, ~replaced, NEW e \in Events
               PROVE  chimed[e] <= 1
    BY DEF B!RowChimesOnce
  <2>1. PICK u \in 0..Len(rows) : Rung(rows, keys, chimed, u)
    BY DEF ChimeInv
  <2>2. ASSUME NEW i \in 1..Len(rows)
        PROVE  chimed[rows[i]] <= 1
    <3>1. i <= u \/ i > u
      BY RowsAre DEF Reaches
    <3> QED BY <2>1, <3>1 DEF Rung
  <2> QED BY <2>2 DEF ChimeInv
<1>3. BufferInv /\ ChimeTypes /\ ChimeInv /\ [B!Next]_(B!vars)
        => (BufferInv /\ ChimeTypes /\ ChimeInv)'
  BY BufferStep, ChimeTypesStep, ChimeStep DEF Reaches
<1> QED BY <1>1, <1>2, <1>3, PTL DEF B!Spec

LEMMA BufferTyped ==
  ASSUME Limit \in Nat, BufferInv, ChimeTypes, seen \subseteq Events, paused \in BOOLEAN
  PROVE  B!BufferTypes
<1>1. /\ rows \in Seq(Events) /\ pending \in Seq(Events)
      /\ since \in Seq(Events) /\ before \in Seq(Events)
  BY RowsAre DEF BufferInv
<1>2. dropped \in Nat
  <2>1. Len(pending) = IF Len(since) < Limit THEN Len(since) ELSE Limit
    BY <1>1, TopIs DEF BufferInv
  <2>2. Len(since) \in Nat /\ dropped = Len(since) - Len(pending)
    BY <1>1 DEF BufferInv
  <2> QED BY <2>1, <2>2
<1> QED BY <1>1, <1>2 DEF B!BufferTypes, ChimeTypes

LEMMA SeenTyped ==
  ASSUME seen \subseteq Events, paused \in BOOLEAN, [B!Next]_(B!vars)
  PROVE  seen' \subseteq Events /\ paused' \in BOOLEAN
<1>1. ASSUME NEW batch \in B!Polls, B!Ingest(batch)
      PROVE  seen' \subseteq Events /\ paused' = paused
  <2>1. batch \in Seq(Events)
    BY DEF B!Polls
  <2> PICK fresh : fresh = B!Fresh(batch)
    OBVIOUS
  <2>2. fresh \in Seq(Events) /\ seen' = seen \cup B!ToSet(fresh) /\ paused' = paused
    BY <1>1, <2>1, FreshIsNew DEF B!Ingest
  <2>3. B!ToSet(fresh) \subseteq Events
    BY <2>2 DEF B!ToSet
  <2> QED BY <2>2, <2>3
<1>2. ASSUME NEW window \in B!Ranges, B!AnswerRange(window)
      PROVE  seen' \subseteq Events /\ paused' = FALSE
  <2>1. B!ToSet(window) \subseteq Events
    <3>1. PICK k \in 0..Limit : window \in [1..k -> Events]
      BY DEF B!Ranges
    <3> QED BY <3>1 DEF B!ToSet
  <2> QED BY <1>2, <2>1 DEF B!AnswerRange
<1>3. CASE B!Pause
  BY <1>3 DEF B!Pause
<1>4. CASE B!Resume
  BY <1>4 DEF B!Resume
<1>5. CASE B!Clear \/ B!ToggleAlerts \/ UNCHANGED B!vars
  <2>1. seen' = seen /\ paused' = paused
    BY <1>5 DEF B!Clear, B!ToggleAlerts, B!vars, B!bufferVars
  <2> QED BY <2>1
<1>6. CASE B!Reset
  BY <1>6 DEF B!Reset
<1> QED BY <1>1, <1>2, <1>3, <1>4, <1>5, <1>6 DEF B!Next

-----------------------------------------------------------------------------
(* The types of the webhook alerts.                                         *)

LEMMA SeqOfSet ==
  ASSUME NEW S, IsFiniteSet(S)
  PROVE  H!SetToSeq(S) \in Seq(S)
<1>1. Cardinality(S) \in Nat /\ ExistsBijection(1..Cardinality(S), S)
  BY FS_CardinalityType
<1>2. PICK f : f \in Bijection(1..Cardinality(S), S)
  BY <1>1 DEF ExistsBijection
<1>3. f \in [1..Cardinality(S) -> S] /\ H!IsInjective(f)
  <2>1. f \in Injection(1..Cardinality(S), S)
    BY <1>2 DEF Bijection
  <2>2. f \in [1..Cardinality(S) -> S] /\ IsInjective(f)
    BY <2>1 DEF Injection
  <2> QED BY <2>2 DEF IsInjective, H!IsInjective
<1>4. H!Cardinality(S) = Cardinality(S)
  BY DEF H!Cardinality, Cardinality, H!IsFiniteSet, IsFiniteSet
<1>5. H!SetToSeq(S) \in [1..Cardinality(S) -> S]
  BY <1>3, <1>4 DEF H!SetToSeq
<1> QED BY <1>1, <1>5

LEMMA WebhookTypesStep ==
  ASSUME IsFiniteSet(Conditions), MaxClock \in Nat, H!WebhookTypes, [H!Next]_(H!vars)
  PROVE  H!WebhookTypes'
<1>1. ASSUME NEW holding \in SUBSET Conditions, H!Pass(holding)
      PROVE  H!WebhookTypes'
  <2> PICK edges : edges = H!Edges(holding)
    OBVIOUS
  <2>1. edges.seen \subseteq Conditions /\ edges.entered \subseteq Conditions
    BY DEF H!Edges
  <2> DEFINE sent == {[event |-> e, at |-> clock, mounted |-> TRUE] : e \in edges.entered}
  <2>2. sent \subseteq H!Flight
    <3>1. clock \in 0..MaxClock /\ TRUE \in BOOLEAN
      BY DEF H!WebhookTypes
    <3>2. \A e \in edges.entered : [event |-> e, at |-> clock, mounted |-> TRUE] \in H!Flight
      BY <2>1, <3>1 DEF H!Flight
    <3> QED BY <3>2
  <2>3. IsFiniteSet(sent)
    <3>1. IsFiniteSet(edges.entered)
      BY <2>1, FS_Subset
    <3> DEFINE F == [e \in edges.entered |-> [event |-> e, at |-> clock, mounted |-> TRUE]]
    <3>3. F \in Surjection(edges.entered, sent)
      BY DEF Surjection
    <3> HIDE DEF F, sent
    <3> QED BY <3>1, <3>3, FS_Surjection
  <2>4. H!Dispatch(edges.entered) \in Seq(H!Flight)
    <3>1. H!SetToSeq(sent) \in Seq(sent)
      BY <2>3, SeqOfSet
    <3>2. H!Dispatch(edges.entered) = H!SetToSeq(sent)
      BY DEF H!Dispatch
    <3> HIDE DEF sent
    <3> QED BY <2>2, <3>1, <3>2
  <2>5. /\ previous' = edges.seen /\ flights' = flights \o H!Dispatch(edges.entered)
        /\ told' = (told \cap holding) \cup edges.entered
        /\ clock' = clock /\ enabled' = enabled /\ lastSent' = lastSent
    BY <1>1 DEF H!Pass
  <2>6. flights' \in Seq(H!Flight)
    BY <2>4, <2>5 DEF H!WebhookTypes
  <2> QED BY <2>1, <2>5, <2>6 DEF H!WebhookTypes
<1>2. ASSUME NEW i \in DOMAIN flights, NEW delivered \in BOOLEAN, H!Answer(i, delivered)
      PROVE  H!WebhookTypes'
  <2>1. flights \in Seq(H!Flight) /\ i \in 1..Len(flights) /\ Len(flights) \in Nat
    BY <1>2 DEF H!WebhookTypes
  <2>2. flights' \in Seq(H!Flight)
    <3>1. SubSeq(flights, 1, i - 1) \in Seq(H!Flight)
      BY <2>1
    <3>2. SubSeq(flights, i + 1, Len(flights)) \in Seq(H!Flight)
      BY <2>1
    <3> QED BY <1>2, <3>1, <3>2 DEF H!Answer, H!RemoveAt
  <2>3. flights[i] \in H!Flight
    BY <2>1
  <2>4. lastSent' \in [Conditions -> 0..MaxClock \cup {None}]
    BY <1>2, <2>3 DEF H!Answer, H!WebhookTypes, H!Flight
  <2> QED BY <1>2, <2>2, <2>4 DEF H!Answer, H!WebhookTypes
<1>3. ASSUME NEW gone \in BOOLEAN, H!Forget(gone), enabled' \in BOOLEAN
      PROVE  H!WebhookTypes'
  <2>1. flights' \in Seq(H!Flight)
    <3>1. \A i \in DOMAIN flights : [flights[i] EXCEPT !.mounted = @ /\ ~gone] \in H!Flight
      <4> SUFFICES ASSUME NEW i \in DOMAIN flights
                   PROVE  [flights[i] EXCEPT !.mounted = @ /\ ~gone] \in H!Flight
        OBVIOUS
      <4>1. flights[i] \in H!Flight
        BY DEF H!WebhookTypes
      <4>2. PICK b \in BOOLEAN : b = (flights[i].mounted /\ ~gone)
        OBVIOUS
      <4>3. [flights[i] EXCEPT !.mounted = b] \in H!Flight
        BY <4>1 DEF H!Flight
      <4> QED BY <4>2, <4>3
    <3> QED BY <1>3, <3>1 DEF H!Forget, H!WebhookTypes
  <2>2. H!Never \in [Conditions -> 0..MaxClock \cup {None}]
    BY DEF H!Never
  <2> QED BY <1>3, <2>1, <2>2 DEF H!Forget, H!WebhookTypes
<1>4. CASE H!SwitchGuard \/ H!Remount
  BY <1>3, <1>4 DEF H!SwitchGuard, H!Remount, H!WebhookTypes
<1>5. CASE H!SaveSettings \/ UNCHANGED H!vars
  BY <1>5 DEF H!SaveSettings, H!vars, H!WebhookTypes
<1>6. CASE H!Tick
  BY <1>6 DEF H!Tick, H!WebhookTypes
<1> QED BY <1>1, <1>2, <1>4, <1>5, <1>6 DEF H!Next

LEMMA WebhookStarts ==
  ASSUME MaxClock \in Nat, H!Init
  PROVE  H!WebhookTypes
BY DEF H!Init, H!Never, H!WebhookTypes

(* The events and the alerts keep their state well typed (GuardProvider's   *)
(* stream buffer and chimes, and the tracker of webhookDispatcher.ts).      *)
THEOREM AlertsAreTyped ==
  ASSUME IsFiniteSet(Conditions), MaxClock \in Nat, Limit \in Nat, Memory \in Nat
  PROVE  /\ H!Spec => []H!WebhookTypes
         /\ B!Spec => []B!BufferTypes
<1>1. H!Spec => []H!WebhookTypes
  BY WebhookStarts, WebhookTypesStep, PTL DEF H!Spec
<1> DEFINE Inv == BufferInv /\ ChimeTypes /\ seen \subseteq Events /\ paused \in BOOLEAN
<1>2. B!Init => Inv
  <2> SUFFICES ASSUME B!Init PROVE Inv
    OBVIOUS
  <2>1. keys \in Seq(Events) /\ chimed \in [Events -> 0..2] /\ seen \subseteq Events
    BY DEF B!Init
  <2>2. armed = FALSE /\ replaced = FALSE /\ paused = FALSE
    BY DEF B!Init
  <2> QED BY <2>1, <2>2, BufferStarts DEF ChimeTypes
<1>3. Inv /\ [B!Next]_(B!vars) => Inv'
  BY BufferStep, ChimeTypesStep, SeenTyped
<1>4. Inv => B!BufferTypes
  BY BufferTyped
<1> HIDE DEF Inv
<1>5. B!Spec => []B!BufferTypes
  BY <1>2, <1>3, <1>4, PTL DEF B!Spec
<1> QED BY <1>1, <1>5

-----------------------------------------------------------------------------
(* The composition: what is proved of a part holds of every behaviour.      *)

(* Every behaviour of the composition is one of each part: the part that    *)
(* was chosen takes its steps, and the others stay as they are.             *)
THEOREM PartsBehave ==
  Spec => /\ D!Spec
          /\ W!Init /\ [][W!Next]_(W!vars)
          /\ H!Spec
          /\ B!Spec
<1>1. Init => D!Init /\ W!Init /\ H!Init /\ B!Init
  BY DEF Init
<1>2. [Next]_vars => [D!Next]_(D!vars)
  BY DEF Next, vars, deployVars, D!vars, D!inputVars, D!viewVars, D!chainVars
<1>3. [Next]_vars => [W!Next]_(W!vars)
  BY DEF Next, vars, walletVars, W!vars, W!sessionVars, W!askVars
<1>4. [Next]_vars => [H!Next]_(H!vars)
  BY DEF Next, vars, webhookVars, H!vars
<1>5. [Next]_vars => [B!Next]_(B!vars)
  BY DEF Next, vars, bufferVars, B!vars, B!bufferVars, B!alertVars
<1> QED BY <1>1, <1>2, <1>3, <1>4, <1>5, PTL DEF Spec, D!Spec, H!Spec, B!Spec

(* What signs is what is shown as connected, and it is timed, in every      *)
(* behaviour the run looks at and for any constants.                        *)
THEOREM PanelsSession ==
  ASSUME Timeout \in Nat, MaxActs \in Nat
  PROVE  Spec => []SessionIsWhole
<1>1. SessionIsWhole <=> W!SessionIsWhole
  BY DEF SessionIsWhole
<1>2. W!Spec => [](W!WalletTypes /\ W!SessionIsWhole)
  BY SessionsAreWhole
<1> QED BY <1>1, <1>2, PartsBehave, PTL DEF Spec, W!Spec

(* A deploy is told as it happened.                                         *)
THEOREM PanelsDeployTold ==
  ASSUME MaxAttempts \in Nat, MaxMoves \in Nat
  PROVE  Spec => []DeployTold
<1>1. DeployTold <=> D!DeployTold
  BY DEF DeployTold
<1>2. D!Spec => [](D!DeployTypes /\ D!DeployTold)
  BY DeploysAreTold
<1> QED BY <1>1, <1>2, PartsBehave, PTL

(* What was on chain when a deploy was begun, it neither signs nor sends.   *)
THEOREM PanelsDeployOnce ==
  ASSUME MaxAttempts \in Nat, MaxMoves \in Nat
  PROVE  Spec => []NothingIsDoneTwice
<1>1. NothingIsDoneTwice <=> D!NothingIsDoneTwice
  BY DEF NothingIsDoneTwice
<1>2. D!Spec => []D!NothingIsDoneTwice
  BY DeploysOnce
<1> QED BY <1>1, <1>2, PartsBehave, PTL

(* A condition that is due has been alerted since it began to hold.         *)
THEOREM PanelsOnsetTold == Spec => []OnsetTold
<1>1. OnsetTold <=> H!OnsetTold
  BY DEF OnsetTold
<1> QED BY <1>1, PartsBehave, OnsetsAreTold, PTL

(* A pause neither loses, doubles nor misplaces an event.                   *)
THEOREM PanelsPause ==
  ASSUME Limit \in Nat
  PROVE  Spec => []PauseLosesNothing
<1>1. PauseLosesNothing <=> B!PauseLosesNothing
  BY DEF PauseLosesNothing
<1>2. B!Spec => []B!PauseLosesNothing
  BY PausesLoseNothing
<1> QED BY <1>1, <1>2, PartsBehave, PTL

(* An event in the rows of the live tail chimes once, for any events, limit *)
(* and a memory of twice the limit but one.                                 *)
THEOREM PanelsChime ==
  ASSUME Reaches
  PROVE  Spec => []RowChimesOnce
<1>1. RowChimesOnce <=> B!RowChimesOnce
  BY DEF RowChimesOnce
<1>2. B!Spec => [](BufferInv /\ ChimeTypes /\ B!RowChimesOnce)
  BY RowsChimeOnce
<1> QED BY <1>1, <1>2, PartsBehave, PTL

(* Each part keeps its types: a list is of events, a flight of an alert, an *)
(* attempt of its address, whatever answers late.                           *)
THEOREM PanelsTypes ==
  ASSUME MaxAttempts \in Nat, MaxMoves \in Nat, Timeout \in Nat, MaxActs \in Nat,
         IsFiniteSet(Conditions), MaxClock \in Nat, Limit \in Nat, Memory \in Nat
  PROVE  Spec => []PanelTypes
<1>1. PanelTypes <=> D!DeployTypes /\ W!WalletTypes /\ H!WebhookTypes /\ B!BufferTypes
  BY DEF PanelTypes
<1>2. D!Spec => [](D!DeployTypes /\ D!DeployTold)
  BY DeploysAreTold
<1>3. W!Spec => [](W!WalletTypes /\ W!SessionIsWhole)
  BY SessionsAreWhole
<1>4. (H!Spec => []H!WebhookTypes) /\ (B!Spec => []B!BufferTypes)
  BY AlertsAreTyped
<1> QED BY <1>1, <1>2, <1>3, <1>4, PartsBehave, PTL DEF Spec, W!Spec

=============================================================================

------------------------------ MODULE MCScreens ------------------------------
(***************************************************************************)
(* The parts of the console that read a chain, a wallet or bytecode and    *)
(* show it, say it or sign it, checked in one run.  They share no state: a *)
(* behaviour is one of one part, chosen at the beginning from Parts, and   *)
(* the others stay in an initial state.                                    *)
(***************************************************************************)
EXTENDS Integers, Sequences, FiniteSets, TLC, FiniteSetTheorems, WellFoundedInduction, TLAPS

CONSTANTS
  Parts, Nil,
  HeardGuards, Refusals, QueueCap,
  PanicGuards, MaxReads, MaxWrites,
  Keys, Alike, Rules, Pasted,                \* of the approvals
  Copies, Lone, Fit, Payers,                 \* of the envelopes
  MoveGuards, SourcePolicies, Network,
  XbullBuilds, Networks, Target, KnownNames, \* of the wallets
  Graces, WarningOf, CriticalOf, Soon, MaxAge, MaxRead, MaxTime, MaxBeats, NotRead,
  Entries, Upgrades,
  HeldGuards, DataKeys, Lives, MaxLoads,
  FaucetLimit, MaxRounds,
  RowLimit, SimGrace, Horizon, MaxClock,
  MaxAsks, Window, Bucket, All,
  MaxRequests,
  Retries, BaseDelay, Ceiling, HintCeiling, MaxNow, MaxFlights, MaxProbes,
  x, y, z,    \* contracts, accounts or keys, whatever a part is about
  p, q        \* bodies of transactions

VARIABLES
  part,
  frozen, last, lastVerified, queue, accepted, badge, seen, pending, due, counted,
  large, halted, selected, balance, reads, token, dialog, panicWrites, outcome, begun,
  rules, xdr, trackBusy, track,
  box, checked, checking, merging, merged, wallet, submitting, sent,
  onChain, target, source, reading, preview, applying, moved,
  time, skew, beat, grace, beats, refreshing, again, shown,
  declared, upgraded, kept, identities, artifact, inspected, report, fault,
  viewed, held, drawer, openedFor, loads, loadsMade,
  agent, ledger, faucet, asking, balances, funded, rounds,
  fed, candidate, status, rehearsal, wallClock,
  injected, detected, preferred, request, linked, told, requests,
  guard, registered, watching, rows, rangeLabel, exportRange, asked, filters, saved, shared,
  chips,
  now, call, failedAt, read, answer, pool, flights, probe

talkVars == <<frozen, last, lastVerified, queue, accepted, badge, seen, pending, due,
              counted>>
panicVars == <<large, halted, selected, balance, reads, token, dialog, panicWrites, outcome,
               begun>>
trackVars == <<rules, xdr, trackBusy, track>>
envelopeVars == <<box, checked, checking, merging, merged, wallet, submitting, sent>>
moveVars == <<onChain, target, source, reading, preview, applying, moved>>
viewVars == <<time, skew, beat, grace, beats, refreshing, again, shown>>
bytecodeVars == <<declared, upgraded, kept, identities, artifact, inspected, report, fault>>
heldVars == <<viewed, held, drawer, openedFor, loads, loadsMade>>
fundVars == <<agent, ledger, faucet, asking, balances, funded, rounds>>
simVars == <<fed, candidate, status, rehearsal, wallClock>>
providerVars == <<injected, detected, preferred, request, linked, told, requests>>
eventVars == <<guard, registered, watching, rows, rangeLabel, exportRange, asked, filters,
               saved, shared, chips>>
accessVars == <<now, call, failedAt, read, answer, pool, flights, probe>>
vars == <<part, talkVars, panicVars, trackVars, envelopeVars, moveVars, viewVars,
          bytecodeVars, heldVars, fundVars, simVars, providerVars, eventVars, accessVars>>

-----------------------------------------------------------------------------
(* What the parts are given.                                               *)
Weighed(a, b, c) == x :> a @@ y :> b @@ z :> c
AccountRules ==
  {[weights |-> Weighed(1, 1, 0), list |-> <<x, y>>, hashed |-> FALSE, need |-> 2],
   [weights |-> Weighed(2, 0, 1), list |-> <<x, z>>, hashed |-> FALSE, need |-> 2],
   [weights |-> Weighed(1, 2, 1), list |-> <<x, z, y>>, hashed |-> FALSE, need |-> 2],
   [weights |-> Weighed(1, 1, 0), list |-> <<x, y>>, hashed |-> TRUE, need |-> 1],
   [weights |-> Weighed(1, 1, 0), list |-> <<y, x>>, hashed |-> FALSE, need |-> Nil]}
By(k) == [by |-> k, genuine |-> TRUE]
Envelopes == {<<>>, <<By(x)>>, <<By(x), By(x)>>, <<By(z), By(y)>>, <<By(z)>>,
              <<[by |-> x, genuine |-> FALSE], By(y)>>}

Copy(body, signer, of) == [body |-> body, sigs |-> {[by |-> signer, of |-> of]}]
SignedCopies == {Copy(p, x, p), Copy(p, y, q), Copy(q, y, q)}

Policy(rule) == [window |-> 5, secs |-> 60, assets |-> FALSE, recipients |-> FALSE,
                 any |-> TRUE, from |-> 0, until |-> 0, rule |-> rule]
Whole(policy) == [policy |-> policy, lacks |-> {}, odd |-> FALSE, unknown |-> {}]
Installed ==
  {Nil, Whole(Policy("every")), [Whole(Policy("none")) EXCEPT !.unknown = {"later"}],
   [Whole(Policy("some")) EXCEPT !.lacks = {"until"}]}

Bytecode(length, magic, sections) == [length |-> length, magic |-> magic, sections |-> sections]
Phase1File == Bytecode(20, TRUE, <<4, 2>>)
BuiltFiles == {Phase1File, Bytecode(22, TRUE, <<4, 4>>), Bytecode(18, TRUE, <<4, 4>>)}
LookedAt == {x}

Kept1(class, name) == [class |-> class, name |-> name]
LedgerEntries == {{}, {Kept1("instance", "(contract instance)"), Kept1("persistent", "p")}}

FedCalls == {[at |-> 1, amount |-> 2], [at |-> 3, amount |-> 2], [at |-> 5, amount |-> 3],
             [at |-> 3, amount |-> Nil]}
Policy0 == [paused |-> FALSE, windowSecs |-> 2, cap |-> 3, perTx |-> 0, from |-> 0, until |-> 0]
TypedPolicies ==
  {Policy0, [Policy0 EXCEPT !.paused = TRUE],
   [Policy0 EXCEPT !.perTx = 2, !.from = 2, !.until = 5, !.windowSecs = 0]}
On(name, passphrase) == [name |-> name, passphrase |-> passphrase]
WalletNetworks == {On("testnet", Nil), On("testnet", "other"), On("public", Nil),
                   On("custom", "test"), On("custom", Nil)}
NetworkNames == [testnet |-> "test", public |-> "pub"]

N == INSTANCE Announcements WITH verified <- lastVerified, told <- counted
P == INSTANCE FreezePanel WITH writes <- panicWrites, report <- outcome
T == INSTANCE Approvals
E == INSTANCE SignedEnvelopes WITH Sources <- Payers
M == INSTANCE PolicyMigration WITH Sources <- SourcePolicies
V == INSTANCE StatusView WITH writes <- beats, reading <- refreshing, Skews <- {-2, 1},
       MaxWrites <- MaxBeats
B == INSTANCE BytecodeCheck WITH reads <- identities, checked <- artifact,
       Contracts <- LookedAt, Phase1 <- x, Pinned <- Phase1File, Files <- BuiltFiles
S == INSTANCE StorageExplorer WITH Holdings <- LedgerEntries
F == INSTANCE AccountFunding WITH told <- funded, Deployer <- x, Agents <- {y, Nil}
R == INSTANCE PolicySimulation WITH Calls <- FedCalls, Candidates <- TypedPolicies
W == INSTANCE WalletProviders WITH Reported <- Networks

AskedRanges == {[from |-> 2, to |-> Nil]}
FedEvents ==
  {[guard |-> x, verdict |-> "blocked", at |-> 1], [guard |-> y, verdict |-> "approved", at |-> 3],
   [guard |-> x, verdict |-> "blocked", at |-> Nil]}
H == INSTANCE EventViews WITH Ranges <- AskedRanges, Verdicts <- {"blocked"},
       Happenings <- FedEvents

Hint(form, n) == [form |-> form, n |-> n]
None == Hint("absent", 0)
Failed(text, code, property, headers, response) ==
  [text |-> text, status |-> code, property |-> property, headers |-> headers,
   response |-> response]
CallFailures ==
  {Failed("429", 429, None, Hint("delta", 3), None), Failed("14290", 0, None, None, None),
   Failed("TIMEOUT", 0, None, Hint("delta", 2), None),
   Failed("rate limit", 429, None, None, Hint("delta", 1)),
   Failed("TRY_AGAIN_LATER", 0, Hint("date", 2), None, None),
   Failed("429", 0, Hint("text", 0), Hint("delta", 2), None)}
EndpointLine == <<x, y, z>>
A == INSTANCE RpcAccess WITH requests <- flights, MaxRequests <- MaxFlights,
       Failures <- CallFailures, Endpoints <- EndpointLine

-----------------------------------------------------------------------------
\* Guards are alike, so the first is on screen; the contract begins with the artifact.
Init ==
  /\ part \in Parts
  /\ N!Init /\ (part = "talk" \/ \A g \in HeardGuards : ~frozen[g])
  /\ P!Init /\ selected = (CHOOSE g \in PanicGuards : TRUE) /\ (part = "panic" \/ large = {})
  /\ T!Init /\ (part = "approvals" \/ rules = CHOOSE r \in Rules : TRUE)
  /\ E!Init /\ (part = "envelopes" \/ wallet = Nil)
  /\ M!Init /\ (part = "move" \/ (target = Nil /\ \A g \in MoveGuards : onChain[g] = Nil))
  /\ V!Init /\ (part = "status" \/ (skew = 1 /\ grace = CHOOSE n \in Graces : TRUE))
  /\ B!Init /\ declared[x] = Phase1File
  /\ S!Init /\ viewed = CHOOSE g \in HeldGuards : TRUE
  /\ part = "storage" \/ \A g \in HeldGuards : held[g] = {}
  /\ F!Init /\ (part = "funds" \/ (agent = Nil /\ \A a \in {x, y} : ledger[a] = "absent"))
  /\ R!Init
  /\ W!Init /\ (part = "wallets" \/ (preferred = Nil /\ ~injected.albedo /\ injected.xbull = Nil))
  /\ H!Init /\ (part = "events" \/ guard = x)
  /\ A!Init /\ (part = "access" \/ (call.stage = "idle" /\ ~call.aborted))

Next ==
  \/ /\ part = "talk" /\ N!Next
     /\ UNCHANGED <<part, panicVars, trackVars, envelopeVars, moveVars, viewVars, bytecodeVars,
                    heldVars, fundVars, simVars, providerVars, eventVars,
                    accessVars>>
  \/ /\ part = "panic" /\ P!Next
     /\ UNCHANGED <<part, talkVars, trackVars, envelopeVars, moveVars, viewVars, bytecodeVars,
                    heldVars, fundVars, simVars, providerVars, eventVars,
                    accessVars>>
  \/ /\ part = "approvals" /\ T!Next
     /\ UNCHANGED <<part, talkVars, panicVars, envelopeVars, moveVars, viewVars, bytecodeVars,
                    heldVars, fundVars, simVars, providerVars, eventVars,
                    accessVars>>
  \/ /\ part = "envelopes" /\ E!Next
     /\ UNCHANGED <<part, talkVars, panicVars, trackVars, moveVars, viewVars, bytecodeVars,
                    heldVars, fundVars, simVars, providerVars, eventVars,
                    accessVars>>
  \/ /\ part = "move" /\ M!Next
     /\ UNCHANGED <<part, talkVars, panicVars, trackVars, envelopeVars, viewVars, bytecodeVars,
                    heldVars, fundVars, simVars, providerVars, eventVars,
                    accessVars>>
  \/ /\ part = "status" /\ V!Next
     /\ UNCHANGED <<part, talkVars, panicVars, trackVars, envelopeVars, moveVars, bytecodeVars,
                    heldVars, fundVars, simVars, providerVars, eventVars,
                    accessVars>>
  \/ /\ part = "bytecode" /\ B!Next
     /\ UNCHANGED <<part, talkVars, panicVars, trackVars, envelopeVars, moveVars, viewVars,
                    heldVars, fundVars, simVars, providerVars, eventVars,
                    accessVars>>
  \/ /\ part = "storage" /\ S!Next
     /\ UNCHANGED <<part, talkVars, panicVars, trackVars, envelopeVars, moveVars, viewVars,
                    bytecodeVars, fundVars, simVars, providerVars, eventVars,
                    accessVars>>
  \/ /\ part = "funds" /\ F!Next
     /\ UNCHANGED <<part, talkVars, panicVars, trackVars, envelopeVars, moveVars, viewVars,
                    bytecodeVars, heldVars, simVars, providerVars, eventVars,
                    accessVars>>
  \/ /\ part = "replay" /\ R!Next
     /\ UNCHANGED <<part, talkVars, panicVars, trackVars, envelopeVars, moveVars, viewVars,
                    bytecodeVars, heldVars, fundVars, providerVars, eventVars,
                    accessVars>>
  \/ /\ part = "wallets" /\ W!Next
     /\ UNCHANGED <<part, talkVars, panicVars, trackVars, envelopeVars, moveVars, viewVars,
                    bytecodeVars, heldVars, fundVars, simVars, eventVars,
                    accessVars>>
  \/ /\ part = "events" /\ H!Next
     /\ UNCHANGED <<part, talkVars, panicVars, trackVars, envelopeVars, moveVars, viewVars,
                    bytecodeVars, heldVars, fundVars, simVars, providerVars, accessVars>>
  \/ /\ part = "access" /\ A!Next
     /\ UNCHANGED <<part, talkVars, panicVars, trackVars, envelopeVars, moveVars, viewVars,
                    bytecodeVars, heldVars, fundVars, simVars, providerVars, eventVars>>

Spec == Init /\ [][Next]_vars

-----------------------------------------------------------------------------
(* The part that runs keeps its types.                                     *)
ScreenTypes ==
  CASE part = "talk" -> N!TalkTypes
    [] part = "panic" -> P!PanicTypes
    [] part = "approvals" -> T!TrackTypes
    [] part = "envelopes" -> E!EnvelopeTypes
    [] part = "move" -> M!MoveTypes
    [] part = "status" -> V!ViewTypes
    [] part = "bytecode" -> B!BytecodeTypes
    [] part = "storage" -> S!HeldTypes
    [] part = "funds" -> F!FundTypes
    [] part = "replay" -> R!SimTypes
    [] part = "wallets" -> W!WalletProviderTypes
    [] part = "events" -> H!EventTypes
    [] part = "access" -> A!AccessTypes

(* What is handed to a wallet or a network is what was checked and is      *)
(* still on screen: the rules of the account are met where approvals are   *)
(* said to be enough, an envelope is sent as it was checked, a policy is   *)
(* moved as it was read, the freeze challenge is of the balance of the     *)
(* guard it freezes, and a connected wallet is on the target's network.    *)
SignedAsChecked ==
  /\ part = "approvals" => T!ReadyIsEnough
  /\ part = "envelopes" => E!SentWasChecked
  /\ part = "move" => M!MovedAsRead
  /\ part = "panic" => P!PanicHonest
  /\ part = "wallets" => W!LinkedOnTarget

(* What a screen says is what was read of what it names: the count of      *)
(* refusals spoken, the countdown of the switch, a refused or a verified   *)
(* bytecode, the entries of the storage drawer, the chart of the events,   *)
(* the verdicts of a replay and the steps of a rehearsal; an account is    *)
(* said to be poor only when it was read as poor, and the filters of one   *)
(* guard stay its own.  A read says that there is nothing only when the    *)
(* answer was that, the wait that a provider asks for is kept, and a call  *)
(* that was cancelled asks no more.                                        *)
SaidAsRead ==
  /\ [](/\ part = "talk" => N!RefusalsCounted
        /\ part = "status" => V!CountdownSound
        /\ part = "bytecode" => B!RefusedForCause /\ B!BadgeEarned
        /\ part = "storage" => S!DrawerHonest
        /\ part = "events" => H!ChartAccounts
        /\ part = "replay" => R!ReplayIsExact /\ R!RehearsalHoldsTogether
        /\ part = "access" => A!AccessHonest)
  /\ F!PoorWhenRead /\ H!FiltersOwn /\ A!CallsSettle

-----------------------------------------------------------------------------
(* The proofs.  What is assumed of the constants: the caps of a policy and  *)
(* the weights of a signer are numbers, an account has finitely many        *)
(* signers, and a network a name and a passphrase.                          *)
Numeric(policy) == \A f \in M!Caps \cap DOMAIN policy : policy[f] \in Nat
HasNumbers(s) == s = Nil \/ Numeric(s.policy)

RuleWeighs(r) ==
  /\ r.list \in Seq(Keys) /\ r.need \in Nat \cup {Nil}
  /\ \A k \in Keys : r.weights[k] \in Nat

ASSUME NilIsNoNumber == Nil \notin Nat
ASSUME PartsAreNamed ==
  Parts \subseteq {"talk", "panic", "approvals", "envelopes", "move", "status", "bytecode",
                  "storage", "funds", "replay", "wallets", "events", "access"}
ASSUME RulesWeigh == \A r \in Rules : RuleWeighs(r)
ASSUME SourcesAreNumeric == \A s \in SourcePolicies : HasNumbers(s)
ASSUME NetworksAreNamed ==
  Target # Nil /\ \A n \in Networks : DOMAIN n = {"name", "passphrase"}

-----------------------------------------------------------------------------
(* The envelopes.  What is sent was fixed when the button was pressed, and what *)
(* it was held against then when the check answered: each is kept whole.    *)
ChecksBound ==
  /\ checked # Nil => checked.read = checked.text
  /\ submitting # Nil =>
       submitting.read = submitting.envelope /\ E!CanSubmit(submitting.envelope)

\* Whatever happens to the box and the wallet meanwhile, a step keeps both.
LEMMA CheckStep ==
  ASSUME ChecksBound, E!SentWasChecked, E!Next
  PROVE  (ChecksBound /\ E!SentWasChecked)'
<1>1. ASSUME NEW e \in Copies, E!PasteSigned(e)
      PROVE  (ChecksBound /\ E!SentWasChecked)'
  BY <1>1 DEF ChecksBound, E!SentWasChecked, E!PasteSigned, E!CanSubmit
<1>2. ASSUME NEW w \in Payers \cup {Nil}, E!SwitchWallet(w)
      PROVE  (ChecksBound /\ E!SentWasChecked)'
  BY <1>2 DEF ChecksBound, E!SentWasChecked, E!SwitchWallet, E!CanSubmit
<1>3. CASE E!CheckEnvelope
  BY <1>3 DEF ChecksBound, E!SentWasChecked, E!CheckEnvelope, E!CanSubmit
<1>4. CASE E!EnvelopeChecked
  BY <1>4 DEF ChecksBound, E!SentWasChecked, E!EnvelopeChecked, E!CanSubmit, E!Marked
<1>5. CASE E!SubmitSigned
  BY <1>5 DEF ChecksBound, E!SentWasChecked, E!SubmitSigned, E!CanSubmit
<1>6. CASE E!Broadcast
  BY <1>6 DEF ChecksBound, E!SentWasChecked, E!Broadcast, E!CanSubmit
<1>7. CASE E!Merged
  BY <1>7 DEF ChecksBound, E!SentWasChecked, E!Merged, E!CanSubmit
<1>8. ASSUME NEW D \in SUBSET Copies, E!Merge(D)
      PROVE  (ChecksBound /\ E!SentWasChecked)'
  BY <1>8 DEF ChecksBound, E!SentWasChecked, E!Merge, E!CanSubmit
<1> QED BY <1>1, <1>2, <1>3, <1>4, <1>5, <1>6, <1>7, <1>8 DEF E!Next

(* Whatever copies are at hand and whoever signs: SentWasChecked holds in   *)
(* every state of the panel (SubmitSignedXDRPanel's submit and preflight).  *)
THEOREM EnvelopesAreChecked == E!Spec => []E!SentWasChecked
<1>1. E!Init => ChecksBound /\ E!SentWasChecked
  BY DEF E!Init, ChecksBound, E!SentWasChecked
<1>2. ChecksBound /\ E!SentWasChecked /\ [E!Next]_(E!envelopeVars)
        => (ChecksBound /\ E!SentWasChecked)'
  <2>1. CASE UNCHANGED E!envelopeVars
    BY <2>1 DEF E!envelopeVars, ChecksBound, E!SentWasChecked, E!CanSubmit
  <2> QED BY <2>1, CheckStep
<1> QED BY <1>1, <1>2, PTL DEF E!Spec

-----------------------------------------------------------------------------
(* The freeze.  A read whose answer will be taken is of the guard on screen: *)
(* the token moves with every switch, past every read made before.          *)
ReadsBound ==
  /\ token \in Nat
  /\ \A r \in reads : /\ r.token \in Nat /\ r.token <= token
                      /\ P!Taken(r) => r.of = selected

\* The read that a load begins is the only one that will be taken.
LEMMA LoadIsTaken ==
  ASSUME ReadsBound, NEW g, NEW skipped \in Nat, P!LoadBalance(g, skipped), selected' = g
  PROVE  (ReadsBound /\ P!BalanceOwn)'
<1>1. token' \in Nat /\ token < token' /\ token' = token + skipped + 1
  BY DEF ReadsBound, P!LoadBalance
<1>2. ASSUME NEW r \in reads'
      PROVE  /\ r.token \in Nat /\ r.token <= token'
             /\ r.token = token' => r.of = g
  <2>1. CASE r \in reads
    BY <1>1, <2>1 DEF ReadsBound
  <2>2. CASE r = [of |-> g, token |-> token']
    BY <1>1, <2>2
  <2> QED BY <1>1, <2>1, <2>2 DEF P!LoadBalance
<1>3. [of |-> g, token |-> token'] \in reads'
  BY <1>1 DEF P!LoadBalance
<1>4. ReadsBound'
  BY <1>1, <1>2 DEF ReadsBound, P!Taken
<1>5. P!BalanceOwn'
  BY <1>3 DEF P!BalanceOwn, P!Taken
<1> QED BY <1>4, <1>5

LEMMA PanicStep ==
  ASSUME ReadsBound, P!PanicHonest, P!Next
  PROVE  (ReadsBound /\ P!PanicHonest)'
<1>1. ASSUME NEW g \in PanicGuards, P!Deposit(g)
      PROVE  (ReadsBound /\ P!PanicHonest)'
  BY <1>1 DEF ReadsBound, P!PanicHonest, P!BalanceOwn, P!FreezeTold, P!Taken, P!Deposit
<1>2. ASSUME NEW g \in PanicGuards, P!SelectPanic(g)
      PROVE  (ReadsBound /\ P!PanicHonest)'
  BY <1>2, LoadIsTaken DEF P!PanicHonest, P!FreezeTold, P!SelectPanic
<1>3. ASSUME NEW g \in PanicGuards, P!OthersFlip(g)
      PROVE  (ReadsBound /\ P!PanicHonest)'
  BY <1>3 DEF ReadsBound, P!PanicHonest, P!BalanceOwn, P!FreezeTold, P!Taken, P!OthersFlip
<1>4. ASSUME NEW r \in reads, P!BalanceRead(r)
      PROVE  (ReadsBound /\ P!PanicHonest)'
  BY <1>4 DEF ReadsBound, P!PanicHonest, P!BalanceOwn, P!FreezeTold, P!Taken, P!BalanceRead
<1>5. CASE P!OpenDialog
  BY <1>5, LoadIsTaken DEF P!PanicHonest, P!FreezeTold, P!OpenDialog
<1>6. CASE P!Acknowledge
  BY <1>6 DEF ReadsBound, P!PanicHonest, P!BalanceOwn, P!FreezeTold, P!Taken, P!Acknowledge
<1>7. CASE P!TypeChallenge
  BY <1>7 DEF ReadsBound, P!PanicHonest, P!BalanceOwn, P!FreezeTold, P!Taken, P!TypeChallenge
<1>8. CASE P!CloseDialog
  BY <1>8 DEF ReadsBound, P!PanicHonest, P!BalanceOwn, P!FreezeTold, P!Taken, P!CloseDialog
<1>9. CASE P!SignFreeze
  BY <1>9 DEF ReadsBound, P!PanicHonest, P!BalanceOwn, P!FreezeTold, P!Taken, P!SignFreeze, P!Run
<1>10. CASE P!Unfreeze
  BY <1>10 DEF ReadsBound, P!PanicHonest, P!BalanceOwn, P!FreezeTold, P!Taken, P!Unfreeze, P!Run
<1>11. ASSUME NEW w \in panicWrites, P!Returns(w)
      PROVE  (ReadsBound /\ P!PanicHonest)'
  BY <1>11 DEF ReadsBound, P!PanicHonest, P!BalanceOwn, P!FreezeTold, P!Taken, P!Returns
<1>12. ASSUME NEW w \in panicWrites, P!Throws(w)
      PROVE  (ReadsBound /\ P!PanicHonest)'
  BY <1>12 DEF ReadsBound, P!PanicHonest, P!BalanceOwn, P!FreezeTold, P!Taken, P!Throws
<1>13. ASSUME NEW w \in panicWrites, P!StatusReread(w)
      PROVE  (ReadsBound /\ P!PanicHonest)'
  BY <1>13 DEF ReadsBound, P!PanicHonest, P!BalanceOwn, P!FreezeTold, P!Taken,
              P!StatusReread, P!Confirmed
<1> QED
  BY <1>1, <1>2, <1>3, <1>4, <1>5, <1>6, <1>7, <1>8, <1>9, <1>10, <1>11, <1>12, <1>13
  DEF P!Next

(* Whatever guards are visited and however many reads and writes are on     *)
(* their way: once the reads have settled the balance behind the freeze     *)
(* challenge is of the guard on screen, and a freeze is reported confirmed  *)
(* only when the chain said so (PanicPanel's balanceToken and its re-read). *)
THEOREM PanelIsHonest == P!Spec => []P!PanicHonest
<1>1. P!Init => ReadsBound /\ P!PanicHonest
  BY DEF P!Init, ReadsBound, P!PanicHonest, P!BalanceOwn, P!FreezeTold, P!Taken
<1>2. ReadsBound /\ P!PanicHonest /\ [P!Next]_(P!panicVars) => (ReadsBound /\ P!PanicHonest)'
  <2>1. CASE UNCHANGED P!panicVars
    BY <2>1 DEF P!panicVars, ReadsBound, P!PanicHonest, P!BalanceOwn, P!FreezeTold, P!Taken
  <2> QED BY <2>1, PanicStep
<1> QED BY <1>1, <1>2, PTL DEF P!Spec

-----------------------------------------------------------------------------
(* The migration.  The caps of a policy are numbers, and a number survives the  *)
(* way through a field of the form and back; so what is applied says what   *)
(* was read when the preview was made, whatever the chain holds by now.     *)
MoveBound ==
  /\ onChain = [g \in MoveGuards |-> onChain[g]]
  /\ \A g \in MoveGuards : HasNumbers(onChain[g])
  /\ target \in MoveGuards \cup {Nil} /\ source \in MoveGuards \cup {Nil}
  /\ reading # Nil => reading.from \in MoveGuards /\ reading.to \in MoveGuards
  /\ preview # Nil /\ preview.kind = "read" =>
       /\ preview.read # Nil /\ Numeric(preview.read.policy)
       /\ preview.plan = M!PlanFor(preview.read)
  /\ applying # Nil => Numeric(applying.config)

\* The form keeps the policy it is given, but for an empty function list.
LEMMA FormKeepsPolicy ==
  ASSUME NEW policy, Numeric(policy), Nil \notin Nat, NEW c, c = M!ConfigOf(M!DraftFromConfig(policy))
  PROVE  /\ DOMAIN c = DOMAIN policy
         /\ \A f \in DOMAIN policy : c[f] = policy[f] \/ (f = "rule" /\ policy[f] = "none")
         /\ Numeric(c)
<1>1. DOMAIN M!DraftFromConfig(policy) = DOMAIN policy
  BY DEF M!DraftFromConfig
<1>2. DOMAIN c = DOMAIN policy
  BY <1>1 DEF M!ConfigOf
<1>3. ASSUME NEW f \in DOMAIN policy, f \in M!Caps
      PROVE  c[f] = policy[f]
  <2>1. M!DraftFromConfig(policy)[f] = M!Text(policy[f])
    BY <1>3 DEF M!DraftFromConfig
  <2>2. c[f] = M!Parsed(M!Text(policy[f]))
    BY <1>1, <1>3, <2>1 DEF M!ConfigOf
  <2>3. policy[f] \in Nat
    BY <1>3 DEF Numeric
  <2> QED BY <2>2, <2>3 DEF M!Parsed, M!Text
<1>4. ASSUME NEW f \in DOMAIN policy, f \notin M!Caps
      PROVE  c[f] = policy[f] \/ (f = "rule" /\ policy[f] = "none")
  BY <1>1, <1>4 DEF M!ConfigOf, M!DraftFromConfig
<1>5. Numeric(c)
  BY <1>2, <1>3 DEF Numeric
<1> QED BY <1>2, <1>3, <1>4, <1>5

LEMMA PlanFields ==
  ASSUME NEW s
  PROVE  /\ M!PlanFor(s).portable = M!Portable(s)
         /\ M!PlanFor(s).draft = M!DraftFromConfig(s.policy)
BY DEF M!PlanFor

LEMMA MoveStep ==
  ASSUME MoveBound, M!MovedAsRead, M!Next,
         Nil \notin Nat, \A s \in SourcePolicies : HasNumbers(s)
  PROVE  (MoveBound /\ M!MovedAsRead)'
<1>1. ASSUME NEW g \in MoveGuards, NEW s \in SourcePolicies, M!ChainMoves(g, s)
      PROVE  (MoveBound /\ M!MovedAsRead)'
  BY <1>1 DEF MoveBound, M!MovedAsRead, M!Readable, M!ChainMoves
<1>2. ASSUME NEW g \in MoveGuards, M!Retarget(g)
      PROVE  (MoveBound /\ M!MovedAsRead)'
  BY <1>2 DEF MoveBound, M!MovedAsRead, M!Readable, M!Retarget
<1>3. ASSUME NEW g \in MoveGuards, M!ChooseSource(g)
      PROVE  (MoveBound /\ M!MovedAsRead)'
  BY <1>3 DEF MoveBound, M!MovedAsRead, M!Readable, M!ChooseSource
<1>4. CASE M!FetchSource
  BY <1>4 DEF MoveBound, M!MovedAsRead, M!Readable, M!FetchSource
<1>5. CASE M!SourceAnswers
  <2>1. /\ preview' = [kind |-> "error"] \/ preview' = M!Previewed(reading)
        /\ reading # Nil /\ reading' = Nil
        /\ UNCHANGED <<onChain, target, source, applying, moved>>
    BY <1>5 DEF M!SourceAnswers
  <2>2. preview' # Nil /\ preview'.kind = "read" =>
          /\ preview'.read # Nil /\ Numeric(preview'.read.policy)
          /\ preview'.plan = M!PlanFor(preview'.read)
    <3> SUFFICES ASSUME preview'.kind = "read"
                 PROVE  /\ preview'.read # Nil /\ Numeric(preview'.read.policy)
                        /\ preview'.plan = M!PlanFor(preview'.read)
      OBVIOUS
    <3> DEFINE given == onChain[reading.from]
    <3>1. given # Nil /\ Numeric(given.policy)
      <4>1. preview' = M!Previewed(reading) /\ given # Nil
        BY <2>1 DEF M!Previewed
      <4>2. HasNumbers(given)
        BY <2>1 DEF MoveBound
      <4> QED BY <4>1, <4>2 DEF HasNumbers
    <3>2. preview'.read = given /\ preview'.plan = M!PlanFor(given)
      BY <2>1, <3>1 DEF M!Previewed
    <3> QED BY <3>1, <3>2
  <2>3. MoveBound'
    BY <2>1, <2>2 DEF MoveBound
  <2>4. M!MovedAsRead'
    BY <2>1 DEF M!MovedAsRead, M!Readable
  <2> QED BY <2>3, <2>4
<1>6. CASE M!ApplyToTarget
  <2>1. /\ preview # Nil /\ preview.kind = "read" /\ preview.destination = target
        /\ preview.plan.portable
    BY <1>6 DEF M!ApplyToTarget, M!CanApply, M!Valid
  <2>2. /\ M!Readable(preview.read) /\ Numeric(preview.read.policy)
        /\ preview.plan.draft = M!DraftFromConfig(preview.read.policy)
    <3>1. /\ preview.read # Nil /\ Numeric(preview.read.policy)
          /\ preview.plan = M!PlanFor(preview.read)
      BY <2>1 DEF MoveBound
    <3>2. preview.plan.portable = M!Portable(preview.read)
      BY <3>1, PlanFields
    <3>3. M!Portable(preview.read)
      BY <2>1, <3>2, Zenon
    <3>4. preview.plan.draft = M!DraftFromConfig(preview.read.policy)
      BY <3>1, PlanFields
    <3> QED BY <3>1, <3>3, <3>4 DEF M!Portable, M!Compatible, M!Readable
  <2> DEFINE config == M!ConfigOf(preview.plan.draft)
  <2>3. /\ \A f \in DOMAIN preview.read.policy :
             \/ config[f] = preview.read.policy[f]
             \/ f = "rule" /\ preview.read.policy[f] = "none"
        /\ Numeric(config)
    BY <2>2, FormKeepsPolicy
  <2>4. /\ applying' = [guard |-> preview.destination, config |-> config]
        /\ moved' = [guard |-> preview.destination, config |-> config,
                     selected |-> target, preview |-> preview]
        /\ UNCHANGED <<onChain, target, source, reading, preview>>
    BY <1>6 DEF M!ApplyToTarget
  <2> HIDE DEF config
  <2>5. M!MovedAsRead'
    BY <2>1, <2>2, <2>3, <2>4 DEF M!MovedAsRead, M!Readable
  <2>6. MoveBound'
    BY <2>3, <2>4 DEF MoveBound, Numeric
  <2> QED BY <2>5, <2>6
<1>7. CASE M!Applied
  BY <1>7 DEF MoveBound, M!MovedAsRead, M!Readable, M!Applied, HasNumbers
<1> QED BY <1>1, <1>2, <1>3, <1>4, <1>5, <1>6, <1>7 DEF M!Next

(* Whatever guards there are and whatever policies they answer, as long as  *)
(* their caps are numbers: what a migration hands to the wallet is for the  *)
(* guard selected and says what the source said (MigrationWizard's          *)
(* applyToTarget, planMigration and the form's own conversions).            *)
THEOREM MovesAreAsRead ==
  M!Spec => []M!MovedAsRead
<1>1. M!Init => MoveBound /\ M!MovedAsRead
  BY SourcesAreNumeric DEF M!Init, MoveBound, M!MovedAsRead
<1>2. MoveBound /\ M!MovedAsRead /\ [M!Next]_(M!moveVars) => (MoveBound /\ M!MovedAsRead)'
  <2>1. CASE UNCHANGED M!moveVars
    BY <2>1 DEF M!moveVars, MoveBound, M!MovedAsRead, M!Readable
  <2> QED BY <2>1, MoveStep, NilIsNoNumber, SourcesAreNumeric
<1> QED BY <1>1, <1>2, PTL DEF M!Spec

-----------------------------------------------------------------------------
(* The approvals.                                                          *)
LEMMA LeastNumber ==
  ASSUME NEW Q, Q \subseteq Nat, Q # {}
  PROVE  \E m \in Q : \A k \in Q : m <= k
<1>1. PICK m \in Q : \A k \in Q : ~(<<k, m>> \in OpToRel(<, Nat))
  BY NatLessThanWellFounded, WFMin
<1>2. \A k \in Q : ~(k < m)
  BY <1>1 DEF OpToRel
<1> QED BY <1>2

LEMMA Induction ==
  ASSUME NEW top \in Nat, NEW Q, 0 \in Q, \A k \in 1..top : k - 1 \in Q => k \in Q
  PROVE  top \in Q
<1> SUFFICES ASSUME top \notin Q PROVE FALSE
  OBVIOUS
<1> DEFINE missed == (0..top) \ Q
<1>1. PICK m \in missed : \A k \in missed : m <= k
  BY LeastNumber, missed # {}, missed \subseteq Nat
<1>2. m \in 1..top /\ m - 1 \in 0..top /\ ~(m <= m - 1)
  BY <1>1
<1>3. m - 1 \in Q
  BY <1>1, <1>2
<1> QED BY <1>1, <1>2, <1>3

\* What holds of a finite set when it holds of all that is strictly within, holds of all.
LEMMA FromWithin ==
  ASSUME NEW K, IsFiniteSet(K), NEW C,
         \A s \in SUBSET K : (\A u \in SUBSET s : u # s => u \in C) => s \in C
  PROVE  K \in C
<1> SUFFICES ASSUME K \notin C PROVE FALSE
  OBVIOUS
<1> DEFINE bad == (SUBSET K) \ C
<1>1. IsWellFoundedOn(StrictSubsetOrdering(K), SUBSET K)
  <2>1. FiniteSubsetsOf(K) = SUBSET K
    BY FS_FiniteSubsetsOfFinite, Zenon
  <2>2. IsWellFoundedOn(StrictSubsetOrdering(K), FiniteSubsetsOf(K))
    BY FS_StrictSubsetOrderingWellFounded, Zenon
  <2> QED BY <2>1, <2>2, Zenon
<1>2. bad # {} /\ bad \subseteq SUBSET K
  OBVIOUS
<1>3. PICK s \in bad : \A u \in bad : ~(<<u, s>> \in StrictSubsetOrdering(K))
  <2>1. \A missed : missed \subseteq SUBSET K /\ missed # {} =>
               \E t \in missed : \A u \in missed : ~(<<u, t>> \in StrictSubsetOrdering(K))
    BY <1>1, WFMin
  <2> HIDE DEF bad
  <2> QED BY <1>2, <2>1
<1>4. \A u \in SUBSET s : u # s => u \in C
  BY <1>3 DEF StrictSubsetOrdering
<1> QED BY <1>3, <1>4

-----------------------------------------------------------------------------
Pick(s) == CHOOSE e \in s : TRUE

\* f adds up the weights of every subset of K.
Adds(w, K, f) ==
  f = [s \in SUBSET K |-> IF s = {} THEN 0 ELSE w[Pick(s)] + f[s \ {Pick(s)}]]
Sum(w, K) == (CHOOSE f : Adds(w, K, f))[K]

LEMMA WeightIsSum ==
  ASSUME NEW r, NEW signed
  PROVE  T!WeightOf(r, signed) = Sum(r.weights, signed \cap T!Range(r.list))
BY DEF T!WeightOf, T!MapThenSumSet, T!MapThenFoldSet, Sum, Adds, Pick

LEMMA PickIn ==
  ASSUME NEW s, s # {}
  PROVE  Pick(s) \in s
BY DEF Pick

LEMMA SumExists ==
  ASSUME NEW w, NEW K, IsFiniteSet(K)
  PROVE  \E f : Adds(w, K, f)
<1> DEFINE small(n) == {s \in SUBSET K : Cardinality(s) <= n}
           next(f, s) == IF s = {} THEN 0 ELSE w[Pick(s)] + f[s \ {Pick(s)}]
           adds(n, f) == f = [s \in small(n) |-> next(f, s)]
           C == {n \in Nat : \E f : adds(n, f)}
<1>1. /\ \A s \in SUBSET K : IsFiniteSet(s) /\ Cardinality(s) \in Nat
                             /\ Cardinality(s) <= Cardinality(K)
      /\ Cardinality(K) \in Nat
  BY FS_Subset, FS_CardinalityType
<1>2. 0 \in C
  <2> DEFINE f == [s \in small(0) |-> 0]
  <2>1. small(0) = {{}}
    BY <1>1, FS_EmptySet
  <2>2. f = [s \in small(0) |-> next(f, s)]
    BY <2>1
  <2> QED BY <2>2
<1>3. ASSUME NEW n \in 1..Cardinality(K), n - 1 \in C
      PROVE  n \in C
  <2>1. PICK f : adds(n - 1, f)
    BY <1>3
  <2> DEFINE g == [s \in small(n) |-> next(f, s)]
  <2>2. ASSUME NEW s \in small(n)
        PROVE  g[s] = next(g, s)
    <3>1. CASE s = {}
      BY <3>1
    <3>2. CASE s # {}
      <4> DEFINE e == Pick(s)
                 u == s \ {e}
      <4>1. e \in s /\ u \in SUBSET K /\ Cardinality(u) = Cardinality(s) - 1
        BY <1>1, <3>2, PickIn, FS_RemoveElement
      <4>2. u \in small(n - 1) /\ u \in small(n)
        BY <1>1, <4>1
      <4>3. g[u] = next(f, u) /\ f[u] = next(f, u)
        <5> HIDE DEF next, small, u
        <5>1. g[u] = next(f, u)
          BY <4>2
        <5>2. f[u] = next(f, u)
          BY <2>1, <4>2
        <5> QED BY <5>1, <5>2
      <4>4. g[s] = next(f, s)
        OBVIOUS
      <4> HIDE DEF g, u
      <4> QED BY <3>2, <4>3, <4>4 DEF u
    <3> QED BY <3>1, <3>2
  <2>3. adds(n, g)
    <3> HIDE DEF next, small
    <3> QED BY <2>2
  <2> HIDE DEF g, small, next
  <2>4. \E h : adds(n, h)
    BY <2>3
  <2>5. n \in Nat
    BY <1>1
  <2> HIDE DEF adds
  <2> QED BY <2>4, <2>5
<1> HIDE DEF C
<1>4. Cardinality(K) \in C
  BY <1>1, <1>2, <1>3, Induction
<1>5. PICK f : adds(Cardinality(K), f)
  BY <1>4 DEF C
<1>6. small(Cardinality(K)) = SUBSET K
  BY <1>1
<1> QED BY <1>5, <1>6 DEF Adds

\* What a set weighs, by the one element chosen first; weights are numbers.
LEMMA SumStep ==
  ASSUME NEW w, NEW K, NEW f, Adds(w, K, f)
  PROVE  \A s \in SUBSET K : f[s] = IF s = {} THEN 0 ELSE w[Pick(s)] + f[s \ {Pick(s)}]
BY Zenon DEF Adds

LEMMA SumsAgree ==
  ASSUME NEW w, NEW K, IsFiniteSet(K), NEW f, Adds(w, K, f),
         NEW L \in SUBSET K, NEW g, Adds(w, L, g)
  PROVE  f[L] = g[L]
<1>1. IsFiniteSet(L)
  BY FS_Subset
<1>2. \A t \in SUBSET K : f[t] = IF t = {} THEN 0 ELSE w[Pick(t)] + f[t \ {Pick(t)}]
  BY Zenon DEF Adds
<1>3. \A t \in SUBSET L : g[t] = IF t = {} THEN 0 ELSE w[Pick(t)] + g[t \ {Pick(t)}]
  BY Zenon DEF Adds
<1> DEFINE C == {s \in SUBSET L : f[s] = g[s]}
<1>4. ASSUME NEW s \in SUBSET L, \A u \in SUBSET s : u # s => u \in C
      PROVE  s \in C
  <2>1. s \in SUBSET K /\ s \in SUBSET L
    OBVIOUS
  <2>2. CASE s = {}
    BY <1>2, <1>3, <2>1, <2>2
  <2>3. CASE s # {}
    <3>1. s \ {Pick(s)} \in C
      BY <1>4, <2>3, PickIn
    <3>2. /\ f[s] = w[Pick(s)] + f[s \ {Pick(s)}]
          /\ g[s] = w[Pick(s)] + g[s \ {Pick(s)}]
      BY <1>2, <1>3, <2>1, <2>3, Zenon
    <3> QED BY <3>1, <3>2
  <2> QED BY <2>2, <2>3
<1> HIDE DEF C
<1>5. L \in C
  BY <1>1, <1>4, FromWithin
<1> QED BY <1>5 DEF C

LEMMA SumBy ==
  ASSUME NEW w, NEW K, IsFiniteSet(K)
  PROVE  Sum(w, K) = IF K = {} THEN 0 ELSE w[Pick(K)] + Sum(w, K \ {Pick(K)})
<1> DEFINE f == CHOOSE f : Adds(w, K, f)
           L == K \ {Pick(K)}
           g == CHOOSE g : Adds(w, L, g)
<1>1. Adds(w, K, f)
  BY SumExists
<1>2. IsFiniteSet(L) /\ L \in SUBSET K
  BY FS_RemoveElement
<1>3. Adds(w, L, g)
  BY <1>2, SumExists
<1>4. Sum(w, K) = f[K] /\ Sum(w, L) = g[L]
  BY DEF Sum
<1>5. PICK h : h = f
  OBVIOUS
<1> HIDE DEF f, g, L
<1>6. f[L] = g[L]
  BY <1>1, <1>2, <1>3, SumsAgree
<1>7. f[K] = IF K = {} THEN 0 ELSE w[Pick(K)] + f[L]
  <2>1. \A s \in SUBSET K : f[s] = IF s = {} THEN 0 ELSE w[Pick(s)] + f[s \ {Pick(s)}]
    <3>1. Adds(w, K, h)
      BY <1>1, <1>5
    <3>2. \A s \in SUBSET K : h[s] = IF s = {} THEN 0 ELSE w[Pick(s)] + h[s \ {Pick(s)}]
      BY <3>1, SumStep
    <3> QED BY <1>5, <3>2, Zenon
  <2>2. K \in SUBSET K
    OBVIOUS
  <2> QED BY <2>1, <2>2, Zenon DEF L
<1> QED BY <1>4, <1>6, <1>7 DEF L

\* Whichever element is taken away, the rest weighs as much less.
LEMMA SumWithout ==
  ASSUME NEW w, NEW K, IsFiniteSet(K), \A e \in K : w[e] \in Nat
  PROVE  /\ Sum(w, K) \in Nat
         /\ \A e \in K : Sum(w, K) = w[e] + Sum(w, K \ {e})
<1> DEFINE C == {s \in SUBSET K : /\ Sum(w, s) \in Nat
                                  /\ \A e \in s : Sum(w, s) = w[e] + Sum(w, s \ {e})}
<1>1. ASSUME NEW s \in SUBSET K, \A u \in SUBSET s : u # s => u \in C
      PROVE  s \in C
  <2>1. IsFiniteSet(s)
    BY FS_Subset
  <2>2. CASE s = {}
    <3>1. Sum(w, s) = IF s = {} THEN 0 ELSE w[Pick(s)] + Sum(w, s \ {Pick(s)})
      BY <2>1, SumBy
    <3>2. Sum(w, s) = 0
      BY <2>2, <3>1, Zenon
    <3> QED BY <2>2, <3>2
  <2>3. CASE s # {}
    <3> DEFINE c == Pick(s)
    <3>1. c \in s /\ Sum(w, s) = w[c] + Sum(w, s \ {c})
      BY <2>1, <2>3, SumBy, PickIn
    <3> HIDE DEF c
    <3>2. w[c] \in Nat /\ Sum(w, s \ {c}) \in Nat
      <4>1. s \ {c} \in C
        BY <1>1, <3>1
      <4> QED BY <3>1, <4>1
    <3>3. ASSUME NEW e \in s, e # c
          PROVE  Sum(w, s) = w[e] + Sum(w, s \ {e})
      <4> DEFINE rest == (s \ {c}) \ {e}
      <4>1. s \ {c} \in C /\ s \ {e} \in C
        BY <1>1, <3>1
      <4>2. Sum(w, s \ {c}) = w[e] + Sum(w, rest)
        BY <3>3, <4>1
      <4>3. rest = (s \ {e}) \ {c}
        OBVIOUS
      <4>4. Sum(w, s \ {e}) = w[c] + Sum(w, rest)
        <5> HIDE DEF rest
        <5> QED BY <3>1, <3>3, <4>1, <4>3
      <4>5. rest \in C
        BY <1>1, <3>1
      <4> HIDE DEF rest
      <4>6. Sum(w, rest) \in Nat /\ w[e] \in Nat
        BY <4>5
      <4> QED BY <3>1, <3>2, <4>2, <4>4, <4>6
    <3> QED BY <3>1, <3>2, <3>3
  <2> QED BY <2>2, <2>3
<1> HIDE DEF C
<1>2. K \in C
  BY <1>1, FromWithin
<1> QED BY <1>2 DEF C

\* More signers weigh no less, and those of no weight nothing.
LEMMA SumGrows ==
  ASSUME NEW w, NEW K, IsFiniteSet(K), \A e \in K : w[e] \in Nat, NEW L \in SUBSET K
  PROVE  /\ Sum(w, L) \in Nat /\ Sum(w, K) \in Nat /\ Sum(w, L) <= Sum(w, K)
         /\ (\A e \in K \ L : w[e] = 0) => Sum(w, L) = Sum(w, K)
<1> DEFINE C == {s \in SUBSET K : L \subseteq s =>
                   /\ Sum(w, L) <= Sum(w, s)
                   /\ (\A e \in s \ L : w[e] = 0) => Sum(w, L) = Sum(w, s)}
<1>1. Sum(w, L) \in Nat
  BY FS_Subset, SumWithout
<1>2. ASSUME NEW s \in SUBSET K, \A u \in SUBSET s : u # s => u \in C
      PROVE  s \in C
  <2>1. CASE s = L \/ ~(L \subseteq s)
    BY <1>1, <2>1
  <2>2. CASE L \subseteq s /\ s # L
    <3>1. PICK e \in s : e \notin L
      BY <2>2
    <3> DEFINE u == s \ {e}
    <3>2. /\ Sum(w, s) = w[e] + Sum(w, u) /\ Sum(w, u) \in Nat /\ w[e] \in Nat
      <4>1. IsFiniteSet(s) /\ IsFiniteSet(u)
        BY FS_Subset, FS_RemoveElement
      <4>2. Sum(w, s) = w[e] + Sum(w, u)
        BY <4>1, SumWithout
      <4>3. Sum(w, u) \in Nat
        <5>1. \A k \in u : w[k] \in Nat
          OBVIOUS
        <5> HIDE DEF u
        <5> QED BY <4>1, <5>1, SumWithout
      <4> QED BY <4>2, <4>3
    <3>3. u \in C /\ L \subseteq u
      BY <1>2, <2>2, <3>1
    <3>4. /\ Sum(w, L) <= Sum(w, u)
          /\ (\A k \in u \ L : w[k] = 0) => Sum(w, L) = Sum(w, u)
      BY <3>3
    <3>5. u \ L \subseteq s \ L /\ e \in s \ L
      BY <3>1
    <3> HIDE DEF u
    <3> QED BY <1>1, <3>2, <3>4, <3>5
  <2> QED BY <2>1, <2>2
<1> HIDE DEF C
<1>3. K \in C
  BY <1>2, FromWithin
<1>4. Sum(w, K) \in Nat
  BY SumWithout
<1> QED BY <1>1, <1>3, <1>4 DEF C

-----------------------------------------------------------------------------
\* An envelope signed by its signers: those the report matched are those who signed.
LEMMA MatchedSigned ==
  ASSUME NEW r, RuleWeighs(r), NEW e, T!Attributable(r, e), ~T!Ambiguous(r)
  PROVE  /\ T!Matched(r, e) \subseteq T!Range(r.list)
         /\ T!Matched(r, e) = T!Signed(e) \cap T!Range(r.list)
<1> DEFINE list == r.list
           at(i) == T!WithHint(r, e[i].by)
           places == {j \in DOMAIN e : at(j) # {}}
<1>1. list \in Seq(Keys) /\ DOMAIN list \subseteq Nat /\ T!Range(list) = {list[n] : n \in DOMAIN list}
  BY DEF RuleWeighs, T!Range
<1>2. \A i \in DOMAIN e : \A n \in at(i) : n \in DOMAIN list /\ T!Hint(list[n]) = T!Hint(e[i].by)
  BY DEF T!WithHint
<1>3. \A n, m \in DOMAIN list : T!Hint(list[n]) = T!Hint(list[m]) => n = m
  BY DEF T!Ambiguous, T!WithHint
<1>4. ASSUME NEW i \in places
      PROVE  T!Min(at(i)) \in at(i)
  <2>1. at(i) # {} /\ at(i) \subseteq Nat
    BY <1>1, <1>2
  <2> HIDE DEF at
  <2>2. \E m \in at(i) : \A k \in at(i) : m <= k
    BY <2>1, LeastNumber
  <2> QED BY <2>2 DEF T!Min
<1>5. ASSUME NEW i \in places
      PROVE  /\ list[T!Min(at(i))] = e[i].by
             /\ e[i].by \in T!Range(list) /\ e[i].genuine
  <2>1. PICK n \in DOMAIN list : e[i].by = list[n] /\ e[i].genuine
    BY <1>1 DEF T!Attributable, T!Unmatched
  <2>2. T!Min(at(i)) \in DOMAIN list /\ T!Hint(list[T!Min(at(i))]) = T!Hint(list[n])
    BY <1>2, <1>4, <2>1
  <2>3. T!Min(at(i)) = n
    BY <1>3, <2>2
  <2> QED BY <1>1, <2>1, <2>3
<1>6. T!Matched(r, e) = {list[T!Min(at(i))] : i \in places}
  BY DEF T!Matched
<1>7. ASSUME NEW i \in DOMAIN e, e[i].by \in T!Range(list)
      PROVE  i \in places
  <2>1. PICK n \in DOMAIN list : e[i].by = list[n]
    BY <1>1, <1>7
  <2>2. n \in at(i)
    BY <2>1 DEF T!WithHint
  <2> QED BY <2>2
<1>8. T!Signed(e) = {e[i].by : i \in {j \in DOMAIN e : e[j].genuine}}
  BY DEF T!Signed
<1> HIDE DEF at, places
<1>9. ASSUME NEW k
      PROVE  k \in T!Matched(r, e) <=> k \in T!Signed(e) \cap T!Range(list)
  <2>1. k \in T!Matched(r, e) <=> \E i \in places : k = e[i].by
    BY <1>5, <1>6
  <2>2. \A i \in places : i \in DOMAIN e /\ e[i].genuine /\ e[i].by \in T!Range(list)
    BY <1>5 DEF places
  <2> QED BY <1>7, <1>8, <2>1, <2>2
<1> QED BY <1>9

LEMMA EnoughSign ==
  ASSUME NEW r, RuleWeighs(r), NEW e, T!Attributable(r, e), Nil \notin Nat
  PROVE  /\ T!Ready(r, e) => T!WeightOf(r, T!Signed(e)) >= r.need
         /\ T!Waiting(r, e) # {} /\ T!WeightOf(r, T!Range(r.list)) >= r.need =>
              T!WeightOf(r, T!Signed(e) \cup T!Waiting(r, e)) >= r.need
<1> SUFFICES ASSUME T!Status(r) = "supported"
             PROVE  /\ T!Ready(r, e) => T!WeightOf(r, T!Signed(e)) >= r.need
                    /\ T!Waiting(r, e) # {} /\ T!WeightOf(r, T!Range(r.list)) >= r.need =>
                         T!WeightOf(r, T!Signed(e) \cup T!Waiting(r, e)) >= r.need
  BY DEF T!Ready, T!Waiting
<1> DEFINE all == T!Range(r.list)
           matched == T!Matched(r, e)
           waiting == T!Waiting(r, e)
           unsigned == {i \in DOMAIN r.list : r.list[i] \notin matched /\ r.weights[r.list[i]] > 0}
           earlier(i) == matched \cup {r.list[j] : j \in {k \in unsigned : k < i}}
           weighs(s) == Sum(r.weights, s)
<1>1. ~T!Ambiguous(r) /\ r.need \in Nat
  BY DEF T!Status, RuleWeighs
<1>2. matched \subseteq all /\ matched = T!Signed(e) \cap all
  BY <1>1, MatchedSigned
<1>3. IsFiniteSet(all) /\ \A k \in all : r.weights[k] \in Nat
  <2>1. /\ r.list \in Seq(Keys) /\ Len(r.list) \in Nat /\ DOMAIN r.list = 1..Len(r.list)
        /\ all = {r.list[i] : i \in DOMAIN r.list}
    BY DEF RuleWeighs, T!Range
  <2>2. IsFiniteSet(DOMAIN r.list)
    BY <2>1, FS_Interval
  <2>3. IsFiniteSet(all)
    <3> HIDE DEF all
    <3>1. r.list \in [DOMAIN r.list -> all]
      BY <2>1
    <3>2. r.list \in Surjection(DOMAIN r.list, all)
      BY <2>1, <3>1 DEF Surjection
    <3> QED BY <2>2, <3>2, FS_Surjection
  <2>4. \A k \in all : k \in Keys
    BY <2>1
  <2> QED BY <2>3, <2>4 DEF RuleWeighs
<1>4. \A s \in SUBSET all : T!WeightOf(r, s) = weighs(s) /\ weighs(s) \in Nat
  <2>1. ASSUME NEW s \in SUBSET all
        PROVE  T!WeightOf(r, s) = weighs(s)
    <3>1. s \cap all = s
      OBVIOUS
    <3> QED BY <3>1, WeightIsSum
  <2>2. ASSUME NEW s \in SUBSET all
        PROVE  weighs(s) \in Nat
    BY <1>3, SumGrows
  <2> QED BY <2>1, <2>2
<1>5. T!WeightOf(r, T!Signed(e)) = weighs(matched)
  BY <1>2, WeightIsSum
<1>6. T!Ready(r, e) <=> weighs(matched) >= r.need
  BY <1>2, <1>4 DEF T!Ready, T!Collected
<1>7. ASSUME waiting # {}, T!WeightOf(r, all) >= r.need
      PROVE  T!WeightOf(r, T!Signed(e) \cup waiting) >= r.need
  <2>1. waiting = {r.list[i] : i \in {j \in unsigned : T!WeightOf(r, earlier(j)) < r.need}}
    BY <1>7 DEF T!Waiting
  <2>2. waiting \subseteq all /\ unsigned \subseteq DOMAIN r.list /\ DOMAIN r.list \subseteq Nat
    <3>1. unsigned \subseteq DOMAIN r.list /\ DOMAIN r.list \subseteq Nat
      BY DEF RuleWeighs
    <3>2. all = {r.list[i] : i \in DOMAIN r.list}
      BY DEF T!Range
    <3> HIDE DEF all, waiting, unsigned, earlier
    <3> QED BY <2>1, <3>1, <3>2
  <2> DEFINE signing == matched \cup waiting
  <2>3. signing \in SUBSET all /\ (T!Signed(e) \cup waiting) \cap all = signing
    <3> HIDE DEF all, matched, waiting
    <3> QED BY <1>2, <2>2
  <2>4. T!WeightOf(r, T!Signed(e) \cup waiting) = weighs(signing)
    BY <2>3, WeightIsSum
  <2>5. \A i \in unsigned : earlier(i) \in SUBSET all
    BY <1>2 DEF T!Range
  <2>6. CASE \A i \in unsigned : T!WeightOf(r, earlier(i)) < r.need
    <3>1. waiting = {r.list[i] : i \in unsigned}
      <4> HIDE DEF unsigned, earlier, waiting
      <4> QED BY <2>1, <2>6
    <3>2. \A k \in all \ signing : r.weights[k] = 0
      <4> SUFFICES ASSUME NEW k \in all, k \notin signing PROVE r.weights[k] = 0
        OBVIOUS
      <4>1. PICK i \in DOMAIN r.list : k = r.list[i]
        BY DEF T!Range
      <4>2. i \notin unsigned /\ k \notin matched
        <5> HIDE DEF unsigned, matched, waiting
        <5> QED BY <3>1, <4>1
      <4>3. ~(r.weights[k] > 0)
        BY <4>1, <4>2
      <4> QED BY <1>3, <4>3
    <3> HIDE DEF all, signing
    <3>3. weighs(signing) = weighs(all)
      BY <1>3, <2>3, <3>2, SumGrows
    <3>4. T!WeightOf(r, all) = weighs(all)
      BY <1>4
    <3> QED BY <1>7, <2>4, <3>3, <3>4
  <2>7. CASE \E i \in unsigned : ~(T!WeightOf(r, earlier(i)) < r.need)
    <3> DEFINE enough == {i \in unsigned : ~(T!WeightOf(r, earlier(i)) < r.need)}
    <3>1. PICK m \in enough : \A i \in enough : m <= i
      <4>1. enough \subseteq Nat /\ enough # {}
        BY <2>2, <2>7
      <4> HIDE DEF enough
      <4> QED BY <4>1, LeastNumber
    <3>2. earlier(m) \subseteq signing
      <4> SUFFICES ASSUME NEW j \in unsigned, j < m PROVE r.list[j] \in waiting
        OBVIOUS
      <4>1. j \notin enough
        <5> HIDE DEF enough, unsigned
        <5>1. j \in Nat /\ m \in Nat
          BY <2>2, <3>1 DEF enough
        <5> QED BY <3>1, <5>1
      <4>2. T!WeightOf(r, earlier(j)) < r.need
        BY <4>1
      <4> HIDE DEF waiting, unsigned, earlier
      <4> QED BY <2>1, <4>2
    <3>3. IsFiniteSet(signing) /\ \A k \in signing : r.weights[k] \in Nat
      <4> HIDE DEF signing, all
      <4> QED BY <1>3, <2>3, FS_Subset
    <3>4. m \in unsigned /\ ~(T!WeightOf(r, earlier(m)) < r.need)
      BY <3>1
    <3>5. T!WeightOf(r, earlier(m)) = weighs(earlier(m)) /\ weighs(earlier(m)) \in Nat
      <4> HIDE DEF earlier, all, weighs, unsigned
      <4> QED BY <1>4, <2>5, <3>4
    <3> HIDE DEF signing, earlier
    <3>6. weighs(earlier(m)) <= weighs(signing) /\ weighs(signing) \in Nat
      BY <3>2, <3>3, SumGrows
    <3> HIDE DEF weighs, enough
    <3> QED BY <1>1, <2>4, <3>4, <3>5, <3>6
  <2> QED BY <2>6, <2>7
<1> QED BY <1>5, <1>6, <1>7

(* For any account, keys and envelopes, as long as weights are numbers: an  *)
(* envelope said to be ready has the weight, and those still waited for     *)
(* would give it (evaluateApprovalState() and pendingSigners()).            *)
THEOREM ReadyHasWeight ==
  T!Init /\ [][T!Next]_(T!trackVars) => []T!ReadyIsEnough
<1> DEFINE Read == /\ rules \in Rules
                   /\ track # Nil => track.read \in Rules \cup {Nil}
<1>1. T!Init => Read
  BY DEF T!Init
<1>2. Read /\ [T!Next]_(T!trackVars) => Read'
  BY DEF T!Next, T!trackVars, T!ChangeRules, T!PasteEnvelope, T!Analyse, T!Refresh, T!SignersRead
<1>3. Read => T!ReadyIsEnough
  <2> SUFFICES ASSUME track # Nil, track.read \in Rules,
                      T!Attributable(track.read, track.envelope)
               PROVE  /\ T!Ready(track.read, track.envelope) =>
                           T!WeightOf(track.read, T!Signed(track.envelope)) >= track.read.need
                      /\ T!Waiting(track.read, track.envelope) # {}
                         /\ T!WeightOf(track.read, T!Range(track.read.list)) >= track.read.need =>
                           T!WeightOf(track.read, T!Signed(track.envelope)
                                        \cup T!Waiting(track.read, track.envelope))
                             >= track.read.need
    BY DEF T!ReadyIsEnough
  <2>1. RuleWeighs(track.read)
    BY RulesWeigh
  <2> QED BY <2>1, NilIsNoNumber, EnoughSign
<1> HIDE DEF Read
<1> QED BY <1>1, <1>2, <1>3, PTL

-----------------------------------------------------------------------------
(* The wallets.                                                            *)
LEMMA NormalIsGiven ==
  ASSUME NEW n, DOMAIN n = {"name", "passphrase"}, Target # Nil,
         W!NormalizeWalletNetwork(n).passphrase = Target
  PROVE  IF n.passphrase # Nil THEN n.passphrase = Target
         ELSE n.name \in DOMAIN KnownNames /\ KnownNames[n.name] = Target
<1>1. CASE n.passphrase # Nil
  BY <1>1 DEF W!NormalizeWalletNetwork
<1>2. CASE n.passphrase = Nil
  <2> DEFINE known == IF n.name \in DOMAIN KnownNames THEN KnownNames[n.name] ELSE Nil
  <2>1. W!NormalizeWalletNetwork(n) = [n EXCEPT !.passphrase = known]
    BY <1>2 DEF W!NormalizeWalletNetwork
  <2>2. [n EXCEPT !.passphrase = known].passphrase = known
    <3> HIDE DEF known
    <3> QED OBVIOUS
  <2>3. known = Target
    BY <2>1, <2>2
  <2> QED BY <1>2, <2>3
<1> QED BY <1>1, <1>2

LEMMA LinkStep ==
  ASSUME W!LinkedOnTarget, W!Next
  PROVE  W!LinkedOnTarget'
<1>1. \A n \in Networks \cup {W!Unreported} : DOMAIN n = {"name", "passphrase"}
  BY NetworksAreNamed DEF W!Unreported
<1>2. ASSUME NEW id, NEW op, NEW n \in Networks \cup {W!Unreported}, W!SettleRequest(id, op, n)
      PROVE  W!LinkedOnTarget'
  <2>1. linked' = Nil \/ (linked' = [id |-> id, network |-> n]
                          /\ W!NormalizeWalletNetwork(n).passphrase = Target)
    BY <1>2 DEF W!SettleRequest, W!DetectNetworkMismatch
  <2>2. CASE linked' = Nil
    BY <2>2 DEF W!LinkedOnTarget
  <2>3. CASE linked' = [id |-> id, network |-> n] /\ W!NormalizeWalletNetwork(n).passphrase = Target
    <3>1. linked'.network = n
      BY <2>3
    <3>2. IF n.passphrase # Nil THEN n.passphrase = Target
          ELSE n.name \in DOMAIN KnownNames /\ KnownNames[n.name] = Target
      BY <1>1, <2>3, NetworksAreNamed, NormalIsGiven
    <3> QED BY <3>1, <3>2 DEF W!LinkedOnTarget
  <2> QED BY <2>1, <2>2, <2>3
<1>3. ASSUME linked' = linked \/ linked' = Nil
      PROVE  W!LinkedOnTarget'
  BY <1>3 DEF W!LinkedOnTarget
<1>4. ASSUME NEW said, W!Fails(said)
      PROVE  linked' = linked \/ linked' = Nil
  BY <1>4 DEF W!Fails
<1>5. CASE W!PageOpens \/ (\E answers \in BOOLEAN : W!Detect(answers)) \/ W!Disconnect
  BY <1>3, <1>5 DEF W!PageOpens, W!Detect, W!Disconnect
<1>6. CASE \E id \in W!WalletProviderIds : W!Connect(id)
  BY <1>3, <1>6 DEF W!Connect
<1>7. ASSUME NEW present \in BOOLEAN, NEW n \in Networks \cup {W!Unreported},
             W!AnswersAccount(present, n)
      PROVE  W!LinkedOnTarget'
  BY <1>2, <1>3, <1>4, <1>7 DEF W!AnswersAccount
<1>8. ASSUME NEW n \in Networks \cup {W!Unreported}, W!AnswersNetwork(n)
      PROVE  W!LinkedOnTarget'
  BY <1>2, <1>8 DEF W!AnswersNetwork
<1>9. ASSUME NEW channel, NEW wording, W!WalletFails(channel, wording)
      PROVE  W!LinkedOnTarget'
  BY <1>3, <1>4, <1>9 DEF W!WalletFails
<1>10. CASE \E op \in {"tx", "auth"} : W!Sign(op)
  BY <1>3, <1>10 DEF W!Sign
<1>11. ASSUME NEW present \in BOOLEAN, W!AnswersSignature(present)
       PROVE  W!LinkedOnTarget'
  BY <1>3, <1>4, <1>11 DEF W!AnswersSignature
<1> QED BY <1>5, <1>6, <1>7, <1>8, <1>9, <1>10, <1>11 DEF W!Next

(* For any networks a wallet may report: none is linked on another than the *)
(* dashboard's (normalizeWalletNetwork() and the mismatch check).           *)
THEOREM LinksAreOnTarget ==
  W!Spec => []W!LinkedOnTarget
<1>1. W!Init => W!LinkedOnTarget
  BY DEF W!Init, W!LinkedOnTarget
<1>2. W!LinkedOnTarget /\ [W!Next]_(W!walletVars) => W!LinkedOnTarget'
  <2>1. CASE UNCHANGED W!walletVars
    BY <2>1 DEF W!walletVars, W!LinkedOnTarget
  <2> QED BY <2>1, LinkStep
<1> QED BY <1>1, <1>2, PTL DEF W!Spec

-----------------------------------------------------------------------------
(* The announcements.  The queue keeps its types whatever is announced; the *)
(* rows that were seen are those told and those about to be.                *)
ASSUME TalkFits == IsFiniteSet(Refusals) /\ QueueCap \in Nat /\ QueueCap > 0

TalkInv == N!TalkTypes /\ N!RefusalsCounted

LEMMA CountOf == ASSUME NEW X PROVE N!Cardinality(X) = Cardinality(X)
BY DEF N!Cardinality, Cardinality

QueueTypes ==
  /\ queue \in Seq(N!Message) /\ Len(queue) <= QueueCap
  /\ \A i, j \in DOMAIN queue : queue[i] = queue[j] => i = j
  /\ accepted \in N!Message \cup {Nil}

LEMMA QueueTyped ==
  /\ N!TalkTypes => QueueTypes
  /\ N!TalkTypes' <=>
       /\ QueueTypes' /\ frozen' \in [HeardGuards -> BOOLEAN] /\ lastVerified' \in BOOLEAN \cup {Nil}
       /\ last' \in [guard : HeardGuards, flag : BOOLEAN] \cup {Nil}
       /\ badge' \in BOOLEAN /\ seen' \subseteq Refusals /\ due' \in BOOLEAN
       /\ pending' \in 0..Cardinality(Refusals) /\ counted' \in 0..Cardinality(Refusals)
<1>1. \A s : N!IsInjective(s) <=> \A i, j \in DOMAIN s : s[i] = s[j] => i = j
  BY DEF N!IsInjective
<1>2. N!Cardinality(Refusals) = Cardinality(Refusals)
  BY CountOf
<1>3. N!TalkTypes => QueueTypes
  BY <1>1 DEF QueueTypes, N!TalkTypes
<1> QED BY <1>1, <1>2, <1>3 DEF QueueTypes, N!TalkTypes

LEMMA Shortened ==
  ASSUME QueueTypes, queue # <<>>
  PROVE  /\ Tail(queue) \in Seq(N!Message) /\ Len(Tail(queue)) = Len(queue) - 1
         /\ \A i \in DOMAIN Tail(queue) : i + 1 \in DOMAIN queue /\ Tail(queue)[i] = queue[i + 1]
         /\ \A i, j \in DOMAIN Tail(queue) : Tail(queue)[i] = Tail(queue)[j] => i = j
<1> DEFINE s == Tail(queue)
<1>1. /\ s \in Seq(N!Message) /\ Len(s) = Len(queue) - 1 /\ Len(queue) \in Nat
      /\ \A i \in 1..Len(s) : s[i] = queue[i + 1]
  BY DEF QueueTypes
<1> HIDE DEF s
<1>2. \A i \in DOMAIN s : i \in Int /\ i + 1 \in DOMAIN queue /\ s[i] = queue[i + 1]
  BY <1>1 DEF QueueTypes
<1>3. ASSUME NEW i \in DOMAIN s, NEW j \in DOMAIN s, s[i] = s[j] PROVE i = j
  <2>1. i + 1 = j + 1
    BY <1>2, <1>3 DEF QueueTypes
  <2> QED BY <1>2, <2>1
<1> QED BY <1>1, <1>2, <1>3 DEF s

\* What is announced is queued once, the oldest message giving way.
LEMMA AnnounceTyped ==
  ASSUME QueueTypes, NEW m \in N!Message, N!Announce(m)
  PROVE  QueueTypes'
<1>1. CASE UNCHANGED <<queue, accepted>>
  BY <1>1 DEF QueueTypes
<1>2. ASSUME NEW s \in Seq(N!Message), queue' = Append(s, m), Len(s) + 1 <= QueueCap, accepted' = m,
             \A i, j \in DOMAIN s : s[i] = s[j] => i = j, \A i \in DOMAIN s : s[i] # m
      PROVE  QueueTypes'
  <2>1. /\ queue' \in Seq(N!Message) /\ Len(queue') = Len(s) + 1 /\ Len(s) \in Nat
        /\ \A i \in 1..Len(s) : queue'[i] = s[i]
        /\ queue'[Len(s) + 1] = m
    BY <1>2
  <2>2. ASSUME NEW i \in DOMAIN queue', NEW j \in DOMAIN queue', queue'[i] = queue'[j] PROVE i = j
    <3>1. /\ i \in 1..Len(s) \/ i = Len(s) + 1
          /\ j \in 1..Len(s) \/ j = Len(s) + 1
      BY <2>1
    <3> QED BY <1>2, <2>1, <2>2, <3>1
  <2> QED BY <1>2, <2>1, <2>2 DEF QueueTypes
<1>3. CASE m \notin N!Range(queue) /\ accepted # m
  <2>1. \A i \in DOMAIN queue : queue[i] # m
    BY <1>3 DEF N!Range
  <2>2. accepted' = m
    BY <1>3 DEF N!Announce
  <2>3. CASE Len(queue) < QueueCap
    <3>1. queue' = Append(queue, m)
      BY <1>3, <2>3 DEF N!Announce
    <3>2. Len(queue) + 1 <= QueueCap
      BY <2>3, TalkFits DEF QueueTypes
    <3> QED BY <1>2, <2>1, <2>2, <3>1, <3>2 DEF QueueTypes
  <2>4. CASE ~(Len(queue) < QueueCap)
    <3>1. queue' = Append(Tail(queue), m) /\ queue # <<>> /\ Len(queue) = QueueCap
      BY <1>3, <2>4, TalkFits DEF N!Announce, QueueTypes
    <3> QED BY <1>2, <2>1, <2>2, <3>1, Shortened, TalkFits DEF QueueTypes
  <2> QED BY <2>3, <2>4
<1> QED BY <1>1, <1>3 DEF N!Announce

\* The rows that arrive are counted once with those seen before.
LEMMA CountedOnce ==
  ASSUME TalkInv, NEW rs \in SUBSET Refusals
  PROVE  LET fresh == N!Cardinality(rs \ seen)
         IN /\ fresh \in Nat /\ N!Cardinality(seen) \in Nat /\ N!Cardinality(Refusals) \in Nat
            /\ N!Cardinality(seen \cup rs) = N!Cardinality(seen) + fresh
            /\ N!Cardinality(seen \cup rs) <= N!Cardinality(Refusals)
<1>1. IsFiniteSet(seen) /\ IsFiniteSet(rs \ seen) /\ seen \cup rs \in SUBSET Refusals
  <2>1. seen \in SUBSET Refusals /\ rs \ seen \in SUBSET Refusals
    BY DEF TalkInv, N!TalkTypes
  <2> QED BY <2>1, FS_Subset, TalkFits
<1>2. seen \cup (rs \ seen) = seen \cup rs /\ seen \cap (rs \ seen) = {}
  OBVIOUS
<1>3. Cardinality(seen \cup (rs \ seen))
        = Cardinality(seen) + Cardinality(rs \ seen) - Cardinality(seen \cap (rs \ seen))
  BY <1>1, FS_Union
<1>4. Cardinality(seen) \in Nat /\ Cardinality(rs \ seen) \in Nat /\ Cardinality({}) = 0
      /\ Cardinality(Refusals) \in Nat
  BY <1>1, FS_CardinalityType, FS_EmptySet, TalkFits
<1>5. Cardinality(seen \cup rs) <= Cardinality(Refusals)
  BY <1>1, FS_Subset, TalkFits
<1>6. /\ N!Cardinality(seen) = Cardinality(seen) /\ N!Cardinality(rs \ seen) = Cardinality(rs \ seen)
      /\ N!Cardinality(seen \cup rs) = Cardinality(seen \cup rs)
      /\ N!Cardinality(Refusals) = Cardinality(Refusals)
  BY CountOf
<1>7. Cardinality(seen \cup rs) = Cardinality(seen) + Cardinality(rs \ seen)
  BY <1>2, <1>3, <1>4
<1> QED BY <1>4, <1>5, <1>6, <1>7

\* A batch that closes is told, if it holds anything.
LEMMA FlushTyped ==
  ASSUME QueueTypes, NEW n \in 0..Cardinality(Refusals), N!Flush(n)
  PROVE  QueueTypes' /\ pending' = 0 /\ due' = FALSE /\ counted' = counted + n
<1>1. CASE n = 0
  BY <1>1 DEF N!Flush, QueueTypes
<1>2. CASE n # 0
  <2>1. n \in 1..N!Cardinality(Refusals)
    <3>1. N!Cardinality(Refusals) = Cardinality(Refusals) /\ Cardinality(Refusals) \in Nat
      BY CountOf, FS_CardinalityType, TalkFits
    <3> QED BY <1>2, <3>1
  <2>2. [count |-> n] \in N!Message
    BY <2>1 DEF N!Message
  <2>3. QueueTypes'
    BY <1>2, <2>2, AnnounceTyped DEF N!Flush
  <2> QED BY <2>3 DEF N!Flush
<1> QED BY <1>1, <1>2

LEMMA TalkStep ==
  ASSUME TalkInv, N!Next
  PROVE  TalkInv'
<1>0. /\ QueueTypes /\ frozen \in [HeardGuards -> BOOLEAN] /\ lastVerified \in BOOLEAN \cup {Nil}
      /\ last \in [guard : HeardGuards, flag : BOOLEAN] \cup {Nil}
      /\ badge \in BOOLEAN /\ seen \subseteq Refusals /\ due \in BOOLEAN
      /\ pending \in 0..Cardinality(Refusals) /\ counted \in 0..Cardinality(Refusals)
      /\ counted + pending = Cardinality(seen) /\ Cardinality(Refusals) \in Nat
      /\ N!Cardinality(seen) = Cardinality(seen)
  BY QueueTyped, CountOf, FS_CardinalityType, TalkFits DEF TalkInv, N!TalkTypes, N!RefusalsCounted
<1>a. ASSUME NEW i \in {1}, UNCHANGED N!batchVars
      PROVE  /\ badge' \in BOOLEAN /\ seen' \subseteq Refusals /\ due' \in BOOLEAN
             /\ pending' \in 0..Cardinality(Refusals) /\ counted' \in 0..Cardinality(Refusals)
             /\ N!RefusalsCounted'
  BY <1>0, <1>a DEF N!batchVars, N!RefusalsCounted
<1>b. ASSUME NEW i \in {1}, UNCHANGED <<queue, accepted>> PROVE QueueTypes'
  BY <1>0, <1>b DEF QueueTypes
<1>1. CASE N!DuplicateWindowEnds
  <2>1. QueueTypes'
    BY <1>0, <1>1 DEF N!DuplicateWindowEnds, QueueTypes
  <2> QED BY <1>0, <1>1, <1>a, <2>1, QueueTyped DEF N!DuplicateWindowEnds, TalkInv
<1>2. CASE N!Speak
  <2>1. QueueTypes'
    <3>1. queue' = Tail(queue) /\ accepted' = accepted /\ queue # <<>>
      BY <1>2 DEF N!Speak
    <3> QED BY <1>0, <3>1, Shortened, TalkFits DEF QueueTypes
  <2> QED BY <1>0, <1>2, <1>a, <2>1, QueueTyped DEF N!Speak, TalkInv
<1>3. CASE N!CorroborationEnds
  BY <1>0, <1>3, <1>a, <1>b, QueueTyped DEF N!CorroborationEnds, TalkInv
<1>4. ASSUME NEW g \in HeardGuards, N!OthersWrite(g) PROVE TalkInv'
  <2>1. frozen' \in [HeardGuards -> BOOLEAN]
    BY <1>0, <1>4 DEF N!OthersWrite
  <2> QED BY <1>0, <1>4, <1>a, <1>b, <2>1, QueueTyped DEF N!OthersWrite, TalkInv
<1>5. ASSUME NEW g \in HeardGuards, N!Observe(g) PROVE TalkInv'
  <2>1. last' \in [guard : HeardGuards, flag : BOOLEAN] /\ last' \in N!Message
    BY <1>0, <1>5 DEF N!Observe, N!Message
  <2>2. QueueTypes'
    BY <1>0, <1>5, <1>b, <2>1, AnnounceTyped DEF N!Observe
  <2> QED BY <1>0, <1>5, <1>a, <2>1, <2>2, QueueTyped DEF N!Observe, TalkInv
<1>6. ASSUME NEW g \in HeardGuards, NEW flag \in BOOLEAN, N!OwnWrite(g, flag) PROVE TalkInv'
  <2>1. frozen' \in [HeardGuards -> BOOLEAN] /\ [guard |-> g, flag |-> flag] \in N!Message
    BY <1>0, <1>6 DEF N!OwnWrite, N!Message
  <2>2. QueueTypes'
    BY <1>0, <1>6, <2>1, AnnounceTyped DEF N!OwnWrite
  <2> QED BY <1>0, <1>6, <1>a, <2>1, <2>2, QueueTyped DEF N!OwnWrite, TalkInv
<1>7. ASSUME NEW rs \in SUBSET Refusals, N!ObserveRows(rs) PROVE TalkInv'
  <2> DEFINE fresh == N!Cardinality(rs \ seen)
  <2>1. /\ fresh \in Nat /\ Cardinality(seen \cup rs) = Cardinality(seen) + fresh
        /\ Cardinality(seen \cup rs) <= Cardinality(Refusals)
        /\ N!Cardinality(seen \cup rs) = Cardinality(seen \cup rs)
    BY CountedOnce, CountOf
  <2>2. seen' = seen \cup rs /\ N!CountRows(rs)
        /\ UNCHANGED <<frozen, last, lastVerified, badge>>
    BY <1>7 DEF N!ObserveRows
  <2>3. CASE pending > 0 /\ due
    <3>1. N!Flush(pending + fresh)
      BY <2>2, <2>3 DEF N!CountRows
    <3> HIDE DEF fresh
    <3>2. pending + fresh \in 0..Cardinality(Refusals)
      BY <1>0, <2>1
    <3>3. QueueTypes' /\ pending' = 0 /\ due' = FALSE /\ counted' = counted + (pending + fresh)
      BY <1>0, <3>1, <3>2, FlushTyped
    <3>4. N!RefusalsCounted' /\ counted' \in 0..Cardinality(Refusals)
      BY <1>0, <2>1, <2>2, <3>3 DEF N!RefusalsCounted
    <3>5. due' \in BOOLEAN
      BY <3>3, Zenon
    <3>6. pending' \in 0..Cardinality(Refusals) /\ seen' \subseteq Refusals
      BY <1>0, <2>2, <3>3
    <3> QED BY <1>0, <2>2, <3>3, <3>4, <3>5, <3>6, QueueTyped DEF TalkInv
  <2>4. CASE ~(pending > 0 /\ due)
    <3>1. pending' = pending + fresh /\ UNCHANGED <<due, counted, queue, accepted>>
      BY <2>2, <2>4 DEF N!CountRows
    <3> HIDE DEF fresh
    <3>2. N!RefusalsCounted' /\ pending' \in 0..Cardinality(Refusals)
      BY <1>0, <2>1, <2>2, <3>1 DEF N!RefusalsCounted
    <3> QED BY <1>0, <1>b, <2>2, <3>1, <3>2, QueueTyped DEF TalkInv
  <2> QED BY <2>3, <2>4
<1>8. CASE N!WindowEnds
  <2>1. N!RefusalsCounted'
    BY <1>0, <1>8 DEF N!WindowEnds, N!RefusalsCounted
  <2> QED BY <1>0, <1>8, <1>b, <2>1, QueueTyped DEF N!WindowEnds, TalkInv
<1>9. CASE N!BatchTimer
  <2>1. N!Flush(pending) /\ UNCHANGED <<frozen, last, lastVerified, badge, seen>>
    BY <1>9 DEF N!BatchTimer
  <2>2. QueueTypes' /\ pending' = 0 /\ due' = FALSE /\ counted' = counted + pending
    BY <1>0, <2>1, FlushTyped
  <2>3. Cardinality(seen) <= Cardinality(Refusals)
    BY <1>0, FS_Subset, TalkFits
  <2>4. N!RefusalsCounted' /\ counted' \in 0..Cardinality(Refusals)
    BY <1>0, <2>1, <2>2, <2>3 DEF N!RefusalsCounted
  <2>5. due' \in BOOLEAN
    BY <2>2, Zenon
  <2>6. pending' \in 0..Cardinality(Refusals)
    BY <1>0, <2>2
  <2> QED BY <1>0, <2>1, <2>2, <2>4, <2>5, <2>6, QueueTyped DEF TalkInv
<1>10. CASE N!Mount
  <2>1. N!RefusalsCounted'
    BY <1>0, <1>10 DEF N!Mount, N!RefusalsCounted
  <2> QED BY <1>0, <1>10, <1>b, <2>1, QueueTyped DEF N!Mount, TalkInv
<1>11. CASE N!Unmount
  <2>1. N!Cardinality({}) = 0
    BY CountOf, FS_EmptySet
  <2>2. N!RefusalsCounted'
    BY <1>0, <1>11, <2>1 DEF N!Unmount, N!RefusalsCounted
  <2>3. due' \in BOOLEAN /\ badge' \in BOOLEAN
    BY <1>11, Zenon DEF N!Unmount
  <2>4. pending' \in 0..Cardinality(Refusals) /\ counted' \in 0..Cardinality(Refusals)
    BY <1>0, <1>11 DEF N!Unmount
  <2> QED BY <1>0, <1>11, <1>b, <2>2, <2>3, <2>4, QueueTyped DEF N!Unmount, TalkInv
<1> QED BY <1>1, <1>2, <1>3, <1>4, <1>5, <1>6, <1>7, <1>8, <1>9, <1>10, <1>11 DEF N!Next

(* Every refusal a badge has seen is counted once, in what was told or in   *)
(* what is about to be, and no message is queued twice, whatever arrives    *)
(* and whoever flips the flag meanwhile (lib/announce and the announcers).  *)
THEOREM RefusalsAreCounted == N!Spec => [](N!TalkTypes /\ N!RefusalsCounted)
<1>1. N!Init => TalkInv
  <2> SUFFICES ASSUME N!Init PROVE TalkInv
    OBVIOUS
  <2>1. N!Cardinality({}) = 0 /\ N!Cardinality(Refusals) \in Nat
    BY CountOf, FS_EmptySet, FS_CardinalityType, TalkFits
  <2>2. N!RefusalsCounted
    BY <2>1 DEF N!Init, N!RefusalsCounted
  <2>3. N!IsInjective(<<>>)
    BY DEF N!IsInjective
  <2>4. queue \in Seq(N!Message) /\ Len(queue) <= QueueCap /\ N!IsInjective(queue)
    BY <2>3, TalkFits DEF N!Init
  <2>5. badge \in BOOLEAN /\ due \in BOOLEAN
    BY DEF N!Init
  <2>6. /\ lastVerified \in BOOLEAN \cup {Nil} /\ last \in [guard : HeardGuards, flag : BOOLEAN] \cup {Nil}
        /\ accepted \in N!Message \cup {Nil} /\ seen \subseteq Refusals
        /\ pending \in 0..N!Cardinality(Refusals) /\ counted \in 0..N!Cardinality(Refusals)
    BY <2>1 DEF N!Init
  <2>7. N!TalkTypes
    BY <2>4, <2>5, <2>6 DEF N!Init, N!TalkTypes
  <2> QED BY <2>2, <2>7 DEF TalkInv
<1>2. TalkInv /\ [N!Next]_(N!talkVars) => TalkInv'
  <2>1. CASE UNCHANGED N!talkVars
    BY <2>1, QueueTyped
    DEF N!talkVars, TalkInv, N!RefusalsCounted, N!TalkTypes
  <2> QED BY <2>1, TalkStep
<1> QED BY <1>1, <1>2, PTL DEF N!Spec, TalkInv

-----------------------------------------------------------------------------
(* The types of the parts that sign, and what each needs to be inductive:   *)
(* what is in the dialog and in flight at the freeze panel, the rules a     *)
(* report refreshes, the copies a merge holds, the policy a migration       *)
(* carries, and that a wallet that is linked is one the page can ask.       *)
ASSUME PanicFits == MaxReads \in Nat /\ MaxWrites \in Nat
ASSUME WalletsFit == MaxRequests \in Nat
ASSUME SourcesHoldMoves ==
  \A s \in SourcePolicies :
    s # Nil /\ M!Portable(s) => Whole(M!ConfigOf(M!DraftFromConfig(s.policy))) \in SourcePolicies

PanicInv ==
  /\ P!PanicTypes
  /\ dialog \in [acknowledged : BOOLEAN, typed : PanicGuards \cup {Nil}] \cup {Nil}
  /\ panicWrites \subseteq [guard : PanicGuards, action : P!Actions,
                            stage : {"signing", "verifying"}, sent : BOOLEAN]

LEMMA PanicTyped == ASSUME PanicInv, P!Next PROVE PanicInv'
<1> USE DEF PanicInv, P!PanicTypes
<1>1. ASSUME NEW g \in PanicGuards, NEW skipped \in Nat, P!LoadBalance(g, skipped)
      PROVE  /\ token' \in 0..MaxReads + 1
             /\ \A r \in reads' : r.of \in PanicGuards /\ r.token \in 1..token'
  <2>1. token' \in 0..MaxReads + 1 /\ token < token' /\ token \in Nat
        /\ token' = token + skipped + 1
    BY <1>1, PanicFits DEF P!LoadBalance
  <2>2. \A r \in reads : r.token \in 1..token'
    BY <2>1
  <2>3. token' \in 1..token'
    BY <2>1
  <2> QED BY <1>1, <2>1, <2>2, <2>3 DEF P!LoadBalance
<1>2. ASSUME NEW action \in P!Actions, P!Run(action) PROVE PanicInv'
  <2>1. begun' \in 0..MaxWrites
    BY <1>2, PanicFits DEF P!Run
  <2>2. [guard |-> selected, action |-> action, stage |-> "signing", sent |-> FALSE]
          \in [guard : PanicGuards, action : P!Actions, stage : {"signing", "verifying"},
               sent : BOOLEAN]
    OBVIOUS
  <2> QED BY <1>2, <2>1, <2>2 DEF P!Run
<1>3. ASSUME NEW g \in PanicGuards, P!Deposit(g) PROVE PanicInv'
  BY <1>3 DEF P!Deposit
<1>4. ASSUME NEW g \in PanicGuards, P!SelectPanic(g) PROVE PanicInv'
  BY <1>1, <1>4 DEF P!SelectPanic
<1>5. ASSUME NEW g \in PanicGuards, P!OthersFlip(g) PROVE PanicInv'
  BY <1>5 DEF P!OthersFlip
<1>6. ASSUME NEW r \in reads, P!BalanceRead(r) PROVE PanicInv'
  BY <1>6 DEF P!BalanceRead
<1>7. CASE P!OpenDialog
  <2>1. dialog' \in [acknowledged : BOOLEAN, typed : PanicGuards \cup {Nil}]
    BY <1>7 DEF P!OpenDialog
  <2> QED BY <1>1, <1>7, <2>1 DEF P!OpenDialog
<1>8. CASE P!Acknowledge
  <2>1. dialog' \in [acknowledged : BOOLEAN, typed : PanicGuards \cup {Nil}]
    BY <1>8 DEF P!Acknowledge
  <2> QED BY <1>8, <2>1 DEF P!Acknowledge
<1>9. CASE P!TypeChallenge
  BY <1>9 DEF P!TypeChallenge
<1>10. CASE P!CloseDialog
  BY <1>10 DEF P!CloseDialog
<1>11. CASE P!SignFreeze \/ P!Unfreeze
  BY <1>2, <1>11 DEF P!SignFreeze, P!Unfreeze, P!Actions, P!Flags
<1>12. ASSUME NEW w \in panicWrites, P!Returns(w) PROVE PanicInv'
  <2>1. \A taken \in BOOLEAN :
          [w EXCEPT !.stage = "verifying", !.sent = taken]
            \in [guard : PanicGuards, action : P!Actions, stage : {"signing", "verifying"},
                 sent : BOOLEAN]
    OBVIOUS
  <2>2. halted' \subseteq PanicGuards
    BY <1>12 DEF P!Returns
  <2> QED BY <1>12, <2>1, <2>2 DEF P!Returns
<1>13. ASSUME NEW w \in panicWrites, P!Throws(w) PROVE PanicInv'
  BY <1>13 DEF P!Throws
<1>14. ASSUME NEW w \in panicWrites, P!StatusReread(w) PROVE PanicInv'
  BY <1>14 DEF P!StatusReread, P!Confirmed
<1> QED
  BY <1>3, <1>4, <1>5, <1>6, <1>7, <1>8, <1>9, <1>10, <1>11, <1>12, <1>13, <1>14 DEF P!Next

LEMMA PanicKeepsTypes == P!Spec => []P!PanicTypes
<1>1. P!Init => PanicInv
  BY PanicFits DEF P!Init, PanicInv, P!PanicTypes, P!Unread
<1>2. PanicInv /\ [P!Next]_(P!panicVars) => PanicInv'
  <2>1. CASE UNCHANGED P!panicVars
    BY <2>1 DEF P!panicVars, PanicInv, P!PanicTypes
  <2> QED BY <2>1, PanicTyped
<1>3. PanicInv => P!PanicTypes
  BY DEF PanicInv
<1> QED BY <1>1, <1>2, <1>3, PTL DEF P!Spec

TrackInv == T!TrackTypes /\ (trackBusy # Nil => trackBusy.refreshes \in Rules \cup {Nil})

LEMMA ApprovalsKeepTypes == T!Init /\ [][T!Next]_(T!trackVars) => []T!TrackTypes
<1>1. T!Init => TrackInv
  BY DEF T!Init, TrackInv, T!TrackTypes
<1>2. ASSUME NEW r \in Rules, NEW t \in Rules PROVE T!Changes(r, t) \subseteq Keys \cup {"need"}
  <2>1. T!Range(r.list) \subseteq Keys /\ T!Range(t.list) \subseteq Keys
    BY RulesWeigh DEF RuleWeighs, T!Range
  <2> QED BY <2>1 DEF T!Changes
<1>3. TrackInv /\ T!SignersRead => TrackInv'
  <2> SUFFICES ASSUME TrackInv, T!SignersRead PROVE TrackInv'
    OBVIOUS
  <2>1. PICK given \in {rules, Nil} :
          track' = [envelope |-> trackBusy.envelope, read |-> given,
                    told |-> IF trackBusy.refreshes = Nil \/ given = Nil THEN {}
                             ELSE T!Changes(trackBusy.refreshes, given)]
    BY DEF T!SignersRead
  <2>2. track'.told \subseteq Keys \cup {"need"}
    BY <1>2, <2>1 DEF T!SignersRead, TrackInv, T!TrackTypes
  <2> QED BY <2>1, <2>2 DEF T!SignersRead, TrackInv, T!TrackTypes
<1>4. TrackInv /\ [T!Next]_(T!trackVars) => TrackInv'
  BY <1>3 DEF T!Next, T!trackVars, T!ChangeRules, T!PasteEnvelope, T!Analyse, T!Refresh,
              TrackInv, T!TrackTypes
<1>5. TrackInv => T!TrackTypes
  BY DEF TrackInv
<1> QED BY <1>1, <1>4, <1>5, PTL

EnvelopeInv == E!EnvelopeTypes /\ (merging # Nil => merging.copies # {})

LEMMA EnvelopesKeepTypes == E!Spec => []E!EnvelopeTypes
<1>1. E!Init => EnvelopeInv
  BY DEF E!Init, EnvelopeInv, E!EnvelopeTypes
<1>2. ASSUME NEW D \in SUBSET Copies, D # {} PROVE E!Combined(D) \in E!Envelopes
  <2> DEFINE Of(c, C) == [body |-> c.body, sigs |-> UNION {d.sigs : d \in C}]
             first == CHOOSE c \in D : TRUE
  <2>1. first \in Copies
    BY <1>2
  <2>2. E!Combined(D) = Of(first, D)
    BY DEF E!Combined
  <2>3. E!Mergeable = {Of(c, C) : c \in Copies, C \in SUBSET Copies}
    BY DEF E!Mergeable
  <2> HIDE DEF Of, first
  <2> QED BY <2>1, <2>2, <2>3 DEF E!Envelopes
<1>3. ASSUME EnvelopeInv, NEW D \in SUBSET Copies, E!Merge(D) PROVE EnvelopeInv'
  <2>1. D # {}
    <3>1. E!Cardinality({}) = Cardinality({}) /\ Cardinality({}) = 0
      BY FS_EmptySet DEF E!Cardinality, Cardinality
    <3> QED BY <1>3, <3>1 DEF E!Merge
  <2> QED BY <1>3, <2>1 DEF E!Merge, EnvelopeInv, E!EnvelopeTypes
<1>4. ASSUME EnvelopeInv, E!Merged PROVE EnvelopeInv'
  <2>1. E!Combined(merging.copies) \in E!Envelopes
    BY <1>2, <1>4 DEF E!Merged, EnvelopeInv, E!EnvelopeTypes
  <2> QED BY <1>4, <2>1 DEF E!Merged, EnvelopeInv, E!EnvelopeTypes
<1>5. ASSUME EnvelopeInv,
             (\E e \in Copies : E!PasteSigned(e)) \/ (\E w \in Payers \cup {Nil} : E!SwitchWallet(w))
      PROVE  EnvelopeInv'
  BY <1>5 DEF E!PasteSigned, E!SwitchWallet, E!Envelopes, EnvelopeInv, E!EnvelopeTypes
<1>6. ASSUME EnvelopeInv, E!CheckEnvelope \/ E!EnvelopeChecked PROVE EnvelopeInv'
  BY <1>6 DEF E!CheckEnvelope, E!EnvelopeChecked, E!Marked, EnvelopeInv, E!EnvelopeTypes
<1>7. ASSUME EnvelopeInv, E!SubmitSigned PROVE EnvelopeInv'
  BY <1>7 DEF E!SubmitSigned, EnvelopeInv, E!EnvelopeTypes
<1>8. ASSUME EnvelopeInv, E!Broadcast PROVE EnvelopeInv'
  BY <1>8 DEF E!Broadcast, EnvelopeInv, E!EnvelopeTypes
<1>9. EnvelopeInv /\ [E!Next]_(E!envelopeVars) => EnvelopeInv'
  <2>1. CASE UNCHANGED E!envelopeVars
    BY <2>1 DEF E!envelopeVars, EnvelopeInv, E!EnvelopeTypes
  <2> QED BY <1>3, <1>4, <1>5, <1>6, <1>7, <1>8, <2>1 DEF E!Next
<1>10. EnvelopeInv => E!EnvelopeTypes
  BY DEF EnvelopeInv
<1> QED BY <1>1, <1>9, <1>10, PTL DEF E!Spec

MoveInv ==
  /\ M!MoveTypes
  /\ preview # Nil /\ preview.kind = "read" =>
       preview.read \in SourcePolicies /\ preview.destination \in MoveGuards
  /\ applying # Nil => Whole(applying.config) \in SourcePolicies

LEMMA MoveTyped == ASSUME MoveBound, MoveInv, M!Next PROVE MoveInv'
<1> USE DEF MoveInv, M!MoveTypes
<1>1. ASSUME NEW g \in MoveGuards, NEW s \in SourcePolicies, M!ChainMoves(g, s) PROVE MoveInv'
  BY <1>1 DEF M!ChainMoves
<1>2. ASSUME NEW g \in MoveGuards, M!Retarget(g) \/ M!ChooseSource(g) PROVE MoveInv'
  BY <1>2 DEF M!Retarget, M!ChooseSource
<1>3. CASE M!FetchSource
  BY <1>3 DEF M!FetchSource
<1>4. CASE M!SourceAnswers
  BY <1>4 DEF M!SourceAnswers, M!Previewed
<1>5. CASE M!ApplyToTarget
  <2>1. /\ preview # Nil /\ preview.kind = "read" /\ preview.plan.portable
        /\ applying' = [guard |-> preview.destination, config |-> M!ConfigOf(preview.plan.draft)]
        /\ UNCHANGED <<onChain, target, source, reading, preview>>
    BY <1>5 DEF M!ApplyToTarget, M!CanApply
  <2>2. preview.plan = M!PlanFor(preview.read) /\ preview.read # Nil
    BY <2>1 DEF MoveBound
  <2>3. M!Portable(preview.read)
    BY <2>1, <2>2, PlanFields, Zenon
  <2>4. preview.plan.draft = M!DraftFromConfig(preview.read.policy)
    BY <2>2, PlanFields
  <2>5. Whole(M!ConfigOf(preview.plan.draft)) \in SourcePolicies
    BY <2>1, <2>2, <2>3, <2>4, SourcesHoldMoves, Zenon
  <2> QED BY <2>1, <2>5
<1>6. CASE M!Applied
  BY <1>6 DEF M!Applied, Whole
<1> QED BY <1>1, <1>2, <1>3, <1>4, <1>5, <1>6 DEF M!Next

LEMMA MovesKeepTypes == M!Spec => []M!MoveTypes
<1>1. M!Init => MoveBound /\ M!MovedAsRead /\ MoveInv
  BY SourcesAreNumeric DEF M!Init, MoveBound, M!MovedAsRead, MoveInv, M!MoveTypes
<1>2. MoveBound /\ M!MovedAsRead /\ MoveInv /\ [M!Next]_(M!moveVars)
        => (MoveBound /\ M!MovedAsRead /\ MoveInv)'
  <2>1. CASE UNCHANGED M!moveVars
    BY <2>1 DEF M!moveVars, MoveBound, M!MovedAsRead, M!Readable, MoveInv, M!MoveTypes
  <2> QED BY <2>1, MoveStep, MoveTyped, NilIsNoNumber, SourcesAreNumeric
<1>3. MoveInv => M!MoveTypes
  BY DEF MoveInv
<1> QED BY <1>1, <1>2, <1>3, PTL DEF M!Spec

WalletInv ==
  /\ W!WalletProviderTypes
  /\ linked # Nil => W!CanCreate(linked.id)

\* What may be under way, linked and said, of wallets the page can ask.
Asked(r) ==
  r # Nil =>
    /\ r.id \in W!WalletProviderIds /\ r.op \in {"read", "connect", "tx", "auth"}
    /\ r.stage \in {"account", "network", "signature"} /\ W!CanCreate(r.id)
Joined(l) == l # Nil => l.id \in W!WalletProviderIds /\ W!CanCreate(l.id)
Said == {Nil, "linked", "mismatch", "signed", "notInstalled", "rejected", "unsupported", "error"}

LEMMA WalletTyped == ASSUME WalletInv, W!Next PROVE WalletInv'
<1>0. /\ detected \subseteq W!WalletProviderIds /\ preferred \in W!WalletProviderIds \cup {Nil}
      /\ Asked(request) /\ Joined(linked) /\ told \in Said /\ requests \in 0..MaxRequests
  BY DEF WalletInv, W!WalletProviderTypes, Asked, Joined, Said
<1>1. injected' = injected
  BY DEF W!Next, W!PageOpens, W!Detect, W!Connect, W!AnswersAccount, W!AnswersNetwork,
         W!SettleRequest, W!Fails, W!WalletFails, W!Sign, W!AnswersSignature, W!Disconnect
<1>2. ASSUME /\ detected' \subseteq W!WalletProviderIds /\ preferred' \in W!WalletProviderIds \cup {Nil}
             /\ Asked(request') /\ Joined(linked') /\ told' \in Said /\ requests' \in 0..MaxRequests
      PROVE  WalletInv'
  BY <1>1, <1>2 DEF WalletInv, W!WalletProviderTypes, Asked, Joined, Said, W!CanCreate
<1>3. ASSUME NEW id \in W!WalletProviderIds, NEW op \in {"read", "connect", "tx", "auth"},
             NEW stage \in {"account", "network", "signature"}, W!Asks(id, op, stage), W!CanCreate(id)
      PROVE  requests' \in 0..MaxRequests /\ Asked(request')
  BY <1>0, <1>3, WalletsFit DEF W!Asks, W!RequestOf, Asked
<1>4. ASSUME NEW id \in W!WalletProviderIds, NEW op, NEW n, W!SettleRequest(id, op, n),
             W!CanCreate(id)
      PROVE  WalletInv'
  <2>1. Joined(linked') /\ Asked(request') /\ told' \in Said
        /\ preferred' \in W!WalletProviderIds \cup {Nil} /\ UNCHANGED <<detected, requests>>
    BY <1>0, <1>4 DEF W!SettleRequest, Joined, Asked, Said
  <2> QED BY <1>0, <1>2, <2>1
<1>5. ASSUME NEW word \in Said, W!Fails(word) PROVE WalletInv'
  <2>1. Joined(linked') /\ Asked(request') /\ told' \in Said
        /\ UNCHANGED <<detected, preferred, requests>>
    BY <1>0, <1>5 DEF W!Fails, Joined, Asked
  <2> QED BY <1>0, <1>2, <2>1
<1>6. Nil \in Said /\ "error" \in Said /\ "notInstalled" \in Said /\ "rejected" \in Said
      /\ "unsupported" \in Said /\ "signed" \in Said /\ Joined(Nil) /\ Asked(Nil)
  BY DEF Said, Joined, Asked
<1>8. CASE W!PageOpens
  <2> DEFINE opened == IF preferred = Nil THEN "freighter" ELSE preferred
  <2>1. opened \in W!WalletProviderIds
    BY <1>0 DEF W!WalletProviderIds
  <2>2. (W!Asks(opened, "read", "account") /\ W!CanCreate(opened)) \/ UNCHANGED <<request, requests>>
    BY <1>8 DEF W!PageOpens
  <2>3. detected' = {} /\ linked' = Nil /\ told' = Nil /\ preferred' = preferred
    BY <1>8 DEF W!PageOpens
  <2> HIDE DEF opened
  <2> QED BY <1>0, <1>2, <1>3, <1>6, <2>1, <2>2, <2>3
<1>9. CASE \E answers \in BOOLEAN : W!Detect(answers)
  BY <1>0, <1>2, <1>9 DEF W!Detect
<1>10. ASSUME NEW id \in W!WalletProviderIds, W!Connect(id) PROVE WalletInv'
  <2>1. CASE W!CanCreate(id)
    BY <1>0, <1>2, <1>3, <1>6, <1>10, <2>1 DEF W!Connect
  <2>2. CASE ~W!CanCreate(id)
    BY <1>0, <1>2, <1>6, <1>10, <2>2 DEF W!Connect
  <2> QED BY <2>1, <2>2
<1>11. ASSUME NEW present \in BOOLEAN, NEW n \in Networks \cup {W!Unreported},
              W!AnswersAccount(present, n)
       PROVE  WalletInv'
  <2>0. request # Nil /\ request.id \in W!WalletProviderIds /\ W!CanCreate(request.id)
        /\ request.op \in {"read", "connect", "tx", "auth"}
    BY <1>0, <1>11 DEF W!AnswersAccount, Asked
  <2>1. CASE W!Fails("error")
    BY <1>5, <1>6, <2>1
  <2>2. CASE W!SettleRequest(request.id, request.op, n)
    BY <1>4, <2>0, <2>2
  <2>3. CASE /\ request' = W!RequestOf(request.id, request.op, "network")
             /\ UNCHANGED <<injected, detected, preferred, linked, told, requests>>
    <3>1. Asked(request')
      BY <2>0, <2>3 DEF W!RequestOf, Asked
    <3> QED BY <1>0, <1>2, <2>3, <3>1
  <2> QED BY <1>11, <2>1, <2>2, <2>3 DEF W!AnswersAccount
<1>12. ASSUME NEW n \in Networks \cup {W!Unreported}, W!AnswersNetwork(n) PROVE WalletInv'
  <2>1. request # Nil /\ request.id \in W!WalletProviderIds /\ W!CanCreate(request.id)
        /\ W!SettleRequest(request.id, request.op, n)
    BY <1>0, <1>12 DEF W!AnswersNetwork, Asked
  <2> QED BY <1>4, <2>1
<1>13. ASSUME NEW channel \in {"field", "thrown"}, NEW wording \in W!Wordings,
              W!WalletFails(channel, wording)
       PROVE  WalletInv'
  <2>1. W!MapConnectorError(channel, wording) \in Said
    BY DEF W!MapConnectorError, W!Wordings, Said
  <2> QED BY <1>5, <1>13, <2>1 DEF W!WalletFails
<1>14. ASSUME NEW op \in {"tx", "auth"}, W!Sign(op) PROVE WalletInv'
  <2>1. linked.id \in W!WalletProviderIds /\ W!CanCreate(linked.id)
        /\ UNCHANGED <<injected, detected, preferred, linked>>
    BY <1>0, <1>14 DEF W!Sign, Joined
  <2>2. \/ W!Asks(linked.id, op, "signature") /\ told' = Nil
        \/ told' = "unsupported" /\ UNCHANGED <<request, requests>>
    BY <1>14 DEF W!Sign
  <2> QED BY <1>0, <1>2, <1>3, <1>6, <2>1, <2>2
<1>15. ASSUME NEW present \in BOOLEAN, W!AnswersSignature(present) PROVE WalletInv'
  <2>1. \/ W!Fails("rejected") \/ W!Fails("error")
        \/ /\ request' = Nil /\ told' = "signed"
           /\ UNCHANGED <<injected, detected, preferred, linked, requests>>
    BY <1>15 DEF W!AnswersSignature
  <2> QED BY <1>0, <1>2, <1>5, <1>6, <2>1
<1>16. CASE W!Disconnect
  BY <1>0, <1>2, <1>6, <1>16 DEF W!Disconnect
<1> QED BY <1>8, <1>9, <1>10, <1>11, <1>12, <1>13, <1>14, <1>15, <1>16 DEF W!Next

LEMMA WalletsKeepTypes == W!Spec => []W!WalletProviderTypes
<1>1. W!Init => WalletInv
  BY WalletsFit DEF W!Init, WalletInv, W!WalletProviderTypes
<1>2. WalletInv /\ [W!Next]_(W!walletVars) => WalletInv'
  <2>1. CASE UNCHANGED W!walletVars
    BY <2>1 DEF W!walletVars, WalletInv, W!WalletProviderTypes, W!CanCreate
  <2> QED BY <2>1, WalletTyped
<1>3. WalletInv => W!WalletProviderTypes
  BY DEF WalletInv
<1> QED BY <1>1, <1>2, <1>3, PTL DEF W!Spec

-----------------------------------------------------------------------------
(* The countdown.  A field of a read was answered after the read began, and *)
(* no read takes longer than MaxRead; so what is shown was true at the      *)
(* earliest MaxRead before it was shown, and its age is counted from there, *)
(* whatever the browser's clock is wrong by.                                *)
ASSUME ViewFits ==
  /\ MaxTime \in Nat /\ MaxTime >= 1 /\ MaxBeats \in Nat /\ MaxRead \in Nat /\ Graces \subseteq Nat
  /\ MaxAge \in Nat /\ WarningOf \in Nat /\ CriticalOf \in Nat /\ Soon \in Nat

FieldAnswer == V!Value \cup {NotRead}
Snapshots == [at : Int, got : [V!StatusFields -> FieldAnswer]]
ASSUME NilIsNoSnapshot == Nil \notin Snapshots

ViewInv ==
  /\ time \in 0..MaxTime /\ skew \in {-2, 1} /\ beat \in 0..MaxTime /\ grace \in Graces
  /\ beats \in 0..MaxBeats
  /\ refreshing \in [since : 0..MaxTime, got : V!Answers] \cup {Nil}
  /\ again \in [field : V!StatusFields, since : 0..MaxTime, got : FieldAnswer] \cup {Nil}
  /\ shown \in Snapshots \cup {Nil}
  /\ refreshing # Nil =>
       /\ refreshing.since <= time /\ time <= refreshing.since + MaxRead
       /\ LET s == refreshing.got["status"]
          IN s # Nil /\ s # NotRead => refreshing.since <= s.now
  /\ again # Nil =>
       /\ shown \in Snapshots
       /\ again.since <= time /\ time <= again.since + MaxRead
       /\ again.field = "status" /\ again.got # NotRead => again.since <= again.got.now
  /\ shown \in Snapshots =>
       /\ shown.at <= time + skew
       /\ LET s == shown.got["status"]
          IN s # NotRead => shown.at - skew <= s.now + MaxRead

LEMMA AnswersTyped ==
  ASSUME ViewInv, NEW f \in V!StatusFields
  PROVE  V!LedgerAnswers(f) \in V!Value /\ (f = "status" => V!LedgerAnswers(f).now = time)
<1>1. time \in 0..MaxTime /\ beat \in 0..MaxTime /\ grace \in Graces /\ 0 \in 0..MaxTime
  BY ViewFits DEF ViewInv
<1> DEFINE over == beat # 0 /\ grace > 0 /\ time > beat + grace
<1>2. over \in BOOLEAN
  OBVIOUS
<1>3. V!LedgerAnswers(f) = IF f = "status"
                           THEN [now |-> time, beat |-> beat, expired |-> over, grace |-> 0]
                           ELSE [now |-> time, beat |-> 0, expired |-> FALSE, grace |-> grace]
  BY DEF V!LedgerAnswers
<1> HIDE DEF over
<1> QED BY <1>1, <1>2, <1>3 DEF V!Value

LEMMA ViewStep == ASSUME ViewInv, V!Next PROVE ViewInv'
<1>1. CASE V!Tick
  <2>1. time' = time + 1 /\ time' \in 0..MaxTime
        /\ UNCHANGED <<skew, beat, grace, beats, refreshing, again, shown>>
    BY <1>1, ViewFits DEF V!Tick, ViewInv
  <2>2. refreshing # Nil => time - refreshing.since < MaxRead
    BY <1>1 DEF V!Tick
  <2>3. again # Nil => time - again.since < MaxRead
    BY <1>1 DEF V!Tick
  <2>4. refreshing # Nil => /\ refreshing.since \in Int /\ refreshing.since <= time
                            /\ time' <= refreshing.since + MaxRead
    BY <2>1, <2>2, ViewFits DEF ViewInv
  <2>5. again # Nil => /\ again.since \in Int /\ again.since <= time
                       /\ time' <= again.since + MaxRead
    BY <2>1, <2>3, ViewFits DEF ViewInv
  <2>6. shown \in Snapshots => shown.at <= time' + skew
    BY <2>1 DEF ViewInv, Snapshots
  <2> QED BY <2>1, <2>4, <2>5, <2>6 DEF ViewInv
<1>2. CASE V!Heartbeat
  <2>1. beats' \in 0..MaxBeats
    BY <1>2, ViewFits DEF V!Heartbeat, V!Writes, ViewInv
  <2> QED BY <1>2, <2>1 DEF V!Heartbeat, ViewInv
<1>3. ASSUME NEW g \in Graces, V!Install(g) PROVE ViewInv'
  <2>1. beats' \in 0..MaxBeats
    BY <1>3, ViewFits DEF V!Install, V!Writes, ViewInv
  <2> QED BY <1>3, <2>1 DEF V!Install, ViewInv
<1>4. CASE V!BeginRead
  <2>1. V!Blank \in V!Answers /\ V!Blank["status"] = Nil
    BY DEF V!Blank, V!Answers, V!StatusFields
  <2>2. refreshing' = [since |-> time, got |-> V!Blank]
        /\ UNCHANGED <<time, skew, beat, grace, beats, again, shown>>
    BY <1>4 DEF V!BeginRead
  <2>3. refreshing' \in [since : 0..MaxTime, got : V!Answers]
    BY <2>1, <2>2 DEF ViewInv
  <2>4. refreshing'.since = time /\ refreshing'.got["status"] = Nil /\ time <= time + MaxRead
    BY <2>1, <2>2, ViewFits DEF ViewInv
  <2> QED BY <2>2, <2>3, <2>4, ViewFits DEF ViewInv
<1>5. ASSUME NEW f \in V!StatusFields, NEW ok \in BOOLEAN, V!FieldRead(f, ok) PROVE ViewInv'
  <2> DEFINE a == IF ok THEN V!LedgerAnswers(f) ELSE NotRead
  <2>1. a \in V!Value \cup {NotRead, Nil} /\ (f = "status" => a = NotRead \/ a.now = time)
    BY AnswersTyped
  <2>2. /\ refreshing \in [since : 0..MaxTime, got : V!Answers]
        /\ refreshing' = [refreshing EXCEPT !.got[f] = a]
        /\ UNCHANGED <<time, skew, beat, grace, beats, again, shown>>
    BY <1>5 DEF V!FieldRead, ViewInv
  <2> HIDE DEF a
  <2>3. /\ refreshing' \in [since : 0..MaxTime, got : V!Answers]
        /\ refreshing'.since = refreshing.since
        /\ refreshing'.got = [refreshing.got EXCEPT ![f] = a]
    BY <2>1, <2>2 DEF V!Answers
  <2>4. refreshing'.got["status"] = IF f = "status" THEN a ELSE refreshing.got["status"]
    BY <2>2, <2>3 DEF V!Answers, V!StatusFields
  <2>5. LET s == refreshing'.got["status"]
        IN s # Nil /\ s # NotRead => refreshing'.since <= s.now
    BY <1>5, <2>1, <2>2, <2>3, <2>4 DEF ViewInv, V!FieldRead
  <2> QED BY <1>5, <2>2, <2>3, <2>5 DEF ViewInv, V!FieldRead
<1>6. CASE V!SnapshotRead
  <2>1. /\ refreshing \in [since : 0..MaxTime, got : V!Answers] /\ refreshing # Nil
        /\ \A f \in V!StatusFields : refreshing.got[f] # Nil
        /\ shown' = [at |-> time + skew, got |-> refreshing.got] /\ refreshing' = Nil
        /\ UNCHANGED <<time, skew, beat, grace, beats, again>>
    BY <1>6 DEF V!SnapshotRead, V!Browser, ViewInv
  <2>2. refreshing.got \in [V!StatusFields -> FieldAnswer] /\ refreshing.got["status"] # Nil
    BY <2>1 DEF V!Answers, FieldAnswer, V!StatusFields
  <2>3. shown' \in Snapshots
    BY <2>1, <2>2 DEF ViewInv, Snapshots
  <2>4. LET s == refreshing.got["status"]
        IN s # NotRead => time <= s.now + MaxRead
    <3> SUFFICES ASSUME refreshing.got["status"] # NotRead
                 PROVE  time <= refreshing.got["status"].now + MaxRead
      OBVIOUS
    <3>1. refreshing.got["status"].now \in Int
      BY <2>2 DEF FieldAnswer, V!Value, V!StatusFields
    <3>2. refreshing.since <= refreshing.got["status"].now /\ time <= refreshing.since + MaxRead
          /\ refreshing.since \in Int /\ time \in Int
      BY <2>1, <2>2 DEF ViewInv
    <3> QED BY <3>1, <3>2, ViewFits
  <2>5. shown'.at = time + skew /\ shown'.got = refreshing.got /\ (time + skew) - skew = time
    BY <2>1 DEF ViewInv
  <2>6. /\ shown'.at <= time + skew
        /\ LET s == shown'.got["status"]
           IN s # NotRead => shown'.at - skew <= s.now + MaxRead
    BY <2>4, <2>5 DEF ViewInv
  <2> QED BY <2>1, <2>3, <2>6 DEF ViewInv
<1>7. ASSUME NEW f \in V!StatusFields, NEW ok \in BOOLEAN, V!Retry(f, ok) PROVE ViewInv'
  <2> DEFINE a == IF ok THEN V!LedgerAnswers(f) ELSE NotRead
  <2>1. a \in FieldAnswer /\ (f = "status" => a = NotRead \/ a.now = time)
    BY AnswersTyped DEF FieldAnswer
  <2>2. /\ again' = [field |-> f, since |-> time, got |-> a]
        /\ UNCHANGED <<time, skew, beat, grace, beats, refreshing, shown>>
        /\ shown \in Snapshots
    BY <1>7 DEF V!Retry, ViewInv
  <2> HIDE DEF a
  <2>3. again' \in [field : V!StatusFields, since : 0..MaxTime, got : FieldAnswer]
    BY <2>1, <2>2 DEF ViewInv
  <2>4. /\ again'.since <= time /\ time <= again'.since + MaxRead
        /\ again'.field = "status" /\ again'.got # NotRead => again'.since <= again'.got.now
    BY <2>1, <2>2, ViewFits DEF ViewInv
  <2> QED BY <2>2, <2>3, <2>4 DEF ViewInv
<1>8. CASE V!EndRetry
  <2>1. /\ again \in [field : V!StatusFields, since : 0..MaxTime, got : FieldAnswer] /\ again # Nil
        /\ shown' = [shown EXCEPT !.got[again.field] = again.got] /\ again' = Nil
        /\ UNCHANGED <<time, skew, beat, grace, beats, refreshing>>
    BY <1>8 DEF V!EndRetry, ViewInv
  <2>2. /\ shown \in Snapshots
        /\ shown.at <= time + skew /\ time <= again.since + MaxRead
    BY <2>1 DEF ViewInv
  <2>3. /\ shown' \in Snapshots /\ shown'.at = shown.at
        /\ shown'.got = [shown.got EXCEPT ![again.field] = again.got]
    BY <2>1, <2>2 DEF Snapshots
  <2>4. shown'.got["status"] = IF again.field = "status" THEN again.got ELSE shown.got["status"]
    BY <2>1, <2>2, <2>3 DEF V!StatusFields, Snapshots
  <2>5. again.field = "status" /\ again.got # NotRead =>
          shown.at - skew <= again.got.now + MaxRead
    <3> SUFFICES ASSUME again.field = "status", again.got # NotRead
                 PROVE  shown.at - skew <= again.got.now + MaxRead
      OBVIOUS
    <3>1. again.got.now \in Int /\ again.since <= again.got.now
      BY <2>1 DEF ViewInv, FieldAnswer, V!Value
    <3>2. time \in Int /\ skew \in Int /\ shown.at \in Int /\ again.since \in Int
      BY <2>1, <2>2 DEF ViewInv, Snapshots
    <3> QED BY <2>2, <3>1, <3>2, ViewFits
  <2>6. LET s == shown'.got["status"]
        IN s # NotRead => shown'.at - skew <= s.now + MaxRead
    BY <2>2, <2>3, <2>4, <2>5 DEF ViewInv
  <2> QED BY <2>1, <2>2, <2>3, <2>6 DEF ViewInv
<1> QED BY <1>1, <1>2, <1>3, <1>4, <1>5, <1>6, <1>7, <1>8 DEF V!Next

\* The less is left, the higher the level.
LEMMA LevelRises ==
  ASSUME NEW left \in Int, NEW total \in Nat, NEW before \in Int, left <= before
  PROVE  V!Rank[V!Level(left, total)] >= V!Rank[V!Level(before, total)]
<1>1. left * CriticalOf <= before * CriticalOf /\ left * WarningOf <= before * WarningOf
      /\ left * CriticalOf \in Int /\ before * CriticalOf \in Int
      /\ left * WarningOf \in Int /\ before * WarningOf \in Int
  BY ViewFits
<1> DEFINE cl == left * CriticalOf cb == before * CriticalOf
           wl == left * WarningOf wb == before * WarningOf
<1>2. V!Level(left, total) = IF left <= 0 THEN "expired" ELSE IF cl < total THEN "critical"
                             ELSE IF wl < total \/ left < Soon THEN "warning" ELSE "none"
  BY DEF V!Level
<1>3. V!Level(before, total) = IF before <= 0 THEN "expired" ELSE IF cb < total THEN "critical"
                               ELSE IF wb < total \/ before < Soon THEN "warning" ELSE "none"
  BY DEF V!Level
<1>4. cl <= cb /\ wl <= wb /\ cl \in Int /\ cb \in Int /\ wl \in Int /\ wb \in Int
  BY <1>1
<1> HIDE DEF cl, cb, wl, wb
<1>5. /\ V!Rank["none"] = 0 /\ V!Rank["warning"] = 1 /\ V!Rank["critical"] = 2
      /\ V!Rank["expired"] = 3
  BY DEF V!Rank
<1> QED BY <1>2, <1>3, <1>4, <1>5, ViewFits

LEMMA SoundWhileInv == ViewInv => V!CountdownSound
<1> SUFFICES ASSUME ViewInv, V!Banner PROVE V!CountdownSound
  BY DEF V!CountdownSound
<1> DEFINE s == shown.got["status"]
           r == shown.got["policy"]
           alert == V!Alert(shown.got)
           spoken == V!Projected(shown)
           age == V!Age(shown)
<1>1. /\ shown \in Snapshots /\ shown # Nil
      /\ alert.level # "none"
  BY DEF V!Banner, ViewInv
<1>2. s \in FieldAnswer /\ r \in FieldAnswer
  BY <1>1 DEF V!StatusFields, Snapshots
<1>3. /\ s # NotRead
      /\ alert.level \in {"none", "warning", "critical", "expired"}
  BY <1>1 DEF V!Alert, V!Level
<1>4. s \in V!Value /\ s.now \in Int /\ s.beat \in Int /\ s.expired \in BOOLEAN
  BY <1>2, <1>3 DEF FieldAnswer, V!Value
<1>5. age \in Nat /\ time - (shown.at - skew) <= age /\ time \in Int /\ skew \in Int /\ shown.at \in Int
      /\ shown.at - skew <= s.now + MaxRead
  <2>1. time \in Int /\ skew \in Int /\ shown.at \in Int /\ shown.at - skew <= s.now + MaxRead
    BY <1>1, <1>3 DEF ViewInv, Snapshots
  <2> QED BY <2>1 DEF V!Age, V!Browser
<1>6. CASE alert.remaining = Nil \/ ~(age <= MaxAge)
  <2>1. spoken = [remaining |-> alert.remaining, exact |-> FALSE, level |-> alert.level]
    BY <1>6 DEF V!Projected
  <2>2. spoken.level = alert.level /\ spoken.exact = FALSE
    BY <2>1
  <2>3. V!Rank[alert.level] \in Int
    BY <1>3 DEF V!Rank
  <2> HIDE DEF alert, spoken
  <2>4. V!Rank[spoken.level] >= V!Rank[alert.level] /\ ~spoken.exact
    BY <2>2, <2>3
  <2> QED BY <2>4 DEF V!CountdownSound, alert, spoken
<1>7. CASE alert.remaining # Nil /\ age <= MaxAge
  <2>1. /\ r \in V!Value /\ alert.total = r.grace /\ r.grace > 0
        /\ alert.remaining = s.beat + r.grace - s.now
        /\ alert.level = IF s.expired THEN "expired" ELSE V!Level(alert.remaining, r.grace)
    BY <1>3, <1>7 DEF V!Alert
  <2>2. r.grace \in Nat
    <3>1. r.grace \in Graces \cup {0}
      BY <2>1 DEF V!Value
    <3>2. \A n \in Graces \cup {0} : n \in Nat
      BY ViewFits
    <3> QED BY <3>1, <3>2, Zenon
  <2> DEFINE left == alert.remaining - age
  <2>3. spoken = [remaining |-> left, exact |-> TRUE,
                level |-> IF alert.level = "expired" THEN "expired" ELSE V!Level(left, r.grace)]
    BY <1>7, <2>1 DEF V!Projected
  <2>4. spoken.remaining = left /\ spoken.level = IF alert.level = "expired" THEN "expired"
                                              ELSE V!Level(left, r.grace)
    BY <2>3
  <2>5. /\ alert.remaining \in Int /\ left \in Int /\ left <= alert.remaining
        /\ left <= s.beat + r.grace - time + MaxRead
    <3> HIDE DEF s, r, age, alert
    <3> QED BY <1>4, <1>5, <2>1, <2>2, ViewFits
  <2> HIDE DEF alert, spoken, s, r, left, age
  <2>6. V!Rank[spoken.level] >= V!Rank[alert.level]
    <3>1. CASE alert.level = "expired"
      <4>1. V!Rank["expired"] = 3
        BY DEF V!Rank
      <4> QED BY <2>4, <3>1, <4>1
    <3>2. CASE alert.level # "expired"
      BY <2>1, <2>2, <2>4, <2>5, <3>2, LevelRises
    <3> QED BY <3>1, <3>2
  <2>7. spoken.remaining <= s.beat + r.grace - time + MaxRead
    BY <2>4, <2>5
  <2> QED BY <2>6, <2>7 DEF V!CountdownSound, alert, spoken, s, r
<1> QED BY <1>6, <1>7

(* However long a read takes, within its bound, whatever the browser's      *)
(* clock is wrong by and whichever field was read again: a countdown that   *)
(* is said to be chain-verified promises no more than was left, and no      *)
(* level falls below the one that was read (projectDmsAlert()).             *)
THEOREM CountdownIsSound == V!Spec => [](V!ViewTypes /\ V!CountdownSound)
<1>1. V!Init => ViewInv
  BY ViewFits, NilIsNoSnapshot DEF V!Init, ViewInv
<1>2. ViewInv /\ [V!Next]_(V!viewVars) => ViewInv'
  <2>1. CASE UNCHANGED V!viewVars
    BY <2>1 DEF V!viewVars, ViewInv
  <2> QED BY <2>1, ViewStep
<1>3. ViewInv => V!ViewTypes
  BY DEF ViewInv, V!ViewTypes, V!Answers, FieldAnswer, Snapshots
<1>4. ViewInv => V!CountdownSound
  BY SoundWhileInv
<1> QED BY <1>1, <1>2, <1>3, <1>4, PTL DEF V!Spec

-----------------------------------------------------------------------------
(* The storage drawer.  An entry that is found is known by another text     *)
(* than the key that asked for it, so a read makes one row for each key,    *)
(* whatever the ledger holds; and a row that is there came with a read.     *)
ASSUME StorageFits == IsFiniteSet(DataKeys) /\ MaxLoads \in Nat

RowOf(k) == S!AbsentEntry(S!LedgerKeyId(k), k)

LEMMA FoundNever ==
  ASSUME NEW g, NEW keys, NEW left
  PROVE  S!Rows(g, {S!DecodedEntry(k, left) : k \in keys}) = {RowOf(k) : k \in S!AskedKeys(g)}
<1> DEFINE found == {S!DecodedEntry(k, left) : k \in keys}
<1>1. ASSUME NEW e \in found, NEW k PROVE e.id # S!LedgerKeyId(k)
  <2>1. PICK h \in keys : e = S!DecodedEntry(h, left)
    OBVIOUS
  <2>2. e.id = <<"base64", h>>
    BY <2>1 DEF S!DecodedEntry, S!EntryId
  <2>3. <<"base64", h>> # <<"hex", k>>
    OBVIOUS
  <2> QED BY <2>2, <2>3 DEF S!LedgerKeyId
<1> HIDE DEF found
<1>2. \A k : {e \in found : e.id = S!LedgerKeyId(k)} = {}
  BY <1>1
<1>3. S!Rows(g, found) =
        {IF {e \in found : e.id = S!LedgerKeyId(k)} # {}
         THEN CHOOSE e \in {h \in found : h.id = S!LedgerKeyId(k)} : TRUE ELSE RowOf(k) :
         k \in S!AskedKeys(g)}
  BY DEF S!Rows, RowOf
<1>4. S!Rows(g, found) = {RowOf(k) : k \in S!AskedKeys(g)}
  BY <1>2, <1>3, Zenon
<1> QED BY <1>4 DEF found

LEMMA AskedFinite ==
  ASSUME NEW g
  PROVE  IsFiniteSet(S!AskedKeys(g)) /\ \A k \in S!AskedKeys(g) : k.of = g
<1> DEFINE Pairs == {"persistent", "temporary"} \X DataKeys
           Named == [of : {g}, class : {"persistent", "temporary"}, name : DataKeys]
           row(a) == [of |-> g, class |-> a[1], name |-> a[2]]
           pick == [a \in Pairs |-> row(a)]
           itself == [of |-> g, class |-> "instance", name |-> "(contract instance)"]
<1>1. IsFiniteSet({"persistent", "temporary"})
  <2>1. IsFiniteSet({"persistent"})
    BY FS_Singleton
  <2>2. IsFiniteSet({"persistent"} \cup {"temporary"})
    BY <2>1, FS_AddElement
  <2>3. {"persistent", "temporary"} = {"persistent"} \cup {"temporary"}
    OBVIOUS
  <2> QED BY <2>2, <2>3
<1>2. IsFiniteSet(Pairs)
  BY <1>1, StorageFits, FS_Product
<1>3. pick \in Surjection(Pairs, Named)
  <2>1. \A a \in Pairs : row(a) \in Named
    OBVIOUS
  <2>2. pick \in [Pairs -> Named]
    BY <2>1
  <2>3. ASSUME NEW b \in Named PROVE \E a \in Pairs : pick[a] = b
    <3>1. <<b.class, b.name>> \in Pairs
      OBVIOUS
    <3>2. row(<<b.class, b.name>>) = b
      OBVIOUS
    <3> QED BY <3>1, <3>2
  <2> QED BY <2>2, <2>3 DEF Surjection
<1>4. IsFiniteSet(Named)
  <2> HIDE DEF Pairs, Named, pick
  <2> QED BY <1>2, <1>3, FS_Surjection
<1>5. S!AskedKeys(g) = Named \cup {itself}
  BY DEF S!AskedKeys
<1>6. \A k \in Named : k.of = g
  OBVIOUS
<1>7. itself.of = g
  OBVIOUS
<1> HIDE DEF Named, itself
<1>8. IsFiniteSet(Named \cup {itself})
  BY <1>4, FS_AddElement
<1> QED BY <1>5, <1>6, <1>7, <1>8

LEMMA RowsCounted ==
  ASSUME NEW g
  PROVE  LET rowsOf == {RowOf(k) : k \in S!AskedKeys(g)}
         IN /\ \A e \in rowsOf : e.of = g
            /\ S!Cardinality(rowsOf) = S!Cardinality(S!AskedKeys(g))
<1> DEFINE keysOf == S!AskedKeys(g)
           made == {RowOf(k) : k \in keysOf}
           pick == [k \in keysOf |-> RowOf(k)]
<1>1. \A k \in keysOf : RowOf(k).of = k.of /\ RowOf(k).id = <<"hex", k>>
  BY DEF RowOf, S!AbsentEntry, S!LedgerKeyId
<1>2. IsFiniteSet(keysOf) /\ \A k \in keysOf : k.of = g
  BY AskedFinite
<1>3. pick \in Surjection(keysOf, made)
  <2>1. pick \in [keysOf -> made]
    OBVIOUS
  <2>2. \A e \in made : \E k \in keysOf : pick[k] = e
    OBVIOUS
  <2> QED BY <2>1, <2>2 DEF Surjection
<1>4. pick \in Injection(keysOf, made)
  <2>1. ASSUME NEW j \in keysOf, NEW k \in keysOf, pick[j] = pick[k] PROVE j = k
    <3>1. <<"hex", j>> = <<"hex", k>>
      BY <1>1, <2>1
    <3> QED BY <3>1
  <2> QED BY <1>3, <2>1 DEF Surjection, Injection, IsInjective
<1>5. \A e \in made : e.of = g
  BY <1>1, <1>2
<1> HIDE DEF keysOf, made, pick
<1>6. Cardinality(made) = Cardinality(keysOf)
  BY <1>2, <1>3, <1>4, FS_Surjection
<1>7. S!Cardinality(made) = Cardinality(made) /\ S!Cardinality(keysOf) = Cardinality(keysOf)
  BY DEF S!Cardinality, Cardinality
<1>8. S!Cardinality(made) = S!Cardinality(keysOf)
  BY <1>6, <1>7
<1> QED BY <1>5, <1>8 DEF keysOf, made

LEMMA OneAnswered ==
  ASSUME NEW s \in Seq(HeldGuards), NEW i \in DOMAIN s
  PROVE  S!RemoveAt(s, i) \in Seq(HeldGuards) /\ Len(S!RemoveAt(s, i)) = Len(s) - 1
<1> DEFINE before == SubSeq(s, 1, i - 1)
           after == SubSeq(s, i + 1, Len(s))
<1>1. i \in 1..Len(s) /\ Len(s) \in Nat
  OBVIOUS
<1>2. /\ before \in Seq(HeldGuards) /\ Len(before) = i - 1
      /\ after \in Seq(HeldGuards) /\ Len(after) = Len(s) - i
  BY <1>1
<1>3. S!RemoveAt(s, i) = before \o after
  BY DEF S!RemoveAt
<1> HIDE DEF before, after
<1> QED BY <1>1, <1>2, <1>3

\* Whose rows a drawer may show, and what it may be.
RowsOfOne(entries) ==
  entries # {} => \E g \in HeldGuards :
                    /\ \A e \in entries : e.of = g
                    /\ S!Cardinality(entries) = S!Cardinality(S!AskedKeys(g))

DrawerOf(open, loading, error, entries, chosen, query, classes) ==
  [open |-> open, loading |-> loading, error |-> error, entries |-> entries,
   selected |-> chosen, query |-> query, classes |-> classes]
Classes == {S!Durabilities[i] : i \in 1..3}
IsDrawer(d) ==
  /\ d = DrawerOf(d.open, d.loading, d.error, d.entries, d.selected, d.query, d.classes)
  /\ d.open \in BOOLEAN /\ d.loading \in BOOLEAN /\ d.error \in BOOLEAN
  /\ d.classes \subseteq Classes /\ d.query \in {Nil} \cup DataKeys
  /\ d.error => d.entries = {}
  /\ RowsOfOne(d.entries)

HeldInv ==
  /\ viewed \in HeldGuards /\ held \in [HeldGuards -> LedgerEntries]
  /\ openedFor \in HeldGuards \cup {Nil}
  /\ loads \in Seq(HeldGuards) /\ Len(loads) <= loadsMade /\ loadsMade \in 0..MaxLoads
  /\ IsDrawer(drawer)

LEMMA DrawerIs ==
  ASSUME NEW open \in BOOLEAN, NEW loading \in BOOLEAN, NEW error \in BOOLEAN, NEW entries,
         NEW chosen, NEW query \in {Nil} \cup DataKeys, NEW classes \in SUBSET Classes,
         error => entries = {}, RowsOfOne(entries)
  PROVE  IsDrawer(DrawerOf(open, loading, error, entries, chosen, query, classes))
<1> DEFINE d == DrawerOf(open, loading, error, entries, chosen, query, classes)
<1>1. /\ d.open = open /\ d.loading = loading /\ d.error = error /\ d.entries = entries
      /\ d.selected = chosen /\ d.query = query /\ d.classes = classes
  BY DEF DrawerOf
<1> HIDE DEF d
<1>2. d = DrawerOf(d.open, d.loading, d.error, d.entries, d.selected, d.query, d.classes)
  BY <1>1 DEF d
<1>3. d.open \in BOOLEAN /\ d.loading \in BOOLEAN /\ d.error \in BOOLEAN
  BY <1>1, Zenon
<1> QED BY <1>1, <1>2, <1>3, Zenon DEF IsDrawer, d

LEMMA DrawerParts ==
  ASSUME NEW d, IsDrawer(d)
  PROVE  /\ d.open \in BOOLEAN /\ d.loading \in BOOLEAN /\ d.error \in BOOLEAN
         /\ d.classes \in SUBSET Classes /\ d.query \in {Nil} \cup DataKeys
         /\ d.error => d.entries = {}
         /\ RowsOfOne(d.entries)
BY DEF IsDrawer

\* What a step of the reducer makes of a drawer.
LEMMA DrawerSteps ==
  ASSUME NEW d, IsDrawer(d), NEW v
  PROVE  /\ [d EXCEPT !.loading = TRUE, !.error = FALSE]
             = DrawerOf(d.open, TRUE, FALSE, d.entries, d.selected, d.query, d.classes)
         /\ [d EXCEPT !.open = TRUE]
             = DrawerOf(TRUE, d.loading, d.error, d.entries, d.selected, d.query, d.classes)
         /\ [d EXCEPT !.open = FALSE, !.error = FALSE, !.selected = Nil]
             = DrawerOf(FALSE, d.loading, FALSE, d.entries, Nil, d.query, d.classes)
         /\ [d EXCEPT !.loading = FALSE, !.error = FALSE, !.selected = Nil, !.entries = v]
             = DrawerOf(d.open, FALSE, FALSE, v, Nil, d.query, d.classes)
         /\ S!Emptied(d) = DrawerOf(d.open, FALSE, TRUE, {}, Nil, d.query, d.classes)
         /\ [d EXCEPT !.selected = v]
             = DrawerOf(d.open, d.loading, d.error, d.entries, v, d.query, d.classes)
         /\ [d EXCEPT !.classes = v]
             = DrawerOf(d.open, d.loading, d.error, d.entries, d.selected, d.query, v)
         /\ [d EXCEPT !.query = v]
             = DrawerOf(d.open, d.loading, d.error, d.entries, d.selected, v, d.classes)
<1>1. PICK o, l, w, made, picked, text, kinds : d = DrawerOf(o, l, w, made, picked, text, kinds)
  BY DEF IsDrawer
<1>2. /\ d.open = o /\ d.loading = l /\ d.error = w /\ d.entries = made
      /\ d.selected = picked /\ d.query = text /\ d.classes = kinds
  BY <1>1 DEF DrawerOf
<1>3. ASSUME NEW v1, NEW v2
      PROVE  [d EXCEPT !.loading = v1, !.error = v2]
               = DrawerOf(o, v1, v2, made, picked, text, kinds)
  <2>1. PICK d1 : d1 = [d EXCEPT !.loading = v1]
    OBVIOUS
  <2>2. d1 = DrawerOf(o, v1, w, made, picked, text, kinds)
    BY <1>1, <2>1 DEF DrawerOf
  <2>3. [d1 EXCEPT !.error = v2] = DrawerOf(o, v1, v2, made, picked, text, kinds)
    BY <2>2 DEF DrawerOf
  <2> QED BY <2>1, <2>3
<1>4. ASSUME NEW v1 PROVE [d EXCEPT !.open = v1] = DrawerOf(v1, l, w, made, picked, text, kinds)
  BY <1>1 DEF DrawerOf
<1>5. ASSUME NEW v1, NEW v2, NEW v3
      PROVE  [d EXCEPT !.open = v1, !.error = v2, !.selected = v3]
               = DrawerOf(v1, l, v2, made, v3, text, kinds)
  <2>1. PICK d1 : d1 = [d EXCEPT !.open = v1]
    OBVIOUS
  <2>2. d1 = DrawerOf(v1, l, w, made, picked, text, kinds)
    BY <1>4, <2>1
  <2>3. PICK d2 : d2 = [d1 EXCEPT !.error = v2]
    OBVIOUS
  <2>4. d2 = DrawerOf(v1, l, v2, made, picked, text, kinds)
    BY <2>2, <2>3 DEF DrawerOf
  <2>5. [d2 EXCEPT !.selected = v3] = DrawerOf(v1, l, v2, made, v3, text, kinds)
    BY <2>4 DEF DrawerOf
  <2> QED BY <2>1, <2>3, <2>5
<1>6. ASSUME NEW v1, NEW v2, NEW v3, NEW v4
      PROVE  [d EXCEPT !.loading = v1, !.error = v2, !.selected = v3, !.entries = v4]
               = DrawerOf(o, v1, v2, v4, v3, text, kinds)
  <2>1. PICK d1 : d1 = [d EXCEPT !.loading = v1, !.error = v2]
    OBVIOUS
  <2>2. d1 = DrawerOf(o, v1, v2, made, picked, text, kinds)
    BY <1>3, <2>1
  <2>3. PICK d2 : d2 = [d1 EXCEPT !.selected = v3]
    OBVIOUS
  <2>4. d2 = DrawerOf(o, v1, v2, made, v3, text, kinds)
    BY <2>2, <2>3 DEF DrawerOf
  <2>5. [d2 EXCEPT !.entries = v4] = DrawerOf(o, v1, v2, v4, v3, text, kinds)
    BY <2>4 DEF DrawerOf
  <2> QED BY <2>1, <2>3, <2>5
<1>7. [d EXCEPT !.loading = TRUE, !.error = FALSE]
        = DrawerOf(o, TRUE, FALSE, made, picked, text, kinds)
  BY <1>3, Zenon
<1>11. [d EXCEPT !.open = TRUE] = DrawerOf(TRUE, l, w, made, picked, text, kinds)
  BY <1>4, Zenon
<1>12. [d EXCEPT !.open = FALSE, !.error = FALSE, !.selected = Nil]
        = DrawerOf(FALSE, l, FALSE, made, Nil, text, kinds)
  BY <1>5, Zenon
<1>13. [d EXCEPT !.loading = FALSE, !.error = FALSE, !.selected = Nil, !.entries = v]
        = DrawerOf(o, FALSE, FALSE, v, Nil, text, kinds)
  BY <1>6, Zenon
<1>14. S!Emptied(d) = DrawerOf(o, FALSE, TRUE, {}, Nil, text, kinds)
  BY <1>6, Zenon DEF S!Emptied
<1>8. [d EXCEPT !.selected = v] = DrawerOf(o, l, w, made, v, text, kinds)
  BY <1>1 DEF DrawerOf
<1>9. [d EXCEPT !.classes = v] = DrawerOf(o, l, w, made, picked, text, v)
  BY <1>1 DEF DrawerOf
<1>10. [d EXCEPT !.query = v] = DrawerOf(o, l, w, made, picked, v, kinds)
  BY <1>1 DEF DrawerOf
<1> QED BY <1>2, <1>7, <1>8, <1>9, <1>10, <1>11, <1>12, <1>13, <1>14, Zenon

LEMMA HeldStep == ASSUME HeldInv, S!Next PROVE HeldInv'
<1>0. /\ viewed \in HeldGuards /\ held \in [HeldGuards -> LedgerEntries]
      /\ openedFor \in HeldGuards \cup {Nil}
      /\ loads \in Seq(HeldGuards) /\ Len(loads) <= loadsMade /\ loadsMade \in 0..MaxLoads
      /\ Len(loads) \in Nat /\ IsDrawer(drawer)
  BY DEF HeldInv
<1>1. ASSUME NEW d, IsDrawer(d) PROVE IsDrawer([d EXCEPT !.loading = TRUE, !.error = FALSE])
                                     /\ IsDrawer([d EXCEPT !.open = TRUE])
  <2>1. /\ IsDrawer(DrawerOf(d.open, TRUE, FALSE, d.entries, d.selected, d.query, d.classes))
        /\ IsDrawer(DrawerOf(TRUE, d.loading, d.error, d.entries, d.selected, d.query, d.classes))
    BY <1>1, DrawerParts, DrawerIs
  <2> QED BY <1>1, <2>1, DrawerSteps, Zenon
<1>2. ASSUME NEW g \in HeldGuards, NEW d, IsDrawer(d), S!Load(g, d)
      PROVE  /\ IsDrawer(drawer') /\ loads' \in Seq(HeldGuards) /\ Len(loads') <= loadsMade'
             /\ loadsMade' \in 0..MaxLoads
  <2>1. IsDrawer(drawer')
    BY <1>1, <1>2 DEF S!Load
  <2>2. loadsMade' = loadsMade + 1 /\ loads' = Append(loads, g) /\ loadsMade < MaxLoads
    BY <1>2 DEF S!Load
  <2> QED BY <1>0, <2>1, <2>2, StorageFits
<1>3. ASSUME IsDrawer(drawer'),
             UNCHANGED <<viewed, held, loads, loadsMade>>, openedFor' \in {openedFor, Nil}
      PROVE  HeldInv'
  BY <1>0, <1>3 DEF HeldInv
<1>4. ASSUME NEW i \in DOMAIN loads, IsDrawer(drawer'), loads' = S!RemoveAt(loads, i),
             UNCHANGED <<viewed, held, openedFor, loadsMade>>
      PROVE  HeldInv'
  <2>1. loads' \in Seq(HeldGuards) /\ Len(loads') = Len(loads) - 1
    BY <1>0, <1>4, OneAnswered
  <2> QED BY <1>0, <1>4, <2>1 DEF HeldInv
<1>5. ASSUME NEW d, IsDrawer(d), drawer' = d PROVE IsDrawer(drawer')
  BY <1>5
<1>6. CASE S!OpenDrawer
  <2>1. IsDrawer([drawer EXCEPT !.open = TRUE])
    BY <1>0, <1>1
  <2>2. S!Load(viewed, [drawer EXCEPT !.open = TRUE]) /\ openedFor' = viewed
        /\ UNCHANGED <<viewed, held>>
    BY <1>6 DEF S!OpenDrawer
  <2> QED BY <1>0, <1>2, <2>1, <2>2 DEF HeldInv
<1>7. CASE S!CloseDrawer
  <2>1. drawer' = DrawerOf(FALSE, drawer.loading, FALSE, drawer.entries, Nil, drawer.query,
                           drawer.classes)
    BY <1>0, <1>7, DrawerSteps, Zenon DEF S!CloseDrawer
  <2>2. IsDrawer(drawer')
    BY <1>0, <2>1, DrawerParts, DrawerIs
  <2> QED BY <1>3, <1>7, <2>2, SMTT(30) DEF S!CloseDrawer
<1>8. CASE S!RefreshDrawer
  BY <1>0, <1>2, <1>8 DEF S!RefreshDrawer, HeldInv
<1>9. ASSUME NEW g \in HeldGuards, S!SwitchViewed(g) PROVE HeldInv'
  <2>1. CASE drawer.open
    BY <1>0, <1>2, <1>9, <2>1 DEF S!SwitchViewed, HeldInv
  <2>2. CASE ~drawer.open
    BY <1>0, <1>9, <2>2 DEF S!SwitchViewed, HeldInv
  <2> QED BY <2>1, <2>2
<1>10. ASSUME NEW i \in DOMAIN loads, S!Loaded(i) PROVE HeldInv'
  <2> DEFINE g == loads[i]
  <2>1. g \in HeldGuards
    BY <1>0, SMTT(30)
  <2>2. PICK left \in Lives \cup {Nil} :
          drawer' = [drawer EXCEPT !.loading = FALSE, !.error = FALSE, !.selected = Nil,
                       !.entries = S!Rows(g, {S!DecodedEntry(k, left) : k \in S!HeldOf(g)})]
    BY <1>10 DEF S!Loaded
  <2> DEFINE made == {RowOf(k) : k \in S!AskedKeys(g)}
  <2>3. S!Rows(g, {S!DecodedEntry(k, left) : k \in S!HeldOf(g)}) = made
    BY FoundNever
  <2>4. RowsOfOne(made)
    BY <2>1, RowsCounted, SMTT(30) DEF RowsOfOne
  <2> HIDE DEF made, g
  <2>5. drawer' = DrawerOf(drawer.open, FALSE, FALSE, made, Nil, drawer.query, drawer.classes)
    <3>1. drawer' = [drawer EXCEPT !.loading = FALSE, !.error = FALSE, !.selected = Nil,
                       !.entries = made]
      BY <2>2, <2>3
    <3> QED BY <1>0, <3>1, DrawerSteps, Zenon
  <2>6. IsDrawer(drawer')
    BY <1>0, <2>4, <2>5, DrawerParts, DrawerIs
  <2> QED BY <1>4, <1>10, <2>6 DEF S!Loaded
<1>11. ASSUME NEW i \in DOMAIN loads, S!LoadFailed(i) PROVE HeldInv'
  <2>1. drawer' = DrawerOf(drawer.open, FALSE, TRUE, {}, Nil, drawer.query, drawer.classes)
    BY <1>0, <1>11, DrawerSteps, Zenon DEF S!LoadFailed
  <2>2. RowsOfOne({})
    BY DEF RowsOfOne
  <2>3. IsDrawer(drawer')
    BY <1>0, <2>1, <2>2, DrawerParts, DrawerIs
  <2> QED BY <1>4, <1>11, <2>3, SMTT(30) DEF S!LoadFailed
<1>12. ASSUME NEW i \in DOMAIN loads, S!LoadTimesOut(i) PROVE HeldInv'
  BY <1>0, <1>4, <1>12 DEF S!LoadTimesOut
<1>13. ASSUME NEW e, S!Select(e) PROVE HeldInv'
  <2>1. PICK s : drawer' = [drawer EXCEPT !.selected = s]
    BY <1>13 DEF S!Select
  <2>2. drawer' = DrawerOf(drawer.open, drawer.loading, drawer.error, drawer.entries, s,
                           drawer.query, drawer.classes)
    BY <1>0, <2>1, DrawerSteps, Zenon
  <2>3. IsDrawer(drawer')
    BY <1>0, <2>2, DrawerParts, DrawerIs
  <2> QED BY <1>3, <1>13, <2>3 DEF S!Select
<1>14. ASSUME NEW i \in 1..3, S!ToggleDurability(S!Durabilities[i]) PROVE HeldInv'
  <2>1. S!Durabilities[i] \in Classes
    BY DEF Classes
  <2>2. PICK c \in SUBSET Classes : drawer' = [drawer EXCEPT !.classes = c]
    BY <1>0, <1>14, <2>1, DrawerParts, Zenon DEF S!ToggleDurability
  <2>3. drawer' = DrawerOf(drawer.open, drawer.loading, drawer.error, drawer.entries,
                           drawer.selected, drawer.query, c)
    BY <1>0, <2>2, DrawerSteps, ZenonT(60)
  <2>4. IsDrawer(drawer')
    BY <1>0, <2>3, DrawerParts, DrawerIs
  <2> QED BY <1>3, <1>14, <2>4 DEF S!ToggleDurability
<1>15. ASSUME NEW t \in {Nil} \cup DataKeys, S!Query(t) PROVE HeldInv'
  <2>1. drawer' = DrawerOf(drawer.open, drawer.loading, drawer.error, drawer.entries,
                           drawer.selected, t, drawer.classes)
    BY <1>0, <1>15, DrawerSteps, Zenon DEF S!Query
  <2>2. IsDrawer(drawer')
    BY <1>0, <2>1, DrawerParts, DrawerIs
  <2> QED BY <1>3, <1>15, <2>2 DEF S!Query
<1> QED BY <1>6, <1>7, <1>8, <1>9, <1>10, <1>11, <1>12, <1>13, <1>14, <1>15 DEF S!Next

(* Whatever the ledger holds of a guard, whichever reads answer, fail or    *)
(* run into their limit, and in whatever order: no row stands under an      *)
(* error, and the rows there are answer every key asked for, of one guard   *)
(* (StorageExplorer's load and the explorer reducer).                       *)
THEOREM DrawerIsHonest == S!Spec => [](S!HeldTypes /\ S!DrawerHonest)
<1>1. S!Init => HeldInv
  <2> SUFFICES ASSUME S!Init PROVE HeldInv
    OBVIOUS
  <2>1. RowsOfOne({})
    BY DEF RowsOfOne
  <2>2. drawer = DrawerOf(FALSE, FALSE, FALSE, {}, Nil, Nil, {})
    BY DEF S!Init, DrawerOf
  <2>3. IsDrawer(drawer)
    BY <2>1, <2>2, DrawerIs
  <2> QED BY <2>3, StorageFits DEF S!Init, HeldInv
<1>2. HeldInv /\ [S!Next]_(S!heldVars) => HeldInv'
  <2>1. CASE UNCHANGED S!heldVars
    BY <2>1 DEF S!heldVars, HeldInv
  <2> QED BY <2>1, HeldStep
<1>3. HeldInv => S!HeldTypes /\ S!DrawerHonest
  <2> SUFFICES ASSUME HeldInv PROVE S!HeldTypes /\ S!DrawerHonest
    OBVIOUS
  <2>1. S!HeldTypes
    BY DEF HeldInv, IsDrawer, S!HeldTypes, Classes
  <2>2. S!DrawerHonest
    BY DEF HeldInv, IsDrawer, RowsOfOne, S!DrawerHonest
  <2> QED BY <2>1, <2>2
<1> QED BY <1>1, <1>2, <1>3, PTL DEF S!Spec

-----------------------------------------------------------------------------
(* The funding of accounts.  Who is asked about is never nobody, so there is *)
(* always a next account; the poor are picked from readings of accounts of   *)
(* the deployment, by a recursion over the readings.                         *)
Readings == Seq([account : F!Funded, state : F!States])
Listed == {s \in Seq(F!Funded) : s # <<>>}
Rounds == [kind : {"check", "fund", "recheck"}, left : Listed, all : Listed, readings : Readings]

ASSUME FundsFit == FaucetLimit \in Nat /\ MaxRounds \in Nat
ASSUME NilIsNoRound == Nil \notin Rounds

FundInv ==
  /\ agent \in {y, Nil} /\ ledger \in [F!Funded -> F!States \ {"unreachable"}]
  /\ faucet \in 0..FaucetLimit /\ asking \in Rounds \cup {Nil}
  /\ balances = Nil \/ balances \in Readings
  /\ funded \subseteq [account : F!Funded, ok : BOOLEAN]
  /\ rounds \in 0..MaxRounds

LEMMA PoorTyped ==
  ASSUME NEW heard \in Readings
  PROVE  F!Poor(heard) \in Seq(F!Funded)
<1> DEFINE n == Len(heard)
           next(i, s) == IF heard[i].state \in {"absent", "unfunded"}
                         THEN Append(s, heard[i].account) ELSE s
           rule(k, f) == f[0] = <<>> /\ \A i \in 1..k : f[i] = next(i, f[i - 1])
           is(f) == f = [i \in 0..n |-> IF i = 0 THEN <<>> ELSE next(i, f[i - 1])]
           good == {k \in Nat : k <= n => \E f \in [0..k -> Seq(F!Funded)] : rule(k, f)}
<1>1. n \in Nat /\ \A i \in 1..n : heard[i].account \in F!Funded
  <2>1. PICK rowsOf : rowsOf = [account : F!Funded, state : F!States]
    OBVIOUS
  <2>2. heard \in Seq(rowsOf)
    BY <2>1 DEF Readings
  <2>3. n \in Nat /\ \A i \in 1..n : heard[i] \in rowsOf
    BY <2>2
  <2> QED BY <2>1, <2>3
<1>2. \A i \in 1..n : \A s \in Seq(F!Funded) : next(i, s) \in Seq(F!Funded)
  BY <1>1
<1>3. 0 \in good
  <2> DEFINE f == [i \in 0..0 |-> <<>>]
  <2>1. f \in [0..0 -> Seq(F!Funded)] /\ rule(0, f)
    OBVIOUS
  <2> QED BY <2>1
<1>4. ASSUME NEW k \in 1..n, k - 1 \in good PROVE k \in good
  <2>0. k \in Nat /\ k - 1 \in Nat /\ k - 1 <= n
    BY <1>1
  <2>1. PICK f \in [0..(k - 1) -> Seq(F!Funded)] : rule(k - 1, f)
    <3> HIDE DEF next, n
    <3> QED BY <1>4, <2>0
  <2>2. k \in Nat /\ k - 1 \in 0..(k - 1) /\ f[k - 1] \in Seq(F!Funded)
    BY <1>1, <2>1
  <2>3. PICK v \in Seq(F!Funded) : v = next(k, f[k - 1])
    BY <1>2, <2>2
  <2> DEFINE g == [i \in 0..k |-> IF i = k THEN v ELSE f[i]]
  <2>4. g \in [0..k -> Seq(F!Funded)]
    BY <2>1, <2>2, <2>3
  <2>5. g[k] = v /\ \A i \in 0..(k - 1) : g[i] = f[i]
    BY <2>2
  <2> HIDE DEF g, next
  <2>6. ASSUME NEW i \in 1..k PROVE g[i] = next(i, g[i - 1])
    <3>1. CASE i = k
      BY <2>2, <2>3, <2>5, <3>1
    <3>2. CASE i # k
      <4>1. i \in 1..(k - 1) /\ i - 1 \in 0..(k - 1)
        BY <2>2, <3>2
      <4> QED BY <2>1, <2>5, <4>1
    <3> QED BY <3>1, <3>2
  <2>7. g[0] = <<>>
    BY <2>1, <2>2, <2>5
  <2> QED BY <2>2, <2>4, <2>6, <2>7
<1>5. n \in good
  <2> HIDE DEF good, n
  <2> QED BY <1>1, <1>3, <1>4, Induction
<1>6. PICK f \in [0..n -> Seq(F!Funded)] : rule(n, f)
  BY <1>1, <1>5
<1>7. is(f)
  <2> HIDE DEF next, n
  <2> QED BY <1>1, <1>6
<1> DEFINE g == CHOOSE f1 : is(f1)
<1>8. is(g)
  <2> HIDE DEF is
  <2> QED BY <1>7
<1>9. F!Poor(heard) = g[n]
  BY DEF F!Poor
<1>10. rule(n, g)
  <2> HIDE DEF g, next, n
  <2> QED BY <1>1, <1>8
<1>11. g[n] \in Seq(F!Funded)
  <2> DEFINE typed == {k \in Nat : k <= n => g[k] \in Seq(F!Funded)}
  <2>1. 0 \in typed
    <3>1. g[0] = <<>>
      BY <1>10
    <3> HIDE DEF g
    <3> QED BY <3>1
  <2>2. ASSUME NEW k \in 1..n, k - 1 \in typed PROVE k \in typed
    <3>1. g[k - 1] \in Seq(F!Funded) /\ k \in Nat
      BY <1>1, <2>2
    <3> HIDE DEF next, g
    <3> QED BY <1>2, <1>10, <3>1
  <2>3. n \in typed
    <3> HIDE DEF typed, n
    <3> QED BY <1>1, <2>1, <2>2, Induction
  <2> QED BY <1>1, <2>3
<1> QED BY <1>9, <1>11

LEMMA Listing ==
  ASSUME NEW s \in Listed
  PROVE  /\ Head(s) \in F!Funded /\ Len(s) \in Nat
         /\ Len(s) # 1 => Tail(s) \in Listed
<1>1. s \in Seq(F!Funded) /\ s # <<>>
  BY DEF Listed
<1>2. Head(s) \in F!Funded /\ Len(s) \in Nat /\ Len(s) > 0
  BY <1>1
<1>3. ASSUME Len(s) # 1 PROVE Tail(s) \in Listed
  <2>1. Tail(s) \in Seq(F!Funded) /\ Len(Tail(s)) = Len(s) - 1
    BY <1>1
  <2>2. Tail(s) # <<>>
    BY <1>2, <1>3, <2>1
  <2> QED BY <2>1, <2>2 DEF Listed
<1> QED BY <1>2, <1>3

LEMMA RoundTyped ==
  ASSUME NEW kind \in {"check", "fund", "recheck"}, NEW accounts \in Listed
  PROVE  F!Round(kind, accounts) \in Rounds
<1>1. <<>> \in Readings
  BY DEF Readings
<1> QED BY <1>1 DEF F!Round, Rounds

\* What an account was read as, when it was read as poor.
LEMMA ReadAsHeld ==
  ASSUME FundInv, NEW a \in F!Funded, NEW response \in F!Responses(a)
  PROVE  /\ F!AccountState(response) \in F!States
         /\ F!AccountState(response) \in {"absent", "unfunded"} =>
              ledger[a] = F!AccountState(response)
<1>1. ledger[a] \in {"absent", "unfunded", "funded"}
  BY DEF FundInv, F!States
<1>2. CASE ledger[a] = "absent"
  BY <1>2 DEF F!Responses, F!AccountState, F!States
<1>3. CASE ledger[a] = "unfunded"
  BY <1>3 DEF F!Responses, F!AccountState, F!States
<1>4. CASE ledger[a] = "funded"
  BY <1>4 DEF F!Responses, F!AccountState, F!States
<1> QED BY <1>1, <1>2, <1>3, <1>4

\* The reading that a step of a round adds.
LEMMA ReadStep ==
  ASSUME FundInv, F!Read
  PROVE  \E account \in F!Funded, state \in F!States :
           LET made == Append(asking.readings, [account |-> account, state |-> state])
           IN /\ state \in {"absent", "unfunded"} => ledger[account] = state
              /\ made \in Readings
              /\ \/ asking' = Nil /\ balances' = made
                 \/ /\ asking' \in Rounds /\ asking'.readings = made
                    /\ balances' = balances
              /\ UNCHANGED <<agent, ledger, faucet, funded, rounds>>
<1>1. asking \in Rounds
  BY DEF FundInv, F!Read
<1>2. PICK h : h = asking
  OBVIOUS
<1>3. /\ h \in Rounds /\ h.left \in Listed /\ h.all \in Listed /\ h.readings \in Readings
      /\ h = [kind |-> h.kind, left |-> h.left, all |-> h.all, readings |-> h.readings]
  BY <1>1, <1>2 DEF Rounds
<1>4. Head(h.left) \in F!Funded /\ (Len(h.left) # 1 => Tail(h.left) \in Listed)
  BY <1>3, Listing
<1>5. PICK response \in F!Responses(Head(h.left)) :
        LET made == Append(h.readings, [account |-> Head(h.left),
                                        state |-> F!AccountState(response)])
        IN  IF Len(h.left) = 1
            THEN asking' = Nil /\ balances' = made
            ELSE /\ asking' = [h EXCEPT !.left = Tail(@), !.readings = made]
                 /\ UNCHANGED balances
  BY <1>2 DEF F!Read
<1> DEFINE state == F!AccountState(response)
           made == Append(h.readings, [account |-> Head(h.left), state |-> state])
<1>6. state \in F!States
      /\ (state \in {"absent", "unfunded"} => ledger[Head(h.left)] = state)
  BY <1>4, ReadAsHeld
<1>7. made \in Readings
  <2>1. [account |-> Head(h.left), state |-> state] \in [account : F!Funded, state : F!States]
    BY <1>4, <1>6
  <2> QED BY <1>3, <2>1 DEF Readings
<1>8. UNCHANGED <<agent, ledger, faucet, funded, rounds>>
  BY DEF F!Read
<1> HIDE DEF state
<1>9. CASE Len(h.left) = 1
  BY <1>2, <1>4, <1>5, <1>6, <1>7, <1>8, <1>9 DEF state
<1>10. CASE Len(h.left) # 1
  <2>1. asking' = [h EXCEPT !.left = Tail(@), !.readings = made] /\ balances' = balances
    BY <1>5, <1>10 DEF state
  <2> HIDE DEF made
  <2>2. asking' = [kind |-> h.kind, left |-> Tail(h.left), all |-> h.all, readings |-> made]
    BY <1>3, <2>1
  <2>3. asking' \in Rounds /\ asking'.readings = made
    BY <1>3, <1>4, <1>7, <1>10, <2>2 DEF Rounds
  <2> QED BY <1>2, <1>4, <1>6, <1>7, <1>8, <2>1, <2>3 DEF made
<1> QED BY <1>9, <1>10

LEMMA FundStep == ASSUME FundInv, F!Next PROVE FundInv'
<1>0. /\ agent \in {y, Nil} /\ ledger \in [F!Funded -> F!States \ {"unreachable"}]
      /\ faucet \in 0..FaucetLimit /\ asking \in Rounds \cup {Nil}
      /\ balances = Nil \/ balances \in Readings
      /\ funded \subseteq [account : F!Funded, ok : BOOLEAN]
      /\ rounds \in 0..MaxRounds
  BY DEF FundInv
<1>1. ASSUME NEW a \in {y, Nil}, F!EditAgent(a) PROVE FundInv'
  BY <1>0, <1>1 DEF F!EditAgent, FundInv
<1>2. \A a \in F!Funded : [ledger EXCEPT ![a] = "funded"] \in [F!Funded -> F!States \ {"unreachable"}]
  BY <1>0 DEF F!States
<1>3. ASSUME NEW a \in F!Funded, F!Paid(a) PROVE FundInv'
  BY <1>0, <1>2, <1>3 DEF F!Paid, FundInv
<1>4. ASSUME NEW kind \in {"check", "fund"}, NEW accounts \in Listed,
             asking' = F!Round(kind, accounts), funded' = {}, rounds < MaxRounds,
             rounds' = rounds + 1, UNCHANGED <<agent, ledger, faucet, balances>>
      PROVE  FundInv'
  <2>1. asking' \in Rounds
    BY <1>4, RoundTyped
  <2>2. rounds' \in 0..MaxRounds
    BY <1>0, <1>4, FundsFit
  <2> QED BY <1>0, <1>4, <2>1, <2>2 DEF FundInv
<1>5. CASE F!CheckBalances
  <2>1. F!Targets \in Listed
    <3>1. x \in F!Funded /\ (agent # Nil => agent \in F!Funded)
      BY <1>0 DEF F!Funded
    <3>2. CASE agent = Nil
      <4>1. F!Targets = <<x>>
        BY <3>2 DEF F!Targets
      <4> QED BY <3>1, <4>1 DEF Listed
    <3>3. CASE agent # Nil
      <4>1. F!Targets = <<x>> \o <<agent>>
        BY <3>3 DEF F!Targets
      <4>2. F!Targets \in Seq(F!Funded) /\ Len(F!Targets) = 2
        BY <3>1, <3>3, <4>1
      <4> QED BY <4>2 DEF Listed
    <3> QED BY <3>2, <3>3
  <2> QED BY <1>4, <1>5, <2>1 DEF F!CheckBalances
<1>6. CASE F!FundNow
  <2>1. balances \in Readings /\ F!Poor(balances) # <<>>
    BY <1>0, <1>6 DEF F!FundNow, F!NeedsFunding
  <2>2. F!Poor(balances) \in Listed
    BY <2>1, PoorTyped DEF Listed
  <2> QED BY <1>4, <1>6, <2>2 DEF F!FundNow
<1>7. CASE F!Read
  BY <1>0, <1>7, ReadStep DEF FundInv
<1>8. CASE F!Ask
  <2>1. asking \in Rounds
    BY <1>0, <1>8 DEF F!Ask
  <2>2. PICK h : h = asking
    OBVIOUS
  <2>3. /\ h.left \in Listed /\ h.all \in Listed /\ h.readings \in Readings
        /\ h.kind \in {"check", "fund", "recheck"}
        /\ h = [kind |-> h.kind, left |-> h.left, all |-> h.all, readings |-> h.readings]
    BY <2>1, <2>2 DEF Rounds
  <2>4. Head(h.left) \in F!Funded /\ (Len(h.left) # 1 => Tail(h.left) \in Listed)
    BY <2>3, Listing
  <2>5. asking' \in Rounds
    <3>1. CASE Len(h.left) = 1
      <4>1. asking' = F!Round("recheck", h.all)
        BY <1>8, <2>2, <3>1 DEF F!Ask
      <4> QED BY <2>3, <4>1, RoundTyped
    <3>2. CASE Len(h.left) # 1
      <4>1. asking' = [h EXCEPT !.left = Tail(@)]
        BY <1>8, <2>2, <3>2 DEF F!Ask
      <4>2. asking' = [kind |-> h.kind, left |-> Tail(h.left), all |-> h.all,
                       readings |-> h.readings]
        BY <2>3, <4>1
      <4> QED BY <2>3, <2>4, <3>2, <4>2 DEF Rounds
    <3> QED BY <3>1, <3>2
  <2>6. \A ok \in BOOLEAN :
          [account |-> Head(h.left), ok |-> ok] \in [account : F!Funded, ok : BOOLEAN]
    BY <2>4
  <2>7. UNCHANGED <<agent, balances, rounds>>
    BY <1>8 DEF F!Ask
  <2>8. CASE /\ faucet < FaucetLimit
             /\ ledger' = [ledger EXCEPT ![Head(h.left)] = "funded"]
             /\ faucet' = faucet + 1
             /\ funded' = funded \cup {[account |-> Head(h.left), ok |-> TRUE]}
    <3>1. funded' \subseteq [account : F!Funded, ok : BOOLEAN]
      <4>1. [account |-> Head(h.left), ok |-> TRUE] \in [account : F!Funded, ok : BOOLEAN]
        BY <2>6, Zenon
      <4> QED BY <1>0, <2>8, <4>1
    <3>2. faucet' \in 0..FaucetLimit
      BY <1>0, <2>8, FundsFit
    <3> QED BY <1>0, <1>2, <2>4, <2>5, <2>7, <2>8, <3>1, <3>2 DEF FundInv
  <2>9. CASE /\ funded' = funded \cup {[account |-> Head(h.left), ok |-> FALSE]}
             /\ UNCHANGED <<ledger, faucet>>
    <3>1. funded' \subseteq [account : F!Funded, ok : BOOLEAN]
      <4>1. [account |-> Head(h.left), ok |-> FALSE] \in [account : F!Funded, ok : BOOLEAN]
        BY <2>6, Zenon
      <4> QED BY <1>0, <2>9, <4>1
    <3> QED BY <1>0, <2>5, <2>7, <2>9, <3>1 DEF FundInv
  <2> QED BY <1>8, <2>2, <2>8, <2>9 DEF F!Ask
<1> QED BY <1>1, <1>3, <1>5, <1>6, <1>7, <1>8 DEF F!Next

LEMMA FundHolds == F!Spec => []FundInv
<1>1. F!Init => FundInv
  BY FundsFit DEF F!Init, FundInv
<1>2. FundInv /\ [F!Next]_(F!fundVars) => FundInv'
  <2>1. CASE UNCHANGED F!fundVars
    BY <2>1 DEF F!fundVars, FundInv
  <2> QED BY <2>1, FundStep
<1> QED BY <1>1, <1>2, PTL DEF F!Spec

LEMMA FundsKeepTypes == F!Spec => []F!FundTypes
<1>1. FundInv => F!FundTypes
  BY DEF FundInv, F!FundTypes, Rounds, Readings
<1> QED BY <1>1, FundHolds, PTL

(* Whatever the account server answers and whoever pays in between: an      *)
(* account is said to be poor only if the chain held too little in it when  *)
(* it was read (parseAccountPayload and interpretBalanceResponse).          *)
THEOREM PoorIsPoor == F!Spec => F!PoorWhenRead
<1> DEFINE step ==
      asking # Nil /\ asking' # asking =>
        LET done   == IF asking' = Nil THEN balances' ELSE asking'.readings
            newest == done[Len(done)]
        IN  asking.kind # "fund" /\ newest.state \in {"absent", "unfunded"} =>
              ledger[newest.account] = newest.state
<1>1. ASSUME FundInv, [F!Next]_(F!fundVars) PROVE step
  <2> SUFFICES ASSUME asking # Nil, asking' # asking, asking.kind # "fund" PROVE step
    OBVIOUS
  <2>1. CASE F!Read
    <3>1. PICK account \in F!Funded, state \in F!States :
            LET made == Append(asking.readings, [account |-> account, state |-> state])
            IN /\ state \in {"absent", "unfunded"} => ledger[account] = state
               /\ made \in Readings
               /\ \/ asking' = Nil /\ balances' = made
                  \/ /\ asking' \in Rounds /\ asking'.readings = made
                     /\ balances' = balances
      BY <1>1, <2>1, ReadStep
    <3> DEFINE made == Append(asking.readings, [account |-> account, state |-> state])
    <3>2. asking.readings \in Readings
      BY <1>1, <2>1 DEF FundInv, F!Read, Rounds
    <3>3. made[Len(made)].account = account /\ made[Len(made)].state = state
      <4>1. [account |-> account, state |-> state] \in [account : F!Funded, state : F!States]
        OBVIOUS
      <4>2. Len(made) = Len(asking.readings) + 1 /\ Len(asking.readings) \in Nat
            /\ made[Len(asking.readings) + 1] = [account |-> account, state |-> state]
        BY <3>2, <4>1 DEF Readings
      <4> QED BY <4>2
    <3> HIDE DEF made
    <3>4. (IF asking' = Nil THEN balances' ELSE asking'.readings) = made
      BY <3>1, NilIsNoRound DEF made
    <3> QED BY <3>1, <3>3, <3>4
  <2>2. CASE ~F!Read
    BY <1>1, <2>2 DEF F!Next, F!fundVars, F!EditAgent, F!Paid, F!CheckBalances, F!FundNow, F!Ask
  <2> QED BY <2>1, <2>2
<1>2. FundInv /\ [F!Next]_(F!fundVars) => [step]_(F!fundVars)
  BY <1>1
<1> HIDE DEF step
<1>3. F!Spec => [][step]_(F!fundVars)
  BY <1>2, FundHolds, PTL DEF F!Spec
<1> QED BY <1>3 DEF step, F!PoorWhenRead

-----------------------------------------------------------------------------
(* The bytecode.  The cache holds one entry for a contract and never more   *)
(* than it may; and an inspection under way has at most one read that is    *)
(* still heard, which has not answered.                                     *)
CacheRows == [at : LookedAt, hash : BuiltFiles, old : BOOLEAN]
IdReads == [of : {"artifact", "inspection"}, at : LookedAt, declared : BuiltFiles \cup {Nil},
            live : BOOLEAN]
Inspections == [at : LookedAt, cancelled : BOOLEAN, bytes : BuiltFiles \cup {Nil},
                identity : BuiltFiles \cup {Nil}]

ASSUME BytecodeFits == Entries \in Nat /\ Entries > 0 /\ MaxReads \in Nat /\ Upgrades \in Nat
ASSUME NilIsNoFile == Nil \notin BuiltFiles
ASSUME NilIsNoInspection == Nil \notin Inspections

Apart(s) == \A i, j \in DOMAIN s : s[i].at = s[j].at => i = j
Awaited(r) == r.of = "inspection" /\ r.live

CacheInv == kept \in Seq(CacheRows) /\ Len(kept) <= Entries /\ Apart(kept)
WaitInv ==
  /\ \A r \in identities : Awaited(r) => inspected # Nil /\ inspected.identity = Nil
  /\ \A r, s \in identities : Awaited(r) /\ Awaited(s) => r = s
BytecodeInv ==
  /\ declared \in [LookedAt -> BuiltFiles] /\ upgraded \in 0..Upgrades
  /\ CacheInv
  /\ identities \subseteq IdReads /\ inspected \in Inspections \cup {Nil} /\ WaitInv
  /\ artifact = Nil \/ artifact.ok \in BOOLEAN
  /\ B!RefusedForCause
  /\ report = Nil \/ report.verdict \in B!Verdicts
  /\ B!BadgeEarned
  /\ fault \in BOOLEAN

\* A sequence without one of its elements.
LEMMA LeftOver ==
  ASSUME NEW X, NEW s \in Seq(X), NEW i \in DOMAIN s
  PROVE  LET left == B!RemoveAt(s, i)
         IN /\ left \in Seq(X) /\ Len(left) = Len(s) - 1
            /\ \A k \in 1..(Len(s) - 1) : left[k] = IF k < i THEN s[k] ELSE s[k + 1]
<1> DEFINE left == B!RemoveAt(s, i)
           before == SubSeq(s, 1, i - 1)
           after == SubSeq(s, i + 1, Len(s))
<1>1. i \in 1..Len(s) /\ Len(s) \in Nat
  OBVIOUS
<1>2. left = before \o after
  BY DEF B!RemoveAt
<1>3. /\ before \in Seq(X) /\ Len(before) = i - 1
      /\ after \in Seq(X) /\ Len(after) = Len(s) - i
  BY <1>1
<1>4. \A k \in 1..(i - 1) : before[k] = s[k]
  BY <1>1
<1>5. \A k \in 1..(Len(s) - i) : after[k] = s[k + i]
  BY <1>1
<1> HIDE DEF left, before, after
<1>6. \A k \in 1..(Len(before) + Len(after)) :
        left[k] = IF k <= Len(before) THEN before[k] ELSE after[k - Len(before)]
  <2>1. \A k \in 1..(Len(before) + Len(after)) :
          (before \o after)[k] = IF k <= Len(before) THEN before[k] ELSE after[k - Len(before)]
    <3>1. before \in Seq(X) /\ after \in Seq(X)
      BY <1>3
    <3> QED BY <3>1
  <2> QED BY <1>2, <2>1
<1>7. left \in Seq(X) /\ Len(left) = Len(s) - 1
  BY <1>1, <1>2, <1>3
<1>8. ASSUME NEW k \in 1..(Len(s) - 1)
      PROVE  left[k] = IF k < i THEN s[k] ELSE s[k + 1]
  <2>1. CASE k < i
    <3>1. k \in 1..(i - 1)
      BY <1>1, <2>1
    <3>2. k \in 1..(Len(before) + Len(after)) /\ k <= Len(before)
      BY <1>1, <1>3, <3>1
    <3>3. left[k] = before[k]
      BY <1>6, <3>2
    <3> QED BY <1>4, <2>1, <3>1, <3>3
  <2>2. CASE ~(k < i)
    <3>1. k - (i - 1) \in 1..(Len(s) - i) /\ k - (i - 1) + i = k + 1
      BY <1>1, <2>2
    <3>2. k \in 1..(Len(before) + Len(after)) /\ ~(k <= Len(before))
      BY <1>1, <1>3, <2>2
    <3>3. left[k] = after[k - Len(before)]
      BY <1>6, <3>2
    <3>4. left[k] = after[k - (i - 1)]
      BY <1>3, <3>3
    <3> QED BY <1>5, <2>2, <3>1, <3>4
  <2> QED BY <2>1, <2>2
<1> QED BY <1>7, <1>8 DEF left

\* What an entry that goes leaves of a cache.
LEMMA EntryGone ==
  ASSUME NEW s \in Seq(CacheRows), Apart(s), NEW i \in DOMAIN s
  PROVE  LET left == B!RemoveAt(s, i)
         IN /\ left \in Seq(CacheRows) /\ Len(left) = Len(s) - 1 /\ Apart(left)
            /\ \A k \in DOMAIN left : left[k].at # s[i].at
<1> DEFINE left == B!RemoveAt(s, i)
           from(k) == IF k < i THEN k ELSE k + 1
<1>1. i \in 1..Len(s) /\ Len(s) \in Nat
  OBVIOUS
<1>2. left \in Seq(CacheRows) /\ Len(left) = Len(s) - 1
  BY LeftOver
<1>3. \A k \in 1..(Len(s) - 1) : left[k] = IF k < i THEN s[k] ELSE s[k + 1]
  BY LeftOver
<1> HIDE DEF left
<1>4. DOMAIN left = 1..(Len(s) - 1)
  BY <1>1, <1>2
<1>5. \A k \in DOMAIN left : from(k) \in DOMAIN s /\ from(k) # i /\ left[k] = s[from(k)]
  BY <1>1, <1>3, <1>4
<1>6. \A j, k \in DOMAIN left : from(j) = from(k) => j = k
  BY <1>1, <1>4
<1> HIDE DEF from
<1>7. Apart(left)
  BY <1>5, <1>6 DEF Apart
<1>8. \A k \in DOMAIN left : left[k].at # s[i].at
  BY <1>5 DEF Apart
<1> QED BY <1>2, <1>7, <1>8 DEF left

\* What an entry more makes of a cache that does not hold its contract.
LEMMA EntryMore ==
  ASSUME NEW s \in Seq(CacheRows), Apart(s), NEW e \in CacheRows,
         \A k \in DOMAIN s : s[k].at # e.at
  PROVE  /\ Append(s, e) \in Seq(CacheRows) /\ Len(Append(s, e)) = Len(s) + 1
         /\ Apart(Append(s, e))
<1>1. /\ Append(s, e) \in Seq(CacheRows) /\ Len(Append(s, e)) = Len(s) + 1
      /\ Len(s) \in Nat /\ DOMAIN s = 1..Len(s) /\ DOMAIN Append(s, e) = 1..(Len(s) + 1)
  OBVIOUS
<1>2. \A k \in 1..Len(s) : Append(s, e)[k] = s[k]
  OBVIOUS
<1>3. Append(s, e)[Len(s) + 1] = e
  OBVIOUS
<1> DEFINE more == Append(s, e)
<1> HIDE DEF more
<1>4. ASSUME NEW j \in 1..(Len(s) + 1), NEW k \in 1..(Len(s) + 1), more[j].at = more[k].at
      PROVE  j = k
  <2>1. CASE j \in 1..Len(s) /\ k \in 1..Len(s)
    BY <1>1, <1>2, <1>4, <2>1 DEF Apart, more
  <2>2. CASE j = Len(s) + 1 /\ k \in 1..Len(s)
    BY <1>1, <1>2, <1>3, <1>4, <2>2 DEF more
  <2>3. CASE k = Len(s) + 1 /\ j \in 1..Len(s)
    BY <1>1, <1>2, <1>3, <1>4, <2>3 DEF more
  <2> QED BY <1>1, <2>1, <2>2, <2>3
<1> QED BY <1>1, <1>4 DEF Apart, more

\* The entry of a contract, and the cache without it.
LEMMA WithoutOf ==
  ASSUME CacheInv, NEW c \in LookedAt
  PROVE  /\ B!Without(c) \in Seq(CacheRows) /\ Apart(B!Without(c))
         /\ \A k \in DOMAIN B!Without(c) : B!Without(c)[k].at # c
         /\ Len(B!Without(c)) = IF B!At(c) = {} THEN Len(kept) ELSE Len(kept) - 1
         /\ B!At(c) # {} => B!Entry(c) \in DOMAIN kept /\ kept[B!Entry(c)].at = c
<1>1. CASE B!At(c) = {}
  BY <1>1 DEF CacheInv, B!Without, B!At
<1>2. CASE B!At(c) # {}
  <2>1. B!Entry(c) \in B!At(c)
    BY <1>2 DEF B!Entry
  <2>2. PICK i : i = B!Entry(c)
    OBVIOUS
  <2>3. i \in DOMAIN kept /\ kept[i].at = c
    BY <2>1, <2>2 DEF B!At
  <2>4. B!Without(c) = B!RemoveAt(kept, i)
    BY <1>2, <2>2 DEF B!Without
  <2>5. kept \in Seq(CacheRows) /\ Apart(kept)
    BY DEF CacheInv
  <2>6. LET left == B!RemoveAt(kept, i)
        IN /\ left \in Seq(CacheRows) /\ Len(left) = Len(kept) - 1 /\ Apart(left)
           /\ \A k \in DOMAIN left : left[k].at # c
    BY <2>3, <2>5, EntryGone
  <2> QED BY <1>2, <2>2, <2>3, <2>4, <2>6
<1> QED BY <1>1, <1>2

LEMMA TouchedOf ==
  ASSUME CacheInv, NEW c \in LookedAt, kept' = B!Touched(c)
  PROVE  CacheInv'
<1>1. /\ B!Without(c) \in Seq(CacheRows) /\ Apart(B!Without(c))
      /\ \A k \in DOMAIN B!Without(c) : B!Without(c)[k].at # c
      /\ Len(B!Without(c)) = IF B!At(c) = {} THEN Len(kept) ELSE Len(kept) - 1
      /\ B!At(c) # {} => B!Entry(c) \in DOMAIN kept /\ kept[B!Entry(c)].at = c
  BY WithoutOf
<1>2. kept \in Seq(CacheRows) /\ Len(kept) <= Entries /\ Len(kept) \in Nat
  BY DEF CacheInv
<1>3. CASE ~B!Live(c)
  BY <1>1, <1>2, <1>3, BytecodeFits DEF CacheInv, B!Touched
<1>4. CASE B!Live(c)
  <2>1. B!At(c) # {}
    BY <1>4 DEF B!Live
  <2>2. kept[B!Entry(c)] \in CacheRows /\ kept[B!Entry(c)].at = c
    BY <1>1, <1>2, <2>1
  <2>3. kept' = Append(B!Without(c), kept[B!Entry(c)])
    BY <1>4 DEF B!Touched
  <2>4. kept' \in Seq(CacheRows) /\ Len(kept') = Len(B!Without(c)) + 1 /\ Apart(kept')
    BY <1>1, <2>2, <2>3, EntryMore
  <2> QED BY <1>1, <1>2, <2>1, <2>4 DEF CacheInv
<1> QED BY <1>3, <1>4

LEMMA KeptOf ==
  ASSUME CacheInv, NEW c \in LookedAt, NEW f \in BuiltFiles, B!Keep(c, f)
  PROVE  CacheInv'
<1> DEFINE room == IF B!At(c) = {} /\ Len(kept) = Entries THEN Tail(kept) ELSE B!Without(c)
           e == [at |-> c, hash |-> f, old |-> FALSE]
<1>1. /\ B!Without(c) \in Seq(CacheRows) /\ Apart(B!Without(c))
      /\ \A k \in DOMAIN B!Without(c) : B!Without(c)[k].at # c
      /\ Len(B!Without(c)) = IF B!At(c) = {} THEN Len(kept) ELSE Len(kept) - 1
  BY WithoutOf
<1>2. kept \in Seq(CacheRows) /\ Len(kept) <= Entries /\ Len(kept) \in Nat /\ Apart(kept)
  BY DEF CacheInv
<1>3. e \in CacheRows /\ e.at = c
  BY DEF CacheRows
<1>4. /\ room \in Seq(CacheRows) /\ Apart(room) /\ Len(room) < Entries
      /\ \A k \in DOMAIN room : room[k].at # c
  <2>1. CASE B!At(c) = {} /\ Len(kept) = Entries
    <3>1. Tail(kept) \in Seq(CacheRows) /\ Len(Tail(kept)) = Len(kept) - 1
          /\ DOMAIN Tail(kept) = 1..(Len(kept) - 1)
      BY <1>2, <2>1, BytecodeFits
    <3>2. \A k \in 1..(Len(kept) - 1) : Tail(kept)[k] = kept[k + 1] /\ k + 1 \in DOMAIN kept
      BY <1>2, <2>1, BytecodeFits
    <3>3. Apart(Tail(kept))
      BY <1>2, <3>1, <3>2 DEF Apart
    <3>4. \A k \in DOMAIN kept : kept[k].at # c
      BY <2>1 DEF B!At
    <3> QED BY <1>2, <2>1, <3>1, <3>2, <3>3, <3>4
  <2>2. CASE ~(B!At(c) = {} /\ Len(kept) = Entries)
    BY <1>1, <1>2, <2>2, BytecodeFits
  <2> QED BY <2>1, <2>2
<1>5. kept' = Append(room, e)
  BY DEF B!Keep
<1> HIDE DEF room, e
<1>6. kept' \in Seq(CacheRows) /\ Len(kept') = Len(room) + 1 /\ Apart(kept')
  BY <1>3, <1>4, <1>5, EntryMore
<1>7. Len(room) \in Nat
  BY <1>4
<1> QED BY <1>4, <1>6, <1>7, BytecodeFits DEF CacheInv

\* What the artifact is said to be, when it was looked at.
LEMMA CheckTells ==
  ASSUME NEW hash \in BuiltFiles, NEW claim \in BuiltFiles, NEW served,
         served = hash \/ (served = Nil /\ hash = claim),
         artifact' = B!Check(hash, claim, served)
  PROVE  artifact'.ok \in BOOLEAN /\ (B!RefusedForCause)'
<1>1. /\ artifact'.declared = claim /\ artifact'.served = served
      /\ artifact'.ok = (hash = Phase1File /\ hash = claim)
  BY DEF B!Check
<1>2. (hash = Phase1File /\ hash = claim) <=>
        (claim = Phase1File /\ served \in {Nil, Phase1File})
  BY NilIsNoFile
<1>3. CASE hash = Phase1File /\ hash = claim
  <2>1. artifact'.ok = TRUE
    BY <1>1, <1>3, Zenon
  <2>2. (claim = Phase1File /\ served \in {Nil, Phase1File}) = TRUE
    BY <1>2, <1>3
  <2> QED BY <1>1, <2>1, <2>2, Zenon DEF B!RefusedForCause
<1>4. CASE ~(hash = Phase1File /\ hash = claim)
  <2>1. artifact'.ok = FALSE
    BY <1>1, <1>4, Zenon
  <2>2. (claim = Phase1File /\ served \in {Nil, Phase1File}) = FALSE
    BY <1>2, <1>4
  <2> QED BY <1>1, <2>1, <2>2, Zenon DEF B!RefusedForCause
<1> QED BY <1>3, <1>4

\* The parts of the panel that a step may leave.
ArtifactOk == (artifact = Nil \/ artifact.ok \in BOOLEAN) /\ B!RefusedForCause
ReportOk ==
  (report = Nil \/ report.verdict \in B!Verdicts) /\ B!BadgeEarned /\ fault \in BOOLEAN

LEMMA BytecodeParts ==
  BytecodeInv <=>
    /\ declared \in [LookedAt -> BuiltFiles] /\ upgraded \in 0..Upgrades
    /\ CacheInv
    /\ identities \subseteq IdReads /\ inspected \in Inspections \cup {Nil} /\ WaitInv
    /\ ArtifactOk /\ ReportOk
BY DEF BytecodeInv, ArtifactOk, ReportOk

LEMMA ArtifactStays == ASSUME ArtifactOk, UNCHANGED artifact PROVE ArtifactOk'
BY DEF ArtifactOk, B!RefusedForCause
LEMMA ReportStays == ASSUME ReportOk, UNCHANGED <<report, fault>> PROVE ReportOk'
BY DEF ReportOk, B!BadgeEarned
LEMMA CacheStays == ASSUME CacheInv, UNCHANGED kept PROVE CacheInv'
BY DEF CacheInv

\* An inspection waits on with what is left of the reads.
LEMMA WaitsOn ==
  ASSUME WaitInv, UNCHANGED inspected,
         \A r \in identities' : Awaited(r) => r \in identities
  PROVE  WaitInv'
BY DEF WaitInv, Awaited

LEMMA AnswerStep ==
  ASSUME BytecodeInv, NEW r \in identities, NEW hash \in BuiltFiles, NEW claim \in BuiltFiles,
         NEW served, served = hash \/ (served = Nil /\ hash = claim),
         B!Answer(r, hash, claim, served),
         identities' \subseteq IdReads, \A s \in identities' : s \in identities /\ s # r,
         UNCHANGED <<declared, upgraded>>, CacheInv'
  PROVE  BytecodeInv'
<1>0. /\ declared \in [LookedAt -> BuiltFiles] /\ upgraded \in 0..Upgrades
      /\ inspected \in Inspections \cup {Nil} /\ WaitInv /\ ArtifactOk /\ ReportOk
  BY BytecodeParts
<1>1. r \in IdReads
  BY DEF BytecodeInv
<1>2. ASSUME inspected' \in Inspections \cup {Nil}, WaitInv', ArtifactOk', ReportOk'
      PROVE  BytecodeInv'
  BY <1>0, <1>2 DEF BytecodeInv, ArtifactOk, ReportOk
<1>3. CASE ~r.live
  <2>1. UNCHANGED <<artifact, inspected, report, fault>>
    BY <1>3 DEF B!Answer, B!panelVars
  <2> QED BY <1>0, <1>2, <2>1, WaitsOn, ArtifactStays, ReportStays
<1>4. CASE r.live /\ r.of = "artifact"
  <2>1. artifact' = B!Check(hash, claim, served) /\ UNCHANGED <<inspected, report, fault>>
    BY <1>4 DEF B!Answer
  <2>2. ArtifactOk'
    BY <2>1, CheckTells DEF ArtifactOk
  <2> QED BY <1>0, <1>2, <2>1, <2>2, WaitsOn, ReportStays
<1>5. CASE Awaited(r)
  <2>1. r.live /\ r.of # "artifact"
    BY <1>5 DEF Awaited
  <2>2. inspected' = [inspected EXCEPT !.identity = claim] /\ UNCHANGED <<artifact, report, fault>>
    BY <2>1 DEF B!Answer
  <2>3. inspected \in Inspections
    BY <1>0, <1>5 DEF WaitInv
  <2>4. inspected' \in Inspections
    BY <2>2, <2>3 DEF Inspections
  <2>5. \A s \in identities' : ~Awaited(s)
    BY <1>0, <1>5 DEF WaitInv
  <2>6. WaitInv'
    BY <2>5 DEF WaitInv, Awaited
  <2> QED BY <1>0, <1>2, <2>2, <2>4, <2>6, ArtifactStays, ReportStays
<1> QED BY <1>1, <1>3, <1>4, <1>5 DEF IdReads, Awaited

LEMMA BytecodeStep == ASSUME BytecodeInv, B!Next PROVE BytecodeInv'
<1>0. /\ declared \in [LookedAt -> BuiltFiles] /\ upgraded \in 0..Upgrades
      /\ CacheInv
      /\ identities \subseteq IdReads /\ inspected \in Inspections \cup {Nil} /\ WaitInv
      /\ ArtifactOk /\ ReportOk
  BY BytecodeParts
<1>1. ASSUME declared' \in [LookedAt -> BuiltFiles], upgraded' \in 0..Upgrades, CacheInv',
             identities' \subseteq IdReads, inspected' \in Inspections \cup {Nil}, WaitInv',
             ArtifactOk', ReportOk'
      PROVE  BytecodeInv'
  BY <1>1 DEF BytecodeInv, ArtifactOk, ReportOk
<1>2. ASSUME NEW i \in DOMAIN kept, B!Expire(i) PROVE BytecodeInv'
  <2>1. CacheInv'
    <3>1. kept' = [kept EXCEPT ![i].old = TRUE] /\ kept \in Seq(CacheRows)
      BY <1>0, <1>2 DEF B!Expire, CacheInv
    <3>2. PICK e \in CacheRows : e = [kept[i] EXCEPT !.old = TRUE] /\ e.at = kept[i].at
      <4>1. PICK h \in CacheRows : h = kept[i]
        BY <3>1
      <4>2. h = [at |-> h.at, hash |-> h.hash, old |-> h.old] /\ h.at \in LookedAt
            /\ h.hash \in BuiltFiles
        BY DEF CacheRows
      <4>3. \A v : [h EXCEPT !.old = v] = [at |-> h.at, hash |-> h.hash, old |-> v]
        BY <4>2
      <4>4. [h EXCEPT !.old = TRUE] = [at |-> h.at, hash |-> h.hash, old |-> TRUE]
        BY <4>3, Zenon
      <4> QED BY <4>1, <4>2, <4>4 DEF CacheRows
    <3>3. kept' = [kept EXCEPT ![i] = e]
      BY <3>1, <3>2
    <3>4. /\ kept' \in Seq(CacheRows) /\ Len(kept') = Len(kept) /\ DOMAIN kept' = DOMAIN kept
          /\ \A k \in DOMAIN kept : kept'[k] = IF k = i THEN e ELSE kept[k]
      <4>1. i \in 1..Len(kept) /\ Len(kept) \in Nat /\ \A k \in 1..Len(kept) : kept[k] \in CacheRows
        BY <3>1
      <4>2. kept' = [k \in 1..Len(kept) |-> IF k = i THEN e ELSE kept[k]]
        <5>1. kept' = [k \in DOMAIN kept |-> IF k = i THEN e ELSE kept[k]]
          BY <3>3
        <5>2. DOMAIN kept = 1..Len(kept)
          BY <3>1
        <5> QED BY <5>1, <5>2
      <4>3. DOMAIN kept' = 1..Len(kept)
            /\ \A k \in 1..Len(kept) : kept'[k] = IF k = i THEN e ELSE kept[k]
        BY <4>2
      <4>4. kept' \in Seq(CacheRows) /\ Len(kept') = Len(kept)
        BY <4>1, <4>2
      <4> QED BY <3>1, <4>3, <4>4
    <3>5. \A k \in DOMAIN kept : kept'[k].at = kept[k].at
      BY <3>2, <3>4
    <3> QED BY <1>0, <3>4, <3>5 DEF CacheInv, Apart
  <2>2. UNCHANGED <<declared, upgraded, identities, artifact, inspected, report, fault>>
    BY <1>2 DEF B!Expire, B!chainVars, B!panelVars
  <2> QED BY <1>0, <1>1, <2>1, <2>2, WaitsOn, ArtifactStays, ReportStays
<1>3. ASSUME NEW c \in LookedAt, NEW f \in BuiltFiles, B!Upgrade(c, f) PROVE BytecodeInv'
  <2>1. declared' \in [LookedAt -> BuiltFiles] /\ upgraded' \in 0..Upgrades
    BY <1>0, <1>3, BytecodeFits DEF B!Upgrade
  <2>2. UNCHANGED <<kept, identities, artifact, inspected, report, fault>>
    BY <1>3 DEF B!Upgrade, B!panelVars
  <2> QED BY <1>0, <1>1, <2>1, <2>2, WaitsOn, ArtifactStays, ReportStays, CacheStays
<1>4. ASSUME NEW c \in LookedAt, B!InspectBytecode(c) PROVE BytecodeInv'
  <2> DEFINE r == [of |-> "inspection", at |-> c, declared |-> Nil, live |-> TRUE]
             made == [at |-> c, cancelled |-> FALSE, bytes |-> Nil, identity |-> Nil]
  <2>1. r \in IdReads /\ made \in Inspections /\ made.identity = Nil
    BY DEF IdReads, Inspections
  <2>2. /\ inspected = Nil /\ inspected' = made /\ identities' = identities \cup {r}
        /\ report' = Nil /\ fault' = FALSE /\ UNCHANGED <<declared, upgraded, kept, artifact>>
    BY <1>4 DEF B!InspectBytecode, B!Begin, B!chainVars
  <2> HIDE DEF r, made
  <2>3. WaitInv'
    <3>1. \A s \in identities : ~Awaited(s)
      BY <1>0, <2>2 DEF WaitInv
    <3>2. made # Nil
      BY <2>1, NilIsNoInspection
    <3> QED BY <2>1, <2>2, <3>1, <3>2 DEF WaitInv, Awaited
  <2>4. ReportOk'
    <3>1. fault' \in BOOLEAN
      BY <2>2, Zenon
    <3> QED BY <2>2, <3>1 DEF ReportOk, B!BadgeEarned
  <2> QED BY <1>0, <1>1, <2>1, <2>2, <2>3, <2>4, ArtifactStays, CacheStays
<1>5. ASSUME NEW r \in identities, B!InstanceRead(r) PROVE BytecodeInv'
  <2> DEFINE claim == declared[r.at]
             hit == B!Hit(r.at, claim)
             asks == [r EXCEPT !.declared = claim]
  <2>1. r \in IdReads /\ r.at \in LookedAt /\ claim \in BuiltFiles
    BY <1>0 DEF IdReads
  <2>2. kept' = B!Touched(r.at) /\ UNCHANGED <<declared, upgraded>>
        /\ identities' = (identities \ {r}) \cup (IF hit THEN {} ELSE {asks})
        /\ (IF hit THEN B!Answer(r, B!Cached(r.at), claim, Nil)
            ELSE UNCHANGED <<artifact, inspected, report, fault>>)
    BY <1>5 DEF B!InstanceRead, B!chainVars, B!panelVars
  <2>3. CacheInv'
    BY <1>0, <2>1, <2>2, TouchedOf
  <2> HIDE DEF claim
  <2>4. CASE hit
    <3>1. B!Cached(r.at) = claim
      BY <2>4 DEF B!Hit
    <3> QED BY <1>0, <2>1, <2>2, <2>3, <2>4, <3>1, AnswerStep
  <2>5. CASE ~hit
    <3>1. asks = [of |-> r.of, at |-> r.at, declared |-> claim, live |-> r.live]
          /\ asks \in IdReads /\ asks.of = r.of /\ asks.live = r.live
      BY <2>1 DEF IdReads
    <3> HIDE DEF asks, hit
    <3>2. identities' \subseteq IdReads
      BY <1>0, <2>2, <2>5, <3>1
    <3>3. \A s \in identities' : s = asks \/ (s \in identities /\ s # r)
      BY <2>2, <2>5
    <3>4. UNCHANGED <<artifact, inspected, report, fault>>
      BY <2>2, <2>5
    <3>5. Awaited(asks) => Awaited(r)
      BY <3>1 DEF Awaited
    <3>6. WaitInv'
      BY <1>0, <3>3, <3>4, <3>5 DEF WaitInv, Awaited
    <3> QED BY <1>0, <1>1, <2>2, <2>3, <3>2, <3>4, <3>6, ArtifactStays, ReportStays
  <2> QED BY <2>4, <2>5
<1>6. ASSUME NEW r \in identities, NEW f \in BuiltFiles, B!BytesRead(r, f) PROVE BytecodeInv'
  <2>1. r \in IdReads /\ r.at \in LookedAt /\ r.declared \in BuiltFiles
    BY <1>0, <1>6 DEF IdReads, B!BytesRead
  <2>2. /\ identities' = identities \ {r} /\ B!Keep(r.at, f) /\ B!Answer(r, f, r.declared, f)
        /\ UNCHANGED <<declared, upgraded>>
    BY <1>6 DEF B!BytesRead, B!chainVars
  <2>3. CacheInv'
    BY <1>0, <2>1, <2>2, KeptOf
  <2> QED BY <1>0, <2>1, <2>2, <2>3, AnswerStep
<1>7. ASSUME NEW r \in identities, NEW late \in BOOLEAN, B!ReadFails(r, late)
      PROVE  BytecodeInv'
  <2> DEFINE unheard == [r EXCEPT !.live = FALSE]
  <2>1. unheard \in IdReads /\ ~unheard.live
    <3>1. r = [of |-> r.of, at |-> r.at, declared |-> r.declared, live |-> r.live]
          /\ r \in IdReads
      BY <1>0 DEF IdReads
    <3>2. \A v : [r EXCEPT !.live = v]
                   = [of |-> r.of, at |-> r.at, declared |-> r.declared, live |-> v]
      BY <3>1
    <3>3. unheard = [of |-> r.of, at |-> r.at, declared |-> r.declared, live |-> FALSE]
      BY <3>2, Zenon
    <3> QED BY <3>1, <3>3 DEF IdReads
  <2>2. /\ r.live /\ UNCHANGED <<declared, upgraded, kept>>
        /\ identities' = (identities \ {r}) \cup (IF late THEN {unheard} ELSE {})
    BY <1>7 DEF B!ReadFails, B!chainVars
  <2>3. IF r.of = "artifact" THEN artifact' = Nil /\ UNCHANGED <<inspected, report, fault>>
        ELSE inspected' = Nil /\ fault' = TRUE /\ UNCHANGED <<artifact, report>>
    BY <1>7 DEF B!ReadFails
  <2> HIDE DEF unheard
  <2>4. identities' \subseteq IdReads /\ \A s \in identities' : Awaited(s) => s \in identities /\ s # r
    BY <1>0, <2>1, <2>2 DEF Awaited
  <2>5. CASE r.of = "artifact"
    <3>1. ArtifactOk'
      BY <2>3, <2>5 DEF ArtifactOk, B!RefusedForCause
    <3> QED BY <1>0, <1>1, <2>2, <2>3, <2>4, <2>5, <3>1, WaitsOn, ReportStays, CacheStays
  <2>6. CASE r.of # "artifact"
    <3>1. Awaited(r)
      BY <1>0, <2>2, <2>6 DEF IdReads, Awaited
    <3>2. \A s \in identities' : ~Awaited(s)
      BY <1>0, <2>4, <3>1 DEF WaitInv
    <3>3. WaitInv'
      BY <3>2 DEF WaitInv, Awaited
    <3>4. fault' \in BOOLEAN
      BY <2>3, <2>6, Zenon
    <3>5. ReportOk'
      BY <1>0, <2>3, <2>6, <3>4 DEF ReportOk, B!BadgeEarned
    <3> QED BY <1>0, <1>1, <2>2, <2>3, <2>4, <2>6, <3>3, <3>5, ArtifactStays, CacheStays
  <2> QED BY <2>5, <2>6
<1>8. ASSUME NEW again1 \in BOOLEAN, B!CheckArtifact(again1) PROVE BytecodeInv'
  <2> DEFINE r == [of |-> "artifact", at |-> x, declared |-> Nil, live |-> TRUE]
  <2>0. x \in LookedAt
    BY DEF LookedAt
  <2>1. r \in IdReads /\ ~Awaited(r)
    BY <2>0 DEF IdReads, Awaited
  <2>2. /\ identities' = identities \cup {r}
        /\ kept' = (IF again1 THEN B!Without(x) ELSE kept)
        /\ UNCHANGED <<declared, upgraded, artifact, inspected, report, fault>>
    BY <1>8 DEF B!CheckArtifact, B!Begin, B!chainVars, B!panelVars
  <2> HIDE DEF r
  <2>3. CacheInv'
    <3>1. /\ B!Without(x) \in Seq(CacheRows) /\ Apart(B!Without(x))
          /\ Len(B!Without(x)) = IF B!At(x) = {} THEN Len(kept) ELSE Len(kept) - 1
      BY <1>0, <2>0, WithoutOf
    <3>2. kept \in Seq(CacheRows) /\ Len(kept) <= Entries /\ Len(kept) \in Nat /\ Apart(kept)
      BY <1>0 DEF CacheInv
    <3> QED BY <2>2, <3>1, <3>2, BytecodeFits DEF CacheInv
  <2>4. WaitInv'
    BY <1>0, <2>1, <2>2, WaitsOn
  <2> QED BY <1>0, <1>1, <2>1, <2>2, <2>3, <2>4, ArtifactStays, ReportStays
<1>9. ASSUME NEW f \in BuiltFiles, B!BytesFetched(f) PROVE BytecodeInv'
  <2>1. /\ inspected \in Inspections /\ inspected' = [inspected EXCEPT !.bytes = f]
        /\ UNCHANGED <<declared, upgraded, kept, identities, artifact, report, fault>>
    BY <1>0, <1>9 DEF B!BytesFetched, B!chainVars
  <2>2. inspected' \in Inspections /\ inspected'.identity = inspected.identity
    BY <2>1 DEF Inspections
  <2>3. WaitInv'
    BY <1>0, <2>1, <2>2, NilIsNoInspection DEF WaitInv, Awaited
  <2> QED BY <1>0, <1>1, <2>1, <2>2, <2>3, ArtifactStays, ReportStays, CacheStays
<1>10. CASE B!CancelInspect
  <2>1. /\ inspected \in Inspections /\ inspected' = [inspected EXCEPT !.cancelled = TRUE]
        /\ UNCHANGED <<declared, upgraded, kept, identities, artifact, report, fault>>
    BY <1>0, <1>10 DEF B!CancelInspect, B!chainVars
  <2>2. inspected' \in Inspections /\ inspected'.identity = inspected.identity
    <3>1. inspected = [at |-> inspected.at, cancelled |-> inspected.cancelled,
                       bytes |-> inspected.bytes, identity |-> inspected.identity]
      BY <2>1 DEF Inspections
    <3>2. inspected' = [at |-> inspected.at, cancelled |-> TRUE,
                       bytes |-> inspected.bytes, identity |-> inspected.identity]
      BY <2>1, <3>1
    <3> QED BY <2>1, <3>2 DEF Inspections
  <2>3. WaitInv'
    BY <1>0, <2>1, <2>2, NilIsNoInspection DEF WaitInv, Awaited
  <2> QED BY <1>0, <1>1, <2>1, <2>2, <2>3, ArtifactStays, ReportStays, CacheStays
<1>11. CASE B!FetchFails
  <2> DEFINE unheard(r) == IF r.of = "inspection" THEN [r EXCEPT !.live = FALSE] ELSE r
  <2>1. /\ inspected' = Nil /\ fault' = TRUE /\ identities' = {unheard(r) : r \in identities}
        /\ UNCHANGED <<declared, upgraded, kept, artifact, report>>
    BY <1>11 DEF B!FetchFails, B!chainVars
  <2>2. ASSUME NEW r \in identities PROVE unheard(r) \in IdReads /\ ~Awaited(unheard(r))
    <3>1. r = [of |-> r.of, at |-> r.at, declared |-> r.declared, live |-> r.live]
          /\ r \in IdReads
      BY <1>0 DEF IdReads
    <3>2. CASE r.of # "inspection"
      BY <3>1, <3>2 DEF Awaited
    <3>3. CASE r.of = "inspection"
      <4>1. unheard(r) = [of |-> r.of, at |-> r.at, declared |-> r.declared, live |-> FALSE]
        BY <3>1, <3>3
      <4> QED BY <3>1, <4>1 DEF IdReads, Awaited
    <3> QED BY <3>2, <3>3
  <2> HIDE DEF unheard
  <2>3. identities' \subseteq IdReads /\ \A s \in identities' : ~Awaited(s)
    BY <2>1, <2>2
  <2>4. WaitInv'
    BY <2>3 DEF WaitInv, Awaited
  <2>5. fault' \in BOOLEAN
    BY <2>1, Zenon
  <2>6. ReportOk'
    BY <1>0, <2>1, <2>5 DEF ReportOk, B!BadgeEarned
  <2> QED BY <1>0, <1>1, <2>1, <2>3, <2>4, <2>6, ArtifactStays, CacheStays
<1>12. ASSUME NEW breaks \in BOOLEAN, B!Reported(breaks) PROVE BytecodeInv'
  <2>1. /\ inspected \in Inspections /\ inspected.bytes \in BuiltFiles
        /\ inspected.identity \in BuiltFiles /\ inspected' = Nil
        /\ UNCHANGED <<declared, upgraded, kept, identities, artifact>>
    BY <1>0, <1>12 DEF B!Reported, B!chainVars, Inspections
  <2>2. WaitInv'
    BY <1>0, <2>1, NilIsNoFile DEF WaitInv, Awaited
  <2>3. ReportOk'
    <3>1. CASE B!Rejects(inspected.bytes, breaks)
      <4>1. fault' = TRUE /\ UNCHANGED report
        BY <1>12, <3>1 DEF B!Reported
      <4>2. fault' \in BOOLEAN
        BY <4>1, Zenon
      <4> QED BY <1>0, <4>1, <4>2 DEF ReportOk, B!BadgeEarned
    <3>2. CASE ~B!Rejects(inspected.bytes, breaks)
      <4>1. /\ report'.served = inspected.bytes /\ report'.declared = inspected.identity
            /\ report'.verdict = B!VerdictOf(inspected.bytes, inspected.identity)
            /\ fault' = fault
        BY <1>12, <3>2 DEF B!Reported
      <4>2. B!Readable(inspected.bytes)
        <5>1. inspected.bytes.length \in Nat
          BY <2>1 DEF BuiltFiles, Phase1File, Bytecode
        <5> QED BY <3>2, <5>1 DEF B!Rejects, B!ParseFails, B!Readable, B!Header
      <4>3. report'.verdict \in B!Verdicts
        BY <4>1 DEF B!VerdictOf, B!Verdicts
      <4>4. report'.verdict = "verified" =>
              inspected.bytes = Phase1File /\ inspected.identity = Phase1File
        BY <2>1, <4>1, NilIsNoFile DEF B!VerdictOf, B!Matches
      <4>5. (B!BadgeEarned)'
        BY <4>1, <4>2, <4>4 DEF B!BadgeEarned, B!Readable
      <4> QED BY <1>0, <4>1, <4>3, <4>5 DEF ReportOk
    <3> QED BY <3>1, <3>2
  <2> QED BY <1>0, <1>1, <2>1, <2>2, <2>3, ArtifactStays, CacheStays
<1> QED BY <1>2, <1>3, <1>4, <1>5, <1>6, <1>7, <1>8, <1>9, <1>10, <1>11, <1>12 DEF B!Next

(* Whatever the ledger declares and a provider serves, in whatever order    *)
(* they answer and whatever the cache still holds: the artifact is refused  *)
(* for what that very read said, and a verified badge is of the pinned      *)
(* bytecode, declared and served (checkArtifact, verifyWasmIdentity and     *)
(* buildIntegrityReportWithProgress).                                       *)
THEOREM BytecodeIsEarned ==
  B!Spec => [](B!BytecodeTypes /\ B!RefusedForCause /\ B!BadgeEarned)
<1>1. B!Init => BytecodeInv
  <2> SUFFICES ASSUME B!Init PROVE BytecodeInv
    OBVIOUS
  <2>1. fault \in BOOLEAN
    BY Zenon DEF B!Init
  <2>2. CacheInv
    BY BytecodeFits DEF B!Init, CacheInv, Apart
  <2>3. WaitInv
    BY DEF B!Init, WaitInv
  <2> QED BY <2>1, <2>2, <2>3, BytecodeFits
          DEF B!Init, BytecodeInv, B!RefusedForCause, B!BadgeEarned
<1>2. BytecodeInv /\ [B!Next]_(B!bytecodeVars) => BytecodeInv'
  <2>1. CASE UNCHANGED B!bytecodeVars
    BY <2>1 DEF B!bytecodeVars, BytecodeInv, CacheInv, WaitInv, Awaited, B!RefusedForCause,
                B!BadgeEarned
  <2> QED BY <2>1, BytecodeStep
<1>3. BytecodeInv => B!BytecodeTypes /\ B!RefusedForCause /\ B!BadgeEarned
  <2> SUFFICES ASSUME BytecodeInv PROVE B!BytecodeTypes
    BY DEF BytecodeInv
  <2> QED BY DEF BytecodeInv, CacheInv, Apart, IdReads, Inspections, B!BytecodeTypes
<1> QED BY <1>1, <1>2, <1>3, PTL DEF B!Spec

-----------------------------------------------------------------------------
(* The replay and the rehearsal.  A status is as old as its heartbeat when  *)
(* it is read, so what is shown of a rehearsal is the silence it projects.  *)
ASSUME ReplayFits ==
  RowLimit \in Nat /\ MaxClock \in Nat /\ SimGrace \in Nat /\ Horizon \in Nat

StatusesRead == [frozen : BOOLEAN, expired : {FALSE}, lastBeat : 0..MaxClock, at : 0..MaxClock]
Rehearsals == [scenario : R!Scenarios \cup {Nil}, startedAt : 0..MaxClock, now : 0..MaxClock]

SimInv ==
  /\ fed \in Seq(FedCalls) /\ Len(fed) <= RowLimit
  /\ candidate \in TypedPolicies \cup {Nil}
  /\ status = Nil \/ (status \in StatusesRead /\ status.lastBeat = status.at)
  /\ rehearsal \in Rehearsals
  /\ wallClock \in 0..MaxClock

LEMMA SimStep == ASSUME SimInv, R!Next PROVE SimInv'
<1>0. /\ fed \in Seq(FedCalls) /\ Len(fed) <= RowLimit
      /\ candidate \in TypedPolicies \cup {Nil}
      /\ status = Nil \/ (status \in StatusesRead /\ status.lastBeat = status.at)
      /\ rehearsal \in Rehearsals /\ wallClock \in 0..MaxClock
  BY DEF SimInv
<1>1. ASSUME NEW e \in FedCalls, R!Arrive(e) PROVE SimInv'
  <2> DEFINE more == <<e>> \o fed
             n == IF Len(more) > RowLimit THEN RowLimit ELSE Len(more)
  <2>1. more \in Seq(FedCalls) /\ Len(more) \in Nat
    BY <1>0
  <2>2. fed' = SubSeq(more, 1, n) /\ UNCHANGED <<candidate, status, rehearsal, wallClock>>
    BY <1>1 DEF R!Arrive
  <2> HIDE DEF more
  <2>3. n \in 0..Len(more) /\ n <= RowLimit
    BY <2>1, ReplayFits
  <2> HIDE DEF n
  <2>4. fed' \in Seq(FedCalls) /\ Len(fed') = n
    BY <2>1, <2>2, <2>3
  <2> QED BY <1>0, <2>2, <2>3, <2>4 DEF SimInv
<1>2. ASSUME NEW c \in TypedPolicies \cup {Nil}, R!Propose(c) PROVE SimInv'
  BY <1>0, <1>2 DEF R!Propose, SimInv
<1>3. ASSUME NEW s \in R!StatusReads, R!StatusRead(s) PROVE SimInv'
  <2>1. s = Nil \/ (s \in StatusesRead /\ s.lastBeat = s.at)
    <3>1. CASE s = Nil
      BY <3>1
    <3>2. CASE s # Nil
      <4>1. PICK f \in BOOLEAN :
              s = [frozen |-> f, expired |-> FALSE, lastBeat |-> wallClock, at |-> wallClock]
        BY <1>3, <3>2 DEF R!StatusReads
      <4>2. FALSE \in {FALSE}
        OBVIOUS
      <4> QED BY <1>0, <4>1, <4>2 DEF StatusesRead
    <3> QED BY <3>1, <3>2
  <2> QED BY <1>0, <1>3, <2>1 DEF R!StatusRead, SimInv
<1>4. ASSUME NEW scenario \in R!Scenarios, R!StartRehearsal(scenario) PROVE SimInv'
  BY <1>0, <1>4 DEF R!StartRehearsal, SimInv, Rehearsals
<1>5. CASE R!StopRehearsal
  BY <1>0, <1>5, ReplayFits DEF R!StopRehearsal, R!IdleRehearsal, SimInv, Rehearsals
<1>6. CASE R!AdvanceRehearsal
  <2>1. rehearsal' = [rehearsal EXCEPT !.now = wallClock]
        /\ UNCHANGED <<fed, candidate, status, wallClock>>
    BY <1>6 DEF R!AdvanceRehearsal
  <2>2. rehearsal' \in Rehearsals
    BY <1>0, <2>1 DEF Rehearsals
  <2> QED BY <1>0, <2>1, <2>2 DEF SimInv
<1>7. CASE R!WallTicks
  BY <1>0, <1>7, ReplayFits DEF R!WallTicks, SimInv
<1> QED BY <1>1, <1>2, <1>3, <1>4, <1>5, <1>6, <1>7 DEF R!Next

\* The silence a rehearsal shows: never more than the grace, and all of it when it has expired.
LEMMA SilenceIs ==
  ASSUME NEW r \in Rehearsals, r.scenario # Nil
  PROVE  /\ R!SilenceAge(r) \in 0..SimGrace
         /\ R!TickScenario(r) \in {"expired", "fired"} => R!SilenceAge(r) = SimGrace
<1>1. r.now \in Nat /\ r.startedAt \in Nat /\ SimGrace \in Nat /\ Horizon \in Nat
  BY ReplayFits DEF Rehearsals
<1>2. R!Elapsed(r) \in Nat
  BY <1>1 DEF R!Elapsed
<1>3. R!Remaining(r) \in Int
  BY <1>1, <1>2 DEF R!Remaining
<1>4. r.scenario = "tripped" => R!Remaining(r) <= 0
  BY <1>1, <1>2 DEF R!Remaining
<1>5. R!SilenceAge(r) \in 0..SimGrace
  BY <1>1, <1>3 DEF R!SilenceAge
<1>6. ASSUME R!TickScenario(r) \in {"expired", "fired"} PROVE R!Remaining(r) <= 0
  <2>1. CASE r.scenario = "tripped"
    BY <1>4, <2>1
  <2>2. CASE R!Remaining(r) <= -Horizon
    BY <1>1, <1>3, <2>2
  <2>3. CASE r.scenario # "tripped" /\ ~(R!Remaining(r) <= -Horizon)
    BY <1>6, <2>3 DEF R!TickScenario
  <2> QED BY <2>1, <2>2, <2>3
<1>7. R!Remaining(r) <= 0 => R!SilenceAge(r) = SimGrace
  BY <1>1, <1>3 DEF R!SilenceAge
<1> QED BY <1>5, <1>6, <1>7

(* Whatever status is read and whenever a rehearsal starts, runs on and     *)
(* stops: the heartbeat it shows is never more than one grace old, a switch *)
(* it shows as expired is exactly that old, and a freeze by the admin is    *)
(* shown as it was read (simulatedStatus and simulatedHeartbeat).           *)
THEOREM RehearsalsHold == R!Spec => [](R!SimTypes /\ R!RehearsalHoldsTogether)
<1>1. R!Init => SimInv
  BY ReplayFits DEF R!Init, R!IdleRehearsal, SimInv, Rehearsals
<1>2. SimInv /\ [R!Next]_(R!simVars) => SimInv'
  <2>1. CASE UNCHANGED R!simVars
    BY <2>1 DEF R!simVars, SimInv
  <2> QED BY <2>1, SimStep
<1>3. SimInv => R!SimTypes
  <2> SUFFICES ASSUME SimInv PROVE R!SimTypes
    OBVIOUS
  <2>1. \A i \in 1..Len(fed) : fed[i] \in FedCalls
    BY DEF SimInv
  <2>2. status = Nil \/ status.at \in 0..MaxClock
    BY DEF SimInv, StatusesRead
  <2>3. rehearsal.scenario \in R!Scenarios \cup {Nil}
    BY DEF SimInv, Rehearsals
  <2> QED BY <2>1, <2>2, <2>3 DEF SimInv, R!SimTypes
<1>4. ASSUME SimInv, status # Nil
      PROVE  /\ R!ShownStatus.at - R!ShownStatus.lastBeat <= SimGrace
             /\ R!ShownStatus.expired => R!ShownStatus.at - R!ShownStatus.lastBeat = SimGrace
             /\ R!ShownStatus.frozen = status.frozen
  <2>0. /\ status \in StatusesRead /\ status.lastBeat = status.at
        /\ SimGrace \in Nat /\ rehearsal \in Rehearsals
    BY <1>4, ReplayFits DEF SimInv
  <2>1. /\ status \in StatusesRead /\ status.lastBeat = status.at /\ status.at \in Nat
        /\ ~status.expired /\ SimGrace \in Nat /\ rehearsal \in Rehearsals
    <3>1. status.expired \in {FALSE} /\ status.at \in 0..MaxClock
      BY <2>0 DEF StatusesRead
    <3>2. ~status.expired
      BY <3>1, Zenon
    <3>3. status.at \in Nat
      BY <3>1, ReplayFits
    <3> QED BY <2>0, <3>2, <3>3, Zenon
  <2>2. CASE rehearsal.scenario = Nil
    <3>1. R!ShownStatus = status
      BY <2>2 DEF R!ShownStatus
    <3> QED BY <2>1, <3>1
  <2>3. CASE rehearsal.scenario # Nil
    <3>1. PICK age, gone : age = R!SilenceAge(rehearsal)
                           /\ gone = (R!TickScenario(rehearsal) \in {"expired", "fired"})
      OBVIOUS
    <3>2. age \in 0..SimGrace /\ (gone => age = SimGrace)
      BY <2>1, <2>3, <3>1, SilenceIs
    <3>3. R!ShownStatus = [status EXCEPT !.lastBeat = status.at - age, !.expired = gone]
      BY <1>4, <2>3, <3>1 DEF R!ShownStatus, R!SimulatedStatus
    <3>4. PICK w : w = R!ShownStatus
      OBVIOUS
    <3>5. /\ w.at = status.at /\ w.lastBeat = status.at - age /\ w.frozen = status.frozen
          /\ w.expired = gone
      BY <2>1, <3>3, <3>4 DEF StatusesRead
    <3>6. status.at - (status.at - age) = age
      BY <2>1, <3>2
    <3> QED BY <2>1, <3>2, <3>4, <3>5, <3>6
  <2> QED BY <2>2, <2>3
<1>5. SimInv => R!RehearsalHoldsTogether
  BY <1>4 DEF R!RehearsalHoldsTogether
<1> QED BY <1>1, <1>2, <1>3, <1>5, PTL DEF R!Spec

-----------------------------------------------------------------------------
(* The events.  The chart's window is a whole number of buckets, so a time  *)
(* in the window falls into exactly one of them.                            *)
ASSUME ChartFits ==
  /\ Bucket \in Nat /\ Bucket > 0 /\ Window \in Nat
  /\ Window = (Window \div Bucket) * Bucket

EventInv ==
  /\ guard \in H!Owners /\ registered \subseteq H!Owners /\ watching \in BOOLEAN
  /\ rows \subseteq FedEvents
  /\ rangeLabel \in AskedRanges \cup {Nil} /\ exportRange \in AskedRanges \cup {Nil}
  /\ asked \subseteq (H!Owners \X AskedRanges)
  /\ filters \in [H!Owners -> H!Filters \cup {Nil}]
  /\ saved \in [H!Owners -> H!Filters \cup {Nil}]
  /\ shared \in H!Filters /\ chips \subseteq H!Owners

LEMMA EventsStay ==
  ASSUME EventInv, guard' \in H!Owners, registered' \subseteq H!Owners, watching' \in BOOLEAN,
         rows' \subseteq FedEvents, rangeLabel' \in AskedRanges \cup {Nil},
         exportRange' \in AskedRanges \cup {Nil}, asked' \subseteq (H!Owners \X AskedRanges)
  PROVE  UNCHANGED <<filters, saved, shared, chips>> => EventInv'
BY DEF EventInv

LEMMA FiltersStay ==
  ASSUME EventInv, filters' \in [H!Owners -> H!Filters \cup {Nil}],
         saved' \in [H!Owners -> H!Filters \cup {Nil}], shared' \in H!Filters,
         chips' \subseteq H!Owners
  PROVE  UNCHANGED <<guard, registered, watching, rows, rangeLabel, exportRange, asked>>
           => EventInv'
BY DEF EventInv

LEMMA EventStep == ASSUME EventInv, H!Next PROVE EventInv'
<1>0. /\ guard \in H!Owners /\ registered \subseteq H!Owners /\ watching \in BOOLEAN
      /\ rows \subseteq FedEvents
      /\ rangeLabel \in AskedRanges \cup {Nil} /\ exportRange \in AskedRanges \cup {Nil}
      /\ asked \subseteq (H!Owners \X AskedRanges)
      /\ filters \in [H!Owners -> H!Filters \cup {Nil}]
      /\ saved \in [H!Owners -> H!Filters \cup {Nil}]
      /\ shared \in H!Filters /\ chips \subseteq H!Owners
  BY DEF EventInv
<1>1. ASSUME NEW e \in FedEvents, H!Arrive(e) PROVE EventInv'
  BY <1>0, <1>1, EventsStay DEF H!Arrive, H!filterVars
<1>2. CASE H!StartWatching
  <2>1. watching' \in BOOLEAN
    BY <1>2, Zenon DEF H!StartWatching
  <2> QED BY <1>0, <1>2, <2>1, EventsStay DEF H!StartWatching, H!filterVars
<1>3. CASE H!StopWatching
  <2>1. watching' \in BOOLEAN
    BY <1>3, Zenon DEF H!StopWatching
  <2> QED BY <1>0, <1>3, <2>1, EventsStay DEF H!StopWatching, H!filterVars
<1>4. CASE H!ResetEvents
  BY <1>0, <1>4, EventsStay DEF H!ResetEvents, H!filterVars
<1>5. CASE H!OpenPanel
  <2>1. \A g \in H!Owners : H!Saved(g) \in H!Filters \cup {Nil}
    BY <1>0 DEF H!Saved, H!Filters
  <2>2. filters' \in [H!Owners -> H!Filters \cup {Nil}] /\ chips' = {}
        /\ UNCHANGED <<guard, registered, watching, rows, rangeLabel, exportRange, asked, saved,
                       shared>>
    BY <1>0, <1>5, <2>1 DEF H!OpenPanel, H!feedVars
  <2> QED BY <1>0, <2>2, FiltersStay
<1>6. ASSUME NEW r \in AskedRanges, H!QueryRange(r) PROVE EventInv'
  <2>1. watching' \in BOOLEAN
    BY <1>6, Zenon DEF H!QueryRange
  <2>2. asked' \subseteq (H!Owners \X AskedRanges)
    BY <1>0, <1>6 DEF H!QueryRange
  <2> QED BY <1>0, <1>6, <2>1, <2>2, EventsStay DEF H!QueryRange, H!filterVars
<1>7. ASSUME NEW ask \in asked, H!RangeFails(ask[1], ask[2]) PROVE EventInv'
  BY <1>0, <1>7, EventsStay DEF H!RangeFails, H!filterVars
<1>8. ASSUME NEW ask \in asked, NEW page \in SUBSET H!OfRange(ask[1], ask[2]),
             H!RangeAnswered(ask[1], ask[2], page)
      PROVE  EventInv'
  <2>1. ask[2] \in AskedRanges
    BY <1>0
  <2>2. page \subseteq FedEvents
    BY DEF H!OfRange
  <2>3. asked' \subseteq (H!Owners \X AskedRanges) /\ rows' = page /\ rangeLabel' = ask[2]
        /\ UNCHANGED <<guard, registered, watching, exportRange, filters, saved, shared, chips>>
    BY <1>0, <1>8 DEF H!RangeAnswered, H!filterVars
  <2> QED BY <1>0, <2>1, <2>2, <2>3, EventsStay
<1>9. ASSUME NEW live \in BOOLEAN, H!ClearEvents(live) PROVE EventInv'
  <2>1. watching' \in BOOLEAN
    BY <1>0, <1>9, Zenon DEF H!ClearEvents
  <2> QED BY <1>0, <1>9, <2>1, EventsStay DEF H!ClearEvents, H!filterVars
<1>10. ASSUME NEW g \in H!Owners, H!SelectGuard(g) PROVE EventInv'
  BY <1>0, <1>10, EventsStay DEF H!SelectGuard, H!Selected, H!filterVars
<1>11. ASSUME NEW g \in H!Owners, H!RemoveGuard(g) PROVE EventInv'
  <2>1. saved' \in [H!Owners -> H!Filters \cup {Nil}]
    BY <1>0, <1>11 DEF H!RemoveGuard
  <2>2. registered' \subseteq H!Owners
    BY <1>0, <1>11 DEF H!RemoveGuard
  <2>3. guard' \in H!Owners /\ rows' \subseteq FedEvents /\ rangeLabel' \in AskedRanges \cup {Nil}
    BY <1>0, <1>11, <2>2 DEF H!RemoveGuard, H!Selected
  <2> QED BY <1>0, <1>11, <2>1, <2>2, <2>3 DEF H!RemoveGuard, EventInv
<1>12. ASSUME NEW g \in H!Owners, H!AddGuard(g) PROVE EventInv'
  BY <1>0, <1>12, EventsStay DEF H!AddGuard, H!filterVars
<1>13. ASSUME NEW g \in H!Owners, H!ToggleChip(g) PROVE EventInv'
  BY <1>0, <1>13, FiltersStay DEF H!ToggleChip, H!feedVars
<1>14. ASSUME NEW f \in H!Filters, NEW takes \in BOOLEAN, H!ApplyFilter(f, takes) PROVE EventInv'
  <2>1. filters' \in [H!Owners -> H!Filters \cup {Nil}]
    BY <1>0, <1>14 DEF H!ApplyFilter, H!Keep
  <2>2. saved' \in [H!Owners -> H!Filters \cup {Nil}]
    BY <1>0, <1>14 DEF H!ApplyFilter
  <2> QED BY <1>0, <1>14, <2>1, <2>2, FiltersStay DEF H!ApplyFilter, H!feedVars
<1> QED BY <1>1, <1>2, <1>3, <1>4, <1>5, <1>6, <1>7, <1>8, <1>9, <1>10, <1>11, <1>12, <1>13, <1>14
        DEF H!Next

LEMMA EventsHold == H!Spec => []EventInv
<1>1. H!Init => EventInv
  <2> SUFFICES ASSUME H!Init PROVE EventInv
    OBVIOUS
  <2>1. watching \in BOOLEAN
    BY Zenon DEF H!Init
  <2>2. saved \in [H!Owners -> H!Filters \cup {Nil}] /\ filters = saved
    BY DEF H!Init
  <2>3. shared \in H!Filters
    BY DEF H!Init, H!Filters
  <2> QED BY <2>1, <2>2, <2>3 DEF H!Init, EventInv
<1>2. EventInv /\ [H!Next]_(H!eventVars) => EventInv'
  <2>1. CASE UNCHANGED H!eventVars
    BY <2>1 DEF H!eventVars, EventInv
  <2> QED BY <2>1, EventStep
<1> QED BY <1>1, <1>2, PTL DEF H!Spec

\* A time of the window falls into one of its slots, and into one only.
LEMMA SlotOf ==
  ASSUME NEW size \in Nat, size > 0, NEW count \in Nat, NEW d \in Nat, d < count * size
  PROVE  \E j \in 1..count : (j - 1) * size <= d /\ d < (j - 1) * size + size
<1> DEFINE fits(n, t) == \E j \in 1..n : (j - 1) * size <= t /\ t < (j - 1) * size + size
           good == {n \in Nat : \A t \in Nat : t < n * size => fits(n, t)}
<1>1. 0 \in good
  <2>1. \A t \in Nat : ~(t < 0 * size)
    OBVIOUS
  <2> QED BY <2>1
<1>2. ASSUME NEW n \in 1..count, n - 1 \in good PROVE n \in good
  <2>1. n \in Nat /\ n - 1 \in Nat /\ n * size = (n - 1) * size + size
    OBVIOUS
  <2>2. ASSUME NEW t \in Nat, t < n * size PROVE fits(n, t)
    <3>1. CASE t < (n - 1) * size
      <4>1. PICK j \in 1..(n - 1) : (j - 1) * size <= t /\ t < (j - 1) * size + size
        BY <1>2, <2>2, <3>1
      <4>2. j \in 1..n
        BY <2>1
      <4> QED BY <4>1, <4>2
    <3>2. CASE ~(t < (n - 1) * size)
      <4>1. n \in 1..n /\ (n - 1) * size <= t /\ t < (n - 1) * size + size
        BY <2>1, <2>2, <3>2
      <4> QED BY <4>1
    <3> QED BY <3>1, <3>2
  <2> HIDE DEF fits
  <2> QED BY <2>1, <2>2
<1>3. count \in good
  <2> HIDE DEF good
  <2> QED BY <1>1, <1>2, Induction
<1> QED BY <1>3

LEMMA OneSlot ==
  ASSUME NEW size \in Nat, size > 0, NEW d \in Int, NEW i \in Nat, NEW j \in Nat,
         i * size <= d, d < i * size + size, j * size <= d, d < j * size + size
  PROVE  i = j
<1>1. ASSUME NEW a \in Nat, NEW b \in Nat, a < b, a * size <= d, d < a * size + size,
             b * size <= d
      PROVE  FALSE
  <2>1. PICK m \in Nat : b = a + m /\ m > 0
    <3>1. b - a \in Nat /\ b - a > 0 /\ b = a + (b - a)
      BY <1>1
    <3> QED BY <3>1
  <2>2. m * size >= size
    BY <2>1
  <2>3. b * size = a * size + m * size
    BY <2>1
  <2>4. a * size \in Int /\ m * size \in Int /\ b * size \in Int
    BY <2>1
  <2> QED BY <1>1, <2>2, <2>3, <2>4
<1>2. i < j \/ j < i \/ i = j
  OBVIOUS
<1> QED BY <1>1, <1>2

\* A time falls into the one bucket whose bounds it lies between.
LEMMA ChartCounts == EventInv => H!ChartAccounts
<1> SUFFICES ASSUME EventInv, NEW t \in Window..(2 * Window), NEW noted \in Window..t,
                    NEW e \in rows
             PROVE  LET charted == [i \in 1..(Window \div Bucket) |-> H!InBucket(i, t, noted)]
                        out == H!OutOfWindow(t, noted)
                        at == H!ChartedAt(e, noted)
                    IN /\ H!Cardinality({i \in DOMAIN charted : e \in charted[i]})
                            = IF e \in out THEN 0 ELSE 1
                       /\ t - Window + Bucket <= at /\ at <= t => e \notin out
  BY DEF H!ChartAccounts
<1> DEFINE count == Window \div Bucket
           base == H!WindowEnd(t) - Window
           at == H!ChartedAt(e, noted)
           charted == [i \in 1..count |-> H!InBucket(i, t, noted)]
           out == H!OutOfWindow(t, noted)
           within == {i \in DOMAIN charted : e \in charted[i]}
<1>1. t \in Nat /\ noted \in Nat /\ Bucket \in Nat /\ Bucket > 0 /\ Window \in Nat
  BY ChartFits
<1>2. at \in Int
  <2>1. e.at = Nil \/ e.at \in Int
    BY DEF EventInv, FedEvents
  <2> QED BY <1>1, <2>1 DEF H!ChartedAt
<1>3. count \in Nat /\ Window = count * Bucket
  BY <1>1, ChartFits
<1>4. H!WindowEnd(t) \in Int /\ t < H!WindowEnd(t) /\ H!WindowEnd(t) <= t + Bucket
  BY <1>1 DEF H!WindowEnd
<1>5. base \in Int /\ H!WindowEnd(t) = base + Window
  BY <1>1, <1>4
<1> HIDE DEF base, at, count
<1>6. e \in out <=> at < base \/ at >= base + Window
  BY <1>5 DEF H!OutOfWindow, base, at
<1>7. \A i \in 1..count :
        e \in H!InBucket(i, t, noted) <=>
          base + (i - 1) * Bucket <= at /\ at < base + (i - 1) * Bucket + Bucket
  BY DEF H!InBucket, base, at
<1>8. DOMAIN charted = 1..count /\ \A i \in 1..count : charted[i] = H!InBucket(i, t, noted)
  OBVIOUS
<1> HIDE DEF charted, out
<1>9. \A i \in 1..count :
        i \in within <=> base + (i - 1) * Bucket <= at /\ at < base + (i - 1) * Bucket + Bucket
  BY <1>7, <1>8
<1>10. within \subseteq 1..count
  BY <1>8
<1> HIDE DEF within
<1> DEFINE d == at - base
<1>11. d \in Int /\ at = base + d
  BY <1>2, <1>5
<1> HIDE DEF d
<1>12. ASSUME NEW i \in 1..count
       PROVE  i \in within <=> (i - 1) * Bucket <= d /\ d < (i - 1) * Bucket + Bucket
  <2>1. PICK n \in Int : n = (i - 1) * Bucket
    BY <1>1, <1>3
  <2>2. i \in within <=> base + n <= at /\ at < base + n + Bucket
    BY <1>9, <2>1
  <2>3. i \in within <=> n <= d /\ d < n + Bucket
    BY <1>1, <1>5, <1>11, <2>2
  <2> QED BY <2>1, <2>3
<1>13. H!Cardinality(within) = Cardinality(within)
  BY DEF H!Cardinality, Cardinality
<1>14. t - Window + Bucket <= at /\ at <= t => e \notin out
  BY <1>1, <1>2, <1>4, <1>5, <1>6
<1>15. ASSUME e \in out PROVE H!Cardinality(within) = 0
  <2>1. d < 0 \/ d >= Window
    BY <1>1, <1>5, <1>6, <1>11, <1>15
  <2>2. ASSUME NEW i \in within PROVE FALSE
    <3>1. i \in 1..count /\ (i - 1) * Bucket <= d /\ d < (i - 1) * Bucket + Bucket
      BY <1>10, <1>12
    <3>2. PICK m \in Nat : count = i + m
      <4>1. count - i \in Nat /\ count = i + (count - i)
        BY <1>3, <3>1
      <4> QED BY <4>1
    <3>3. PICK n \in Nat : i = n + 1
      <4>1. i - 1 \in Nat /\ i = (i - 1) + 1
        BY <1>3, <3>1
      <4> QED BY <4>1
    <3>4. count * Bucket = n * Bucket + Bucket + m * Bucket
      BY <1>1, <3>2, <3>3
    <3>5. n * Bucket \in Nat /\ m * Bucket \in Nat
      BY <1>1
    <3>6. n * Bucket <= d /\ d < n * Bucket + Bucket
      BY <3>1, <3>3
    <3> QED BY <1>1, <1>3, <1>11, <2>1, <3>4, <3>5, <3>6
  <2>3. within = {}
    BY <2>2
  <2>4. Cardinality(within) = 0
    BY <2>3, FS_EmptySet
  <2> QED BY <1>15, <1>13, <2>4, Zenon
<1>16. ASSUME e \notin out PROVE H!Cardinality(within) = 1
  <2>1. d \in Nat /\ d < count * Bucket
    BY <1>1, <1>2, <1>3, <1>5, <1>6, <1>11, <1>16
  <2>2. PICK j \in 1..count : (j - 1) * Bucket <= d /\ d < (j - 1) * Bucket + Bucket
    BY <1>1, <1>3, <2>1, SlotOf
  <2>3. j \in within
    BY <1>12, <2>2
  <2>4. ASSUME NEW i \in within PROVE i = j
    <3>1. i \in 1..count /\ (i - 1) * Bucket <= d /\ d < (i - 1) * Bucket + Bucket
      BY <1>10, <1>12
    <3>2. i - 1 \in Nat /\ j - 1 \in Nat
      BY <1>3, <3>1
    <3>3. i - 1 = j - 1
      BY <1>1, <1>11, <2>2, <3>1, <3>2, OneSlot
    <3> QED BY <1>3, <3>1, <3>3
  <2>5. within = {j}
    BY <2>3, <2>4
  <2>6. Cardinality(within) = 1
    BY <2>5, FS_Singleton
  <2> QED BY <1>16, <1>13, <2>6
<1>17. H!Cardinality(within) = IF e \in out THEN 0 ELSE 1
  BY <1>15, <1>16
<1>18. H!Cardinality({i \in DOMAIN charted : e \in charted[i]}) = IF e \in out THEN 0 ELSE 1
  BY <1>17 DEF within
<1> QED BY <1>14, <1>18 DEF charted, out, at, count

(* Whatever the filters, the ranges and the answers do: every event on      *)
(* screen with a time in the window is in exactly one bucket of the chart,  *)
(* none outside it is in any, and what happened in all but the last bucket  *)
(* of the window, up to now, is in it (aggregateTelemetry).                 *)
THEOREM ChartIsWhole == H!Spec => [](H!EventTypes /\ H!ChartAccounts)
<1>1. EventInv => H!EventTypes
  BY DEF EventInv, H!EventTypes
<1> QED BY <1>1, EventsHold, ChartCounts, PTL

(* Whatever is typed, saved, shared and removed in whatever order: what is  *)
(* asked of one guard's events changes only with a choice made while that   *)
(* guard is on screen, or with its removal (applyFilter, removeInstance).   *)
THEOREM FiltersStayOwn == H!Spec => H!FiltersOwn
<1> DEFINE step == H!OpenPanel \/ \A g \in H!Owners :
                     H!FilterOf(g)' # H!FilterOf(g) => g = guard \/ g \notin registered'
<1>1. ASSUME EventInv, [H!Next]_(H!eventVars) PROVE step
  <2>0. /\ filters \in [H!Owners -> H!Filters \cup {Nil}]
        /\ saved \in [H!Owners -> H!Filters \cup {Nil}]
    BY <1>1 DEF EventInv
  <2>1. ASSUME UNCHANGED <<filters, saved>> PROVE step
    BY <2>1 DEF H!FilterOf, H!Saved
  <2>2. ASSUME NEW g \in H!Owners, H!RemoveGuard(g) PROVE step
    BY <2>0, <2>2 DEF H!RemoveGuard, H!FilterOf, H!Saved
  <2>3. ASSUME NEW f \in H!Filters, NEW takes \in BOOLEAN, H!ApplyFilter(f, takes) PROVE step
    BY <2>0, <2>3 DEF H!ApplyFilter, H!Keep, H!FilterOf, H!Saved
  <2>4. CASE H!OpenPanel
    BY <2>4
  <2> HIDE DEF step
  <2>5. ASSUME H!Next, ~H!OpenPanel, ~\E g \in H!Owners : H!RemoveGuard(g),
               ~\E f \in H!Filters, takes \in BOOLEAN : H!ApplyFilter(f, takes)
        PROVE  UNCHANGED <<filters, saved>>
    BY <2>5 DEF H!Next, H!Arrive, H!StartWatching, H!StopWatching, H!ResetEvents, H!QueryRange,
                H!RangeFails, H!RangeAnswered, H!ClearEvents, H!SelectGuard, H!AddGuard,
                H!ToggleChip, H!filterVars
  <2>6. CASE UNCHANGED H!eventVars
    BY <2>1, <2>6 DEF H!eventVars
  <2> QED BY <1>1, <2>1, <2>2, <2>3, <2>4, <2>5, <2>6
<1>2. EventInv /\ [H!Next]_(H!eventVars) => [step]_(H!eventVars)
  BY <1>1
<1> HIDE DEF step
<1>3. H!Spec => [][step]_(H!eventVars)
  BY <1>2, EventsHold, PTL DEF H!Spec
<1> QED BY <1>3 DEF step, H!FiltersOwn

-----------------------------------------------------------------------------
(* The access to the network.  The four parts share nothing, so each keeps  *)
(* its own invariant: a call has been tried once more often than it has     *)
(* waited, a read that told something has stopped, and the endpoints of the *)
(* pool are turned and never lost.                                          *)
ASSUME AccessFits ==
  /\ Retries \in Nat /\ BaseDelay \in Nat /\ Ceiling \in Nat /\ HintCeiling \in Nat
  /\ MaxNow \in Nat /\ MaxFlights \in Nat /\ MaxProbes \in Nat /\ MaxProbes > 0
ASSUME NilIsNoWord == Nil \notin A!Answers /\ Nil \notin A!Tellings

Waits == [source : {"retry-after", "backoff"}, delay : Nat, requested : Nat \cup {Nil},
          clamped : BOOLEAN]
RetriedCalls ==
  [stage : {"idle", "calling", "waiting", "done"}, attempt : 0..Retries, tries : 0..Retries + 1,
   due : Nat, wait : Waits \cup {Nil}, aborted : BOOLEAN, result : A!Ends \cup {Nil}]
ReadsMade == [kind : A!Kinds \cup {Nil}, told : A!Tellings \cup {Nil}, running : BOOLEAN]
Pools == [open : BOOLEAN, current : A!Urls, fallbacks : Seq(A!Urls), failures : 0..2,
          timer : BOOLEAN]
Probes == [stage : {"idle", "asking", "reading"}, said : A!Verdicts \cup {Nil},
           begun : 0..MaxProbes]

CallOk ==
  /\ now \in 0..MaxNow /\ call \in RetriedCalls
  /\ call.stage = "idle" => call.attempt = 0 /\ call.tries = 0
  /\ call.stage = "waiting" => call.attempt < Retries
  /\ call.tries <= call.attempt + 1
  /\ failedAt # Nil => failedAt.failure \in CallFailures /\ failedAt.at \in 0..now
  /\ A!QuietKept
ReadOk ==
  /\ read \in ReadsMade /\ answer \in A!Answers \cup {Nil}
  /\ read.running => read.told = Nil
  /\ A!AbsenceWasRead
LineKept(line) == Len(line) = Len(EndpointLine) /\ A!Range(line) = A!Urls
PoolOk ==
  /\ pool \in Pools /\ LineKept(<<pool.current>> \o pool.fallbacks)
  /\ flights \in [A!Urls -> 0..MaxFlights]
ProbeOk == probe \in Probes

LEMMA CallStays == ASSUME CallOk, UNCHANGED A!callVars PROVE CallOk'
BY DEF CallOk, A!callVars, A!QuietKept
LEMMA ReadStays == ASSUME ReadOk, UNCHANGED A!readVars PROVE ReadOk'
BY DEF ReadOk, A!readVars, A!AbsenceWasRead
LEMMA PoolStays == ASSUME PoolOk, UNCHANGED A!poolVars PROVE PoolOk'
BY DEF PoolOk, A!poolVars, LineKept

\* What a call waits for when it has failed.
LEMMA HintsAreNumbers ==
  \A f \in CallFailures : f.property.n \in Nat /\ f.headers.n \in Nat /\ f.response.n \in Nat
<1>1. \A form : \A n \in Nat : Hint(form, n).n \in Nat
  BY DEF Hint
<1>2. None.n \in Nat
  BY <1>1 DEF None
<1> DEFINE fits(f) == f.property.n \in Nat /\ f.headers.n \in Nat /\ f.response.n \in Nat
<1>3. \A text, code, first, second, third :
        first.n \in Nat /\ second.n \in Nat /\ third.n \in Nat =>
          fits(Failed(text, code, first, second, third))
  BY DEF Failed
<1>4. /\ Hint("delta", 3).n \in Nat /\ Hint("delta", 2).n \in Nat /\ Hint("delta", 1).n \in Nat
      /\ Hint("date", 2).n \in Nat /\ Hint("text", 0).n \in Nat
  BY <1>1
<1> HIDE DEF fits
<1>5. \A f \in CallFailures : fits(f)
  <2>1. fits(Failed("429", 429, None, Hint("delta", 3), None))
    BY <1>2, <1>3, <1>4, ZenonT(60)
  <2>2. fits(Failed("14290", 0, None, None, None))
    BY <1>2, <1>3, <1>4, ZenonT(60)
  <2>3. fits(Failed("TIMEOUT", 0, None, Hint("delta", 2), None))
    BY <1>2, <1>3, <1>4, ZenonT(60)
  <2>4. fits(Failed("rate limit", 429, None, None, Hint("delta", 1)))
    BY <1>2, <1>3, <1>4, ZenonT(60)
  <2>5. fits(Failed("TRY_AGAIN_LATER", 0, Hint("date", 2), None, None))
    BY <1>2, <1>3, <1>4, ZenonT(60)
  <2>6. fits(Failed("429", 0, Hint("text", 0), Hint("delta", 2), None))
    BY <1>2, <1>3, <1>4, ZenonT(60)
  <2> QED BY <2>1, <2>2, <2>3, <2>4, <2>5, <2>6, ZenonT(60) DEF CallFailures
<1> QED BY <1>5 DEF fits

LEMMA WaitOf ==
  ASSUME NEW f \in CallFailures, NEW attempt \in Nat, NEW t \in Nat,
         NEW wait \in A!RetryWaits(f, attempt, t)
  PROVE  LET wanted == A!Requested(A!Carried(f), t)
         IN /\ wait \in Waits
            /\ A!RateLimited(f) /\ wanted # Nil =>
                 wait.delay >= A!Lesser(wanted, HintCeiling)
            /\ wait.delay <= IF wait.source = "backoff" THEN Ceiling ELSE HintCeiling
<1> DEFINE wanted == A!Requested(A!Carried(f), t)
<1>1. A!Carried(f).n \in Nat
  BY HintsAreNumbers DEF A!Carried
<1>2. wanted \in Nat \cup {Nil}
  BY <1>1 DEF A!Requested
<1> HIDE DEF wanted
<1>3. CASE A!RateLimited(f) /\ wanted # Nil
  <2>1. wanted \in Nat
    BY <1>2, <1>3
  <2>2. wait = [source |-> "retry-after", delay |-> A!Lesser(wanted, HintCeiling),
                requested |-> wanted, clamped |-> wanted > HintCeiling]
    BY <1>3 DEF A!RetryWaits, wanted
  <2>3. PICK least \in Nat : least = A!Lesser(wanted, HintCeiling) /\ least <= HintCeiling
    BY <2>1, AccessFits DEF A!Lesser
  <2>4. PICK over \in BOOLEAN : over = (wanted > HintCeiling)
    <3>1. (wanted > HintCeiling) \in BOOLEAN
      OBVIOUS
    <3> QED BY <3>1
  <2>5. wait = [source |-> "retry-after", delay |-> least, requested |-> wanted,
                clamped |-> over]
    BY <2>2, <2>3, <2>4
  <2>6. wait \in Waits /\ wait.delay = least /\ wait.source # "backoff"
    BY <2>1, <2>5 DEF Waits
  <2> QED BY <2>3, <2>6 DEF wanted
<1>4. CASE ~(A!RateLimited(f) /\ wanted # Nil)
  <2>1. PICK d \in 0..A!Lesser(Ceiling, BaseDelay * 2 ^ attempt) :
          wait = [source |-> "backoff", delay |-> d, requested |-> Nil, clamped |-> FALSE]
    BY <1>4 DEF A!RetryWaits, wanted
  <2>2. d \in Nat /\ d <= Ceiling
    BY <2>1, AccessFits DEF A!Lesser
  <2>3. PICK no \in BOOLEAN : no = FALSE
    BY Zenon
  <2>4. wait \in Waits /\ wait.delay = d /\ wait.source = "backoff"
    BY <2>1, <2>2, <2>3 DEF Waits
  <2> QED BY <1>4, <2>2, <2>4 DEF wanted
<1> QED BY <1>3, <1>4

\* The ends and the beginnings of an attempt.
LEMMA DoneIs ==
  ASSUME NEW c \in RetriedCalls, NEW result \in A!Ends
  PROVE  /\ A!Done(c, result) \in RetriedCalls /\ A!Done(c, result).stage = "done"
         /\ A!Done(c, result).tries = c.tries /\ A!Done(c, result).attempt = c.attempt
<1>1. PICK d : d = A!Done(c, result)
  OBVIOUS
<1>2. d = [stage |-> "done", attempt |-> c.attempt, tries |-> c.tries, due |-> c.due,
           wait |-> c.wait, aborted |-> c.aborted, result |-> result]
  BY <1>1 DEF A!Done, RetriedCalls
<1>3. d \in RetriedCalls /\ d.stage = "done" /\ d.tries = c.tries /\ d.attempt = c.attempt
  BY <1>2 DEF RetriedCalls
<1> QED BY <1>1, <1>3

LEMMA AttemptIs ==
  ASSUME NEW c \in RetriedCalls, c.tries <= c.attempt
  PROVE  LET d == A!Attempt(c)
         IN /\ d \in RetriedCalls /\ d.stage \in {"done", "calling"}
            /\ d.attempt = c.attempt /\ d.tries <= d.attempt + 1
            /\ c.aborted => d.tries = c.tries
<1>1. "cancelled" \in A!Ends
  BY DEF A!Ends
<1>2. c.attempt \in 0..Retries /\ c.tries \in Nat /\ Retries \in Nat
  BY AccessFits DEF RetriedCalls
<1>3. CASE c.aborted
  <2>1. A!Attempt(c) = A!Done(c, "cancelled")
    BY <1>3 DEF A!Attempt
  <2> QED BY <1>1, <1>2, <2>1, DoneIs
<1>4. CASE ~c.aborted
  <2>1. PICK d : d = A!Attempt(c)
    OBVIOUS
  <2>2. d = [stage |-> "calling", attempt |-> c.attempt, tries |-> c.tries + 1, due |-> c.due,
             wait |-> c.wait, aborted |-> c.aborted, result |-> c.result]
    BY <1>4, <2>1 DEF A!Attempt, RetriedCalls
  <2>3. c.tries + 1 \in 0..Retries + 1
    BY <1>2
  <2>4. d \in RetriedCalls /\ d.stage = "calling" /\ d.attempt = c.attempt /\ d.tries = c.tries + 1
    BY <2>2, <2>3 DEF RetriedCalls
  <2> QED BY <1>2, <1>4, <2>1, <2>4
<1> QED BY <1>3, <1>4

\* A step that ends an attempt or begins one.
LEMMA CallKept ==
  ASSUME CallOk, call' \in RetriedCalls, call'.stage \in {"done", "calling"},
         call'.tries <= call'.attempt + 1, UNCHANGED <<now, failedAt>>
  PROVE  CallOk'
BY DEF CallOk, A!QuietKept

\* A failed attempt: the call ends, or waits as long as it is to.
LEMMA CallFailed ==
  ASSUME CallOk, NEW f \in CallFailures, A!CallFails(f)
  PROVE  CallOk' /\ call'.tries = call.tries
<1>0. /\ now \in 0..MaxNow /\ now \in Nat /\ call \in RetriedCalls
      /\ call.tries <= call.attempt + 1 /\ call.stage = "calling" /\ UNCHANGED now
  <2>1. now \in 0..MaxNow /\ call \in RetriedCalls /\ call.tries <= call.attempt + 1
    BY DEF CallOk
  <2>2. now \in Nat
    BY <2>1, AccessFits
  <2>3. call.stage = "calling" /\ UNCHANGED now
    BY Zenon DEF A!CallFails
  <2> QED BY <2>1, <2>2, <2>3
<1>1. call.attempt \in 0..Retries /\ call.attempt \in Nat /\ call.aborted \in BOOLEAN
      /\ Retries \in Nat
  BY <1>0, AccessFits DEF RetriedCalls
<1>2. CASE call.attempt >= Retries \/ ~A!Retried(f)
  <2>1. call' = A!Done(call, "error") /\ UNCHANGED failedAt /\ "error" \in A!Ends
    BY <1>2 DEF A!CallFails, A!Ends
  <2> QED BY <1>0, <2>1, DoneIs, CallKept, SMTT(30)
<1>3. CASE ~(call.attempt >= Retries \/ ~A!Retried(f))
  <2>1. PICK wait \in A!RetryWaits(f, call.attempt, now), cancels \in BOOLEAN :
          LET told1 == [call EXCEPT !.wait = wait, !.aborted = @ \/ cancels]
          IN  call' = IF told1.aborted THEN A!Done(told1, "cancelled")
                      ELSE [told1 EXCEPT !.stage = "waiting", !.due = now + wait.delay]
    BY <1>3 DEF A!CallFails
  <2>2. failedAt' = [failure |-> f, at |-> now] /\ call.attempt < Retries
    <3>1. failedAt' = [failure |-> f, at |-> now]
      BY <1>3, Zenon DEF A!CallFails
    <3> QED BY <1>1, <1>3, <3>1
  <2>3. PICK wanted : wanted = A!Requested(A!Carried(f), now)
    OBVIOUS
  <2>4. /\ wait \in Waits
        /\ A!RateLimited(f) /\ wanted # Nil => wait.delay >= A!Lesser(wanted, HintCeiling)
        /\ wait.delay <= IF wait.source = "backoff" THEN Ceiling ELSE HintCeiling
    BY <1>0, <1>1, <2>3, WaitOf
  <2>5. wait.delay \in Nat
    BY <2>4 DEF Waits
  <2>6. PICK aborts \in BOOLEAN : aborts = (call.aborted \/ cancels)
    BY Zenon
  <2>7. PICK d : d = [call EXCEPT !.wait = wait, !.aborted = aborts]
    OBVIOUS
  <2>10. PICK over \in Nat : over = now + wait.delay
    BY <1>0, <2>5
  <2>8. PICK e : e = [d EXCEPT !.stage = "waiting", !.due = over]
    OBVIOUS
  <2>9. call' = IF d.aborted THEN A!Done(d, "cancelled") ELSE e
    BY <2>1, <2>6, <2>7, <2>8, <2>10
  <2>11. /\ d \in RetriedCalls /\ d.tries = call.tries /\ d.attempt = call.attempt
         /\ e \in RetriedCalls /\ e.tries = call.tries /\ e.attempt = call.attempt
         /\ e.stage = "waiting" /\ e.due = over /\ e.wait = wait
    <3>1. d = [stage |-> call.stage, attempt |-> call.attempt, tries |-> call.tries,
               due |-> call.due, wait |-> wait, aborted |-> aborts, result |-> call.result]
      BY <1>0, <2>7 DEF RetriedCalls
    <3>2. e = [stage |-> "waiting", attempt |-> call.attempt, tries |-> call.tries,
               due |-> over, wait |-> wait, aborted |-> aborts, result |-> call.result]
      BY <2>8, <3>1
    <3>3. wait \in Waits
      BY <2>4
    <3>4. d \in RetriedCalls /\ e \in RetriedCalls
      BY <1>0, <3>1, <3>2, <3>3 DEF RetriedCalls
    <3> QED BY <2>10, <3>1, <3>2, <3>4
  <2>12. failedAt'.failure = f /\ failedAt'.at = now
    BY <2>2
  <2>13. failedAt' # Nil => failedAt'.failure \in CallFailures /\ failedAt'.at \in 0..now'
    BY <1>0, <2>12
  <2>14. CASE d.aborted
    <3>1. call' = A!Done(d, "cancelled") /\ "cancelled" \in A!Ends
      BY <2>9, <2>14 DEF A!Ends
    <3>2. /\ call' \in RetriedCalls /\ call'.stage = "done" /\ call'.tries = call.tries
          /\ call'.attempt = call.attempt
      BY <2>11, <3>1, DoneIs
    <3>3. (A!QuietKept)'
      BY <3>2 DEF A!QuietKept
    <3> QED BY <1>0, <2>13, <3>2, <3>3 DEF CallOk
  <2>15. CASE ~d.aborted
    <3>1. call' = e
      BY <2>9, <2>15
    <3>2. (A!QuietKept)'
      <4>1. A!RateLimited(f) /\ wanted # Nil =>
              now + wait.delay >= now + A!Lesser(wanted, HintCeiling)
        <5> SUFFICES ASSUME A!RateLimited(f), wanted # Nil
                     PROVE  now + wait.delay >= now + A!Lesser(wanted, HintCeiling)
          OBVIOUS
        <5>1. A!Carried(f).n \in Nat
          BY HintsAreNumbers DEF A!Carried
        <5>2. wanted \in Nat
          BY <1>0, <2>3, <5>1 DEF A!Requested
        <5>3. A!Lesser(wanted, HintCeiling) \in Nat
          BY <5>2, AccessFits DEF A!Lesser
        <5> QED BY <1>0, <2>4, <2>5, <5>3
      <4>2. now + wait.delay <= now + (IF wait.source = "backoff" THEN Ceiling ELSE HintCeiling)
        BY <1>0, <2>4, <2>5, AccessFits
      <4> QED BY <2>3, <2>10, <2>11, <2>12, <3>1, <4>1, <4>2 DEF A!QuietKept
    <3> QED BY <1>0, <2>2, <2>11, <2>13, <3>1, <3>2 DEF CallOk
  <2> QED BY <2>14, <2>15, SMTT(30)
<1> QED BY <1>2, <1>3

LEMMA CallStep ==
  ASSUME CallOk, A!Next
  PROVE  CallOk' /\ (call.aborted => call'.tries = call.tries)
<1>0. /\ now \in 0..MaxNow /\ call \in RetriedCalls
      /\ call.stage = "idle" => call.attempt = 0 /\ call.tries = 0
      /\ call.stage = "waiting" => call.attempt < Retries
      /\ call.tries <= call.attempt + 1
  BY DEF CallOk
<1>1. /\ call.attempt \in 0..Retries /\ call.tries \in 0..Retries + 1 /\ Retries \in Nat
      /\ "value" \in A!Ends /\ "cancelled" \in A!Ends
  BY <1>0, AccessFits DEF RetriedCalls, A!Ends
<1>2. CASE A!BeginCall
  <2>1. call' = A!Attempt(call) /\ call.tries <= call.attempt /\ UNCHANGED <<now, failedAt>>
    BY <1>0, <1>2 DEF A!BeginCall
  <2> QED BY <1>0, <2>1, AttemptIs, CallKept
<1>3. CASE A!CallAnswers
  <2>1. call' = A!Done(call, "value") /\ UNCHANGED <<now, failedAt>>
    BY <1>3 DEF A!CallAnswers
  <2> QED BY <1>0, <1>1, <2>1, DoneIs, CallKept
<1>4. ASSUME NEW f \in CallFailures, A!CallFails(f)
      PROVE  CallOk' /\ call'.tries = call.tries
  BY <1>4, CallFailed
<1>5. CASE A!WaitOver
  <2>1. PICK c : c = [call EXCEPT !.attempt = @ + 1]
    OBVIOUS
  <2>2. /\ call' = A!Attempt(c) /\ UNCHANGED <<now, failedAt>> /\ call.attempt < Retries
    BY <1>0, <1>5, <2>1 DEF A!WaitOver
  <2>3. c = [stage |-> call.stage, attempt |-> call.attempt + 1, tries |-> call.tries,
             due |-> call.due, wait |-> call.wait, aborted |-> call.aborted,
             result |-> call.result]
    BY <1>0, <2>1 DEF RetriedCalls
  <2>4. call.attempt + 1 \in 0..Retries
    BY <1>1, <2>2
  <2>5. c \in RetriedCalls /\ c.tries <= c.attempt /\ c.aborted = call.aborted
        /\ c.tries = call.tries
    BY <1>0, <2>3, <2>4 DEF RetriedCalls
  <2> QED BY <1>0, <2>2, <2>5, AttemptIs, CallKept
<1>6. CASE A!Cancel
  <2>1. PICK yes \in BOOLEAN : yes = TRUE
    BY Zenon
  <2>2. PICK c : c = [call EXCEPT !.aborted = yes]
    OBVIOUS
  <2>3. c \in RetriedCalls /\ c.tries = call.tries /\ c.attempt = call.attempt
        /\ c.stage = call.stage
    <3>1. c = [stage |-> call.stage, attempt |-> call.attempt, tries |-> call.tries,
               due |-> call.due, wait |-> call.wait, aborted |-> yes, result |-> call.result]
      BY <1>0, <2>2 DEF RetriedCalls
    <3> QED BY <1>0, <3>1 DEF RetriedCalls
  <2>4. /\ call.stage \in {"calling", "waiting"} /\ UNCHANGED <<now, failedAt>>
        /\ call' = IF call.stage = "waiting" THEN A!Done(c, "cancelled") ELSE c
    BY <1>6, <2>1, <2>2 DEF A!Cancel
  <2>5. CASE call.stage = "waiting"
    BY <1>0, <1>1, <2>3, <2>4, <2>5, DoneIs, CallKept
  <2>6. CASE call.stage = "calling"
    BY <1>0, <2>3, <2>4, <2>6, CallKept
  <2> QED BY <2>4, <2>5, <2>6
<1>7. CASE A!Passes
  <2>1. now' = now + 1 /\ now < MaxNow /\ UNCHANGED <<call, failedAt>>
    BY <1>7 DEF A!Passes
  <2>2. now' \in 0..MaxNow /\ \A n \in 0..now : n \in 0..now'
    BY <1>0, <2>1, AccessFits
  <2> QED BY <2>1, <2>2 DEF CallOk, A!QuietKept
<1>8. ASSUME UNCHANGED A!callVars PROVE CallOk' /\ call' = call
  BY <1>8, CallStays DEF A!callVars
<1>9. A!BeginRead \/ A!DeadlinePasses \/ (\E a \in A!Answers : A!ReadAnswered(a)) =>
        UNCHANGED A!callVars
  BY DEF A!BeginRead, A!DeadlinePasses, A!ReadAnswered
<1>10. A!PoolSends \/ A!HealthCheck \/ A!StartHealthCheck \/ A!StopHealthCheck
       \/ (\E u \in A!Urls, failed \in BOOLEAN : A!PoolHears(u, failed)) =>
         UNCHANGED A!callVars
  BY DEF A!PoolSends, A!HealthCheck, A!StartHealthCheck, A!StopHealthCheck, A!PoolHears
<1>11. A!CheckAgain \/ A!ProbeAnswered \/ A!ProbeRead \/ A!ProbeDeadline => UNCHANGED A!callVars
  BY DEF A!CheckAgain, A!ProbeAnswered, A!ProbeRead, A!ProbeDeadline
<1>12. A!BeginCall \/ A!CallAnswers \/ A!WaitOver \/ A!Cancel \/ A!Passes
       \/ (\E f \in CallFailures : A!CallFails(f)) \/ UNCHANGED A!callVars
  BY <1>9, <1>10, <1>11, Zenon DEF A!Next
<1> QED BY <1>2, <1>3, <1>4, <1>5, <1>6, <1>7, <1>8, <1>12

LEMMA TellsAWord ==
  ASSUME NEW kind, NEW a \in A!Answers
  PROVE  /\ A!Tell(kind, a) \in A!Tellings
         /\ A!Tell(kind, a) = "null" => a = "absent"
         /\ A!Tell(kind, a) = "value" => a = "value"
BY DEF A!Tell, A!Tellings, A!Answers

\* A read that begins, that is answered, and that is out of time.
LEMMA RacedReadStep ==
  ASSUME ReadOk, A!Next
  PROVE  ReadOk' /\ (read.told # Nil => read'.told = read.told)
<1>0. /\ read \in ReadsMade /\ answer \in A!Answers \cup {Nil}
      /\ read.running => read.told = Nil
      /\ read.told = "null" => answer = "absent"
      /\ read.told = "value" => answer = "value"
  BY DEF ReadOk, A!AbsenceWasRead
<1>1. Nil # "null" /\ Nil # "value" /\ Nil # "absent" /\ Nil \notin A!Tellings
  BY NilIsNoWord DEF A!Answers, A!Tellings
<1>2. PICK no \in BOOLEAN : no = FALSE
  BY Zenon
<1>3. PICK yes \in BOOLEAN : yes = TRUE
  BY Zenon
<1>4. CASE A!BeginRead
  <2>1. PICK d : d = [read EXCEPT !.running = yes]
    OBVIOUS
  <2>2. read' = d /\ read.told = Nil /\ UNCHANGED answer
    BY <1>3, <1>4, <2>1 DEF A!BeginRead
  <2>3. d = [kind |-> read.kind, told |-> Nil, running |-> yes]
    BY <1>0, <2>1, <2>2 DEF ReadsMade
  <2>4. d \in ReadsMade /\ d.told = Nil
    BY <1>0, <2>3 DEF ReadsMade
  <2> QED BY <1>0, <1>1, <2>2, <2>4 DEF ReadOk, A!AbsenceWasRead
<1>5. ASSUME NEW a \in A!Answers, A!ReadAnswered(a)
      PROVE  ReadOk' /\ (read.told # Nil => read'.told = read.told)
  <2>1. answer = Nil /\ answer' = a
    BY <1>5 DEF A!ReadAnswered
  <2>2. CASE read.told # Nil
    <3>1. read' = read
      BY <1>5, <2>2 DEF A!ReadAnswered
    <3> QED BY <1>0, <1>1, <2>1, <3>1 DEF ReadOk, A!AbsenceWasRead
  <2>3. CASE read.told = Nil
    <3>1. PICK word : word = A!Tell(read.kind, a)
      OBVIOUS
    <3>2. word \in A!Tellings /\ (word = "null" => a = "absent") /\ (word = "value" => a = "value")
      BY <3>1, TellsAWord
    <3>3. read' = [read EXCEPT !.told = word, !.running = no]
      BY <1>2, <1>5, <2>3, <3>1 DEF A!ReadAnswered
    <3>4. read' \in ReadsMade /\ read'.told = word /\ read'.running = no
      <4>1. read' = [kind |-> read.kind, told |-> word, running |-> no]
        BY <1>0, <3>2, <3>3 DEF ReadsMade
      <4> QED BY <1>0, <3>2, <3>3, <4>1 DEF ReadsMade
    <3> QED BY <1>2, <2>1, <2>3, <3>2, <3>4 DEF ReadOk, A!AbsenceWasRead
  <2> QED BY <2>2, <2>3
<1>6. CASE A!DeadlinePasses
  <2>1. PICK word \in {"failure", "timed out"} :
          word = IF read.kind = "spec" THEN "failure" ELSE "timed out"
    OBVIOUS
  <2>2. /\ read' = [read EXCEPT !.told = word, !.running = no]
        /\ read.running /\ UNCHANGED answer
    <3>1. read' = [read EXCEPT !.running = no, !.told = word]
      BY <1>2, <1>6, <2>1 DEF A!DeadlinePasses
    <3>2. read.running /\ UNCHANGED answer
      BY <1>6 DEF A!DeadlinePasses
    <3>3. [read EXCEPT !.running = no, !.told = word] = [read EXCEPT !.told = word, !.running = no]
      BY <1>0 DEF ReadsMade
    <3> QED BY <3>1, <3>2, <3>3
  <2>3. word \in A!Tellings
    BY DEF A!Tellings
  <2>4. read' \in ReadsMade /\ read'.told = word /\ read'.running = no
    <3>1. read' = [kind |-> read.kind, told |-> word, running |-> no]
      BY <1>0, <2>2, <2>3 DEF ReadsMade
    <3> QED BY <1>0, <2>2, <2>3, <3>1 DEF ReadsMade
  <2> QED BY <1>0, <1>2, <2>2, <2>4 DEF ReadOk, A!AbsenceWasRead
<1>7. ASSUME UNCHANGED A!readVars
      PROVE  ReadOk' /\ (read.told # Nil => read'.told = read.told)
  BY <1>7, ReadStays DEF A!readVars
<1>8. A!BeginCall \/ A!CallAnswers \/ A!WaitOver \/ A!Cancel \/ A!Passes
      \/ (\E f \in CallFailures : A!CallFails(f)) => UNCHANGED A!readVars
  BY Zenon DEF A!BeginCall, A!CallAnswers, A!WaitOver, A!Cancel, A!Passes, A!CallFails, A!readVars
<1>9. A!PoolSends \/ A!HealthCheck \/ A!StartHealthCheck \/ A!StopHealthCheck
      \/ (\E u \in A!Urls, failed \in BOOLEAN : A!PoolHears(u, failed)) => UNCHANGED A!readVars
  BY Zenon DEF A!PoolSends, A!HealthCheck, A!StartHealthCheck, A!StopHealthCheck, A!PoolHears,
               A!readVars
<1>10. A!CheckAgain \/ A!ProbeAnswered \/ A!ProbeRead \/ A!ProbeDeadline => UNCHANGED A!readVars
  BY DEF A!CheckAgain, A!ProbeAnswered, A!ProbeRead, A!ProbeDeadline, A!readVars
<1>11. A!BeginRead \/ A!DeadlinePasses \/ (\E a \in A!Answers : A!ReadAnswered(a))
       \/ UNCHANGED A!readVars
  BY <1>8, <1>9, <1>10, Zenon DEF A!Next
<1> QED BY <1>4, <1>5, <1>6, <1>7, <1>11

\* The endpoint that is left goes to the end of the line, and none is lost.
LEMMA LineTurns ==
  ASSUME NEW U, NEW s \in Seq(U), s # <<>>, NEW a \in U
  PROVE  LET before == <<a>> \o s
             after  == <<Head(s)>> \o Append(Tail(s), a)
         IN  /\ Head(s) \in U /\ Append(Tail(s), a) \in Seq(U)
             /\ Len(after) = Len(before) /\ A!Range(after) = A!Range(before)
<1> DEFINE n == Len(s)
           rest == Append(Tail(s), a)
           first == Head(s)
           before == <<a>> \o s
           after  == <<first>> \o rest
<1>1. n \in Nat /\ n > 0 /\ first = s[1] /\ first \in U
  OBVIOUS
<1>2. /\ rest \in Seq(U) /\ Len(rest) = n /\ rest[n] = a
      /\ \A i \in 1..n - 1 : rest[i] = s[i + 1]
  OBVIOUS
<1>3. before \in Seq(U) /\ Len(before) = n + 1 /\ before[1] = a
      /\ \A i \in 1..n : before[i + 1] = s[i]
  OBVIOUS
<1> HIDE DEF before, rest, first
<1>4. after \in Seq(U) /\ Len(after) = n + 1 /\ after[1] = first
      /\ \A i \in 1..n : after[i + 1] = rest[i]
  BY <1>1, <1>2
<1> HIDE DEF after
<1>5. A!Range(before) = {before[i] : i \in 1..n + 1}
  BY <1>3 DEF A!Range
<1>6. A!Range(after) = {after[i] : i \in 1..n + 1}
  BY <1>4 DEF A!Range
<1> HIDE DEF n
<1>7. \A i \in 1..n + 1 : \E j \in 1..n + 1 : after[i] = before[j]
  <2> SUFFICES ASSUME NEW i \in 1..n + 1 PROVE \E j \in 1..n + 1 : after[i] = before[j]
    OBVIOUS
  <2>1. CASE i = 1
    <3>1. after[i] = before[2] /\ 2 \in 1..n + 1
      <4>1. before[1 + 1] = s[1]
        BY <1>1, <1>3
      <4> QED BY <1>1, <1>4, <2>1, <4>1
    <3> QED BY <3>1
  <2>2. CASE i = n + 1
    <3>1. after[i] = before[1] /\ 1 \in 1..n + 1
      BY <1>1, <1>2, <1>3, <1>4, <2>2
    <3> QED BY <3>1
  <2>3. CASE i # 1 /\ i # n + 1
    <3>1. PICK k \in 1..n - 1 : k = i - 1
      BY <1>1, <2>3
    <3>2. after[k + 1] = rest[k] /\ rest[k] = s[k + 1]
      BY <1>1, <1>2, <1>4
    <3>3. before[(k + 1) + 1] = s[k + 1]
      BY <1>1, <1>3
    <3>4. (k + 1) + 1 \in 1..n + 1 /\ i = k + 1
      BY <1>1, <3>1
    <3> QED BY <3>2, <3>3, <3>4
  <2> QED BY <2>1, <2>2, <2>3
<1>8. \A i \in 1..n + 1 : \E j \in 1..n + 1 : before[i] = after[j]
  <2> SUFFICES ASSUME NEW i \in 1..n + 1 PROVE \E j \in 1..n + 1 : before[i] = after[j]
    OBVIOUS
  <2>1. CASE i = 1
    <3>1. before[i] = after[n + 1] /\ n + 1 \in 1..n + 1
      BY <1>1, <1>2, <1>3, <1>4, <2>1
    <3> QED BY <3>1
  <2>2. CASE i = 2
    <3>1. before[1 + 1] = s[1]
      BY <1>1, <1>3
    <3>2. before[i] = after[1] /\ 1 \in 1..n + 1
      BY <1>1, <1>4, <2>2, <3>1
    <3> QED BY <3>2
  <2>3. CASE i # 1 /\ i # 2
    <3>1. PICK k \in 1..n - 1 : i = (k + 1) + 1
      <4>1. i - 2 \in 1..n - 1 /\ i = ((i - 2) + 1) + 1
        BY <1>1, <2>3
      <4> QED BY <4>1
    <3>2. after[k + 1] = rest[k] /\ rest[k] = s[k + 1]
      BY <1>1, <1>2, <1>4
    <3>3. before[(k + 1) + 1] = s[k + 1]
      BY <1>1, <1>3
    <3>4. k + 1 \in 1..n + 1
      BY <1>1
    <3> QED BY <3>1, <3>2, <3>3, <3>4
  <2> QED BY <2>1, <2>2, <2>3
<1>9. A!Range(after) = A!Range(before)
  BY <1>5, <1>6, <1>7, <1>8
<1> QED BY <1>1, <1>2, <1>3, <1>4, <1>9 DEF before, after, rest, first

\* One field of the pool changes, or the line turns.
LEMMA PoolIs ==
  ASSUME NEW c \in A!Urls, NEW s \in Seq(A!Urls), NEW n \in 0..2, NEW t \in BOOLEAN,
         NEW o \in BOOLEAN
  PROVE  [open |-> o, current |-> c, fallbacks |-> s, failures |-> n, timer |-> t] \in Pools
BY DEF Pools

LEMMA PoolRead ==
  ASSUME PoolOk
  PROVE  /\ pool = [open |-> pool.open, current |-> pool.current, fallbacks |-> pool.fallbacks,
                    failures |-> pool.failures, timer |-> pool.timer]
         /\ pool.open \in BOOLEAN /\ pool.current \in A!Urls /\ pool.fallbacks \in Seq(A!Urls)
         /\ pool.failures \in 0..2 /\ pool.timer \in BOOLEAN
         /\ LineKept(<<pool.current>> \o pool.fallbacks)
<1>1. PICK Lines : Lines = Seq(A!Urls)
  OBVIOUS
<1>2. pool \in [open : BOOLEAN, current : A!Urls, fallbacks : Lines, failures : 0..2,
                timer : BOOLEAN]
  BY <1>1 DEF PoolOk, Pools
<1> QED BY <1>1, <1>2 DEF PoolOk

\* A failure that is counted, and the one that is too many.
LEMMA FailureKeepsLine ==
  ASSUME PoolOk, pool' = A!HandleFailure(pool)
  PROVE  pool' \in Pools /\ LineKept(<<pool'.current>> \o pool'.fallbacks)
<1>0. /\ pool = [open |-> pool.open, current |-> pool.current, fallbacks |-> pool.fallbacks,
                 failures |-> pool.failures, timer |-> pool.timer]
      /\ pool.open \in BOOLEAN /\ pool.current \in A!Urls /\ pool.fallbacks \in Seq(A!Urls)
      /\ pool.failures \in 0..2 /\ pool.timer \in BOOLEAN
      /\ LineKept(<<pool.current>> \o pool.fallbacks)
  BY PoolRead
<1>1. CASE pool.failures + 1 >= 3 /\ pool.fallbacks # <<>>
  <2>1. PICK first, others : first = Head(pool.fallbacks)
                            /\ others = Append(Tail(pool.fallbacks), pool.current)
    OBVIOUS
  <2>2. pool' = [pool EXCEPT !.failures = 0, !.current = first, !.fallbacks = others]
    BY <1>1, <2>1 DEF A!HandleFailure, A!Failover, A!FailLimit
  <2>3. pool' = [open |-> pool.open, current |-> first, fallbacks |-> others, failures |-> 0,
                 timer |-> pool.timer]
    BY <1>0, <2>2
  <2>4. PICK U : U = A!Urls
    OBVIOUS
  <2>5. /\ first \in U /\ others \in Seq(U)
        /\ Len(<<first>> \o others) = Len(<<pool.current>> \o pool.fallbacks)
        /\ A!Range(<<first>> \o others) = A!Range(<<pool.current>> \o pool.fallbacks)
    BY <1>0, <1>1, <2>1, <2>4, LineTurns
  <2>6. pool' \in Pools
    BY <1>0, <2>3, <2>4, <2>5, PoolIs
  <2>7. LineKept(<<first>> \o others)
    BY <1>0, <2>5 DEF LineKept
  <2> QED BY <2>3, <2>6, <2>7
<1>2. CASE ~(pool.failures + 1 >= 3 /\ pool.fallbacks # <<>>)
  <2>1. PICK n \in 0..2 :
          n = IF pool.failures + 1 >= 3 THEN 0 ELSE pool.failures + 1
    BY <1>0
  <2>2. pool' = [pool EXCEPT !.failures = n]
    BY <1>2, <2>1 DEF A!HandleFailure, A!Failover, A!FailLimit
  <2>3. pool' = [open |-> pool.open, current |-> pool.current, fallbacks |-> pool.fallbacks,
                 failures |-> n, timer |-> pool.timer]
    BY <1>0, <2>2
  <2>4. pool' \in Pools
    BY <1>0, <2>3, PoolIs
  <2> QED BY <1>0, <2>3, <2>4
<1> QED BY <1>1, <1>2

LEMMA PoolStep == ASSUME PoolOk, A!Next PROVE PoolOk'
<1>0. /\ pool = [open |-> pool.open, current |-> pool.current, fallbacks |-> pool.fallbacks,
                 failures |-> pool.failures, timer |-> pool.timer]
      /\ pool.open \in BOOLEAN /\ pool.current \in A!Urls /\ pool.fallbacks \in Seq(A!Urls)
      /\ pool.failures \in 0..2 /\ pool.timer \in BOOLEAN
      /\ LineKept(<<pool.current>> \o pool.fallbacks)
  BY PoolRead
<1>1. flights \in [A!Urls -> 0..MaxFlights] /\ MaxFlights \in Nat
  BY AccessFits DEF PoolOk
<1>2. PICK no \in BOOLEAN : no = FALSE
  BY Zenon
<1>3. PICK yes \in BOOLEAN : yes = TRUE
  BY Zenon
<1>4. ASSUME A!PoolSends PROVE PoolOk'
  <2>1. /\ flights[pool.current] < MaxFlights /\ UNCHANGED pool
        /\ flights' = [flights EXCEPT ![pool.current] = @ + 1]
    BY <1>4 DEF A!PoolSends
  <2>2. flights[pool.current] + 1 \in 0..MaxFlights
    BY <1>0, <1>1, <2>1
  <2>3. flights' \in [A!Urls -> 0..MaxFlights]
    BY <1>0, <1>1, <2>1, <2>2
  <2> QED BY <2>1, <2>3 DEF PoolOk, LineKept
<1>5. ASSUME NEW u \in A!Urls, NEW failed \in BOOLEAN, A!PoolHears(u, failed) PROVE PoolOk'
  <2>1. /\ flights[u] > 0 /\ flights' = [flights EXCEPT ![u] = @ - 1]
        /\ pool' = IF failed THEN A!HandleFailure(pool) ELSE [pool EXCEPT !.failures = 0]
    BY <1>5 DEF A!PoolHears
  <2>2. flights[u] - 1 \in 0..MaxFlights
    BY <1>1, <2>1
  <2>3. flights' \in [A!Urls -> 0..MaxFlights]
    BY <1>1, <2>1, <2>2
  <2>4. pool' \in Pools /\ LineKept(<<pool'.current>> \o pool'.fallbacks)
    <3>1. CASE failed
      BY <2>1, <3>1, FailureKeepsLine
    <3>2. CASE ~failed
      <4>1. pool' = [open |-> pool.open, current |-> pool.current, fallbacks |-> pool.fallbacks,
                     failures |-> 0, timer |-> pool.timer]
        BY <1>0, <2>1, <3>2
      <4>2. pool' \in Pools
        BY <1>0, <4>1, PoolIs
      <4> QED BY <1>0, <4>1, <4>2
    <3> QED BY <3>1, <3>2
  <2> QED BY <2>3, <2>4 DEF PoolOk, LineKept
<1>6. ASSUME A!StartHealthCheck \/ A!StopHealthCheck PROVE PoolOk'
  <2>1. PICK runs \in BOOLEAN : pool' = [pool EXCEPT !.timer = runs] /\ UNCHANGED flights
    <3>1. CASE A!StartHealthCheck
      BY <1>3, <3>1 DEF A!StartHealthCheck
    <3>2. CASE A!StopHealthCheck
      BY <1>2, <3>2 DEF A!StopHealthCheck
    <3> QED BY <1>6, <3>1, <3>2
  <2>2. pool' = [open |-> pool.open, current |-> pool.current, fallbacks |-> pool.fallbacks,
                 failures |-> pool.failures, timer |-> runs]
    BY <1>0, <2>1
  <2>3. pool' \in Pools
    BY <1>0, <2>2, PoolIs
  <2> QED BY <1>0, <1>1, <2>1, <2>2, <2>3 DEF PoolOk, LineKept
<1>7. A!HealthCheck => A!PoolSends
  BY DEF A!HealthCheck
<1>8. A!BeginCall \/ A!CallAnswers \/ A!WaitOver \/ A!Cancel \/ A!Passes
      \/ (\E f \in CallFailures : A!CallFails(f)) => UNCHANGED A!poolVars
  BY Zenon DEF A!BeginCall, A!CallAnswers, A!WaitOver, A!Cancel, A!Passes, A!CallFails, A!poolVars
<1>9. A!BeginRead \/ A!DeadlinePasses \/ (\E a \in A!Answers : A!ReadAnswered(a)) =>
        UNCHANGED A!poolVars
  BY Zenon DEF A!BeginRead, A!DeadlinePasses, A!ReadAnswered, A!poolVars
<1>10. A!CheckAgain \/ A!ProbeAnswered \/ A!ProbeRead \/ A!ProbeDeadline => UNCHANGED A!poolVars
  BY DEF A!CheckAgain, A!ProbeAnswered, A!ProbeRead, A!ProbeDeadline, A!poolVars
<1>11. A!PoolSends \/ A!HealthCheck \/ A!StartHealthCheck \/ A!StopHealthCheck
       \/ (\E u \in A!Urls, failed \in BOOLEAN : A!PoolHears(u, failed))
       \/ UNCHANGED A!poolVars
  BY <1>8, <1>9, <1>10, Zenon DEF A!Next
<1> QED BY <1>4, <1>5, <1>6, <1>7, <1>11, PoolStays

LEMMA ProbeStep == ASSUME ProbeOk, A!Next PROVE ProbeOk'
<1>0. /\ probe = [stage |-> probe.stage, said |-> probe.said, begun |-> probe.begun]
      /\ probe.stage \in {"idle", "asking", "reading"} /\ probe.said \in A!Verdicts \cup {Nil}
      /\ probe.begun \in 0..MaxProbes
  BY DEF ProbeOk, Probes
<1>1. ASSUME NEW verdict \in A!Verdicts, probe' = A!Said(verdict) PROVE ProbeOk'
  <2>1. probe' = [stage |-> "idle", said |-> verdict, begun |-> probe.begun]
    BY <1>0, <1>1 DEF A!Said
  <2> QED BY <1>0, <2>1 DEF ProbeOk, Probes
<1>2. "healthy" \in A!Verdicts /\ "unavailable" \in A!Verdicts /\ "malformed" \in A!Verdicts
      /\ "timeout" \in A!Verdicts /\ "network" \in A!Verdicts
  BY DEF A!Verdicts
<1>3. CASE A!CheckAgain
  <2>1. probe' = [stage |-> "asking", said |-> probe.said, begun |-> probe.begun + 1]
        /\ probe.begun < MaxProbes
    BY <1>0, <1>3 DEF A!CheckAgain
  <2>2. probe.begun + 1 \in 0..MaxProbes
    BY <1>0, <2>1, AccessFits
  <2> QED BY <1>0, <2>1, <2>2 DEF ProbeOk, Probes
<1>4. CASE A!ProbeAnswered
  <2>1. CASE probe' = [probe EXCEPT !.stage = "reading"]
    <3>1. probe' = [stage |-> "reading", said |-> probe.said, begun |-> probe.begun]
      BY <1>0, <2>1
    <3> QED BY <1>0, <3>1 DEF ProbeOk, Probes
  <2>2. CASE probe' = A!Said("unavailable") \/ probe' = A!Said("network")
    BY <1>1, <1>2, <2>2
  <2> QED BY <1>4, <2>1, <2>2 DEF A!ProbeAnswered
<1>5. CASE A!ProbeRead
  <2>1. probe' = A!Said("healthy") \/ probe' = A!Said("malformed")
    BY <1>5 DEF A!ProbeRead
  <2> QED BY <1>1, <1>2, <2>1
<1>6. CASE A!ProbeDeadline
  <2>1. PICK verdict \in {"timeout", "malformed"} :
          verdict = IF probe.stage = "asking" THEN "timeout" ELSE "malformed"
    OBVIOUS
  <2>2. probe' = A!Said(verdict)
    BY <1>6, <2>1 DEF A!ProbeDeadline
  <2> QED BY <1>1, <1>2, <2>1, <2>2
<1>7. ASSUME UNCHANGED probe PROVE ProbeOk'
  BY <1>7 DEF ProbeOk
<1>8. A!BeginCall \/ A!CallAnswers \/ A!WaitOver \/ A!Cancel \/ A!Passes
      \/ (\E f \in CallFailures : A!CallFails(f)) => UNCHANGED probe
  BY Zenon DEF A!BeginCall, A!CallAnswers, A!WaitOver, A!Cancel, A!Passes, A!CallFails
<1>9. A!BeginRead \/ A!DeadlinePasses \/ (\E a \in A!Answers : A!ReadAnswered(a)) =>
        UNCHANGED probe
  BY Zenon DEF A!BeginRead, A!DeadlinePasses, A!ReadAnswered
<1>10. A!PoolSends \/ A!HealthCheck \/ A!StartHealthCheck \/ A!StopHealthCheck
       \/ (\E u \in A!Urls, failed \in BOOLEAN : A!PoolHears(u, failed)) => UNCHANGED probe
  BY Zenon DEF A!PoolSends, A!HealthCheck, A!StartHealthCheck, A!StopHealthCheck, A!PoolHears
<1>11. A!CheckAgain \/ A!ProbeAnswered \/ A!ProbeRead \/ A!ProbeDeadline \/ UNCHANGED probe
  BY <1>8, <1>9, <1>10, Zenon DEF A!Next
<1> QED BY <1>3, <1>4, <1>5, <1>6, <1>7, <1>11

LEMMA AccessStarts == ASSUME A!Init PROVE CallOk /\ ReadOk /\ PoolOk /\ ProbeOk
<1>1. /\ now = 0 /\ failedAt = Nil /\ answer = Nil /\ flights = [u \in A!Urls |-> 0]
  BY Zenon DEF A!Init
<1>2. PICK aborted \in BOOLEAN, subject \in A!Subjects :
        /\ call = [stage |-> IF subject = "call" THEN "idle" ELSE "done", attempt |-> 0,
                   tries |-> 0, due |-> 0, wait |-> Nil, aborted |-> aborted, result |-> Nil]
        /\ read = [kind |-> IF subject \in A!Kinds THEN subject ELSE Nil, told |-> Nil,
                   running |-> FALSE]
        /\ pool = [open |-> subject = "pool", current |-> Head(EndpointLine),
                   fallbacks |-> Tail(EndpointLine), failures |-> 0, timer |-> FALSE]
        /\ probe = [stage |-> IF subject = "probe" THEN "asking" ELSE "idle", said |-> Nil,
                    begun |-> IF subject = "probe" THEN 1 ELSE MaxProbes]
  BY Zenon DEF A!Init
<1>3. PICK no \in BOOLEAN : no = FALSE
  BY Zenon
<1>4. CallOk
  <2>1. PICK s \in {"idle", "done"} : s = IF subject = "call" THEN "idle" ELSE "done"
    OBVIOUS
  <2>2. call = [stage |-> s, attempt |-> 0, tries |-> 0, due |-> 0, wait |-> Nil,
                aborted |-> aborted, result |-> Nil]
    BY <1>2, <2>1
  <2>3. call \in RetriedCalls /\ call.stage = s /\ call.attempt = 0 /\ call.tries = 0
    BY <2>2, AccessFits DEF RetriedCalls
  <2> QED BY <1>1, <2>3, AccessFits DEF CallOk, A!QuietKept
<1>5. ReadOk
  <2>1. PICK k \in A!Kinds \cup {Nil} : k = IF subject \in A!Kinds THEN subject ELSE Nil
    OBVIOUS
  <2>2. read = [kind |-> k, told |-> Nil, running |-> no]
    BY <1>2, <1>3, <2>1
  <2>3. read \in ReadsMade /\ read.told = Nil
    BY <2>2 DEF ReadsMade
  <2>4. Nil # "null" /\ Nil # "value"
    BY NilIsNoWord DEF A!Answers, A!Tellings
  <2> QED BY <1>1, <2>3, <2>4 DEF ReadOk, A!AbsenceWasRead
<1>6. PoolOk
  <2>1. A!Urls = {x, y, z}
    BY DEF A!Urls, A!Range, EndpointLine
  <2>2. PICK opens \in BOOLEAN : opens = (subject = "pool")
    BY Zenon
  <2>3. /\ Head(EndpointLine) = x /\ Tail(EndpointLine) = <<y, z>>
        /\ <<x>> \o <<y, z>> = EndpointLine
    <3>1. PICK U : x \in U /\ y \in U /\ z \in U
      <4>1. x \in A!Urls /\ y \in A!Urls /\ z \in A!Urls
        BY <2>1
      <4> QED BY <4>1
    <3>2. /\ <<x>> \in Seq(U) /\ <<y, z>> \in Seq(U) /\ Len(<<x>>) = 1 /\ Len(<<y, z>>) = 2
          /\ EndpointLine \in Seq(U) /\ Len(EndpointLine) = 3
      BY <3>1 DEF EndpointLine
    <3>3. PICK joined : joined = <<x>> \o <<y, z>>
      OBVIOUS
    <3>4. joined \in Seq(U) /\ Len(joined) = 3 /\ joined[1] = x /\ joined[2] = y /\ joined[3] = z
      <4>1. PICK s, t : s = <<x>> /\ t = <<y, z>>
        OBVIOUS
      <4>2. s \in Seq(U) /\ t \in Seq(U) /\ Len(s) = 1 /\ Len(t) = 2 /\ s[1] = x /\ t[1] = y
            /\ t[2] = z
        BY <3>2, <4>1
      <4>3. joined = s \o t
        BY <3>3, <4>1
      <4>4. /\ s \o t \in Seq(U) /\ Len(s \o t) = Len(s) + Len(t)
            /\ \A i \in 1..Len(s) + Len(t) :
                 (s \o t)[i] = IF i <= Len(s) THEN s[i] ELSE t[i - Len(s)]
        <5>1. s \in Seq(U) /\ t \in Seq(U)
          BY <4>2
        <5> QED BY <5>1
      <4>5. \A i \in 1..3 : joined[i] = IF i <= 1 THEN s[i] ELSE t[i - 1]
        BY <4>2, <4>3, <4>4
      <4>6. joined[1] = x /\ joined[2] = y /\ joined[3] = z
        BY <4>2, <4>5
      <4> QED BY <4>2, <4>3, <4>4, <4>6
    <3>5. joined = EndpointLine
      <4>1. /\ EndpointLine[1] = x /\ EndpointLine[2] = y /\ EndpointLine[3] = z
        BY DEF EndpointLine
      <4>2. \A i \in 1..3 : i = 1 \/ i = 2 \/ i = 3
        OBVIOUS
      <4>3. \A i \in 1..3 : joined[i] = EndpointLine[i]
        BY <3>4, <4>1, <4>2
      <4> QED BY <3>2, <3>4, <4>3
    <3>6. Head(EndpointLine) = x
      BY DEF EndpointLine
    <3>7. Tail(EndpointLine) = <<y, z>>
      BY DEF EndpointLine
    <3> QED BY <3>3, <3>5, <3>6, <3>7
  <2>4. pool = [open |-> opens, current |-> x, fallbacks |-> <<y, z>>, failures |-> 0,
                timer |-> no]
    BY <1>2, <1>3, <2>2, <2>3
  <2>5. x \in A!Urls /\ <<y, z>> \in Seq(A!Urls)
    BY <2>1
  <2>6. pool \in Pools
    <3>1. 0 \in 0..2
      OBVIOUS
    <3> HIDE DEF A!Urls
    <3> QED BY <2>4, <2>5, <3>1, PoolIs
  <2>7. LineKept(<<pool.current>> \o pool.fallbacks)
    BY <2>3, <2>4 DEF LineKept, A!Urls
  <2>8. flights \in [A!Urls -> 0..MaxFlights]
    BY <1>1, AccessFits
  <2> QED BY <2>6, <2>7, <2>8 DEF PoolOk
<1>7. ProbeOk
  <2>1. PICK s \in {"idle", "asking"} : s = IF subject = "probe" THEN "asking" ELSE "idle"
    OBVIOUS
  <2>2. PICK n \in 0..MaxProbes : n = IF subject = "probe" THEN 1 ELSE MaxProbes
    BY AccessFits
  <2>3. probe = [stage |-> s, said |-> Nil, begun |-> n]
    BY <1>2, <2>1, <2>2
  <2> QED BY <2>3 DEF ProbeOk, Probes
<1> QED BY <1>4, <1>5, <1>6, <1>7

AccessInv == CallOk /\ ReadOk /\ PoolOk /\ ProbeOk
LEMMA AccessHolds == A!Init /\ [][A!Next]_(A!accessVars) => []AccessInv
<1>1. A!Init => AccessInv
  BY AccessStarts DEF AccessInv
<1>2. AccessInv /\ [A!Next]_(A!accessVars) => AccessInv'
  <2>1. ASSUME AccessInv, A!Next PROVE AccessInv'
    BY <2>1, CallStep, RacedReadStep, PoolStep, ProbeStep DEF AccessInv
  <2>2. ASSUME AccessInv, UNCHANGED A!accessVars PROVE AccessInv'
    <3>1. UNCHANGED A!callVars /\ UNCHANGED A!readVars /\ UNCHANGED A!poolVars /\ UNCHANGED probe
      BY <2>2 DEF A!accessVars, A!callVars, A!readVars, A!poolVars
    <3> QED BY <2>2, <3>1, CallStays, ReadStays, PoolStays DEF AccessInv, ProbeOk
  <2> QED BY <2>1, <2>2
<1> QED BY <1>1, <1>2, PTL

(* Whatever is asked of whatever endpoints, and however late the answers    *)
(* are: no attempt before the quiet a provider asked for is over, nothing   *)
(* read as absent but an absence, and every endpoint of the pool in the     *)
(* line exactly once (withBackoff, withTimeout, RpcPool).                   *)
THEOREM AccessIsHonest ==
  A!Init /\ [][A!Next]_(A!accessVars) => [](A!AccessTypes /\ A!AccessHonest)
<1>1. ASSUME AccessInv PROVE A!AccessTypes
  <2>1. /\ now \in 0..MaxNow
        /\ call.stage \in {"idle", "calling", "waiting", "done"} /\ call.attempt \in 0..Retries
        /\ call.tries \in 0..Retries + 1 /\ call.aborted \in BOOLEAN /\ call.due \in Nat
        /\ call.result \in A!Ends \cup {Nil}
        /\ failedAt # Nil => failedAt.failure \in CallFailures /\ failedAt.at \in 0..now
    BY <1>1 DEF AccessInv, CallOk, RetriedCalls
  <2>2. /\ read.kind \in A!Kinds \cup {Nil} /\ read.told \in A!Tellings \cup {Nil}
        /\ read.running \in BOOLEAN /\ answer \in A!Answers \cup {Nil}
    BY <1>1 DEF AccessInv, ReadOk, ReadsMade
  <2>3. /\ pool.current \in A!Urls /\ pool.fallbacks \in Seq(A!Urls)
        /\ pool.failures \in 0..A!FailLimit - 1 /\ pool.timer \in BOOLEAN
    BY <1>1, PoolRead DEF AccessInv, A!FailLimit
  <2>4. \A u \in A!Urls : flights[u] \in 0..MaxFlights
    BY <1>1 DEF AccessInv, PoolOk
  <2>5. /\ probe.stage \in {"idle", "asking", "reading"} /\ probe.begun \in 0..MaxProbes
        /\ probe.said \in A!Verdicts \cup {Nil}
    BY <1>1 DEF AccessInv, ProbeOk, Probes
  <2> QED BY <2>1, <2>2, <2>3, <2>4, <2>5 DEF A!AccessTypes
<1>2. ASSUME AccessInv PROVE A!AccessHonest
  BY <1>2 DEF AccessInv, CallOk, ReadOk, PoolOk, LineKept, A!AccessHonest, A!EndpointsKept
<1> QED BY <1>1, <1>2, AccessHolds, PTL

(* No attempt after the call was cancelled, and what a read told is what it *)
(* goes on telling: the answer that comes after the deadline is dropped.    *)
THEOREM CallsDoSettle == A!Init /\ [][A!Next]_(A!accessVars) => A!CallsSettle
<1> DEFINE step == /\ call.aborted => call'.tries = call.tries
                   /\ read.told # Nil => read'.told = read.told
<1>1. ASSUME AccessInv, A!Next PROVE step
  BY <1>1, CallStep, RacedReadStep DEF AccessInv
<1>2. AccessInv /\ [A!Next]_(A!accessVars) => [step]_(A!accessVars)
  BY <1>1
<1> HIDE DEF step
<1>3. A!Init /\ [][A!Next]_(A!accessVars) => [][step]_(A!accessVars)
  BY <1>2, AccessHolds, PTL
<1> QED BY <1>3 DEF step, A!CallsSettle

-----------------------------------------------------------------------------
(* The composition: what is proved of a part holds of every behaviour.      *)

(* Every behaviour of the screens is one of each of their parts: the part   *)
(* that was chosen takes its steps, the others stay as they are.            *)
THEOREM PartsBehave ==
  Spec => /\ E!Spec /\ P!Spec /\ M!Spec /\ W!Spec /\ N!Spec /\ V!Spec
          /\ B!Spec /\ S!Spec /\ F!Spec /\ R!Spec /\ H!Spec
          /\ T!Init /\ [][T!Next]_(T!trackVars)
          /\ A!Init /\ [][A!Next]_(A!accessVars)
<1>1. Init => /\ E!Init /\ P!Init /\ M!Init /\ W!Init /\ N!Init /\ V!Init
              /\ B!Init /\ S!Init /\ F!Init /\ R!Init /\ H!Init /\ T!Init /\ A!Init
  BY Zenon DEF Init
<1>2. [Next]_vars => [E!Next]_(E!envelopeVars)
  BY Zenon DEF Next, vars, envelopeVars, E!envelopeVars
<1>3. [Next]_vars => [P!Next]_(P!panicVars)
  BY Zenon DEF Next, vars, panicVars, P!panicVars
<1>4. [Next]_vars => [M!Next]_(M!moveVars)
  BY Zenon DEF Next, vars, moveVars, M!moveVars
<1>5. [Next]_vars => [W!Next]_(W!walletVars)
  BY Zenon DEF Next, vars, providerVars, W!walletVars
<1>6. [Next]_vars => [N!Next]_(N!talkVars)
  BY Zenon DEF Next, vars, talkVars, N!talkVars
<1>7. [Next]_vars => [V!Next]_(V!viewVars)
  BY Zenon DEF Next, vars, viewVars, V!viewVars
<1>8. [Next]_vars => [B!Next]_(B!bytecodeVars)
  BY Zenon DEF Next, vars, bytecodeVars, B!bytecodeVars
<1>9. [Next]_vars => [S!Next]_(S!heldVars)
  BY Zenon DEF Next, vars, heldVars, S!heldVars
<1>10. [Next]_vars => [F!Next]_(F!fundVars)
  BY Zenon DEF Next, vars, fundVars, F!fundVars
<1>11. [Next]_vars => [R!Next]_(R!simVars)
  BY Zenon DEF Next, vars, simVars, R!simVars
<1>12. [Next]_vars => [H!Next]_(H!eventVars)
  BY Zenon DEF Next, vars, eventVars, H!eventVars
<1>13. [Next]_vars => [T!Next]_(T!trackVars)
  BY Zenon DEF Next, vars, trackVars, T!trackVars
<1>14. [Next]_vars => [A!Next]_(A!accessVars)
  BY Zenon DEF Next, vars, accessVars, A!accessVars
<1> QED
  BY <1>1, <1>2, <1>3, <1>4, <1>5, <1>6, <1>7, <1>8, <1>9, <1>10, <1>11, <1>12, <1>13, <1>14,
     PTL DEF Spec, E!Spec, P!Spec, M!Spec, W!Spec, N!Spec, V!Spec, B!Spec, S!Spec, F!Spec, R!Spec, H!Spec

(* Whatever is signed, moved, frozen or connected, for any guards, keys,    *)
(* copies, policies and networks of which the assumptions hold: it is what  *)
(* was checked and is still on screen.                                      *)
THEOREM ScreensSignAsChecked == Spec => []SignedAsChecked
<1>1. ASSUME E!SentWasChecked, P!PanicHonest, M!MovedAsRead, W!LinkedOnTarget,
             T!ReadyIsEnough
      PROVE  SignedAsChecked
  BY <1>1, Zenon DEF SignedAsChecked
<1> QED
  BY <1>1, PartsBehave, EnvelopesAreChecked, PanelIsHonest, MovesAreAsRead, LinksAreOnTarget,
     ReadyHasWeight, PTL

(* Whatever the parts are given: the part that runs keeps its types.        *)
THEOREM ScreensKeepTypes == Spec => []ScreenTypes
<1>1. Init => part \in Parts
  BY Zenon DEF Init
<1>2. part \in Parts /\ [Next]_vars => (part \in Parts)'
  BY Zenon DEF Next, vars
<1>3. ASSUME part \in Parts,
             N!TalkTypes, P!PanicTypes, T!TrackTypes, E!EnvelopeTypes, M!MoveTypes, V!ViewTypes,
             B!BytecodeTypes, S!HeldTypes, F!FundTypes, R!SimTypes, W!WalletProviderTypes,
             H!EventTypes, A!AccessTypes
      PROVE  ScreenTypes
  BY <1>3, PartsAreNamed, Zenon DEF ScreenTypes
<1>4. Spec => [](part \in Parts)
  BY <1>1, <1>2, PTL DEF Spec
<1> QED
  BY <1>3, <1>4, PartsBehave, RefusalsAreCounted, PanicKeepsTypes, ApprovalsKeepTypes,
     EnvelopesKeepTypes, MovesKeepTypes, CountdownIsSound, BytecodeIsEarned, DrawerIsHonest,
     FundsKeepTypes, RehearsalsHold, WalletsKeepTypes, ChartIsWhole, AccessIsHonest, PTL

(* All that a screen says of what it names, the verdicts of a replay        *)
(* excepted: those are a computation that only TLC evaluates.               *)
SaidOfIt ==
  /\ part = "talk" => N!RefusalsCounted
  /\ part = "status" => V!CountdownSound
  /\ part = "bytecode" => B!RefusedForCause /\ B!BadgeEarned
  /\ part = "storage" => S!DrawerHonest
  /\ part = "events" => H!ChartAccounts
  /\ part = "replay" => R!RehearsalHoldsTogether
  /\ part = "access" => A!AccessHonest

(* What is said is what was read, in every behaviour of the screens, and a  *)
(* step never calls an account poor that was not read so, never touches the *)
(* filters of another guard and never asks for a caller that gave up.       *)
THEOREM ScreensSayWhatTheyRead ==
  Spec => []SaidOfIt /\ F!PoorWhenRead /\ H!FiltersOwn /\ A!CallsSettle
<1>1. ASSUME N!RefusalsCounted, V!CountdownSound, B!RefusedForCause, B!BadgeEarned,
             S!DrawerHonest, H!ChartAccounts, R!RehearsalHoldsTogether, A!AccessHonest
      PROVE  SaidOfIt
  BY <1>1, Zenon DEF SaidOfIt
<1> QED
  BY <1>1, PartsBehave, RefusalsAreCounted, CountdownIsSound, BytecodeIsEarned, DrawerIsHonest,
     ChartIsWhole, RehearsalsHold, AccessIsHonest, PoorIsPoor, FiltersStayOwn, CallsDoSettle, PTL
=============================================================================

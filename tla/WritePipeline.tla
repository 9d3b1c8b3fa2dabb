---------------------------- MODULE WritePipeline ---------------------------
(***************************************************************************)
(* The write path of the console: lib/guard/submit.ts.                     *)
(*                                                                         *)
(* invokeWithWallet() takes a contract call through account lookup,        *)
(* recording simulation, authorization signatures, enforced simulation,    *)
(* envelope signature, broadcast and inclusion polling.  The wallet may    *)
(* change account or vanish at any await, prompts stay open while time     *)
(* bounds run out, and the network answers, errs, or takes a transaction   *)
(* and loses the reply.  Several writes of one operator run side by side   *)
(* (two panels, two tabs) and share the account's sequence number.         *)
(***************************************************************************)
EXTENDS Naturals, FiniteSets

CONSTANTS
  Writes,         \* attempts to call the contract
  Accounts,       \* accounts the wallet can be on
  Admin,          \* the account the wallet is on at first
  None,           \* null
  MaxAuth,        \* bounds the authorizations a call requires
  Window,         \* seconds an envelope stays valid (maxTimeOffset)
  MaxPolls,       \* pollAttempts
  MaxRetries,     \* maxRetries of the enforced simulation
  MaxTime,        \* bounds the clock
  MaxSequence     \* bounds the sequence numbers used elsewhere

ASSUME WriteAssumption ==
  /\ Window > 0
  /\ Admin \in Accounts /\ None \notin Accounts
  /\ {MaxAuth, Window, MaxPolls, MaxRetries, MaxTime, MaxSequence} \subseteq Nat

VARIABLES
  pc,             \* where each write is between two awaits
  bound,          \* signer.address, the account under review
  sequence,       \* the account's sequence number as loaded
  tries,          \* signatures still to get, retries or polls used so far
  envelope,       \* the transaction as assembled
  outcome,        \* the InvokeResult, or "thrown"
  history,        \* the entry recordTx() made for the write
  live,           \* the account the wallet is on, None when it is gone
  ledgerSeq,      \* each account's sequence number on the ledger
  fate,           \* what the network did with each transaction
  clock

writeVars == <<pc, bound, sequence, tries, envelope, outcome, history>>
worldVars == <<live, ledgerSeq, fate, clock>>
vars == <<writeVars, worldVars>>

-----------------------------------------------------------------------------
Points == {"idle", "account", "discovery", "authorize", "authPrompt", "enforcement",
           "envelope", "envelopePrompt", "submission", "send", "poll", "done"}

Fates == {"unsent", "pending", "applied", "rejected", "dropped"}

Envelope == [seq : Nat, maxTime : Nat]

Outcome ==
  [kind : {"refused"},
   stage : {"discovery", "enforcement", "submission", "authorization", "envelope"},
   landed : BOOLEAN]
  \cup [kind : {"cancelled", "exported", "thrown"}]
  \cup [kind : {"failed"}, why : {"expired", "rejected", "timeout"}]
  \cup [kind : {"submitted"}, status : {"SUCCESS", "DUPLICATE"}]

ASSUME NoneAssumption == None \notin Outcome \cup {"confirmed", "failed"}

TypeOK ==
  /\ pc \in [Writes -> Points]
  /\ bound \in [Writes -> Accounts \cup {None}]
  /\ sequence \in [Writes -> Nat]
  /\ tries \in [Writes -> Nat]
  /\ envelope \in [Writes -> Envelope \cup {None}]
  /\ outcome \in [Writes -> Outcome \cup {None}]
  /\ history \in [Writes -> {None, "confirmed", "failed"}]
  /\ live \in Accounts \cup {None}
  /\ ledgerSeq \in [Accounts -> Nat]
  /\ fate \in [Writes -> Fates]
  /\ clock \in Nat

Init ==
  /\ pc = [w \in Writes |-> "idle"]
  /\ bound = [w \in Writes |-> None]
  /\ sequence = [w \in Writes |-> 0]
  /\ tries = [w \in Writes |-> 0]
  /\ envelope = [w \in Writes |-> None]
  /\ outcome = [w \in Writes |-> None]
  /\ history = [w \in Writes |-> None]
  /\ live = Admin
  /\ ledgerSeq = [a \in Accounts |-> 0]
  /\ fate = [w \in Writes |-> "unsent"]
  /\ clock = 0

-----------------------------------------------------------------------------
(* Outcomes, and what invokeWithWallet() files of them.                    *)
Refused(stage) == [kind |-> "refused", stage |-> stage, landed |-> FALSE]

\* recoveryGuidance(): only at the last boundary may the write have landed.
Interrupted(phase) ==
  [kind |-> "refused", stage |-> phase, landed |-> phase = "submission"]

Ended(kind) == [kind |-> kind]
Failed(why) == [kind |-> "failed", why |-> why]
Submitted(status) == [kind |-> "submitted", status |-> status]

\* Mutant: only confirmed transactions are filed.
ConfirmedEntry(result) == IF result.kind = "submitted" THEN "confirmed" ELSE None

HistoryEntry(result) ==
  IF result.kind = "submitted" THEN "confirmed"
  ELSE IF result.kind = "failed" THEN "failed"
  ELSE None

Finish(w, result) ==
  /\ pc' = [pc EXCEPT ![w] = "done"]
  /\ outcome' = [outcome EXCEPT ![w] = result]
  /\ history' = [history EXCEPT ![w] = HistoryEntry(result)]
  /\ UNCHANGED <<bound, sequence, tries, envelope>>

\* On to the next await, with n signatures left or tries used.
Proceed(w, point, n) ==
  /\ pc' = [pc EXCEPT ![w] = point]
  /\ tries' = [tries EXCEPT ![w] = n]
  /\ UNCHANGED <<bound, sequence, envelope, outcome, history>>

\* Mutant: the assembled transaction is built on a re-read account.
RereadSequence(w) == ledgerSeq[bound[w]] + 1

\* build() increments its Account, so every build gets a fresh one (freshAccount).
BuiltSequence(w) == sequence[w] + 1

Expired(w) == clock >= envelope[w].maxTime

-----------------------------------------------------------------------------
\* A panel calls invokeWithWallet() with the signer of the connected wallet.
Start(w) ==
  /\ pc[w] = "idle" /\ live # None
  /\ bound' = [bound EXCEPT ![w] = live]
  /\ pc' = [pc EXCEPT ![w] = "account"]
  /\ UNCHANGED <<sequence, tries, envelope, outcome, history, worldVars>>

LoadAccount(w) ==
  /\ pc[w] = "account"
  /\ \/ /\ sequence' = [sequence EXCEPT ![w] = ledgerSeq[bound[w]]]
        /\ pc' = [pc EXCEPT ![w] = "discovery"]
        /\ UNCHANGED <<bound, tries, envelope, outcome, history>>
     \/ Finish(w, Refused("discovery"))
  /\ UNCHANGED worldVars

\* The recording simulation: it fails, or asks for some authorizations that the
\* envelope's signature does not already give.
Discover(w) ==
  /\ pc[w] = "discovery"
  /\ \/ Finish(w, Refused("discovery"))
     \/ Finish(w, Ended("thrown"))
     \/ \E n \in 0..MaxAuth : Proceed(w, IF n = 0 THEN "enforcement" ELSE "authorize", n)
  /\ UNCHANGED worldVars

\* writeBoundary(): the live address is read again and must still match.
Boundary(w, phase, point) ==
  IF live = bound[w]
    THEN Proceed(w, point, tries[w])
    ELSE Finish(w, Interrupted(phase))

\* Each authorization is looked at in turn: one this wallet cannot give ends
\* the write, even after others were signed.
CheckBeforeAuth(w) ==
  /\ pc[w] = "authorize"
  /\ \/ Finish(w, Refused("discovery"))
     \/ Boundary(w, "authorization", "authPrompt")
  /\ UNCHANGED worldVars

\* A prompt loses its provider, is declined on a path that asked to be told
\* (cancelOnDecline), or fails otherwise.
PromptFails(w, phase) ==
  \/ Finish(w, Interrupted(phase))
  \/ Finish(w, Ended("cancelled"))
  \/ Finish(w, Ended("thrown"))

AnswerAuth(w) ==
  /\ pc[w] = "authPrompt"
  /\ \/ PromptFails(w, "authorization")
     \/ IF tries[w] = 1
          THEN Proceed(w, "enforcement", 0)
          ELSE Proceed(w, "authorize", tries[w] - 1)
  /\ UNCHANGED worldVars

\* Mutant: the envelope is assembled without a time bound.
AssembleUnbounded(w) ==
  /\ envelope' = [envelope EXCEPT ![w] = [seq |-> BuiltSequence(w), maxTime |-> None]]
  /\ pc' = [pc EXCEPT ![w] = "envelope"]
  /\ UNCHANGED <<bound, sequence, tries, outcome, history>>

\* assembleFromSimulation(): the envelope of the reviewed sequence.  It is
\* checked for expiry in the same task, which no positive Window can fail.
Assemble(w) ==
  /\ envelope' = [envelope EXCEPT ![w] =
                    [seq |-> BuiltSequence(w), maxTime |-> clock + Window]]
  /\ pc' = [pc EXCEPT ![w] = "envelope"]
  /\ UNCHANGED <<bound, sequence, tries, outcome, history>>

\* The enforced simulation, in withBackoff(): a busy node is asked again until
\* the call throws, a refusal ends the write, a pass is assembled, and exported
\* if that is all the caller asked for (exportOnly).
Enforce(w) ==
  /\ pc[w] = "enforcement"
  /\ \/ IF tries[w] < MaxRetries
          THEN Proceed(w, "enforcement", tries[w] + 1)
          ELSE Finish(w, Ended("thrown"))
     \/ Finish(w, Refused("enforcement"))
     \/ Finish(w, Ended("exported"))
     \/ Assemble(w)
  /\ UNCHANGED worldVars

CheckBeforeEnvelope(w) ==
  /\ pc[w] = "envelope"
  /\ Boundary(w, "envelope", "envelopePrompt")
  /\ UNCHANGED worldVars

AnswerEnvelope(w) ==
  /\ pc[w] = "envelopePrompt"
  /\ \/ PromptFails(w, "envelope")
     \/ IF Expired(w)
          THEN Finish(w, Failed("expired"))
          ELSE Proceed(w, "submission", 0)
  /\ UNCHANGED worldVars

CheckBeforeSend(w) ==
  /\ pc[w] = "submission"
  /\ Boundary(w, "submission", "send")
  /\ UNCHANGED worldVars

\* What the network makes of the envelope when it arrives.
Acceptable(w) == envelope[w].seq = ledgerSeq[bound[w]] + 1 /\ ~Expired(w)

Accept(w) ==
  /\ Acceptable(w)
  /\ fate' = [fate EXCEPT ![w] = "pending"]

\* Mutant: time bounds are checked after the broadcast.
SendThenCheck(w) ==
  /\ pc[w] = "send"
  /\ fate' = [fate EXCEPT ![w] = "pending"]
  /\ IF Expired(w) THEN Finish(w, Failed("expired")) ELSE Proceed(w, "poll", 0)
  /\ UNCHANGED <<live, ledgerSeq, clock>>

\* sendTransaction(): taken (PENDING), taken twice on the way (DUPLICATE), taken
\* but the reply is lost, not taken (TRY_AGAIN_LATER, polled all the same), or
\* refused (ERROR, or a request that never arrived).
Send(w) ==
  /\ pc[w] = "send"
  /\ \/ Accept(w) /\ Proceed(w, "poll", 0)
     \/ Accept(w) /\ Finish(w, Submitted("DUPLICATE"))
     \/ Accept(w) /\ Finish(w, Refused("submission"))
     \/ UNCHANGED fate /\ Proceed(w, "poll", 0)
     \/ UNCHANGED fate /\ Finish(w, Refused("submission"))
  /\ UNCHANGED <<live, ledgerSeq, clock>>

\* Mutant: the poll does not count its attempts.
PollForever(w) ==
  /\ pc[w] = "poll"
  /\ \/ fate[w] = "applied" /\ Finish(w, Submitted("SUCCESS"))
     \/ fate[w] = "rejected" /\ Finish(w, Failed("rejected"))
     \/ Proceed(w, "poll", tries[w])
  /\ UNCHANGED worldVars

\* pollForInclusion(): an error of getTransaction() counts as not found.
Poll(w) ==
  /\ pc[w] = "poll"
  /\ \/ fate[w] = "applied" /\ Finish(w, Submitted("SUCCESS"))
     \/ fate[w] = "rejected" /\ Finish(w, Failed("rejected"))
     \/ IF tries[w] < MaxPolls
          THEN Proceed(w, "poll", tries[w] + 1)
          ELSE Finish(w, Failed("timeout"))
  /\ UNCHANGED worldVars

-----------------------------------------------------------------------------
\* The ledger includes a pending transaction, in sequence and in time.
Include(w) ==
  /\ fate[w] = "pending"
  /\ envelope[w].seq = ledgerSeq[bound[w]] + 1 /\ clock <= envelope[w].maxTime
  /\ \E result \in {"applied", "rejected"} : fate' = [fate EXCEPT ![w] = result]
  /\ ledgerSeq' = [ledgerSeq EXCEPT ![bound[w]] = @ + 1]
  /\ UNCHANGED <<writeVars, live, clock>>

\* A transaction out of time or out of sequence is never included.
Drop(w) ==
  /\ fate[w] = "pending"
  /\ clock > envelope[w].maxTime \/ envelope[w].seq <= ledgerSeq[bound[w]]
  /\ fate' = [fate EXCEPT ![w] = "dropped"]
  /\ UNCHANGED <<writeVars, live, ledgerSeq, clock>>

\* The account is used from elsewhere.
UseElsewhere(a) ==
  /\ ledgerSeq[a] < MaxSequence
  /\ ledgerSeq' = [ledgerSeq EXCEPT ![a] = @ + 1]
  /\ UNCHANGED <<writeVars, live, fate, clock>>

\* The operator changes account in the wallet, or the provider goes away.
WalletMoves(a) ==
  /\ live # a
  /\ live' = a
  /\ UNCHANGED <<writeVars, ledgerSeq, fate, clock>>

Tick ==
  /\ clock < MaxTime
  /\ clock' = clock + 1
  /\ UNCHANGED <<writeVars, live, ledgerSeq, fate>>

\* The steps no operator has to take: RPC answers, and what follows them.
Runs(w) ==
  \/ LoadAccount(w) \/ Discover(w) \/ CheckBeforeAuth(w) \/ Enforce(w)
  \/ CheckBeforeEnvelope(w) \/ CheckBeforeSend(w) \/ Send(w) \/ Poll(w)

Next ==
  \/ \E w \in Writes :
       \/ Start(w) \/ Runs(w) \/ AnswerAuth(w) \/ AnswerEnvelope(w)
       \/ Include(w) \/ Drop(w)
  \/ \E a \in Accounts : UseElsewhere(a)
  \/ \E a \in Accounts \cup {None} : WalletMoves(a)
  \/ Tick

Spec == Init /\ [][Next]_vars

(* Every RPC call is answered or fails.  A prompt may stay open for ever.  *)
FairSpec == Spec /\ \A w \in Writes : WF_vars(Runs(w))

-----------------------------------------------------------------------------
(* Properties.                                                             *)

(* A transaction the ledger includes is the one that was reviewed: between *)
(* loading the account for the simulations and the inclusion, the account  *)
(* made no other transaction, from this panel, another one or another tab  *)
(* ("One sequence number, shared by every pass").                          *)
ReviewIsCurrent ==
  [][\A w \in Writes :
       fate[w] = "pending" /\ fate'[w] \in {"applied", "rejected"} =>
         ledgerSeq[bound[w]] = sequence[w]]_vars

(* Whatever the ledger included is in the transaction history under the    *)
(* name it deserves once the write has ended, unless the reply to its      *)
(* broadcast was lost or its inclusion was not seen within MaxPolls        *)
(* (invokeWithWallet files submitted and failed, and no refusal).          *)
HistoryAccounts ==
  \A w \in Writes : pc[w] = "done" =>
    /\ history[w] = "confirmed" => fate[w] # "unsent"
    /\ fate[w] \in {"applied", "rejected"} /\ outcome[w] # Refused("submission")
         => history[w] # None
    /\ fate[w] = "rejected" /\ outcome[w].kind = "submitted"
         => outcome[w].status = "DUPLICATE"

\* What the operator may conclude from an outcome.
Verdict(result) ==
  IF result = None THEN None
  ELSE IF result = Submitted("SUCCESS") THEN "applied"
  ELSE IF result = Failed("rejected") THEN "rejected"
  ELSE IF result \in {Submitted("DUPLICATE"), Refused("submission"), Failed("timeout")}
    THEN "unknown"
  ELSE "nothing"

(* Every write keeps the promise of WriteOutcome: it is handed over at     *)
(* most once and before its outcome is told, success and rejection are     *)
(* told only of what the ledger did, and a decline, an expiry, an          *)
(* interruption or a refused simulation only of what was never sent.       *)
Promise == INSTANCE WriteOutcome WITH told <- [w \in Writes |-> Verdict(outcome[w])]
OutcomesPromised == Promise!Spec

(* A write never hangs on its own: unless it waits for the operator at a   *)
(* prompt, it ends or comes to a prompt (retries and polls are bounded).   *)
NeverHangs ==
  \A w \in Writes :
    pc[w] # "idle" ~> pc[w] \in {"authPrompt", "envelopePrompt", "done"}
=============================================================================


---------------------------- MODULE AccountFunding ----------------------------
(***************************************************************************)
(* Funding the accounts of a deployment on a test network.  The operator   *)
(* has the balances read one account after the other, and the faucet asked *)
(* for those that were read as missing or nearly empty; the same accounts  *)
(* are read again afterwards.  The agent's address can be edited, and the  *)
(* accounts paid by others, at any time.                                   *)
(***************************************************************************)
EXTENDS Naturals, Sequences, FiniteSets

CONSTANTS
  Deployer,     \* the account of the connected wallet
  Agents,       \* the addresses an agent field may hold, Nil for an empty one
  FaucetLimit,  \* payments the faucet makes before it refuses
  MaxRounds,    \* bound on the readings and fundings started
  Nil

VARIABLES
  agent,        \* the address in the agent field
  ledger,       \* account -> "absent", "unfunded" or "funded" on chain
  faucet,       \* payments the faucet has made
  asking,       \* the reading or funding under way, or Nil
  balances,     \* the readings on screen: a sequence of [account, state], or Nil
  told,         \* the accounts the last funding message speaks of, with its word
  rounds        \* readings and fundings started

fundVars == <<agent, ledger, faucet, asking, balances, told, rounds>>

Funded == {Deployer} \cup (Agents \ {Nil})
States == {"absent", "unfunded", "funded", "unreachable"}

\* The accounts a check asks about, in its order.
Targets == <<Deployer>> \o (IF agent = Nil THEN <<>> ELSE <<agent>>)

\* The accounts of readings that say "missing" or "nearly empty".
Poor(readings) ==
  LET poor[i \in 0..Len(readings)] ==
        IF i = 0 THEN <<>>
        ELSE IF readings[i].state \in {"absent", "unfunded"}
             THEN Append(poor[i - 1], readings[i].account) ELSE poor[i - 1]
  IN  poor[Len(readings)]

NeedsFunding == balances # Nil /\ Poor(balances) # <<>>

\* The heading over the readings.
Heading == IF NeedsFunding THEN "Unfunded account warning" ELSE "Balances look funded"

FundTypes ==
  /\ agent \in Agents
  /\ ledger \in [Funded -> States \ {"unreachable"}]
  /\ faucet \in 0..FaucetLimit
  /\ asking = Nil \/ asking.kind \in {"check", "fund", "recheck"}
  /\ balances = Nil \/ balances \in Seq([account : Funded, state : States])
  /\ told \subseteq [account : Funded, ok : BOOLEAN]
  /\ rounds \in 0..MaxRounds

Init ==
  /\ agent \in Agents
  /\ ledger \in [Funded -> States \ {"unreachable"}]
  /\ faucet = 0
  /\ asking = Nil
  /\ balances = Nil
  /\ told = {}
  /\ rounds = 0

Round(kind, accounts) ==
  [kind |-> kind, left |-> accounts, all |-> accounts, readings |-> <<>>]

EditAgent(a) ==
  /\ a # agent
  /\ agent' = a
  /\ UNCHANGED <<ledger, faucet, asking, balances, told, rounds>>

\* Somebody pays an account.
Paid(a) ==
  /\ ledger[a] # "funded"
  /\ ledger' = [ledger EXCEPT ![a] = "funded"]
  /\ UNCHANGED <<agent, faucet, asking, balances, told, rounds>>

CheckBalances ==
  /\ asking = Nil /\ rounds < MaxRounds
  /\ asking' = Round("check", Targets)
  /\ told' = {}
  /\ rounds' = rounds + 1
  /\ UNCHANGED <<agent, ledger, faucet, balances>>

FundNow ==
  /\ asking = Nil /\ NeedsFunding /\ rounds < MaxRounds
  /\ asking' = Round("fund", Poor(balances))
  /\ told' = {}
  /\ rounds' = rounds + 1
  /\ UNCHANGED <<agent, ledger, faucet, balances>>

\* What the account server may answer about an account: 404 for one that does not
\* exist, its balance, an error, or a body without a readable native balance.
Responses(a) ==
  {"refused", "malformed", "silent"} \cup
    {CASE ledger[a] = "absent"   -> "404"
       [] ledger[a] = "unfunded" -> "below"
       [] ledger[a] = "funded"   -> "enough"}

\* Mutant: a body without a readable balance is taken for an empty account.
ZeroWhenUnread(response) ==
  CASE response = "404"                   -> "absent"
    [] response \in {"below", "malformed"} -> "unfunded"
    [] response = "enough"                -> "funded"
    [] response \in {"refused", "silent"} -> "unreachable"

\* What an answer is read as: unknown, whenever it does not clearly say.
AccountState(response) ==
  CASE response = "404"    -> "absent"
    [] response = "below"  -> "unfunded"
    [] response = "enough" -> "funded"
    [] response \in {"refused", "malformed", "silent"} -> "unreachable"

\* The next account is read; the readings appear together, after the last.
Read ==
  /\ asking # Nil
  /\ asking.kind \in {"check", "recheck"}
  /\ \E response \in Responses(Head(asking.left)) :
       LET readings == Append(asking.readings, [account |-> Head(asking.left),
                                                state |-> AccountState(response)])
       IN  IF Len(asking.left) = 1
           THEN asking' = Nil /\ balances' = readings
           ELSE /\ asking' = [asking EXCEPT !.left = Tail(@), !.readings = readings]
                /\ UNCHANGED balances
  /\ UNCHANGED <<agent, ledger, faucet, told, rounds>>

\* The faucet is asked for the next account: it pays, refuses (an account it has
\* paid, or too many requests), or cannot be reached.  After the last the same
\* accounts are read again.
Ask ==
  /\ asking # Nil
  /\ asking.kind = "fund"
  /\ LET a == Head(asking.left)
     IN  \/ /\ ledger[a] # "funded" /\ faucet < FaucetLimit
            /\ ledger' = [ledger EXCEPT ![a] = "funded"]
            /\ faucet' = faucet + 1
            /\ told' = told \cup {[account |-> a, ok |-> TRUE]}
         \/ /\ told' = told \cup {[account |-> a, ok |-> FALSE]}
            /\ UNCHANGED <<ledger, faucet>>
  /\ asking' = IF Len(asking.left) = 1 THEN Round("recheck", asking.all)
               ELSE [asking EXCEPT !.left = Tail(@)]
  /\ UNCHANGED <<agent, balances, rounds>>

Next ==
  \/ \E a \in Agents : EditAgent(a)
  \/ \E a \in Funded : Paid(a)
  \/ CheckBalances \/ FundNow \/ Read \/ Ask

Spec == Init /\ [][Next]_fundVars

-----------------------------------------------------------------------------
\* "An operator who is told 'unfunded' on a malformed response may fund an account
\* that already has plenty": an account goes to the faucet only if, when it was read,
\* the chain did hold too little in it, whatever answers came instead of a balance
\* (parseAccountPayload, interpretBalanceResponse, fundNow).
PoorWhenRead ==
  [][asking # Nil /\ asking' # asking =>
       LET done   == IF asking' = Nil THEN balances' ELSE asking'.readings
           newest == done[Len(done)]
       IN  asking.kind # "fund" /\ newest.state \in {"absent", "unfunded"} =>
             ledger[newest.account] = newest.state]_fundVars
=============================================================================

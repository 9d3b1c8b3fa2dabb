--------------------------- MODULE WalletProviders ---------------------------
(***************************************************************************)
(* The three wallets behind one interface: what each connector of          *)
(* lib/guard/walletConnector.ts asks its wallet, what it makes of the      *)
(* answer, and which wallet a page reads by itself.                        *)
(*                                                                         *)
(* One request is under way at a time; requests that overlap are the       *)
(* business of WalletSession.  An account is present or missing, a         *)
(* signature is present or missing, a failure is told apart by the words   *)
(* the connectors look for.  An xBull whose whole answer is an empty text  *)
(* is left out.                                                            *)
(***************************************************************************)
EXTENDS Naturals, FiniteSets

CONSTANTS
  XbullBuilds,  \* sets of the optional calls a build of xBull has
  Reported,     \* networks a wallet may report: [name, passphrase]
  Target,       \* the passphrase of the dashboard's network
  KnownNames,   \* network name -> passphrase, the table of the console
  MaxRequests,  \* bound on the requests made of wallets
  Nil

VARIABLES
  injected,     \* what the page finds: [albedo, xbull], xbull a build or Nil
  detected,     \* the wallets shown as detected
  preferred,    \* the stored choice of wallet
  request,      \* what a wallet was asked and has not answered
  linked,       \* the connected wallet: [id, network], or Nil
  told,         \* what came of the last request
  requests      \* requests made so far

walletVars == <<injected, detected, preferred, request, linked, told, requests>>

WalletProviderIds == {"freighter", "albedo", "xbull"}
Kind(id) == IF id = "albedo" THEN "web" ELSE "extension"

\* How a wallet may fail: in an error field of its answer, or by throwing.
Wordings == {"declined", "missing", "other"}
Channels(id, op) ==
  CASE id = "freighter" -> {"field"}
    [] id = "xbull"     -> {"thrown"}
    [] id = "albedo"    -> IF op \in {"tx", "auth"} THEN {"field", "thrown"} ELSE {"thrown"}

\* The failure of a wallet in the vocabulary of the console: an error field is
\* turned into a plain error before its words are looked at.
MapConnectorError(channel, wording) ==
  IF channel = "field" THEN "error"
  ELSE CASE wording = "missing"  -> "notInstalled"
         [] wording = "declined" -> "rejected"
         [] wording = "other"    -> "error"

\* Mutant: a network is taken for the one its name says.
TrustsNames(n) ==
  [n EXCEPT !.passphrase = IF n.name \in DOMAIN KnownNames THEN KnownNames[n.name] ELSE @]

\* A network as a name and a passphrase, whichever of them the wallet gave.
NormalizeWalletNetwork(n) ==
  IF n.passphrase # Nil THEN n
  ELSE [n EXCEPT !.passphrase = IF n.name \in DOMAIN KnownNames THEN KnownNames[n.name] ELSE Nil]

Unreported == [name |-> Nil, passphrase |-> Nil]

DetectNetworkMismatch(n) == n.passphrase # Target

\* A connector is made for a wallet the page was given; Freighter's library is
\* always there, with or without the extension.
CanCreate(id) ==
  CASE id = "freighter" -> TRUE
    [] id = "albedo"    -> injected.albedo
    [] id = "xbull"     -> injected.xbull # Nil

CanReconnectSilently(id) == id = Nil \/ (id \in WalletProviderIds /\ Kind(id) = "extension")

RequestOf(id, op, stage) == [id |-> id, op |-> op, stage |-> stage]

-----------------------------------------------------------------------------

WalletProviderTypes ==
  /\ detected \subseteq WalletProviderIds
  /\ preferred \in WalletProviderIds \cup {Nil}
  /\ request = Nil \/ /\ request.id \in WalletProviderIds
                      /\ request.op \in {"read", "connect", "tx", "auth"}
                      /\ request.stage \in {"account", "network", "signature"}
                      /\ CanCreate(request.id)
  /\ linked = Nil \/ linked.id \in WalletProviderIds
  /\ told \in {Nil, "linked", "mismatch", "signed", "notInstalled", "rejected",
               "unsupported", "error"}
  /\ requests \in 0 .. MaxRequests

Init ==
  /\ injected \in [albedo : BOOLEAN, xbull : XbullBuilds \cup {Nil}]
  /\ detected = {}
  /\ preferred \in WalletProviderIds \cup {Nil}
  /\ request = Nil /\ linked = Nil /\ told = Nil
  /\ requests = 0

Asks(id, op, stage) ==
  /\ requests < MaxRequests
  /\ requests' = requests + 1
  /\ request' = RequestOf(id, op, stage)

\* A page opens and reads by itself the wallet used last, or Freighter; one
\* that is not there is not an error.
PageOpens ==
  /\ request = Nil
  /\ detected' = {} /\ linked' = Nil /\ told' = Nil
  /\ LET id == IF preferred = Nil THEN "freighter" ELSE preferred
     IN  IF CanReconnectSilently(preferred) /\ CanCreate(id)
         THEN Asks(id, "read", "account")
         ELSE UNCHANGED <<request, requests>>
  /\ UNCHANGED <<injected, preferred>>

\* The wallets found; Freighter counts when it answers.
Detect(answers) ==
  /\ detected' = {id \in WalletProviderIds : CanCreate(id) /\ (id = "freighter" => answers)}
  /\ UNCHANGED <<injected, preferred, request, linked, told, requests>>

\* The operator picks a wallet of the list, detected or not.
Connect(id) ==
  /\ request = Nil
  /\ IF CanCreate(id)
     THEN Asks(id, "connect", "account") /\ told' = Nil /\ UNCHANGED linked
     ELSE told' = "notInstalled" /\ linked' = Nil /\ UNCHANGED <<request, requests>>
  /\ UNCHANGED <<injected, detected, preferred>>

\* The end of a connection: linked on the right network, apart on another.
SettleRequest(id, op, network) ==
  /\ request' = Nil
  /\ IF DetectNetworkMismatch(NormalizeWalletNetwork(network))
     THEN linked' = Nil /\ told' = "mismatch" /\ UNCHANGED preferred
     ELSE /\ linked' = [id |-> id, network |-> network]
          /\ told' = "linked"
          /\ preferred' = IF op = "connect" THEN id ELSE preferred
  /\ UNCHANGED <<injected, detected, requests>>

\* The silent read says nothing of a failure.
Fails(outcome) ==
  /\ request' = Nil
  /\ IF request.op = "read" THEN UNCHANGED <<linked, told>>
     ELSE told' = outcome /\ linked' = IF request.op = "connect" THEN Nil ELSE linked
  /\ UNCHANGED <<injected, detected, preferred, requests>>

\* The wallet gives its account, and a network when it has one to give.
AnswersAccount(present, network) ==
  /\ request # Nil /\ request.stage = "account"
  /\ network # Unreported => request.op = "connect" /\ request.id # "freighter"
  /\ IF ~present THEN Fails("error")
     ELSE IF NormalizeWalletNetwork(network).passphrase # Nil
          THEN SettleRequest(request.id, request.op, network)
          ELSE /\ request' = RequestOf(request.id, request.op, "network")
               /\ UNCHANGED <<injected, detected, preferred, linked, told, requests>>

\* The wallet tells its network; an xBull without that call tells none.
AnswersNetwork(network) ==
  /\ request # Nil /\ request.stage = "network"
  /\ request.id = "xbull" =>
       /\ network.passphrase = Nil
       /\ "getNetwork" \notin injected.xbull => network = Unreported
  /\ SettleRequest(request.id, request.op, network)

WalletFails(channel, wording) ==
  /\ request # Nil
  /\ channel \in Channels(request.id, request.op)
  /\ Fails(MapConnectorError(channel, wording))

\* A panel has the connected wallet sign.
Sign(op) ==
  /\ request = Nil /\ linked # Nil
  /\ IF op = "auth" /\ linked.id = "xbull" /\ "signAuthEntry" \notin injected.xbull
     THEN told' = "unsupported" /\ UNCHANGED <<request, requests>>
     ELSE Asks(linked.id, op, "signature") /\ told' = Nil
  /\ UNCHANGED <<injected, detected, preferred, linked>>

\* An answer without a signature: an entry counts as refused.
AnswersSignature(present) ==
  /\ request # Nil /\ request.stage = "signature"
  /\ IF present
     THEN /\ request' = Nil /\ told' = "signed"
          /\ UNCHANGED <<injected, detected, preferred, linked, requests>>
     ELSE Fails(IF request.op = "auth" THEN "rejected" ELSE "error")

Disconnect ==
  /\ request = Nil /\ linked # Nil
  /\ linked' = Nil /\ told' = Nil
  /\ UNCHANGED <<injected, detected, preferred, request, requests>>

Next ==
  \/ PageOpens
  \/ \E answers \in BOOLEAN : Detect(answers)
  \/ \E id \in WalletProviderIds : Connect(id)
  \/ \E present \in BOOLEAN, n \in Reported \cup {Unreported} : AnswersAccount(present, n)
  \/ \E n \in Reported \cup {Unreported} : AnswersNetwork(n)
  \/ \E channel \in {"field", "thrown"}, wording \in Wordings : WalletFails(channel, wording)
  \/ \E op \in {"tx", "auth"} : Sign(op)
  \/ \E present \in BOOLEAN : AnswersSignature(present)
  \/ Disconnect

Spec == Init /\ [][Next]_walletVars

-----------------------------------------------------------------------------
(* No wallet is linked on another network than the dashboard's, whatever   *)
(* name it gives that network and whichever answer the network came with:  *)
(* a passphrase the wallet gave is the target's, and only a wallet that    *)
(* gave none is taken at its name (normalizeWalletNetwork and the mismatch *)
(* check of connect, which compare passphrases because names are not a     *)
(* stable identifier).                                                     *)
LinkedOnTarget ==
  linked # Nil =>
    LET given == linked.network
    IN  IF given.passphrase # Nil THEN given.passphrase = Target
        ELSE given.name \in DOMAIN KnownNames /\ KnownNames[given.name] = Target
=============================================================================

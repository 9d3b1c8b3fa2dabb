---------------------------- MODULE WalletSession ----------------------------
(***************************************************************************)
(* The wallet session of each tab: connect, disconnect, the silent         *)
(* reconnect of a page and the idle lock of components/GuardProvider.tsx,  *)
(* the connectors of lib/guard/walletConnector.ts, the network switch of   *)
(* lib/guard/networkSwitch.ts and the timer of lib/guard/useIdleTimer.ts.  *)
(*                                                                         *)
(* A wallet answers with an account and a network when it likes, a prompt  *)
(* may stay open for ever, and several connections may be under way: the   *)
(* silent one of the page, the operator's, and the one that follows a      *)
(* switch of network.  What they change is committed before the tab's next *)
(* task.  Accounts are not told apart from the wallet they are of.         *)
(***************************************************************************)
EXTENDS Naturals, FiniteSets

CONSTANTS
  Tabs,
  Providers,      \* the wallets that may reconnect without a prompt
  Switches,       \* those that can be asked to switch network (Freighter)
  Timeout,        \* ticks without activity until the lock
  None,
  MaxActs         \* bounds what operators and wallets do

VARIABLES
  pref,           \* the stored provider, shared by the tabs
  rightNet,       \* the wallets on the dashboard's network
  session,        \* wallet: the provider of the connected wallet, or None
  connector,      \* connectorRef: what signs, or None
  chosen,         \* providerId, as the tab shows it
  mismatch,       \* a notice of the wrong network is shown
  connecting,     \* the flag that disables the wallet picker
  connections,    \* connections that have not answered; two alike count as one
  switching,      \* a switch of network was asked for
  timer,          \* whether the idle timer runs
  left,           \* ticks to its deadline
  unheard,        \* another tab's disconnect has not been heard
  acts            \* how much operators and wallets have done

sessionVars == <<session, connector, chosen, mismatch, timer, left>>
askVars == <<connecting, connections, switching>>
vars == <<pref, rightNet, sessionVars, askVars, unheard, acts>>

Kinds == {"silent", "operator"}

WalletTypes ==
  /\ pref \in Providers \cup {None} /\ rightNet \subseteq Providers
  /\ session \in [Tabs -> Providers \cup {None}]
  /\ connector \in [Tabs -> Providers \cup {None}]
  /\ chosen \in [Tabs -> Providers \cup {None}]
  /\ mismatch \in [Tabs -> BOOLEAN] /\ connecting \in [Tabs -> BOOLEAN]
  /\ connections \in [Tabs -> SUBSET (Kinds \X Providers)]
  /\ switching \in [Tabs -> BOOLEAN]
  /\ timer \in [Tabs -> BOOLEAN] /\ left \in [Tabs -> 0..Timeout]
  /\ unheard \in [Tabs -> BOOLEAN]
  /\ acts \in 0..MaxActs

Init ==
  /\ pref = None /\ rightNet \in SUBSET Providers
  /\ session = [t \in Tabs |-> None] /\ connector = session /\ chosen = session
  /\ mismatch = [t \in Tabs |-> FALSE]
  /\ connecting = mismatch /\ switching = mismatch /\ timer = mismatch /\ unheard = mismatch
  /\ connections = [t \in Tabs |-> {}]
  /\ left = [t \in Tabs |-> 0]
  /\ acts = 0

-----------------------------------------------------------------------------
Acts == acts < MaxActs /\ acts' = acts + 1

\* Mutant: a deadline of the session before is taken for a timer that runs.
StartsOnce(t, p) ==
  /\ timer' = [timer EXCEPT ![t] = p # None /\ (@ \/ left[t] = 0)]
  /\ left' = [left EXCEPT ![t] = IF p # None /\ @ = 0 THEN Timeout ELSE @]

\* useIdleTimer(): it starts with a session and stops with its end; another
\* wallet in the place of one leaves it running.
Timed(t, p) ==
  /\ timer' = [timer EXCEPT ![t] = p # None]
  /\ left' = [left EXCEPT ![t] = IF p # None /\ session[t] = None THEN Timeout ELSE @]

SetSession(t, p) ==
  /\ session' = [session EXCEPT ![t] = p]
  /\ Timed(t, p)

\* Connected, with the connector that will sign.
Enter(t, p) ==
  /\ SetSession(t, p)
  /\ connector' = [connector EXCEPT ![t] = p]
  /\ chosen' = [chosen EXCEPT ![t] = p]
  /\ mismatch' = [mismatch EXCEPT ![t] = FALSE]

\* Without a session; wrong tells whether the network is why.
NoSession(t, wrong) ==
  /\ SetSession(t, None)
  /\ connector' = [connector EXCEPT ![t] = None]
  /\ mismatch' = [mismatch EXCEPT ![t] = wrong]
  /\ UNCHANGED chosen

Ask(t, kind, p) == connections' = [connections EXCEPT ![t] = @ \cup {<<kind, p>>}]
Answered(t, kind, p) ==
  /\ <<kind, p>> \in connections[t]
  /\ connections' = [connections EXCEPT ![t] = @ \ {<<kind, p>>}]

-----------------------------------------------------------------------------
\* A page is opened in the tab: a wallet that is preferred is read silently,
\* and Freighter is if none is.
OpenPage(t, p) ==
  /\ Acts
  /\ p \in IF pref = None THEN Switches ELSE {pref}
  /\ connections' = [connections EXCEPT ![t] = {<<"silent", p>>}]
  /\ SetSession(t, None)
  /\ connector' = [connector EXCEPT ![t] = None]
  /\ chosen' = [chosen EXCEPT ![t] = pref]
  /\ mismatch' = [mismatch EXCEPT ![t] = FALSE]
  /\ connecting' = [connecting EXCEPT ![t] = FALSE]
  /\ switching' = [switching EXCEPT ![t] = FALSE]
  /\ unheard' = [unheard EXCEPT ![t] = FALSE]
  /\ UNCHANGED <<pref, rightNet>>

\* A wallet that is locked or gone is not an error of the silent reconnect.
SilentAnswer(t, p, answers) ==
  /\ Answered(t, "silent", p)
  /\ IF ~answers THEN UNCHANGED sessionVars
     ELSE IF p \in rightNet THEN Enter(t, p) ELSE NoSession(t, TRUE)
  /\ UNCHANGED <<pref, rightNet, connecting, switching, unheard, acts>>

\* connect(), from the picker.
BeginConnect(t, p) ==
  /\ Acts
  /\ ~connecting[t]
  /\ connecting' = [connecting EXCEPT ![t] = TRUE]
  /\ mismatch' = [mismatch EXCEPT ![t] = FALSE]
  /\ Ask(t, "operator", p)
  /\ UNCHANGED <<pref, rightNet, session, connector, chosen, timer, left, switching, unheard>>

\* Mutant: a connection that fails forgets only what signs.
FailKeepsSession(t) ==
  /\ connector' = [connector EXCEPT ![t] = None]
  /\ UNCHANGED <<session, chosen, mismatch, timer, left>>

\* A connection that fails ends the session before it as well, and leaves the
\* notice about the network as it is.
ConnectFails(t) ==
  /\ SetSession(t, None)
  /\ connector' = [connector EXCEPT ![t] = None]
  /\ UNCHANGED <<chosen, mismatch>>

EndConnect(t, p, answers) ==
  /\ Answered(t, "operator", p)
  /\ IF ~answers THEN ConnectFails(t) /\ UNCHANGED pref
     ELSE IF p \in rightNet THEN Enter(t, p) /\ pref' = p
     ELSE NoSession(t, TRUE) /\ UNCHANGED pref
  /\ connecting' = [connecting EXCEPT ![t] = FALSE]
  /\ UNCHANGED <<rightNet, switching, unheard, acts>>

\* switchNetwork(), from the notice; asking twice is asking once.
AskSwitch(t) ==
  /\ Acts
  /\ mismatch[t] /\ ~switching[t]
  /\ switching' = [switching EXCEPT ![t] = TRUE]
  /\ UNCHANGED <<pref, rightNet, sessionVars, connecting, connections, unheard>>

\* The wallet switched, and is connected; or it did not.
AnswerSwitch(t, p, switched) ==
  /\ switching[t] /\ p \in Switches
  /\ switching' = [switching EXCEPT ![t] = FALSE]
  /\ IF switched
       THEN /\ rightNet' = rightNet \cup {p}
            /\ mismatch' = [mismatch EXCEPT ![t] = FALSE]
            /\ connecting' = [connecting EXCEPT ![t] = TRUE]
            /\ Ask(t, "operator", p)
       ELSE UNCHANGED <<rightNet, mismatch, connecting, connections>>
  /\ UNCHANGED <<pref, session, connector, chosen, timer, left, unheard, acts>>

\* disconnect(): the other tabs are told, connections under way are not.  The
\* wipe that follows is TabSession's.
EndSession(t) ==
  /\ NoSession(t, FALSE)
  /\ unheard' = [u \in Tabs |-> u # t \/ unheard[u]]
  /\ UNCHANGED <<pref, rightNet, askVars>>

Disconnect(t) == Acts /\ session[t] # None /\ EndSession(t)

\* WALLET_DISCONNECTED.
HearDisconnect(t) ==
  /\ unheard[t]
  /\ unheard' = [unheard EXCEPT ![t] = FALSE]
  /\ NoSession(t, FALSE)
  /\ UNCHANGED <<pref, rightNet, askVars, acts>>

\* The operator turns the wallet to another network.
WalletMoves(p) ==
  /\ Acts
  /\ rightNet' = IF p \in rightNet THEN rightNet \ {p} ELSE rightNet \cup {p}
  /\ UNCHANGED <<pref, sessionVars, askVars, unheard>>

-----------------------------------------------------------------------------
(* The idle timer.                                                         *)

Tick ==
  /\ \E t \in Tabs : timer[t] /\ left[t] > 0
  /\ left' = [t \in Tabs |-> IF timer[t] /\ left[t] > 0 THEN left[t] - 1 ELSE left[t]]
  /\ UNCHANGED <<pref, rightNet, session, connector, chosen, mismatch, timer, askVars,
                 unheard, acts>>

\* Mutant: activity adds to what is left of the time.
ActivityAdds(t) ==
  /\ Acts
  /\ timer[t]
  /\ left' = [left EXCEPT ![t] = @ + Timeout]
  /\ UNCHANGED <<pref, rightNet, session, connector, chosen, mismatch, timer, askVars, unheard>>

\* activity(): the deadline is moved, also one that has passed unseen.
Activity(t) ==
  /\ Acts
  /\ timer[t]
  /\ left' = [left EXCEPT ![t] = Timeout]
  /\ UNCHANGED <<pref, rightNet, session, connector, chosen, mismatch, timer, askVars, unheard>>

\* tick() or checkDeadline(), at or after the deadline: handleIdleExpire(), which
\* drops the events as well (Reset of EventBuffer).
Expire(t) ==
  /\ timer[t] /\ left[t] = 0
  /\ EndSession(t)
  /\ UNCHANGED acts

-----------------------------------------------------------------------------
Next ==
  \/ Tick
  \/ \E p \in Providers : WalletMoves(p)
  \/ \E t \in Tabs :
       \/ AskSwitch(t) \/ Disconnect(t) \/ HearDisconnect(t) \/ Activity(t) \/ Expire(t)
       \/ \E p \in Providers :
            \/ OpenPage(t, p) \/ BeginConnect(t, p)
            \/ \E yes \in BOOLEAN :
                 SilentAnswer(t, p, yes) \/ EndConnect(t, p, yes) \/ AnswerSwitch(t, p, yes)

\* Time passes, and a timer that runs is looked at.
Fairness == WF_vars(Tick) /\ \A t \in Tabs : WF_vars(Expire(t))

Spec == Init /\ [][Next]_vars /\ Fairness

-----------------------------------------------------------------------------
(* Properties.                                                             *)

(* What signs is the wallet that is shown as connected, it was on the      *)
(* dashboard's network when it was connected, and its idle timer runs, in  *)
(* whatever order silent, prompted and switched connections answer and     *)
(* tabs disconnect.                                                        *)
SessionIsWhole ==
  \A t \in Tabs :
    /\ session[t] # None =>
         connector[t] = session[t] /\ chosen[t] = session[t] /\ ~mismatch[t]
    /\ session[t] = None => connector[t] = None
    /\ timer[t] = (session[t] # None)

(* "After a configurable period of inactivity [it] locks": when operators  *)
(* stop doing anything, no tab keeps its session, also one whose           *)
(* connection was answered after the lock.                                 *)
LocksAtLast == \A t \in Tabs : <>[](session[t] = None)
=============================================================================

---------------------------- MODULE SharedConsole ----------------------------
(***************************************************************************)
(* The registry of saved guards and the guard each tab follows:            *)
(* components/GuardProvider.tsx with lib/guard/instance.ts, registry.ts    *)
(* and tabSync.ts.                                                         *)
(*                                                                         *)
(* The saved guards are in localStorage, which all tabs share.  A tab that *)
(* changes them tells the others to read them again, and a tab that        *)
(* selects a guard tells the others to follow.  Messages of one tab reach  *)
(* another once and in order, so the replay filter lets each of them pass. *)
(* A tab that is not on screen may meet several of them before React       *)
(* commits what the first one asked for: guardRef and the lists the        *)
(* handlers see are those of the last commit.                              *)
(*                                                                         *)
(* A guard of a link is on screen without being saved.  Labels are left    *)
(* out, and so is the cap on the number of saved guards.                   *)
(***************************************************************************)
EXTENDS Naturals, FiniteSets, SequencesExt

CONSTANTS
  Tabs,
  Hands,          \* the tabs an operator works in
  Guards,
  Links,          \* guards that links name
  Known,          \* KNOWN_INSTANCES, of which the first is the default
  None,           \* null
  MaxActs,        \* bounds what operators do
  Prompt          \* React commits before the next message or click

ASSUME ConsoleAssumption ==
  /\ Hands \subseteq Tabs /\ Links \subseteq Guards
  /\ Known \in Seq(Guards) /\ Known # <<>> /\ IsInjective(Known)
  /\ None \notin Guards
  /\ MaxActs \in Nat /\ Prompt \in BOOLEAN

VARIABLES
  saved,          \* the stored list, oldest first
  list,           \* setInstances() as last called
  guard,          \* setGuard() as last called
  listed,         \* instances of the last commit
  shown,          \* guardRef: guard of the last commit
  net,            \* messages between two tabs, in order
  adding,         \* the guards whose live check is under way
  undo,           \* the backup taken before a cleanup
  choice,         \* auxiliary: the last guard the tabs were told to follow
  acts            \* auxiliary: how much operators have done

renderVars == <<list, guard, listed, shown>>
vars == <<saved, renderVars, net, adding, undo, choice, acts>>

-----------------------------------------------------------------------------
Message == [type : {"GUARD_CHANGED", "add", "rename", "remove"}, guard : Guards]

Backup == [active : Guards, entries : Seq(Guards)]

ASSUME ConsoleNoneAssumption == None \notin Backup

TypeOK ==
  /\ saved \in Seq(Guards) /\ IsInjective(saved)
  /\ list \in [Tabs -> SUBSET Guards] /\ listed \in [Tabs -> SUBSET Guards]
  /\ guard \in [Tabs -> Guards] /\ shown \in [Tabs -> Guards]
  /\ net \in [Tabs -> [Tabs -> Seq(Message)]]
  /\ adding \in [Tabs -> SUBSET Guards]
  /\ undo \in [Tabs -> Backup \cup {None}]
  /\ choice \in Guards \cup {None}
  /\ acts \in 0..MaxActs

\* loadInstances(): the saved guards, then the known ones.
Loaded(s) == Range(s) \cup Range(Known)

\* The guard that comes first in loadInstances().
First(s) == IF s = <<>> THEN Known[1] ELSE s[1]

Init ==
  /\ saved = <<>>
  /\ list = [t \in Tabs |-> Range(Known)] /\ listed = list
  /\ guard = [t \in Tabs |-> Known[1]] /\ shown = guard
  /\ net = [t \in Tabs |-> [u \in Tabs |-> <<>>]]
  /\ adding = [t \in Tabs |-> {}]
  /\ undo = [t \in Tabs |-> None]
  /\ choice = None
  /\ acts = 0

\* filter(): what is left of a list without the guards of gs.
Without(s, gs) ==
  LET left[i \in 0..Len(s)] ==
        IF i = 0 THEN <<>>
        ELSE IF s[i] \in gs THEN left[i - 1] ELSE Append(left[i - 1], s[i])
  IN left[Len(s)]

-----------------------------------------------------------------------------
Selection(g) == [type |-> "GUARD_CHANGED", guard |-> g]
Change(kind, g) == [type |-> kind, guard |-> g]

\* broadcast(): t announces msgs, in order.
Broadcast(t, msgs) ==
  net' = [net EXCEPT ![t] = [u \in Tabs |-> IF u = t THEN @[u] ELSE @[u] \o msgs]]

\* A write to the storage lands or throws.
Store(s) == saved' = s \/ saved' = saved

\* A click's updates are committed before anything else runs in the tab.
RenderNow(t, insts, g) ==
  /\ list' = [list EXCEPT ![t] = insts] /\ listed' = [listed EXCEPT ![t] = insts]
  /\ guard' = [guard EXCEPT ![t] = g] /\ shown' = [shown EXCEPT ![t] = g]

\* React is done with what was asked of it, as it is at once in a tab that is
\* on screen.
Rendered(t) == list[t] = listed[t] /\ guard[t] = shown[t]

Acts(t) ==
  /\ t \in Hands
  /\ Prompt => Rendered(t)
  /\ acts < MaxActs /\ acts' = acts + 1

\* Mutant: the other tabs are told the guard that is left.
SelectAnnouncesOld(t, g) ==
  /\ Acts(t)
  /\ g \in listed[t] /\ g # shown[t]
  /\ RenderNow(t, list[t], g)
  /\ Broadcast(t, <<Selection(shown[t])>>)
  /\ choice' = g
  /\ UNCHANGED <<saved, adding, undo>>

\* selectGuard(), from the selector.
Select(t, g) ==
  /\ Acts(t)
  /\ g \in listed[t] /\ g # shown[t]
  /\ RenderNow(t, list[t], g)
  /\ Broadcast(t, <<Selection(g)>>)
  /\ choice' = g
  /\ UNCHANGED <<saved, adding, undo>>

\* addInstance() up to the answer of status(); any address may be typed.
BeginAdd(t, g) ==
  /\ Acts(t)
  /\ adding' = [adding EXCEPT ![t] = @ \cup {g}]
  /\ UNCHANGED <<saved, renderVars, net, undo, choice>>

\* Mutant: a guard that is saved already is saved again.
RememberedAgain(g) == IF g \in Range(Known) THEN saved ELSE Append(saved, g)

\* rememberInstance(): known guards are not saved.
Remembered(g) ==
  IF g \in Range(Known) \/ g \in Range(saved) THEN saved ELSE Append(saved, g)

\* The guard answered: it is saved, announced and selected, for everyone.
EndAdd(t, g) ==
  /\ g \in adding[t]
  /\ adding' = [adding EXCEPT ![t] = @ \ {g}]
  /\ Store(Remembered(g))
  /\ IF g \in Loaded(saved')
       THEN /\ list' = [list EXCEPT ![t] = Loaded(saved')]
            /\ guard' = [guard EXCEPT ![t] = g]
            /\ Broadcast(t, <<Change("add", g), Selection(g)>>)
            /\ choice' = g
       ELSE UNCHANGED <<list, guard, net, choice>>
  /\ UNCHANGED <<listed, shown, undo, acts>>

\* It is no guard, or did not answer.
RefuseAdd(t, g) ==
  /\ g \in adding[t]
  /\ adding' = [adding EXCEPT ![t] = @ \ {g}]
  /\ UNCHANGED <<saved, renderVars, net, undo, choice, acts>>

\* renameInstance(): a known guard is saved under its new label, and a guard of
\* a link is neither saved nor kept.
Rename(t, g) ==
  /\ Acts(t)
  /\ g \in listed[t]
  /\ IF g \in Range(Known) \ Range(saved) THEN Store(Append(saved, g)) ELSE UNCHANGED saved
  /\ RenderNow(t, Loaded(saved'), guard[t])
  /\ Broadcast(t, <<Change("rename", g)>>)
  /\ UNCHANGED <<adding, undo, choice>>

\* What follows a removal in its own tab: the announcements, and a tab that
\* showed a removed guard moves to the first that remains.
AfterRemoval(t, announced, gone) ==
  LET moves == shown[t] \in gone
      fallback == First(saved')
  IN /\ RenderNow(t, Loaded(saved'), IF moves THEN fallback ELSE guard[t])
     /\ Broadcast(t, announced \o IF moves THEN <<Selection(fallback)>> ELSE <<>>)
     /\ choice' = IF moves THEN fallback ELSE choice

\* Mutant: a removal is not announced.
RemoveSilently(t, g) ==
  /\ Acts(t)
  /\ g \in listed[t] \ Range(Known)
  /\ Store(Without(saved, {g}))
  /\ AfterRemoval(t, <<>>, {g})
  /\ UNCHANGED <<adding, undo>>

\* removeInstance(): announced if the list got shorter than it was.
RemoveGuard(t, g) ==
  /\ Acts(t)
  /\ g \in listed[t] \ Range(Known)
  /\ Store(Without(saved, {g}))
  /\ AfterRemoval(t,
       IF Cardinality(Loaded(saved')) < Cardinality(listed[t])
         THEN <<Change("remove", g)>> ELSE <<>>,
       {g})
  /\ UNCHANGED <<adding, undo>>

\* The fleet's bulk cleanup: a backup, then one write, which lands or not.
Cleanup(t, gs) ==
  LET gone == Without(saved, Guards \ gs)
  IN /\ Acts(t)
     /\ gs \subseteq listed[t] \ Range(Known)
     /\ gone # <<>>
     /\ saved' = Without(saved, gs)
     /\ AfterRemoval(t, [i \in DOMAIN gone |-> Change("remove", gone[i])], Range(gone))
     /\ undo' = [undo EXCEPT ![t] = [active |-> shown[t], entries |-> saved]]
     /\ UNCHANGED adding

\* restoreRegistry(): what the backup holds comes first again, and the tab
\* returns to the guard it showed.
Restore(t) ==
  LET backup == undo[t]
      cameBack == Without(backup.entries, listed[t])
      returns == backup.active # shown[t] /\ backup.active \in Loaded(saved')
  IN /\ Acts(t)
     /\ backup # None
     /\ undo' = [undo EXCEPT ![t] = None]
     /\ saved' = backup.entries \o Without(saved, Range(backup.entries))
     /\ RenderNow(t, Loaded(saved'), IF returns THEN backup.active ELSE guard[t])
     /\ Broadcast(t, [i \in DOMAIN cameBack |-> Change("add", cameBack[i])]
                       \o IF returns THEN <<Selection(backup.active)>> ELSE <<>>)
     /\ choice' = IF returns THEN backup.active ELSE choice
     /\ UNCHANGED adding

\* Its write throws: the undo is spent all the same.
RestoreFails(t) ==
  /\ Acts(t)
  /\ undo[t] # None
  /\ undo' = [undo EXCEPT ![t] = None]
  /\ UNCHANGED <<saved, renderVars, net, adding, choice>>

-----------------------------------------------------------------------------
\* registryAfterChange(): the stored list, and the guard on screen if a link
\* put it there.
AfterChange(t, msg) ==
  LET active == shown[t]
      kept == /\ active \in list[t] \ Loaded(saved)
              /\ ~(msg.type = "remove" /\ msg.guard = active)
  IN Loaded(saved) \cup IF kept THEN {active} ELSE {}

\* Mutant: a tab whose guard another tab removed stays on it.
NeverFallsBack(t, msg) == FALSE

\* fallbackAfterRemoval().
FallsBack(t, msg) ==
  /\ msg.type = "remove" /\ msg.guard = shown[t]
  /\ shown[t] \notin Loaded(saved)

\* A switch is followed unless the guard is on screen already, and a change of
\* the registry makes the tab read it again.
Receive(t, s) ==
  LET msg == Head(net[s][t])
  IN /\ net[s][t] # <<>>
     /\ Prompt => Rendered(t)
     /\ net' = [net EXCEPT ![s][t] = Tail(@)]
     /\ IF msg.type = "GUARD_CHANGED"
          THEN /\ guard' = [guard EXCEPT ![t] = IF msg.guard = shown[t] THEN @ ELSE msg.guard]
               /\ UNCHANGED list
          ELSE /\ list' = [list EXCEPT ![t] = AfterChange(t, msg)]
               /\ guard' = [guard EXCEPT ![t] = IF FallsBack(t, msg) THEN First(saved) ELSE @]
     /\ UNCHANGED <<saved, listed, shown, adding, undo, choice, acts>>

\* React commits, and the effects of the commit run.
Commit(t) ==
  /\ ~Rendered(t)
  /\ listed' = [listed EXCEPT ![t] = list[t]]
  /\ shown' = [shown EXCEPT ![t] = guard[t]]
  /\ UNCHANGED <<saved, list, guard, net, adding, undo, choice, acts>>

\* A page is opened on guard g, in place of the one the tab had.  Of a link that
\* is followed within the console the guard is listed; a page that is loaded
\* finds it in the address bar and does not list it.
Open(t, g, followed) ==
  /\ acts < MaxActs /\ acts' = acts + 1
  /\ g \in Links \cup Loaded(saved)
  /\ RenderNow(t, Loaded(saved) \cup IF followed THEN {g} ELSE {}, g)
  /\ net' = [s \in Tabs |-> [net[s] EXCEPT ![t] = <<>>]]
  /\ adding' = [adding EXCEPT ![t] = {}]
  /\ undo' = [undo EXCEPT ![t] = None]
  /\ choice' = None
  /\ UNCHANGED saved
-----------------------------------------------------------------------------
Next ==
  \E t \in Tabs :
    \/ \E g \in Guards :
         \/ Select(t, g) \/ BeginAdd(t, g) \/ EndAdd(t, g) \/ RefuseAdd(t, g)
         \/ Rename(t, g) \/ RemoveGuard(t, g)
         \/ \E followed \in BOOLEAN : Open(t, g, followed)
    \/ \E gs \in SUBSET Guards : Cleanup(t, gs)
    \/ Restore(t) \/ RestoreFails(t) \/ Commit(t)
    \/ \E s \in Tabs : Receive(t, s)

Spec == Init /\ [][Next]_vars

-----------------------------------------------------------------------------
(* Properties.                                                             *)

\* Nothing is under way between the tabs.
Settled ==
  /\ \A t \in Tabs : Rendered(t)
  /\ \A s, t \in Tabs : net[s][t] = <<>>

(* "Every other tab follows the operator's selection": once the messages   *)
(* have been handled, every tab shows the guard last selected, added or    *)
(* fallen back to, unless a page was opened since.                         *)
FollowsSelection ==
  Settled /\ choice # None => \A t \in Tabs : shown[t] = choice

(* "Tell the other tabs to re-read": once the messages have been handled,  *)
(* every tab lists what is stored, plus at most guards of links.           *)
RegistryAgrees ==
  Settled => \A t \in Tabs :
    Loaded(saved) \subseteq listed[t] /\ listed[t] \subseteq Loaded(saved) \cup Links

(* "The guard on screen was deleted in another tab: stop reading it": no   *)
(* tab stays on a guard that is not in the registry, unless a link named   *)
(* it, whatever was added, removed, restored and followed on the way.      *)
RemovedIsLeft ==
  Settled => \A t \in Tabs : shown[t] \in Loaded(saved) \cup Links
=============================================================================

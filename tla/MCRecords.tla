------------------------------ MODULE MCRecords ------------------------------
(***************************************************************************)
(* The parts of the console that keep something in the browser, and the    *)
(* screens that are drawn from it, checked in one run.  They share no      *)
(* state: a behaviour is one of one part, chosen at the beginning from     *)
(* Parts, and the others stay in an initial state.                         *)
(***************************************************************************)
EXTENDS KeptRecords

CONSTANTS
  Parts,
  FormGuards, Depth, MaxEdits,
  AlertTypes, MaxBlocks,
  Registrable, Seeded, Reports, Room, MaxPolls, NoCountdown,
  StoreKeys, MaxItems,
  SetupGuards, MaxAsked,
  Every,
  MaxVisits

VARIABLES
  part,
  active, draft, past, future, burst, scope, reading, staged, caps, approval, write,
  outcome, edits,
  settings, bridge, dialog, problem, testing, ping,
  fleet, effect, polls, fleetRows, loading, selected, cleanupPlan, undo, storedView,
  cachedView, expelled,
  store, listing, counts, confirming,
  onScreen, initialized, policies, snapshot, initRead, verified, verifying, initReads,
  initAsked, setup, corrupt,
  lines, expanded, specRead, offer, manual, picker,
  path, address, registry, listed, shown, going, visits

formVars == <<active, draft, past, future, burst, scope, reading, staged, caps, approval,
              write, outcome, edits>>
hookVars == <<settings, bridge, dialog, problem, testing, ping>>
fleetVars == <<fleet, effect, polls, fleetRows, loading, selected, cleanupPlan, undo,
               storedView, cachedView, expelled>>
recordVars == <<store, listing, counts, confirming>>
setupVars == <<onScreen, initialized, policies, snapshot, initRead, verified, verifying,
               initReads, initAsked, setup, corrupt>>
pickVars == <<lines, expanded, specRead, offer, manual, picker>>
linkVars == <<path, address, registry, listed, shown, going, visits>>
keptVars == <<historyVars, bookVars, formVars, shellVars, hookVars, fleetVars, recordVars,
              gridVars, setupVars, pickVars, linkVars>>
livedVars == <<channelVars, noticeVars, capVars>>
vars == <<part, keptVars, livedVars>>
-----------------------------------------------------------------------------
(* The links.  Whatever a query says, it is decoded to what the console     *)
(* knows, and what is written back is the guard, the network and the tab.   *)
NoLink == [guard |-> <<>>, tab |-> Nil, filter |-> Nil, network |-> Nil, other |-> {}]

L == INSTANCE SharedLinks WITH saved <- registry, Known <- <<"k1", "k2">>,
       Strangers <- {"s"}, Links <-
         {NoLink, [NoLink EXCEPT !.tab = "telemetry"],
          [NoLink EXCEPT !.guard = <<"s">>, !.tab = "telemetry", !.filter = "blocked"],
          [NoLink EXCEPT !.guard = <<"k2">>, !.tab = "fleet", !.other = {"demo"}],
          [NoLink EXCEPT !.guard = <<"k2", "s">>, !.network = "public"],
          [NoLink EXCEPT !.guard = <<"junk">>, !.tab = "junk", !.filter = "junk"]}

KnownGuards == L!Range(<<"k1", "k2">>)
LinkGuards == KnownGuards \cup {"s"}
LinksFit ==
  /\ MaxVisits \in Nat
  /\ Nil \notin LinkGuards \cup L!Routes \cup L!UrlTabs \cup L!VerdictFilters \cup {"testnet"}

\* The address names a guard, a tab and what else the console owns.
Says(q, g, tabName) ==
  /\ q.guard = <<g>> /\ q.network = "testnet" /\ q.tab = tabName
  /\ q.filter \in L!VerdictFilters \cup {Nil}
\* A tab of the page, or of the one it is moving to.
Fits(tabName, route, to) ==
  /\ tabName \in L!UrlTabs
  /\ LET its == L!RouteForTab(tabName)
     IN  IF to # Nil THEN its = to ELSE IF its = Nil THEN route = "/" ELSE its = route
LinkInv ==
  /\ path \in L!Routes /\ going \in L!Routes \cup {Nil}
  /\ registry \subseteq LinkGuards /\ listed \subseteq LinkGuards /\ KnownGuards \subseteq listed
  /\ shown \in LinkGuards /\ visits \in 0..MaxVisits
  /\ Says(address, shown, address.tab) /\ Fits(address.tab, path, going)

LEMMA GuardsAre == KnownGuards = {"k1", "k2"} /\ <<"k1", "k2">>[1] \in LinkGuards
<1>1. DOMAIN <<"k1", "k2">> = {1, 2} /\ <<"k1", "k2">>[1] = "k1" /\ <<"k1", "k2">>[2] = "k2"
  OBVIOUS
<1>2. L!Range(<<"k1", "k2">>) = {"k1", "k2"}
  BY <1>1 DEF L!Range
<1> QED BY <1>1, <1>2 DEF LinkGuards, KnownGuards

LEMMA DecodedIs ==
  ASSUME NEW q
  PROVE  LET d == L!DecodeUrlState(q)
         IN /\ d.guard \in LinkGuards \cup {Nil} /\ d.tab \in L!UrlTabs \cup {Nil}
            /\ d.filter \in L!VerdictFilters \cup {Nil}
            /\ d = [guard |-> d.guard, network |-> d.network, tab |-> d.tab, filter |-> d.filter]
            /\ \A g \in LinkGuards : q.guard = <<g>> => d.guard = g
            /\ q.network = "testnet" => d.network = "testnet"
            /\ q.tab \in L!UrlTabs => d.tab = q.tab
<1>1. PICK g : g = IF q.guard # <<>> /\ L!LooksLikeContractAddress(Head(q.guard))
                   THEN Head(q.guard) ELSE Nil
  OBVIOUS
<1>2. PICK n : n = IF q.network = "testnet" THEN q.network ELSE Nil
  OBVIOUS
<1>3. PICK t : t = IF q.tab \in L!UrlTabs THEN q.tab ELSE Nil
  OBVIOUS
<1>4. PICK f : f = IF q.filter \in L!VerdictFilters THEN q.filter ELSE Nil
  OBVIOUS
<1>5. L!DecodeUrlState(q) = [guard |-> g, network |-> n, tab |-> t, filter |-> f]
  BY <1>1, <1>2, <1>3, <1>4, Zenon DEF L!DecodeUrlState
<1>6. g \in LinkGuards \cup {Nil}
  BY <1>1 DEF L!LooksLikeContractAddress, LinkGuards, KnownGuards
<1>7. ASSUME NEW h \in LinkGuards, q.guard = <<h>> PROVE g = h
  <2>1. q.guard # <<>> /\ Head(q.guard) = h
    BY <1>7
  <2> QED BY <1>1, <1>7, <2>1 DEF L!LooksLikeContractAddress, LinkGuards, KnownGuards
<1>8. PICK d : d = [guard |-> g, network |-> n, tab |-> t, filter |-> f]
  OBVIOUS
<1>9. d.guard = g /\ d.network = n /\ d.tab = t /\ d.filter = f
  BY <1>8
<1> QED BY <1>2, <1>3, <1>4, <1>5, <1>6, <1>7, <1>8, <1>9

\* What is written: a guard, a tab, and the filter but for "all".
LEMMA EncodedIs ==
  ASSUME LinksFit, NEW g \in LinkGuards, NEW t, NEW f \in L!VerdictFilters \cup {Nil}, NEW o
  PROVE  Says(L!EncodeUrlState([guard |-> g, network |-> "testnet", tab |-> t, filter |-> f], o),
               g, t)
<1>1. g # Nil
  BY DEF LinksFit
<1> QED BY <1>1 DEF L!EncodeUrlState, Says

LEMMA GuardWritten ==
  ASSUME LinksFit, NEW q, NEW g \in LinkGuards
  PROVE  Says(L!WithGuard(q, g), g, L!DecodeUrlState(q).tab)
<1>1. PICK d : d = L!DecodeUrlState(q)
  OBVIOUS
<1>2. PICK e, n, t, f :
        /\ d = [guard |-> e, network |-> n, tab |-> t, filter |-> f]
        /\ t = d.tab /\ f \in L!VerdictFilters \cup {Nil}
  <2>1. PICK e, n, t, f : e = d.guard /\ n = d.network /\ t = d.tab /\ f = d.filter
    OBVIOUS
  <2> QED BY <1>1, <2>1, DecodedIs
<1>3. PICK d1 : d1 = [d EXCEPT !.guard = g]
  OBVIOUS
<1>4. d1 = [guard |-> g, network |-> n, tab |-> t, filter |-> f]
  BY <1>2, <1>3
<1>5. PICK d2 : d2 = [d1 EXCEPT !.network = "testnet"]
  OBVIOUS
<1>6. d2 = [guard |-> g, network |-> "testnet", tab |-> t, filter |-> f]
  BY <1>4, <1>5
<1>7. L!WithGuard(q, g) = L!EncodeUrlState(d2, q.other)
  BY <1>1, <1>3, <1>5, Zenon DEF L!WithGuard
<1> QED BY <1>1, <1>2, <1>6, <1>7, EncodedIs

LEMMA TabWritten ==
  ASSUME LinksFit, NEW q, NEW g \in LinkGuards, NEW old, Says(q, g, old), NEW t
  PROVE  Says(L!WithTab(q, t), g, t)
<1>1. PICK d : d = L!DecodeUrlState(q)
  OBVIOUS
<1>2. PICK e, f :
        /\ d = [guard |-> g, network |-> "testnet", tab |-> e, filter |-> f]
        /\ f \in L!VerdictFilters \cup {Nil}
  <2>1. PICK e, f : e = d.tab /\ f = d.filter
    OBVIOUS
  <2>2. d.guard = g /\ d.network = "testnet"
    BY <1>1, DecodedIs DEF Says
  <2> QED BY <1>1, <2>1, <2>2, DecodedIs
<1>3. PICK d1 : d1 = [d EXCEPT !.tab = t]
  OBVIOUS
<1>4. d1 = [guard |-> g, network |-> "testnet", tab |-> t, filter |-> f]
  BY <1>2, <1>3
<1>5. L!WithTab(q, t) = L!EncodeUrlState(d1, q.other)
  BY <1>1, <1>3, Zenon DEF L!WithTab
<1> QED BY <1>2, <1>4, <1>5, EncodedIs

\* The routes of the tabs.
LEMMA RoutesAre ==
  ASSUME LinksFit
  PROVE  /\ \A t \in L!UrlTabs : L!RouteForTab(t) \in L!Routes \cup {Nil}
         /\ \A p \in L!Routes : /\ L!TabForPathname(p) \in L!UrlTabs
                                /\ L!RouteForTab(L!TabForPathname(p)) = p
         /\ "console" \in L!UrlTabs /\ "telemetry" \in L!UrlTabs
         /\ L!RouteForTab("console") = "/" /\ L!RouteForTab("telemetry") = Nil
<1> DEFINE screens == {"console", "fleet", "configure", "deploy", "panic"}
<1>1. DOMAIN L!ScreenRoutes = screens
  BY DEF L!ScreenRoutes
<1>2. /\ L!ScreenRoutes["console"] = "/" /\ L!ScreenRoutes["fleet"] = "/fleet"
      /\ L!ScreenRoutes["configure"] = "/configure" /\ L!ScreenRoutes["deploy"] = "/deploy"
      /\ L!ScreenRoutes["panic"] = "/panic"
  BY DEF L!ScreenRoutes
<1>3. \A t \in screens : L!ScreenRoutes[t] \in L!Routes
  BY <1>2 DEF L!Routes
<1>4. \A t \in L!UrlTabs : L!RouteForTab(t) \in L!Routes \cup {Nil}
  BY <1>1, <1>3 DEF L!RouteForTab
<1>5. ASSUME NEW p \in L!Routes
      PROVE  L!TabForPathname(p) \in L!UrlTabs /\ L!RouteForTab(L!TabForPathname(p)) = p
  <2> DEFINE tabs == {t \in DOMAIN L!ScreenRoutes : L!ScreenRoutes[t] = p}
  <2>1. tabs # {}
    BY <1>1, <1>2 DEF L!Routes
  <2>2. PICK t : t = CHOOSE u \in tabs : TRUE
    OBVIOUS
  <2>3. t \in tabs
    BY <2>1, <2>2, Zenon
  <2>4. L!TabForPathname(p) = t
    BY <2>1, <2>2, Zenon DEF L!TabForPathname
  <2> QED BY <2>3, <2>4 DEF L!UrlTabs, L!RouteForTab
<1>6. /\ "console" \in L!UrlTabs /\ "telemetry" \in L!UrlTabs
      /\ L!RouteForTab("console") = "/" /\ L!RouteForTab("telemetry") = Nil
  BY <1>1, <1>2 DEF L!UrlTabs, L!PanelTabs, L!RouteForTab
<1> QED BY <1>4, <1>5, <1>6

LEMMA MountFits ==
  ASSUME LinksFit, LinkInv, NEW p \in L!Routes, NEW q, NEW seen, L!Mount(p, q, seen)
  PROVE  /\ path' \in L!Routes /\ going' \in L!Routes \cup {Nil} /\ registry' = registry
         /\ listed' \subseteq LinkGuards /\ KnownGuards \subseteq listed' /\ shown' \in LinkGuards
         /\ Says(address', shown', address'.tab) /\ Fits(address'.tab, path', going')
<1>1. PICK first : first = L!FirstGuard(seen)
  OBVIOUS
<1>2. first \in LinkGuards
  BY <1>1, DecodedIs, GuardsAre DEF L!FirstGuard
<1>3. PICK requested : requested = L!ResolveGuardFromSearch(q, first)
  OBVIOUS
<1>4. requested \in LinkGuards \cup {Nil}
  <2>1. L!GuardFromSearch(q) \in LinkGuards \cup {Nil}
    BY DEF L!GuardFromSearch, L!LooksLikeContractAddress, LinkGuards, KnownGuards
  <2> QED BY <1>3, <2>1 DEF L!ResolveGuardFromSearch
<1>5. PICK t : t = L!KeptTab(q, p)
  OBVIOUS
<1>6. PICK route : route = L!RouteForTab(t)
  OBVIOUS
<1>7. PICK mirrored : mirrored = L!WithTab(L!WithGuard(q, first), t)
  OBVIOUS
<1>8. /\ path' = p /\ shown' = IF requested = Nil THEN first ELSE requested
      /\ listed' = KnownGuards \cup registry \cup (IF requested = Nil THEN {} ELSE {requested})
      /\ address' = IF requested = Nil THEN mirrored ELSE L!WithGuard(mirrored, requested)
      /\ going' = IF route # Nil /\ route # p THEN route ELSE Nil
      /\ registry' = registry
  BY <1>1, <1>3, <1>5, <1>6, <1>7, Zenon DEF L!Mount, KnownGuards
<1>9. t \in L!UrlTabs /\ (route = Nil => p = "/") /\ route \in L!Routes \cup {Nil}
  <2>1. PICK u : u = L!DecodeUrlState(q).tab
    OBVIOUS
  <2>2. u \in L!UrlTabs \cup {Nil}
    BY <2>1, DecodedIs
  <2>3. t = IF u # Nil /\ (L!RouteForTab(u) # Nil \/ p = "/") THEN u ELSE L!TabForPathname(p)
    BY <1>5, <2>1, Zenon DEF L!KeptTab
  <2>4. p # Nil
    BY DEF LinksFit
  <2> QED BY <1>6, <2>2, <2>3, <2>4, RoutesAre
<1>10. Says(mirrored, first, t)
  BY <1>2, <1>7, GuardWritten, TabWritten
<1>11. Says(address', shown', t)
  <2>1. CASE requested = Nil
    BY <1>8, <1>10, <2>1
  <2>2. CASE requested # Nil
    <3>1. Says(address', requested, L!DecodeUrlState(mirrored).tab)
      BY <1>4, <1>8, <2>2, GuardWritten
    <3>2. L!DecodeUrlState(mirrored).tab = t
      BY <1>9, <1>10, DecodedIs DEF Says
    <3> QED BY <1>8, <2>2, <3>1, <3>2
  <2> QED BY <2>1, <2>2
<1>12. address'.tab = t
  BY <1>11 DEF Says
<1>13. Fits(t, path', going')
  BY <1>6, <1>8, <1>9 DEF Fits
<1>14. shown' \in LinkGuards /\ going' \in L!Routes \cup {Nil}
  BY <1>2, <1>4, <1>8, <1>9
<1>15. listed' \subseteq LinkGuards /\ KnownGuards \subseteq listed'
  BY <1>4, <1>8 DEF LinkInv, LinkGuards
<1> QED BY <1>8, <1>11, <1>12, <1>13, <1>14, <1>15

LEMMA LinkStep == ASSUME LinksFit, LinkInv, L!Next PROVE LinkInv'
<1>0. /\ path \in L!Routes /\ going \in L!Routes \cup {Nil}
      /\ registry \subseteq LinkGuards /\ listed \subseteq LinkGuards /\ KnownGuards \subseteq listed
      /\ shown \in LinkGuards /\ visits \in 0..MaxVisits /\ MaxVisits \in Nat
      /\ Says(address, shown, address.tab) /\ Fits(address.tab, path, going)
  BY DEF LinkInv, LinksFit
<1>1. ASSUME NEW p \in L!Routes, NEW q, NEW seen, L!Visits, L!Mount(p, q, seen)
      PROVE  LinkInv'
  <2>1. visits' \in 0..MaxVisits
    BY <1>0, <1>1 DEF L!Visits
  <2> QED BY <1>0, <1>1, <2>1, MountFits DEF LinkInv
<1>2. ASSUME NEW q, NEW p \in {"/", "/fleet"}, L!Load(q, p) PROVE LinkInv'
  BY <1>1, <1>2 DEF L!Load, L!Routes
<1>3. ASSUME NEW p \in {"/", "/fleet", "/configure"}, NEW q, NEW seen, L!Follow(p, q, seen)
      PROVE  LinkInv'
  BY <1>1, <1>3 DEF L!Follow, L!Routes
<1>4. ASSUME NEW seen, L!Redirect(seen) PROVE LinkInv'
  <2>1. going \in L!Routes
    BY <1>0, <1>4 DEF L!Redirect
  <2> QED BY <1>1, <1>4, <2>1 DEF L!Redirect
\* The address is written for another guard, and keeps its tab.
<1>5. ASSUME NEW g \in LinkGuards, shown' = g, address' = L!WithGuard(address, g),
             UNCHANGED <<path, going, visits>>, registry' \subseteq LinkGuards,
             listed' \subseteq LinkGuards, KnownGuards \subseteq listed'
      PROVE  LinkInv'
  <2>1. L!DecodeUrlState(address).tab = address.tab
    BY <1>0, DecodedIs DEF Fits
  <2>2. Says(address', g, address.tab)
    BY <1>5, <2>1, GuardWritten
  <2>3. address'.tab = address.tab
    BY <2>2 DEF Says
  <2> QED BY <1>0, <1>5, <2>2, <2>3 DEF LinkInv
<1>6. ASSUME NEW g \in listed, L!SelectGuard(g) PROVE LinkInv'
  BY <1>0, <1>5, <1>6 DEF L!SelectGuard
<1>7. ASSUME NEW f \in L!VerdictFilters, L!ApplyFilter(f) PROVE LinkInv'
  <2>1. PICK d : d = L!DecodeUrlState(address)
    OBVIOUS
  <2>2. PICK e, n : d = [guard |-> shown, network |-> "testnet", tab |-> e, filter |-> n]
    BY <1>0, <2>1, DecodedIs DEF Says
  <2>3. PICK t \in {"console", "telemetry"} : t = IF f = "all" THEN "console" ELSE "telemetry"
    OBVIOUS
  <2>4. PICK d1 : d1 = [d EXCEPT !.filter = f]
    OBVIOUS
  <2>5. d1 = [guard |-> shown, network |-> "testnet", tab |-> e, filter |-> f]
    BY <2>2, <2>4
  <2>6. PICK d2 : d2 = [d1 EXCEPT !.tab = t]
    OBVIOUS
  <2>7. d2 = [guard |-> shown, network |-> "testnet", tab |-> t, filter |-> f]
    BY <2>5, <2>6
  <2>8. address' = L!EncodeUrlState(d2, address.other)
    BY <1>7, <2>1, <2>3, <2>4, <2>6, Zenon DEF L!ApplyFilter, L!WithFilter
  <2>9. Says(address', shown, t)
    BY <1>0, <2>7, <2>8, EncodedIs
  <2>10. address'.tab = t
    BY <2>9 DEF Says
  <2>11. path = "/" /\ going = Nil /\ UNCHANGED <<path, registry, listed, shown, going, visits>>
    BY <1>7 DEF L!ApplyFilter
  <2>12. Fits(t, path, going)
    BY <2>3, <2>11, RoutesAre DEF Fits
  <2> QED BY <1>0, <2>9, <2>10, <2>11, <2>12 DEF LinkInv
<1>8. ASSUME NEW g \in {"s"}, L!AddInstance(g) PROVE LinkInv'
  <2>1. g \in LinkGuards
    BY DEF LinkGuards
  <2>2. /\ registry' = registry \cup {g} /\ listed' = KnownGuards \cup registry'
        /\ shown' = g /\ address' = L!WithGuard(address, g) /\ UNCHANGED <<path, going, visits>>
    BY <1>8 DEF L!AddInstance, KnownGuards
  <2>3. registry' \subseteq LinkGuards /\ listed' \subseteq LinkGuards /\ KnownGuards \subseteq listed'
    BY <1>0, <2>1, <2>2 DEF LinkGuards
  <2> QED BY <1>5, <2>1, <2>2, <2>3
<1> QED BY <1>2, <1>3, <1>4, <1>6, <1>7, <1>8 DEF L!Next

(* Whatever link a page was opened with and in whatever order the tabs are  *)
(* followed: the address names the view, so that a link copied from it      *)
(* opens what is on screen (GuardProvider's effects, mergeUrlState).        *)
THEOREM AddressIsTheView ==
  ASSUME LinksFit PROVE L!Spec => [](L!LinkTypes /\ L!AddressNamesView)
<1>1. L!Init => LinkInv
  <2> SUFFICES ASSUME L!Init PROVE LinkInv
    OBVIOUS
  <2>1. PICK k : k = <<"k1", "k2">>[1]
    OBVIOUS
  <2>2. /\ path = "/" /\ going = Nil /\ shown = k /\ registry \subseteq {"s"} /\ visits = 0
        /\ address = L!WithTab(L!WithGuard(L!NoQuery, k), "console")
        /\ listed = KnownGuards \cup registry
    BY <2>1, Zenon DEF L!Init, KnownGuards
  <2>3. k \in LinkGuards
    BY <2>1, GuardsAre
  <2>4. Says(address, k, "console")
    BY <2>2, <2>3, GuardWritten, TabWritten
  <2>5. address.tab = "console"
    BY <2>4 DEF Says
  <2>6. Fits("console", "/", Nil) /\ "/" \in L!Routes
    BY RoutesAre DEF Fits, L!Routes
  <2>7. /\ registry \subseteq LinkGuards /\ listed \subseteq LinkGuards
        /\ KnownGuards \subseteq listed
    BY <2>2 DEF LinkGuards
  <2>8. shown \in LinkGuards /\ Says(address, shown, address.tab)
    BY <2>2, <2>3, <2>4, <2>5
  <2>9. Fits(address.tab, path, going) /\ path \in L!Routes /\ going \in L!Routes \cup {Nil}
    BY <2>2, <2>5, <2>6
  <2>10. visits \in 0..MaxVisits
    BY <2>2 DEF LinksFit
  <2> QED BY <2>7, <2>8, <2>9, <2>10 DEF LinkInv
<1>2. LinkInv /\ [L!Next]_(L!linkVars) => LinkInv'
  <2>1. ASSUME LinkInv, UNCHANGED L!linkVars PROVE LinkInv'
    BY <2>1 DEF LinkInv, Says, Fits, L!linkVars
  <2> QED BY <2>1, LinkStep
<1>3. LinkInv => L!LinkTypes
  BY DEF LinkInv, LinkGuards, KnownGuards, L!LinkTypes, L!LooksLikeContractAddress
<1>4. LinkInv => L!AddressNamesView
  BY DEF LinkInv, Says, Fits, L!AddressNamesView
<1> QED BY <1>1, <1>2, <1>3, <1>4, PTL DEF L!Spec

-----------------------------------------------------------------------------
(* The policy form.  What is staged was made for the guard it is staged     *)
(* for, and what belongs to a guard goes when another is shown.             *)
P == INSTANCE PolicyDrafts

FormFits == MaxEdits \in Nat /\ Depth \in Nat \ {0}

Drafts == P!Draft \cup {Nil}
\* The history of the draft.
DraftsTyped ==
  /\ draft \in Drafts /\ past \in Seq(Drafts) /\ Len(past) <= Depth
  /\ future \in Seq(Drafts) /\ burst \in {<<>>} \cup {<<d>> : d \in Drafts}
\* What was staged, reviewed or written.
StagedOwn ==
  /\ staged \in P!Scoped(P!Draft) \cup {Nil}
  /\ staged # Nil => staged.draft.made = staged.guard
OffersOwn ==
  /\ approval \in P!Scoped(P!Draft) \cup {Nil}
  /\ approval # Nil => approval.guard = active
WritesOwn ==
  write # Nil => /\ write.guard \in FormGuards /\ write.kind \in {"install", "export", "revoke"}
                 /\ write.asked = write.guard
FormInv ==
  /\ active \in FormGuards /\ scope \in FormGuards \cup {Nil}
  /\ reading \in FormGuards \cup {Nil}
  /\ caps \in [guard : FormGuards, read : BOOLEAN] \cup {Nil}
  /\ outcome \in {Nil, active} /\ edits \in 0..MaxEdits
  /\ DraftsTyped /\ StagedOwn /\ OffersOwn /\ WritesOwn

LEMMA RecordedFits ==
  ASSUME FormFits, NEW rows \in Seq(Drafts), Len(rows) <= Depth, NEW d \in Drafts
  PROVE  P!Recorded(rows, d) \in Seq(Drafts) /\ Len(P!Recorded(rows, d)) <= Depth
<1> HIDE DEF Drafts
<1>1. CASE Len(rows) < Depth
  <2>1. Append(rows, d) \in Seq(Drafts) /\ Len(Append(rows, d)) = Len(rows) + 1
    OBVIOUS
  <2> QED BY <1>1, <2>1 DEF P!Recorded, FormFits
<1>2. CASE ~(Len(rows) < Depth)
  <2>1. rows # <<>>
    BY <1>2 DEF FormFits
  <2>2. Tail(rows) \in Seq(Drafts) /\ Len(Tail(rows)) = Len(rows) - 1
    BY <2>1
  <2>3. PICK rest \in Seq(Drafts) : rest = Tail(rows)
    BY <2>2
  <2>4. Append(rest, d) \in Seq(Drafts) /\ Len(Append(rest, d)) = Len(rest) + 1
    OBVIOUS
  <2> QED BY <1>2, <2>2, <2>3, <2>4 DEF P!Recorded, FormFits
<1> QED BY <1>1, <1>2

LEMMA FlushedFits ==
  ASSUME FormFits, DraftsTyped
  PROVE  P!Flushed \in Seq(Drafts) /\ Len(P!Flushed) <= Depth
<1>1. CASE burst = <<>>
  BY <1>1 DEF P!Flushed, DraftsTyped
<1>2. CASE burst # <<>>
  <2>1. PICK d \in Drafts : burst = <<d>>
    BY <1>2 DEF DraftsTyped
  <2>2. P!Flushed = P!Recorded(past, d)
    BY <1>2, <2>1 DEF P!Flushed
  <2> QED BY <2>2, RecordedFits DEF DraftsTyped
<1> QED BY <1>1, <1>2

LEMMA PushFits ==
  ASSUME FormFits, DraftsTyped, NEW d \in Drafts, P!Push(d)
  PROVE  DraftsTyped'
<1>1. draft \in Drafts /\ draft' = d /\ <<>> \in Seq(Drafts)
  BY DEF P!Push, DraftsTyped
<1>2. CASE d = draft
  BY <1>1, <1>2 DEF P!Push, DraftsTyped
<1>3. CASE d # draft
  <2>1. past' = P!Recorded(P!Flushed, draft) /\ future' = <<>> /\ burst' = <<>>
    BY <1>3 DEF P!Push
  <2>2. P!Flushed \in Seq(Drafts) /\ Len(P!Flushed) <= Depth
    BY FlushedFits
  <2>3. past' \in Seq(Drafts) /\ Len(past') <= Depth
    BY <1>1, <2>1, <2>2, RecordedFits
  <2> QED BY <1>1, <2>1, <2>3 DEF DraftsTyped
<1> QED BY <1>2, <1>3

\* What a list is without its last element.
LEMMA ShorterFits ==
  ASSUME NEW X, NEW s \in Seq(X), s # <<>>
  PROVE  /\ s[Len(s)] \in X /\ SubSeq(s, 1, Len(s) - 1) \in Seq(X)
         /\ Len(SubSeq(s, 1, Len(s) - 1)) = Len(s) - 1
<1>1. PICK n \in 1..Len(s) : n = Len(s)
  OBVIOUS
<1>2. SubSeq(s, 1, n - 1) \in Seq(X) /\ Len(SubSeq(s, 1, n - 1)) = n - 1
  OBVIOUS
<1>3. s[n] \in X
  OBVIOUS
<1> QED BY <1>1, <1>2, <1>3

LEMMA UndoFitsForm ==
  ASSUME FormFits, DraftsTyped, P!UndoEdit \/ P!RedoEdit
  PROVE  DraftsTyped'
<1>1. P!Flushed \in Seq(Drafts) /\ Len(P!Flushed) <= Depth /\ draft \in Drafts
      /\ future \in Seq(Drafts)
  BY FlushedFits DEF DraftsTyped
<1>2. CASE P!UndoEdit
  <2>1. PICK flushed \in Seq(Drafts) : flushed = P!Flushed
    BY <1>1
  <2>2. /\ flushed # <<>> /\ future' = Append(future, draft) /\ draft' = flushed[Len(flushed)]
        /\ past' = SubSeq(flushed, 1, Len(flushed) - 1) /\ burst' = <<>>
    BY <1>2, <2>1 DEF P!UndoEdit
  <2>3. draft' \in Drafts /\ past' \in Seq(Drafts) /\ Len(past') = Len(flushed) - 1
    BY <2>2, ShorterFits
  <2>4. future' \in Seq(Drafts)
    BY <1>1, <2>2
  <2>5. Len(past') <= Depth
    BY <1>1, <2>1, <2>3 DEF FormFits
  <2> QED BY <2>2, <2>3, <2>4, <2>5 DEF DraftsTyped
<1>3. CASE P!RedoEdit
  <2>1. /\ future # <<>> /\ past' = P!Recorded(P!Flushed, draft) /\ draft' = future[Len(future)]
        /\ future' = SubSeq(future, 1, Len(future) - 1) /\ burst' = <<>>
    BY <1>3 DEF P!RedoEdit
  <2>2. draft' \in Drafts /\ future' \in Seq(Drafts)
    BY <1>1, <2>1, ShorterFits
  <2>3. past' \in Seq(Drafts) /\ Len(past') <= Depth
    BY <1>1, <2>1, RecordedFits
  <2> QED BY <2>1, <2>2, <2>3 DEF DraftsTyped
<1> QED BY <1>2, <1>3

LEMMA FormStep == ASSUME FormFits, FormInv, P!Next PROVE FormInv'
<1>0. /\ active \in FormGuards /\ scope \in FormGuards \cup {Nil}
      /\ reading \in FormGuards \cup {Nil} /\ edits \in 0..MaxEdits
      /\ caps \in [guard : FormGuards, read : BOOLEAN] \cup {Nil}
      /\ outcome \in {Nil, active} /\ draft \in Drafts
      /\ DraftsTyped /\ StagedOwn /\ OffersOwn /\ WritesOwn
  BY DEF FormInv, DraftsTyped
<1>1. P!Installed \in P!Draft /\ P!Effective \in P!Draft
  <2>1. P!Installed \in P!Draft
    BY <1>0 DEF P!Installed, P!Draft, FormFits
  <2> QED BY <1>0, <2>1 DEF P!Effective, Drafts
\* The draft and its history change, and the guard it is for.
<1>2. ASSUME DraftsTyped', scope' \in FormGuards \cup {Nil}, edits' \in 0..MaxEdits,
             caps' \in [guard : FormGuards, read : BOOLEAN] \cup {Nil},
             UNCHANGED <<active, reading, staged, approval, write, outcome>>
      PROVE  FormInv'
  BY <1>0, <1>2 DEF FormInv, StagedOwn, OffersOwn, WritesOwn
\* Nothing of the draft changes.
<1>3. ASSUME UNCHANGED P!historyVars PROVE DraftsTyped'
  BY <1>0, <1>3 DEF P!historyVars, DraftsTyped
<1>4. ASSUME NEW d \in Drafts, P!SetDraft(d)
      PROVE  DraftsTyped' /\ scope' \in FormGuards \cup {Nil}
  BY <1>0, <1>4, PushFits DEF P!SetDraft
<1>5. ASSUME NEW d, P!Made(d) PROVE edits' \in 0..MaxEdits /\ d.made = active
  BY <1>0, <1>5 DEF P!Made, FormFits
<1>6. CASE P!DebounceEnds
  <2>1. DraftsTyped'
    BY <1>0, <1>6, FlushedFits DEF P!DebounceEnds, DraftsTyped
  <2> QED BY <1>0, <1>2, <1>6, <2>1 DEF P!DebounceEnds, P!Untouched
<1>7. CASE P!UndoEdit \/ P!RedoEdit
  <2>1. DraftsTyped'
    BY <1>0, <1>7, UndoFitsForm
  <2> QED BY <1>0, <1>2, <1>7, <2>1 DEF P!UndoEdit, P!RedoEdit, P!Untouched
<1>8. CASE P!ClearForm
  <2>1. DraftsTyped' /\ scope' \in FormGuards \cup {Nil} /\ edits' \in 0..MaxEdits
    <3>1. ASSUME NEW d \in P!Draft, P!Made(d), P!SetDraft(d)
          PROVE  DraftsTyped' /\ scope' \in FormGuards \cup {Nil} /\ edits' \in 0..MaxEdits
      BY <1>4, <1>5, <3>1 DEF Drafts
    <3>2. ASSUME P!SetDraft(Nil), UNCHANGED edits
          PROVE  DraftsTyped' /\ scope' \in FormGuards \cup {Nil} /\ edits' \in 0..MaxEdits
      BY <1>0, <1>4, <3>2 DEF Drafts
    <3> QED BY <1>8, <3>1, <3>2 DEF P!ClearForm
  <2> QED BY <1>0, <1>2, <1>8, <2>1 DEF P!ClearForm
<1>9. CASE P!DiscardOtherGuardDraft
  <2>1. DraftsTyped'
    BY <1>0, <1>9, PushFits DEF P!DiscardOtherGuardDraft, Drafts
  <2> QED BY <1>0, <1>2, <1>9, <2>1 DEF P!DiscardOtherGuardDraft
<1>10. ASSUME NEW d \in P!Draft, P!ChangeField(d) PROVE FormInv'
  <2>1. edits' \in 0..MaxEdits
    BY <1>5, <1>10 DEF P!ChangeField
  <2>2. DraftsTyped' /\ scope' \in FormGuards \cup {Nil}
    <3>1. CASE P!Edit(d) /\ scope' = active
      <4>1. burst' \in {<<>>} \cup {<<e>> : e \in Drafts}
        BY <1>0, <3>1 DEF P!Edit, DraftsTyped
      <4>2. draft' \in Drafts /\ future' \in Seq(Drafts) /\ past' = past
        BY <3>1, <1>10 DEF P!Edit, Drafts
      <4> QED BY <1>0, <3>1, <4>1, <4>2 DEF DraftsTyped
    <3>2. CASE P!SetDraft(d)
      BY <1>4, <3>2 DEF Drafts
    <3> QED BY <1>10, <3>1, <3>2 DEF P!ChangeField
  <2> QED BY <1>0, <1>2, <1>10, <2>1, <2>2 DEF P!ChangeField
<1>11. ASSUME NEW d \in P!Draft, P!ApplyAssets(d) PROVE FormInv'
  <2>1. edits' \in 0..MaxEdits
    BY <1>0, <1>11 DEF P!ApplyAssets, FormFits
  <2>2. DraftsTyped' /\ scope' \in FormGuards \cup {Nil}
    BY <1>4, <1>11 DEF P!ApplyAssets, Drafts
  <2> QED BY <1>2, <1>11, <2>1, <2>2 DEF P!ApplyAssets
\* What is staged, with nothing else but the reading and the bound.
<1>12. ASSUME staged' = Nil \/ \E g \in FormGuards, d \in P!Draft :
                                 staged' = [guard |-> g, draft |-> d] /\ d.made = g
       PROVE  StagedOwn'
  <2>1. CASE staged' = Nil
    BY <2>1 DEF StagedOwn
  <2>2. ASSUME NEW g \in FormGuards, NEW d \in P!Draft,
               staged' = [guard |-> g, draft |-> d], d.made = g
        PROVE  StagedOwn'
    <3> DEFINE Ds == P!Draft
    <3> HIDE DEF Ds
    <3>1. d \in Ds
      BY DEF Ds
    <3>2. staged' \in [guard : FormGuards, draft : Ds]
      BY <2>2, <3>1
    <3> QED BY <2>2, <3>2 DEF StagedOwn, P!Scoped, Ds
  <2> QED BY <1>12, <2>1, <2>2
<1>13. ASSUME NEW d \in P!Draft, P!StagePreset(d) PROVE FormInv'
  <2>1. edits' \in 0..MaxEdits /\ d.made = active
    BY <1>5, <1>13 DEF P!StagePreset
  <2>2. StagedOwn'
    BY <1>0, <1>12, <1>13, <2>1 DEF P!StagePreset
  <2> QED BY <1>0, <1>3, <1>13, <2>1, <2>2 DEF P!StagePreset, FormInv, StagedOwn, OffersOwn, WritesOwn
<1>14. CASE P!ImportPolicyJson
  BY <1>0, <1>3, <1>14 DEF P!ImportPolicyJson, FormInv, StagedOwn, OffersOwn, WritesOwn
<1>15. CASE P!ImportRead
  <2>1. edits' \in 0..MaxEdits
    BY <1>0, <1>15 DEF P!ImportRead, FormFits
  <2>2. StagedOwn'
    <3>1. CASE UNCHANGED staged
      BY <1>0, <3>1 DEF StagedOwn
    <3>2. ASSUME NEW d \in P!Draft, d.made = reading, staged' = [guard |-> reading, draft |-> d]
          PROVE  StagedOwn'
      <4>1. reading \in FormGuards
        BY <1>0, <1>15 DEF P!ImportRead
      <4> QED BY <1>12, <3>2, <4>1
    <3> QED BY <1>15, <3>1, <3>2 DEF P!ImportRead
  <2> QED BY <1>0, <1>3, <1>15, <2>1, <2>2 DEF P!ImportRead, FormInv, StagedOwn, OffersOwn, WritesOwn
<1>16. CASE P!ApplyStaged
  <2>1. staged.draft \in Drafts
    BY <1>0, <1>16 DEF P!ApplyStaged, StagedOwn, P!Scoped, Drafts
  <2>2. DraftsTyped' /\ scope' \in FormGuards \cup {Nil}
    BY <1>0, <1>3, <1>4, <1>16, <2>1 DEF P!ApplyStaged
  <2> QED BY <1>0, <1>16, <2>2 DEF P!ApplyStaged, FormInv, StagedOwn, OffersOwn, WritesOwn
<1>17. CASE P!CancelStaged
  BY <1>0, <1>3, <1>17 DEF P!CancelStaged, FormInv, StagedOwn, OffersOwn, WritesOwn
<1>18. CASE P!PickAssets \/ P!AssetsRead \/ P!CancelAssets
  <2>1. caps' \in [guard : FormGuards, read : BOOLEAN] \cup {Nil}
    <3>1. CASE P!PickAssets
      BY <1>0, <3>1 DEF P!PickAssets
    <3>2. CASE P!AssetsRead
      <4>1. PICK file \in [guard : FormGuards, read : BOOLEAN] : file = caps
        BY <1>0, <3>2 DEF P!AssetsRead
      <4>2. [file EXCEPT !.read = TRUE] \in [guard : FormGuards, read : BOOLEAN]
        OBVIOUS
      <4> QED BY <3>2, <4>1, <4>2 DEF P!AssetsRead
    <3>3. CASE P!CancelAssets
      BY <3>3 DEF P!CancelAssets
    <3> QED BY <1>18, <3>1, <3>2, <3>3
  <2>2. DraftsTyped' /\ UNCHANGED <<active, scope, reading, staged, approval, write, outcome, edits>>
    BY <1>3, <1>18, Zenon DEF P!PickAssets, P!AssetsRead, P!CancelAssets
  <2> QED BY <1>0, <1>2, <2>1, <2>2
<1>19. ASSUME NEW g \in FormGuards, P!SwitchGuard(g) PROVE FormInv'
  BY <1>0, <1>3, <1>19 DEF P!SwitchGuard, FormInv, StagedOwn, OffersOwn, WritesOwn
<1>20. CASE P!Submit
  <2>1. approval' \in P!Scoped(P!Draft) /\ approval'.guard = active
    <3> DEFINE Ds == P!Draft
               shownDraft == P!Effective
    <3>1. approval' = [guard |-> active, draft |-> shownDraft] /\ shownDraft \in Ds
      BY <1>1, <1>20 DEF P!Submit
    <3> HIDE DEF Ds, shownDraft
    <3>2. approval' \in [guard : FormGuards, draft : Ds] /\ approval'.guard = active
      BY <1>0, <3>1
    <3> QED BY <3>2 DEF P!Scoped, Ds
  <2> QED BY <1>0, <1>3, <1>20, <2>1 DEF P!Submit, FormInv, StagedOwn, OffersOwn, WritesOwn
<1>21. CASE P!CancelReview
  BY <1>0, <1>3, <1>21 DEF P!CancelReview, FormInv, StagedOwn, OffersOwn, WritesOwn
<1>22. ASSUME NEW g, NEW d, NEW kind \in {"install", "export", "revoke"}, P!Start(g, d, kind)
       PROVE  FormInv'
  <2>1. WritesOwn'
    BY <1>0, <1>22 DEF P!Start, WritesOwn
  <2>2. approval' \in {Nil, approval} /\ outcome' = Nil
        /\ UNCHANGED <<active, P!historyVars, scope, reading, staged, caps, edits>>
    BY <1>22, Zenon DEF P!Start
  <2> QED BY <1>0, <1>3, <2>1, <2>2 DEF FormInv, StagedOwn, OffersOwn
<1>23. CASE P!RunInstall \/ P!ExportPolicy \/ P!RevokePolicy
  BY <1>22, <1>23 DEF P!RunInstall, P!ExportPolicy, P!RevokePolicy
<1>24. CASE P!WriteSettles
  BY <1>0, <1>3, <1>24 DEF P!WriteSettles, FormInv, StagedOwn, OffersOwn, WritesOwn
<1> QED BY <1>6, <1>7, <1>8, <1>9, <1>10, <1>11, <1>13, <1>14, <1>15, <1>16, <1>17, <1>18, <1>19,
           <1>20, <1>21, <1>23, <1>24 DEF P!Next

(* For any guards, drafts and length of history: an outcome, a review and a *)
(* write on the policy screen are of the guard they were made for, and what *)
(* is staged over a guard's policy was made for that guard (PolicyForm's    *)
(* scoped writes and the render that sees a new guard).                     *)
THEOREM FormStaysOwn ==
  ASSUME FormFits PROVE P!Spec => [](P!FormTypes /\ P!PolicyScreenOwn)
<1>1. P!Init => FormInv
  <2> SUFFICES ASSUME P!Init PROVE FormInv
    OBVIOUS
  <2>1. <<>> \in Seq(Drafts) /\ Len(<<>>) = 0 /\ 0 \in 0..MaxEdits /\ Nil \in Drafts
    BY DEF FormFits, Drafts
  <2> QED BY <2>1 DEF P!Init, FormInv, DraftsTyped, StagedOwn, OffersOwn, WritesOwn, FormFits
<1>2. FormInv /\ [P!Next]_(P!formVars) => FormInv'
  <2>1. ASSUME FormInv, UNCHANGED P!formVars PROVE FormInv'
    BY <2>1 DEF FormInv, DraftsTyped, StagedOwn, OffersOwn, WritesOwn, P!formVars
  <2> QED BY <2>1, FormStep
<1>3. FormInv => P!FormTypes
  BY DEF FormInv, DraftsTyped, StagedOwn, OffersOwn, WritesOwn, Drafts, P!FormTypes
<1>4. FormInv => P!PolicyScreenOwn
  BY DEF FormInv, StagedOwn, OffersOwn, WritesOwn, P!PolicyScreenOwn
<1> QED BY <1>1, <1>2, <1>3, <1>4, PTL DEF P!Spec

-----------------------------------------------------------------------------
(* The alerts.  What the bridge acts on was saved without a problem, so it  *)
(* has an endpoint and an alert, and its threshold can be reached.          *)
W == INSTANCE WebhookRules WITH stored <- settings

HooksFit ==
  /\ MaxBlocks \in Nat \ {0} /\ AlertTypes \subseteq {"freeze", "dms", "blocks"}
  /\ Nil \notin W!Settings /\ Nil \notin W!SettingsWith(0..MaxBlocks + 1)

Sendable(s) == s \in W!Settings /\ (s.enabled => s.url = "accepted" /\ s.events # {})
HookInv ==
  /\ settings # Nil => Sendable(settings)
  /\ Sendable(bridge)
  /\ dialog \in W!SettingsWith(0..MaxBlocks + 1) \cup {Nil} /\ problem \in BOOLEAN
  /\ testing \in W!Settings \cup {Nil} /\ ping \in W!Outcomes \cup {Nil}

LEMMA NormalFits ==
  ASSUME HooksFit, NEW s \in W!SettingsWith(0..MaxBlocks + 1)
  PROVE  LET r == W!Normalised(s)
         IN  r \in W!Settings /\ r.enabled = s.enabled /\ r.url = s.url /\ r.events = s.events
<1>1. PICK n \in 1..MaxBlocks : n = W!Clamped(s.threshold)
  <2>1. s.threshold \in 0..MaxBlocks + 1 /\ MaxBlocks \in Nat \ {0}
    BY DEF HooksFit, W!SettingsWith
  <2> QED BY <2>1 DEF W!Clamped
<1>2. PICK r : r = W!Normalised(s)
  OBVIOUS
<1>3. r = [enabled |-> s.enabled, url |-> s.url, events |-> s.events, threshold |-> n]
  BY <1>1, <1>2 DEF W!Normalised, W!SettingsWith
<1>4. r \in W!Settings
  BY <1>1, <1>3 DEF W!Settings, W!SettingsWith
<1> QED BY <1>2, <1>3, <1>4

LEMMA DefaultsFit == ASSUME HooksFit PROVE Sendable(W!Defaults)
<1>1. PICK no \in BOOLEAN : no = FALSE
  BY Zenon
<1>2. W!Defaults = [enabled |-> no, url |-> "empty", events |-> AlertTypes, threshold |-> 1]
  BY <1>1 DEF W!Defaults
<1>3. "empty" \in W!Urls /\ AlertTypes \in SUBSET AlertTypes /\ 1 \in 1..MaxBlocks
  BY DEF W!Urls, HooksFit
<1>4. W!Defaults \in W!Settings
  BY <1>2, <1>3 DEF W!Settings, W!SettingsWith
<1>5. W!Defaults.enabled = no
  BY <1>2
<1> QED BY <1>1, <1>4, <1>5 DEF Sendable

LEMMA StoredIsTyped ==
  ASSUME HooksFit, NEW s, s \in W!Settings
  PROVE  s \in W!SettingsWith(0..MaxBlocks + 1)
<1>1. 1..MaxBlocks \subseteq 0..MaxBlocks + 1
  BY DEF HooksFit
<1> QED BY <1>1 DEF W!Settings, W!SettingsWith

LEMMA HookLoaded ==
  ASSUME HooksFit, NEW s, s # Nil => Sendable(s)
  PROVE  Sendable(W!Loaded(s))
BY DefaultsFit DEF W!Loaded

LEMMA HookStep == ASSUME HooksFit, HookInv, W!Next PROVE HookInv'
<1>0. /\ settings # Nil => Sendable(settings)
      /\ Sendable(bridge)
      /\ dialog \in W!SettingsWith(0..MaxBlocks + 1) \cup {Nil} /\ problem \in BOOLEAN
      /\ testing \in W!Settings \cup {Nil} /\ ping \in W!Outcomes \cup {Nil}
  BY DEF HookInv
<1>1. /\ Sendable(W!Loaded(settings)) /\ Sendable(W!Defaults)
      /\ W!Loaded(settings) \in W!SettingsWith(0..MaxBlocks + 1)
      /\ W!Defaults \in W!SettingsWith(0..MaxBlocks + 1)
  <2>1. Sendable(W!Loaded(settings)) /\ Sendable(W!Defaults)
    BY <1>0, HookLoaded, DefaultsFit
  <2> QED BY <2>1, StoredIsTyped DEF Sendable
<1>2. PICK yes \in BOOLEAN, no \in BOOLEAN : yes = TRUE /\ no = FALSE
  BY Zenon
<1>3. CASE W!OpenSettings
  <2>1. /\ dialog' = W!Loaded(settings) /\ problem' = no /\ testing' = Nil /\ ping' = Nil
        /\ UNCHANGED <<settings, bridge>>
    BY <1>2, <1>3 DEF W!OpenSettings
  <2> QED BY <1>0, <1>1, <2>1 DEF HookInv
<1>4. ASSUME dialog # Nil, dialog' \in W!SettingsWith(0..MaxBlocks + 1), problem' \in BOOLEAN,
             ping' = Nil, UNCHANGED <<settings, bridge, testing>>
      PROVE  HookInv'
  BY <1>0, <1>4 DEF HookInv
<1>5. ASSUME dialog # Nil
      PROVE  dialog = [enabled |-> dialog.enabled, url |-> dialog.url, events |-> dialog.events,
                       threshold |-> dialog.threshold]
             /\ dialog.enabled \in BOOLEAN /\ dialog.url \in W!Urls
             /\ dialog.events \in SUBSET AlertTypes /\ dialog.threshold \in 0..MaxBlocks + 1
  BY <1>0, <1>5 DEF W!SettingsWith
<1>6. ASSUME NEW on \in BOOLEAN, W!EditSettings("enabled", on) PROVE HookInv'
  <2>1. /\ dialog # Nil /\ dialog' = [dialog EXCEPT !.enabled = on] /\ problem' = no
        /\ ping' = Nil /\ UNCHANGED <<settings, bridge, testing>>
    BY <1>2, <1>6 DEF W!EditSettings
  <2>2. dialog' = [enabled |-> on, url |-> dialog.url, events |-> dialog.events,
                   threshold |-> dialog.threshold]
    BY <1>5, <2>1
  <2>3. dialog' \in W!SettingsWith(0..MaxBlocks + 1)
    BY <1>5, <2>1, <2>2 DEF W!SettingsWith
  <2> QED BY <1>4, <2>1, <2>3
<1>7. ASSUME NEW url \in W!Urls, W!EditSettings("url", url) PROVE HookInv'
  <2>1. /\ dialog # Nil /\ dialog' = [dialog EXCEPT !.url = url] /\ problem' = no
        /\ ping' = Nil /\ UNCHANGED <<settings, bridge, testing>>
    BY <1>2, <1>7 DEF W!EditSettings
  <2>2. dialog' = [enabled |-> dialog.enabled, url |-> url, events |-> dialog.events,
                   threshold |-> dialog.threshold]
    BY <1>5, <2>1
  <2>3. dialog' \in W!SettingsWith(0..MaxBlocks + 1)
    BY <1>5, <2>1, <2>2 DEF W!SettingsWith
  <2> QED BY <1>4, <2>1, <2>3
<1>8. ASSUME NEW n \in 0..MaxBlocks + 1, W!EditSettings("threshold", n) PROVE HookInv'
  <2>1. /\ dialog # Nil /\ dialog' = [dialog EXCEPT !.threshold = n] /\ problem' = no
        /\ ping' = Nil /\ UNCHANGED <<settings, bridge, testing>>
    BY <1>2, <1>8 DEF W!EditSettings
  <2>2. dialog' = [enabled |-> dialog.enabled, url |-> dialog.url, events |-> dialog.events,
                   threshold |-> n]
    BY <1>5, <2>1
  <2>3. dialog' \in W!SettingsWith(0..MaxBlocks + 1)
    BY <1>5, <2>1, <2>2 DEF W!SettingsWith
  <2> QED BY <1>4, <2>1, <2>3
<1>9. ASSUME NEW e \in AlertTypes, W!ToggleAlert(e) PROVE HookInv'
  <2>1. PICK chosen \in SUBSET AlertTypes :
          chosen = IF e \in dialog.events THEN dialog.events \ {e} ELSE dialog.events \cup {e}
    BY <1>5, <1>9 DEF W!ToggleAlert
  <2>2. /\ dialog # Nil /\ dialog' = [dialog EXCEPT !.events = chosen]
        /\ ping' = Nil /\ UNCHANGED <<settings, bridge, problem, testing>>
    BY <1>9, <2>1 DEF W!ToggleAlert
  <2>3. dialog' = [enabled |-> dialog.enabled, url |-> dialog.url, events |-> chosen,
                   threshold |-> dialog.threshold]
    BY <1>5, <2>2
  <2>4. dialog' \in W!SettingsWith(0..MaxBlocks + 1)
    BY <1>5, <2>2, <2>3 DEF W!SettingsWith
  <2> QED BY <1>0, <1>4, <2>2, <2>4
<1>10. CASE W!ResetSettings
  <2>1. /\ dialog # Nil /\ dialog' = W!Defaults /\ problem' = no
        /\ ping' = Nil /\ UNCHANGED <<settings, bridge, testing>>
    BY <1>2, <1>10 DEF W!ResetSettings
  <2> QED BY <1>1, <1>4, <2>1
<1>11. ASSUME NEW accepted \in BOOLEAN, W!SaveRules(accepted) PROVE HookInv'
  <2>1. dialog # Nil /\ UNCHANGED <<testing, ping>>
    BY <1>11 DEF W!SaveRules
  <2>2. CASE W!ConfigProblem(W!Normalised(dialog))
    <3>1. problem' = yes /\ UNCHANGED <<settings, bridge, dialog>>
      BY <1>2, <1>11, <2>2 DEF W!SaveRules
    <3> QED BY <1>0, <2>1, <3>1 DEF HookInv
  <2>3. CASE ~W!ConfigProblem(W!Normalised(dialog))
    <3>1. Sendable(W!Normalised(dialog))
      BY <1>0, <2>1, <2>3, NormalFits DEF W!ConfigProblem, Sendable
    <3>2. /\ settings' = W!Normalised(dialog) \/ settings' = settings
          /\ bridge' = W!Loaded(settings') /\ dialog' = Nil /\ problem' = no
      BY <1>2, <1>11, <2>3 DEF W!SaveRules
    <3>3. settings' # Nil => Sendable(settings')
      BY <1>0, <3>1, <3>2
    <3>4. PICK s : s = settings'
      OBVIOUS
    <3>5. Sendable(W!Loaded(s))
      BY <3>3, <3>4, HookLoaded
    <3> QED BY <1>0, <2>1, <3>2, <3>3, <3>4, <3>5 DEF HookInv, Sendable
  <2> QED BY <2>2, <2>3
<1>12. CASE W!TestWebhook
  <2>1. /\ dialog # Nil /\ ping' = Nil /\ UNCHANGED <<settings, bridge, dialog>>
        /\ problem' = (dialog.url # "accepted")
        /\ testing' = IF problem' THEN Nil ELSE [W!Normalised(dialog) EXCEPT !.enabled = TRUE]
    BY <1>12 DEF W!TestWebhook
  <2>2. PICK s : s = W!Normalised(dialog)
    OBVIOUS
  <2>3. s \in W!Settings
    BY <1>0, <2>1, <2>2, NormalFits
  <2>4. PICK on : on = [s EXCEPT !.enabled = yes]
    OBVIOUS
  <2>5. on = [enabled |-> yes, url |-> s.url, events |-> s.events, threshold |-> s.threshold]
    BY <2>3, <2>4 DEF W!Settings, W!SettingsWith
  <2>6. on \in W!Settings
    BY <2>3, <2>5 DEF W!Settings, W!SettingsWith
  <2>7. testing' = Nil \/ testing' = on
    BY <1>2, <2>1, <2>2, <2>4
  <2>8. problem' \in BOOLEAN
    <3>1. (dialog.url # "accepted") \in BOOLEAN
      OBVIOUS
    <3> QED BY <2>1, <3>1, Zenon
  <2> QED BY <1>0, <2>1, <2>6, <2>7, <2>8 DEF HookInv
<1>13. ASSUME NEW answer \in W!Outcomes \ {"skipped"}, W!PingOver(answer) PROVE HookInv'
  <2>1. /\ testing' = Nil /\ UNCHANGED <<settings, bridge, dialog, problem>>
        /\ ping' = IF dialog = Nil THEN ping ELSE W!DispatchOutcome("test", testing, answer)
    BY <1>13 DEF W!PingOver
  <2>2. ping' \in W!Outcomes \cup {Nil}
    BY <1>0, <2>1 DEF W!DispatchOutcome, W!Outcomes
  <2> QED BY <1>0, <2>1, <2>2 DEF HookInv
<1>14. CASE W!CloseSettings
  BY <1>0, <1>14 DEF HookInv, W!CloseSettings
<1>15. CASE W!Removed
  BY <1>0, <1>15 DEF HookInv, W!Removed
<1>16. CASE W!Reloaded
  <2>1. bridge' = W!Loaded(settings) /\ UNCHANGED <<settings, dialog, problem, testing, ping>>
    BY <1>16 DEF W!Reloaded
  <2> QED BY <1>0, <1>1, <2>1 DEF HookInv
<1> QED
  BY <1>3, <1>6, <1>7, <1>8, <1>9, <1>10, <1>11, <1>12, <1>13, <1>14, <1>15, <1>16 DEF W!Next

\* As many refusals as the feed holds reach every threshold that can be saved.
LEMMA ManyBlocks ==
  ASSUME HooksFit
  PROVE  W!BlockedInWindow([b \in 1..MaxBlocks |-> Nil]) = MaxBlocks
<1> DEFINE blocks == [b \in 1..MaxBlocks |-> Nil]
<1>1. {b \in DOMAIN blocks : blocks[b] = Nil \/ blocks[b] <= W!Window} = 1..MaxBlocks
  OBVIOUS
<1>2. Cardinality(1..MaxBlocks) = MaxBlocks
  <2>1. MaxBlocks \in Nat /\ MaxBlocks >= 1
    BY DEF HooksFit
  <2>2. Cardinality(1..MaxBlocks) = MaxBlocks - 1 + 1
    BY <2>1, FS_Interval
  <2> QED BY <2>1, <2>2
<1>3. W!BlockedInWindow(blocks) =
        Cardinality({b \in DOMAIN blocks : blocks[b] = Nil \/ blocks[b] <= W!Window})
  BY DEF W!BlockedInWindow, W!Cardinality, Cardinality
<1> QED BY <1>1, <1>2, <1>3

(* Whatever is typed, saved, refused by the storage or removed by another   *)
(* tab: while alerts are on, some status of the guard raises one, and none  *)
(* that webhookEventsFor finds is skipped by dispatchWebhook for the        *)
(* settings (webhookConfigProblem before save).  A spent edge, a cooldown   *)
(* and a failed post may still keep an alert from being sent.               *)
THEOREM AlertsAreNotSkipped ==
  ASSUME HooksFit
  PROVE  W!Spec => [](W!HookTypes /\ W!OnCanSend)
<1>1. W!Init => HookInv
  <2> SUFFICES ASSUME W!Init PROVE HookInv
    OBVIOUS
  <2>1. PICK no \in BOOLEAN : no = FALSE
    BY Zenon
  <2>2. /\ settings = Nil /\ bridge = W!Defaults /\ dialog = Nil /\ problem = no
        /\ testing = Nil /\ ping = Nil
    BY <2>1 DEF W!Init
  <2> QED BY <2>2, DefaultsFit DEF HookInv
<1>2. HookInv /\ [W!Next]_(W!hookVars) => HookInv'
  <2>1. ASSUME HookInv, UNCHANGED W!hookVars PROVE HookInv'
    BY <2>1 DEF HookInv, Sendable, W!hookVars
  <2> QED BY <2>1, HookStep
<1>3. HookInv => W!HookTypes
  BY DEF HookInv, Sendable, W!HookTypes
<1>4. HookInv => W!OnCanSend
  <2> SUFFICES ASSUME HookInv, bridge.enabled PROVE W!OnCanSend
    BY DEF W!OnCanSend
  <2>1. /\ bridge.url = "accepted" /\ bridge.events # {} /\ bridge.events \subseteq AlertTypes
        /\ bridge.threshold \in 1..MaxBlocks
    BY DEF HookInv, Sendable, W!Settings, W!SettingsWith
  <2>2. PICK blocks : blocks = [b \in 1..MaxBlocks |-> Nil]
    OBVIOUS
  <2>3. W!BlockedInWindow(blocks) >= bridge.threshold
    BY <2>1, <2>2, ManyBlocks DEF HooksFit
  <2>4. W!EventsFor(bridge, TRUE, "expired", blocks) = bridge.events
    BY <2>1, <2>3 DEF W!EventsFor, HooksFit
  <2>5. \A e \in bridge.events : ~W!Skipped(e, bridge)
    BY <2>1 DEF W!Skipped
  <2> QED BY <2>1, <2>2, <2>4, <2>5 DEF W!OnCanSend
<1> QED BY <1>1, <1>2, <1>3, <1>4, PTL DEF W!Spec

-----------------------------------------------------------------------------
(* The fleet.  A poll that will be shown asked for no guard that has been   *)
(* removed since: a removal abandons the polls in flight.                   *)
Facts(status, left) == [status |-> status, left |-> left]
Told == {x :> Facts("Active", NoCountdown) @@ y :> Facts("Active", 1),
         x :> Facts("Active", 1) @@ y :> Facts("Frozen", 0),
         x :> Facts("Active", 1) @@ y :> Facts("Active", 1),
         x :> Facts("Active", 1) @@ y :> Facts("Active", 0)}
BuiltIn == <<x>>

F == INSTANCE FleetView WITH stored <- fleet, Answers <- Reports,
       Views <- {[status |-> "Active", key |-> "left", descending |-> TRUE]}

FleetFits == Seeded \in Seq(Registrable) /\ Room \in Nat

LivePolls ==
  \A p \in polls :
    /\ p \in [live : BOOLEAN, contacts : Seq(Registrable)]
    /\ p.live => \A i \in DOMAIN p.contacts : p.contacts[i] \notin expelled

FleetInv ==
  /\ fleet \in Seq(Registrable) /\ (undo # Nil => undo \in Seq(Registrable))
  /\ LivePolls
  /\ \A i \in DOMAIN fleet : fleet[i] \notin expelled
  /\ expelled \cap F!Known = {} /\ cleanupPlan \cap F!Known = {}

\* What a filter of the fleet leaves.
LEMMA FleetFilters ==
  ASSUME NEW list \in Seq(Registrable), NEW keep
  PROVE  /\ F!Filtered(list, keep) \in Seq(Registrable)
         /\ \A j \in DOMAIN F!Filtered(list, keep) :
              /\ F!Filtered(list, keep)[j] \in keep
              /\ \E i \in DOMAIN list : F!Filtered(list, keep)[j] = list[i]
<1> DEFINE left == H!Filtered(list, keep)
<1>1. F!Filtered(list, keep) = left
  BY DEF F!Filtered, H!Filtered
<1>2. /\ left \in Seq(Registrable) /\ Part(left, list, Len(list))
      /\ \A j \in 1..Len(left) : left[j] \in keep
  BY FilterKeeps
<1> HIDE DEF left
<1>3. ASSUME NEW j \in 1..Len(left)
      PROVE  \E i \in DOMAIN list : left[j] = list[i]
  <2>1. PICK i \in j..Len(list) : list[i] = left[j]
    BY <1>2 DEF Part
  <2>2. i \in DOMAIN list
    BY <2>1
  <2> QED BY <2>1, <2>2
<1>4. DOMAIN left = 1..Len(left)
  BY <1>2
<1> QED BY <1>1, <1>2, <1>3, <1>4

\* The fleet that is read is of the saved guards and the build's own.
LEMMA InstancesAre ==
  ASSUME FleetFits, NEW s \in Seq(Registrable)
  PROVE  /\ F!Instances(s) \in Seq(Registrable)
         /\ \A i \in DOMAIN F!Instances(s) :
              F!Instances(s)[i] \in F!Known \/ \E j \in DOMAIN s : F!Instances(s)[i] = s[j]
<1> DEFINE own == F!Filtered(Seeded, F!Known \ F!Range(s))
<1>1. own \in Seq(Registrable) /\ \A j \in DOMAIN own : own[j] \in F!Known
  BY FleetFilters DEF FleetFits
<1>2. F!Instances(s) = s \o own
  BY DEF F!Instances
<1> HIDE DEF own
<1>3. s \o own \in Seq(Registrable)
  BY <1>1
<1>4. ASSUME NEW i \in DOMAIN (s \o own)
      PROVE  (s \o own)[i] \in F!Known \/ \E j \in DOMAIN s : (s \o own)[i] = s[j]
  <2>1. CASE i \in 1..Len(s)
    BY <1>1, <2>1
  <2>2. CASE i \notin 1..Len(s)
    <3>1. i - Len(s) \in DOMAIN own /\ (s \o own)[i] = own[i - Len(s)]
      BY <1>1, <1>4, <2>2
    <3> QED BY <1>1, <3>1
  <2> QED BY <2>1, <2>2
<1> QED BY <1>2, <1>3, <1>4

\* A poll asks for nothing that was removed.
LEMMA PollIsClean ==
  ASSUME FleetFits, NEW s \in Seq(Registrable), NEW gone,
         \A i \in DOMAIN s : s[i] \notin gone, gone \cap F!Known = {}
  PROVE  LET p == F!Poll(F!Instances(s))
         IN /\ p \in [live : BOOLEAN, contacts : Seq(Registrable)]
            /\ \A i \in DOMAIN p.contacts : p.contacts[i] \notin gone
BY InstancesAre DEF F!Poll

LEMMA AbandonedAreDead ==
  ASSUME LivePolls, NEW p \in F!Abandoned
  PROVE  p \in [live : BOOLEAN, contacts : Seq(Registrable)] /\ ~p.live
<1>1. PICK q \in polls : p = [q EXCEPT !.live = FALSE]
  BY DEF F!Abandoned
<1>2. q \in [live : BOOLEAN, contacts : Seq(Registrable)]
  BY DEF LivePolls
<1> QED BY <1>1, <1>2

\* The effect that runs again reads the registry as it has become.
LEMMA RefreshIsClean ==
  ASSUME FleetFits, LivePolls, fleet' \in Seq(Registrable),
         \A i \in DOMAIN fleet' : fleet'[i] \notin expelled', expelled' \cap F!Known = {},
         F!Refreshed
  PROVE  LivePolls'
<1>1. PICK s, gone : s = fleet' /\ gone = expelled'
  OBVIOUS
<1> DEFINE p == F!Poll(F!Instances(s))
<1>2. polls' = F!Abandoned \cup {p}
  BY <1>1 DEF F!Refreshed
<1>3. /\ p \in [live : BOOLEAN, contacts : Seq(Registrable)]
      /\ \A i \in DOMAIN p.contacts : p.contacts[i] \notin gone
  BY <1>1, PollIsClean
<1> HIDE DEF p
<1>4. \A q \in polls' : q \in F!Abandoned \/ q = p
  BY <1>2
<1> QED BY <1>1, <1>3, <1>4, AbandonedAreDead DEF LivePolls

\* The rows a step brings are of no guard that was removed.
RowsAreClean ==
  \A i \in DOMAIN fleetRows' :
    fleetRows' # fleetRows => fleetRows'[i].guard \notin expelled

\* Only a poll and a page that opens change the rows.
LEMMA PollFits ==
  ASSUME FleetFits, FleetInv, NEW p \in polls, NEW facts, F!PollAnswered(p, facts)
  PROVE  FleetInv' /\ RowsAreClean
<1>1. FleetInv'
  BY DEF F!PollAnswered, F!registryVars, F!pickVars, FleetInv, LivePolls, F!Known, F!Range
<1>2. CASE p.live
  <2>1. fleetRows' = [i \in DOMAIN p.contacts |-> F!Row(p.contacts[i], facts)]
    BY <1>2 DEF F!PollAnswered, F!Taken
  <2>2. ASSUME NEW i \in DOMAIN fleetRows'
        PROVE  fleetRows'[i].guard \notin expelled
    <3>1. i \in DOMAIN p.contacts /\ fleetRows'[i] = F!Row(p.contacts[i], facts)
      BY <2>1, <2>2
    <3>2. fleetRows'[i].guard = p.contacts[i]
      BY <3>1 DEF F!Row
    <3> QED BY <1>2, <3>1, <3>2 DEF FleetInv, LivePolls
  <2> QED BY <1>1, <2>2 DEF RowsAreClean
<1>3. CASE ~p.live
  BY <1>1, <1>3 DEF F!PollAnswered, F!Taken, RowsAreClean
<1> QED BY <1>1, <1>2, <1>3

\* The page that opens, and the timer of an open page, read what is saved.
LEMMA ReadsFit ==
  ASSUME FleetFits, FleetInv, F!OpenFleet \/ F!PollAgain
  PROVE  FleetInv' /\ RowsAreClean
<1> DEFINE p == F!Poll(F!Instances(fleet))
<1>1. polls' = polls \cup {p} /\ UNCHANGED <<fleet, expelled>>
  BY DEF F!OpenFleet, F!PollAgain, F!registryVars
<1>2. /\ p \in [live : BOOLEAN, contacts : Seq(Registrable)]
      /\ \A i \in DOMAIN p.contacts : p.contacts[i] \notin expelled
  BY PollIsClean DEF FleetInv
<1> HIDE DEF p
<1>3. LivePolls'
  BY <1>1, <1>2 DEF FleetInv, LivePolls
<1>4. /\ undo' # Nil => undo' \in Seq(Registrable)
      /\ cleanupPlan' \cap F!Known = {}
  BY DEF F!OpenFleet, F!PollAgain, F!pickVars, FleetInv
<1>5. RowsAreClean
  BY DEF F!OpenFleet, F!PollAgain, RowsAreClean
<1>6. F!Known' = F!Known
  BY DEF F!Known, F!Range
<1> QED BY <1>1, <1>3, <1>4, <1>5, <1>6 DEF FleetInv

LEMMA ConfirmFits ==
  ASSUME FleetFits, FleetInv, NEW lands \in BOOLEAN, F!ConfirmCleanup(lands)
  PROVE  FleetInv' /\ RowsAreClean
<1>1. cleanupPlan' = {} /\ F!Refreshed /\ UNCHANGED fleetRows
  BY DEF F!ConfirmCleanup
<1>2. /\ fleet' \in Seq(Registrable) /\ (undo' # Nil => undo' \in Seq(Registrable))
      /\ expelled' \cap F!Known = {} /\ \A i \in DOMAIN fleet' : fleet'[i] \notin expelled'
  <2>1. CASE UNCHANGED <<fleet, expelled, undo>>
    BY <2>1 DEF FleetInv
  <2>2. CASE /\ undo' = fleet /\ F!Removes(cleanupPlan)
             /\ expelled' = expelled \cup (cleanupPlan \cap F!Range(fleet))
    <3> DEFINE keep == F!Range(fleet) \ cleanupPlan
    <3>1. fleet' = F!Filtered(fleet, keep)
      BY <2>2 DEF F!Removes
    <3>2. fleet \in Seq(Registrable)
      BY DEF FleetInv
    <3> HIDE DEF keep
    <3>3. /\ fleet' \in Seq(Registrable)
          /\ \A j \in DOMAIN fleet' :
               fleet'[j] \in keep /\ \E i \in DOMAIN fleet : fleet'[j] = fleet[i]
      BY <3>1, <3>2, FleetFilters
    <3>4. \A j \in DOMAIN fleet' : fleet'[j] \notin expelled /\ fleet'[j] \notin cleanupPlan
      BY <3>3 DEF keep, FleetInv
    <3> QED BY <2>2, <3>2, <3>3, <3>4 DEF FleetInv
  <2> QED BY <2>1, <2>2 DEF F!ConfirmCleanup, F!registryVars
<1>3. LivePolls'
  BY <1>1, <1>2, RefreshIsClean DEF FleetInv
<1>4. F!Known' = F!Known
  BY DEF F!Known, F!Range
<1> QED BY <1>1, <1>2, <1>3, <1>4 DEF FleetInv, RowsAreClean

LEMMA UndoFits ==
  ASSUME FleetFits, FleetInv, NEW lands \in BOOLEAN, F!UndoCleanup(lands)
  PROVE  FleetInv' /\ RowsAreClean
<1>1. /\ undo # Nil /\ undo' = Nil /\ F!Refreshed /\ UNCHANGED <<fleetRows, cleanupPlan>>
      /\ \/ F!Restores(undo) /\ expelled' = expelled \ F!Range(fleet')
         \/ UNCHANGED <<fleet, expelled>>
  BY DEF F!UndoCleanup, F!registryVars
<1>2. fleet' \in Seq(Registrable)
  <2>1. CASE F!Restores(undo)
    <3> DEFINE keep == F!Range(fleet) \ F!Range(undo)
               rest == F!Filtered(fleet, keep)
               all == undo \o rest
    <3>1. rest \in Seq(Registrable)
      <4> HIDE DEF keep
      <4> QED BY FleetFilters DEF FleetInv
    <3>2. fleet' = SubSeq(all, 1, IF Len(all) < Room THEN Len(all) ELSE Room)
      BY <2>1 DEF F!Restores
    <3> HIDE DEF rest
    <3>3. all \in Seq(Registrable) /\ Room \in Nat
      BY <1>1, <3>1 DEF FleetInv, FleetFits
    <3> HIDE DEF all
    <3>4. CASE Len(all) < Room
      BY <3>2, <3>3, <3>4
    <3>5. CASE ~(Len(all) < Room)
      BY <3>2, <3>3, <3>5
    <3> QED BY <3>4, <3>5
  <2>2. CASE UNCHANGED fleet
    BY <2>2 DEF FleetInv
  <2> QED BY <1>1, <2>1, <2>2
<1>3. expelled' \cap F!Known = {} /\ \A i \in DOMAIN fleet' : fleet'[i] \notin expelled'
  <2>1. CASE expelled' = expelled \ F!Range(fleet')
    BY <2>1 DEF FleetInv, F!Range
  <2>2. CASE UNCHANGED <<fleet, expelled>>
    BY <2>2 DEF FleetInv
  <2> QED BY <1>1, <2>1, <2>2
<1>4. LivePolls'
  BY <1>1, <1>2, <1>3, RefreshIsClean DEF FleetInv
<1>5. F!Known' = F!Known
  BY DEF F!Known, F!Range
<1> QED BY <1>1, <1>2, <1>3, <1>4, <1>5 DEF FleetInv, RowsAreClean

\* What another tab does to the registry.
LEMMA OthersFit ==
  ASSUME FleetFits, FleetInv, NEW g \in Registrable, F!OtherAdds(g) \/ F!OtherRemoves(g)
  PROVE  FleetInv' /\ RowsAreClean
<1>1. UNCHANGED <<polls, fleetRows, undo, cleanupPlan>> /\ expelled' \subseteq expelled
  BY DEF F!OtherAdds, F!OtherRemoves, F!pollVars, F!pickVars
<1>2. fleet \in Seq(Registrable)
  BY DEF FleetInv
<1>3. fleet' \in Seq(Registrable) /\ \A i \in DOMAIN fleet' : fleet'[i] \notin expelled'
  <2>1. CASE F!OtherAdds(g)
    <3> DEFINE all == Append(fleet, g)
    <3>1. /\ all \in Seq(Registrable) /\ Len(all) = Len(fleet) + 1
          /\ \A i \in 1..Len(all) : all[i] \notin expelled \ {g}
      BY <1>2 DEF FleetInv
    <3>2. expelled' = expelled \ {g}
      BY <2>1 DEF F!OtherAdds
    <3>3. fleet' = SubSeq(all, 1, Len(all)) \/ fleet' = SubSeq(all, 2, Len(all))
      BY <2>1, <3>1 DEF F!OtherAdds
    <3> HIDE DEF all
    <3>4. ASSUME NEW from \in {1, 2}, fleet' = SubSeq(all, from, Len(all))
          PROVE  fleet' \in Seq(Registrable) /\ \A i \in DOMAIN fleet' : fleet'[i] \notin expelled'
      <4>1. fleet' \in Seq(Registrable)
        BY <3>1, <3>4
      <4>2. \A i \in DOMAIN fleet' : i + from - 1 \in 1..Len(all) /\ fleet'[i] = all[i + from - 1]
        BY <3>1, <3>4
      <4> QED BY <3>1, <3>2, <4>1, <4>2
    <3> QED BY <3>3, <3>4
  <2>2. CASE F!OtherRemoves(g)
    <3> DEFINE keep == F!Range(fleet) \ {g}
    <3>1. fleet' = F!Filtered(fleet, keep)
      BY <2>2 DEF F!OtherRemoves, F!Removes
    <3> HIDE DEF keep
    <3>2. /\ fleet' \in Seq(Registrable)
          /\ \A j \in DOMAIN fleet' : \E i \in DOMAIN fleet : fleet'[j] = fleet[i]
      BY <1>2, <3>1, FleetFilters
    <3> QED BY <1>1, <3>2 DEF FleetInv
  <2> QED BY <2>1, <2>2
<1>4. F!Known' = F!Known
  BY DEF F!Known, F!Range
<1> QED BY <1>1, <1>3, <1>4 DEF FleetInv, LivePolls, RowsAreClean

\* A plan never holds one of the build's own guards.
LEMMA PicksFit ==
  ASSUME FleetInv, F!pollVars' = F!pollVars, F!registryVars' = F!registryVars,
         undo' = undo \/ undo' = Nil, cleanupPlan' \cap F!Known = {}
  PROVE  FleetInv' /\ RowsAreClean
<1>1. F!Known' = F!Known
  BY DEF F!Known, F!Range
<1> QED BY <1>1 DEF F!pollVars, F!registryVars, FleetInv, LivePolls, RowsAreClean

LEMMA FleetStep ==
  ASSUME FleetFits, FleetInv, [F!Next]_(F!fleetVars)
  PROVE  FleetInv' /\ RowsAreClean
<1>1. cleanupPlan \cap F!Known = {}
  BY DEF FleetInv
<1>2. CASE UNCHANGED F!fleetVars
  BY <1>1, <1>2, PicksFit DEF F!fleetVars, F!pollVars, F!registryVars
<1>3. CASE F!CloseFleet
  <2>1. LivePolls'
    BY <1>3, AbandonedAreDead DEF F!CloseFleet, FleetInv, LivePolls
  <2>2. F!Known' = F!Known
    BY DEF F!Known, F!Range
  <2> QED BY <1>3, <2>1, <2>2
          DEF F!CloseFleet, F!registryVars, F!pickVars, FleetInv, RowsAreClean
<1>4. CASE F!ToggleAllVisible
  BY <1>1, <1>4, PicksFit DEF F!ToggleAllVisible
<1>5. CASE F!OpenCleanup
  <2>1. cleanupPlan' \cap F!Known = {}
    BY <1>5 DEF F!OpenCleanup, F!Planned
  <2> QED BY <1>5, <2>1, PicksFit DEF F!OpenCleanup
<1>6. CASE F!CancelCleanup
  BY <1>6, PicksFit DEF F!CancelCleanup
<1>7. CASE F!DismissUndo
  BY <1>1, <1>7, PicksFit DEF F!DismissUndo
<1>8. ASSUME NEW g \in Registrable, F!ToggleSelected(g)
      PROVE  FleetInv' /\ RowsAreClean
  BY <1>1, <1>8, PicksFit DEF F!ToggleSelected
<1>9. ASSUME NEW v, F!OtherSetsView(v) \/ \E takes \in BOOLEAN : F!SetView(v, takes)
      PROVE  FleetInv' /\ RowsAreClean
  BY <1>1, <1>9, PicksFit DEF F!OtherSetsView, F!SetView, F!pickVars
<1> QED
  BY <1>2, <1>3, <1>4, <1>5, <1>6, <1>7, <1>8, <1>9, PollFits, ReadsFit, ConfirmFits, UndoFits,
     OthersFit DEF F!Next

(* A guard that was removed comes back into the table only when it is       *)
(* stored again, for any guards, polls and number of saved ones             *)
(* (fetchFleet, removeInstances and restoreInstances).                      *)
THEOREM RemovedGuardsStayOut ==
  ASSUME FleetFits
  PROVE  F!Spec => []FleetInv /\ F!RemovedStaysOut
<1>1. F!Init => FleetInv
  <2> SUFFICES ASSUME F!Init PROVE FleetInv
    OBVIOUS
  <2>1. fleet \in Seq(Registrable)
    <3>1. PICK m \in 0..Room : fleet \in [1..m -> Registrable]
      BY DEF F!Init, F!Stored
    <3>2. m \in Nat
      BY <3>1 DEF FleetFits
    <3> QED BY <3>1, <3>2
  <2> QED BY <2>1 DEF F!Init, FleetInv, LivePolls
<1>2. FleetInv /\ [F!Next]_(F!fleetVars) => FleetInv' /\ [RowsAreClean]_(F!fleetVars)
  BY FleetStep
<1> QED BY <1>1, <1>2, PTL DEF F!Spec, F!RemovedStaysOut, RowsAreClean

\* A relation that puts any two of 1..n in order gives each of them a place: as many are before
\* it as the place says.
Orders(R, n) ==
  /\ \A i \in 1..n : <<i, i>> \notin R
  /\ \A i, j \in 1..n : i # j => <<i, j>> \in R \/ <<j, i>> \in R
  /\ \A i, j, k \in 1..n : <<i, j>> \in R /\ <<j, k>> \in R => <<i, k>> \in R
Before(R, n, i) == {j \in 1..n : <<j, i>> \in R}
PlaceOf(R, n, i) == Cardinality(Before(R, n, i))

LEMMA PlacesGrow ==
  ASSUME NEW n \in Nat, NEW R, Orders(R, n), NEW i \in 1..n
  PROVE  /\ PlaceOf(R, n, i) \in 0..n - 1
         /\ \A j \in 1..n : <<j, i>> \in R => PlaceOf(R, n, j) < PlaceOf(R, n, i)
<1>1. IsFiniteSet(1..n) /\ Cardinality(1..n) = n
  <2>1. Cardinality(1..n) = IF 1 > n THEN 0 ELSE n - 1 + 1
    BY FS_Interval
  <2>2. n >= 1
    OBVIOUS
  <2>3. IsFiniteSet(1..n)
    BY FS_Interval
  <2> QED BY <2>1, <2>2, <2>3
<1>2. ASSUME NEW k \in 1..n
      PROVE  IsFiniteSet(Before(R, n, k)) /\ PlaceOf(R, n, k) \in Nat
  <2>1. Before(R, n, k) \in SUBSET (1..n)
    BY DEF Before
  <2>2. IsFiniteSet(Before(R, n, k))
    BY <1>1, <2>1, FS_Subset
  <2> QED BY <2>2, FS_CardinalityType DEF PlaceOf
<1>3. PlaceOf(R, n, i) <= n - 1
  <2> DEFINE others == (1..n) \ {i}
  <2>1. IsFiniteSet(others) /\ Cardinality(others) = n - 1
    BY <1>1, FS_RemoveElement
  <2>2. Before(R, n, i) \in SUBSET others
    BY DEF Orders, Before
  <2> HIDE DEF others
  <2> QED BY <2>1, <2>2, FS_Subset DEF PlaceOf
<1>4. ASSUME NEW j \in 1..n, <<j, i>> \in R
      PROVE  PlaceOf(R, n, j) < PlaceOf(R, n, i)
  <2> DEFINE all == Before(R, n, i)
             rest == all \ {j}
  <2>1. j \in all
    BY <1>4 DEF Before
  <2>2. IsFiniteSet(all) /\ Cardinality(all) \in Nat /\ Cardinality(all) = PlaceOf(R, n, i)
    BY <1>2 DEF PlaceOf
  <2>3. Before(R, n, j) \in SUBSET rest
    <3> SUFFICES ASSUME NEW k \in 1..n, <<k, j>> \in R PROVE k \in all /\ k # j
      BY DEF Before
    <3>1. <<k, i>> \in R
      BY <1>4 DEF Orders
    <3>2. k # j
      BY DEF Orders
    <3> QED BY <3>1, <3>2 DEF Before
  <2> HIDE DEF all
  <2>4. IsFiniteSet(rest) /\ Cardinality(rest) = Cardinality(all) - 1
    BY <2>1, <2>2, FS_RemoveElement
  <2> HIDE DEF rest
  <2>5. PlaceOf(R, n, j) <= Cardinality(rest)
    BY <2>3, <2>4, FS_Subset DEF PlaceOf
  <2> QED BY <1>2, <2>2, <2>4, <2>5
<1> QED BY <1>2, <1>3, <1>4

LEMMA PlacesAreTaken ==
  ASSUME NEW n \in Nat, NEW R, Orders(R, n)
  PROVE  /\ \A i, j \in 1..n : PlaceOf(R, n, i) = PlaceOf(R, n, j) => i = j
         /\ \A k \in 1..n : \E i \in 1..n : PlaceOf(R, n, i) = k - 1
<1> DEFINE place == [i \in 1..n |-> PlaceOf(R, n, i)]
<1>1. /\ \A i \in 1..n : place[i] \in 0..n - 1
      /\ \A i, j \in 1..n : <<j, i>> \in R => place[j] < place[i]
  BY PlacesGrow
<1>2. \A i \in 1..n : place[i] = PlaceOf(R, n, i)
  OBVIOUS
<1> HIDE DEF place
<1>3. ASSUME NEW i \in 1..n, NEW j \in 1..n, place[i] = place[j]
      PROVE  i = j
  <2>1. ASSUME i # j PROVE FALSE
    <3>1. <<i, j>> \in R \/ <<j, i>> \in R
      BY <2>1 DEF Orders
    <3>2. place[i] \in Int /\ ~(place[i] < place[i])
      BY <1>1
    <3> QED BY <1>1, <1>3, <3>1, <3>2
  <2> QED BY <2>1
<1>4. ASSUME NEW k \in 1..n, \A i \in 1..n : place[i] # k - 1
      PROVE  FALSE
  <2> DEFINE left == (0..n - 1) \ {k - 1}
             f == [i \in 1..n |-> place[i]]
  <2>1. f \in [1..n -> left]
    BY <1>1, <1>4
  <2>2. IsFiniteSet(1..n) /\ Cardinality(1..n) = n
    <3>1. Cardinality(1..n) = IF 1 > n THEN 0 ELSE n - 1 + 1
      BY FS_Interval
    <3>2. n >= 1
      OBVIOUS
    <3>3. IsFiniteSet(1..n)
      BY FS_Interval
    <3> QED BY <3>1, <3>2, <3>3
  <2>3. IsFiniteSet(0..n - 1) /\ Cardinality(0..n - 1) = n
    <3>1. n - 1 \in Int /\ ~(0 > n - 1)
      OBVIOUS
    <3>2. IsFiniteSet(0..n - 1) /\ Cardinality(0..n - 1) = IF 0 > n - 1 THEN 0 ELSE n - 1 - 0 + 1
      BY <3>1, FS_Interval
    <3> QED BY <3>1, <3>2
  <2>4. k - 1 \in 0..n - 1
    OBVIOUS
  <2>5. IsFiniteSet(left) /\ Cardinality(left) = n - 1
    BY <2>3, <2>4, FS_RemoveElement, ZenonT(30)
  <2>6. Cardinality(left) < Cardinality(1..n)
    BY <2>2, <2>5
  <2>7. PICK i \in 1..n, j \in 1..n : i # j /\ f[i] = f[j]
    <3> HIDE DEF f, left
    <3> QED BY <2>1, <2>2, <2>5, <2>6, FS_PigeonHole
  <2> QED BY <1>3, <2>7
<1> QED BY <1>2, <1>3, <1>4

\* Whoever puts each in its place puts all in order.
LEMMA InTheirPlaces ==
  ASSUME NEW n \in Nat, NEW R, Orders(R, n), NEW o \in [1..n -> 1..n],
         \A k \in 1..n : PlaceOf(R, n, o[k]) = k - 1
  PROVE  /\ \A i \in 1..n : \E k \in 1..n : o[k] = i
         /\ \A k, l \in 1..n : k < l => <<o[k], o[l]>> \in R
<1>1. ASSUME NEW i \in 1..n PROVE \E k \in 1..n : o[k] = i
  <2>1. PICK p \in 0..n - 1 : p = PlaceOf(R, n, i)
    BY PlacesGrow
  <2>2. PICK k \in 1..n : k - 1 = PlaceOf(R, n, i)
    <3>1. p + 1 \in 1..n /\ (p + 1) - 1 = p
      OBVIOUS
    <3> QED BY <2>1, <3>1
  <2>3. o[k] \in 1..n /\ PlaceOf(R, n, o[k]) = PlaceOf(R, n, i)
    BY <2>2
  <2> QED BY <2>2, <2>3, PlacesAreTaken
<1>2. ASSUME NEW k \in 1..n, NEW l \in 1..n, k < l
      PROVE  <<o[k], o[l]>> \in R
  <2>1. PICK i \in 1..n, j \in 1..n : i = o[k] /\ j = o[l]
    OBVIOUS
  <2>2. PlaceOf(R, n, i) = k - 1 /\ PlaceOf(R, n, j) = l - 1
    BY <2>1
  <2>3. i # j /\ ~(l - 1 < k - 1)
    BY <1>2, <2>2
  <2>4. <<j, i>> \notin R
    BY <2>2, <2>3, PlacesGrow
  <2> QED BY <2>1, <2>3, <2>4 DEF Orders
<1> QED BY <1>1, <1>2

\* The rows of the fleet, compared by the time that is left.
Endings == Int \cup {NoCountdown}
FleetRow == [guard : Registrable, status : DOMAIN F!Rank, left : Endings]
FleetOrders == [status : {Nil} \cup DOMAIN F!Rank, key : {"left"}, descending : BOOLEAN]
Ahead(a, i, b, j, descending) ==
  \/ a # NoCountdown /\ b = NoCountdown
  \/ a = b /\ i < j
  \/ a # b /\ a # NoCountdown /\ b # NoCountdown /\ IF descending THEN b < a ELSE a < b

LEMMA PrecedesIs ==
  ASSUME NoCountdown \notin Int, NEW r \in FleetRow, NEW s \in FleetRow, NEW i \in Nat, NEW j \in Nat,
         NEW v \in FleetOrders
  PROVE  F!Precedes(r, i, s, j, v) <=> Ahead(r.left, i, s.left, j, v.descending)
<1>1. PICK a, b : a = r.left /\ b = s.left
  OBVIOUS
<1>2. a \in Endings /\ b \in Endings
  BY <1>1 DEF FleetRow
<1>3. v.key = "left" /\ v.descending \in BOOLEAN
  BY DEF FleetOrders
<1>4. (F!Endless(r, v) <=> a = NoCountdown) /\ (F!Endless(s, v) <=> b = NoCountdown)
  BY <1>1, <1>3 DEF F!Endless
<1>5. F!Compared(r, s, v) = IF v.descending THEN b - a ELSE a - b
  BY <1>1, <1>3 DEF F!Compared
<1>6. CASE a = NoCountdown /\ b = NoCountdown
  BY <1>1, <1>4, <1>6 DEF F!Precedes, Ahead
<1>7. CASE a = NoCountdown /\ b # NoCountdown
  BY <1>1, <1>4, <1>7 DEF F!Precedes, Ahead
<1>8. CASE a # NoCountdown /\ b = NoCountdown
  BY <1>1, <1>4, <1>8 DEF F!Precedes, Ahead
<1>9. CASE a # NoCountdown /\ b # NoCountdown
  <2>1. a \in Int /\ b \in Int
    BY <1>2, <1>9 DEF Endings
  <2>2. F!Precedes(r, i, s, j, v) <=>
          IF F!Compared(r, s, v) = 0 THEN i < j ELSE F!Compared(r, s, v) < 0
    <3>1. F!Endless(r, v) = FALSE /\ F!Endless(s, v) = FALSE
      BY <1>1, <1>9 DEF F!Endless
    <3> QED BY <3>1 DEF F!Precedes
  <2>3. CASE v.descending
    <3>1. F!Compared(r, s, v) = b - a
      BY <1>5, <2>3
    <3>2. Ahead(a, i, b, j, v.descending) <=> (a = b /\ i < j) \/ (a # b /\ b < a)
      BY <1>9, <2>3 DEF Ahead
    <3> QED BY <1>1, <2>1, <2>2, <3>1, <3>2
  <2>4. CASE ~v.descending
    <3>1. F!Compared(r, s, v) = a - b
      BY <1>5, <2>4
    <3>2. Ahead(a, i, b, j, v.descending) <=> (a = b /\ i < j) \/ (a # b /\ a < b)
      BY <1>9, <2>4 DEF Ahead
    <3> QED BY <1>1, <2>1, <2>2, <3>1, <3>2
  <2> QED BY <2>3, <2>4
<1> QED BY <1>6, <1>7, <1>8, <1>9

\* The order of the rows is one.
RowOrder(rows, v) ==
  {p \in (1..Len(rows)) \X (1..Len(rows)) : F!Precedes(rows[p[1]], p[1], rows[p[2]], p[2], v)}

LEMMA AheadOnce ==
  ASSUME NoCountdown \notin Int, NEW a \in Endings, NEW b \in Endings, NEW i \in Nat, NEW j \in Nat,
         NEW d \in BOOLEAN
  PROVE  /\ ~Ahead(a, i, a, i, d)
         /\ i # j => Ahead(a, i, b, j, d) \/ Ahead(b, j, a, i, d)
<1>1. ~(i < i)
  OBVIOUS
<1>2. ~Ahead(a, i, a, i, d)
  BY <1>1 DEF Ahead
<1>3. ASSUME i # j PROVE Ahead(a, i, b, j, d) \/ Ahead(b, j, a, i, d)
  <2>1. CASE a = b
    <3>1. i < j \/ j < i
      BY <1>3
    <3> QED BY <2>1, <3>1 DEF Ahead
  <2>2. CASE a # b /\ (a = NoCountdown \/ b = NoCountdown)
    BY <2>2 DEF Ahead
  <2>3. CASE a # b /\ a # NoCountdown /\ b # NoCountdown
    <3>1. a \in Int /\ b \in Int
      BY <2>3 DEF Endings
    <3>2. a < b \/ b < a
      BY <2>3, <3>1
    <3> QED BY <2>3, <3>2 DEF Ahead
  <2> QED BY <2>1, <2>2, <2>3
<1> QED BY <1>2, <1>3

LEMMA AheadOfThat ==
  ASSUME NoCountdown \notin Int, NEW a \in Endings, NEW b \in Endings, NEW c \in Endings,
         NEW i \in Nat, NEW j \in Nat, NEW k \in Nat, NEW d \in BOOLEAN,
         Ahead(a, i, b, j, d), Ahead(b, j, c, k, d)
  PROVE  Ahead(a, i, c, k, d)
<1>1. a # NoCountdown => a \in Int
  BY DEF Endings
<1>2. b # NoCountdown => b \in Int
  BY DEF Endings
<1>3. c # NoCountdown => c \in Int
  BY DEF Endings
<1>4. CASE c = NoCountdown
  <2>1. CASE a # NoCountdown
    BY <1>4, <2>1 DEF Ahead
  <2>2. CASE a = NoCountdown
    <3>1. b = NoCountdown /\ i < j
      BY <2>2 DEF Ahead
    <3>2. j < k
      BY <1>4, <3>1 DEF Ahead
    <3>3. i < k
      BY <3>1, <3>2
    <3> QED BY <1>4, <2>2, <3>3 DEF Ahead
  <2> QED BY <2>1, <2>2
<1>5. CASE c # NoCountdown
  <2>1. b # NoCountdown
    BY <1>5 DEF Ahead
  <2>2. a # NoCountdown
    BY <2>1 DEF Ahead
  <2>3. a \in Int /\ b \in Int /\ c \in Int
    BY <1>1, <1>2, <1>3, <1>5, <2>1, <2>2
  <2>4. (a = b /\ i < j) \/ (a # b /\ IF d THEN b < a ELSE a < b)
    BY <2>1 DEF Ahead
  <2>5. (b = c /\ j < k) \/ (b # c /\ IF d THEN c < b ELSE b < c)
    BY <1>5 DEF Ahead
  <2>6. (a = c /\ i < k) \/ (a # c /\ IF d THEN c < a ELSE a < c)
    BY <2>3, <2>4, <2>5
  <2> QED BY <1>5, <2>2, <2>6 DEF Ahead
<1> QED BY <1>4, <1>5

LEMMA RowsAreOrdered ==
  ASSUME NoCountdown \notin Int, NEW rows \in Seq(FleetRow), NEW v \in FleetOrders
  PROVE  Orders(RowOrder(rows, v), Len(rows))
<1> DEFINE n == Len(rows)
           R0 == RowOrder(rows, v)
<1>0. n \in Nat /\ \A i \in 1..n : rows[i] \in FleetRow /\ i \in Nat
  OBVIOUS
<1>1. \A i \in 1..n : rows[i].left \in Endings
  BY <1>0 DEF FleetRow
<1>2. v.descending \in BOOLEAN
  BY DEF FleetOrders
<1>3. ASSUME NEW i \in 1..n, NEW j \in 1..n
      PROVE  <<i, j>> \in R0 <=> Ahead(rows[i].left, i, rows[j].left, j, v.descending)
  <2>1. <<i, j>> \in R0 <=> F!Precedes(rows[i], i, rows[j], j, v)
    BY DEF RowOrder
  <2> QED BY <1>0, <2>1, PrecedesIs
<1> HIDE DEF R0, n
<1>4. \A i \in 1..n : <<i, i>> \notin R0
  BY <1>0, <1>1, <1>2, <1>3, AheadOnce
<1>5. \A i, j \in 1..n : i # j => <<i, j>> \in R0 \/ <<j, i>> \in R0
  BY <1>0, <1>1, <1>2, <1>3, AheadOnce
<1>6. ASSUME NEW i \in 1..n, NEW j \in 1..n, NEW k \in 1..n, <<i, j>> \in R0, <<j, k>> \in R0
      PROVE  <<i, k>> \in R0
  <2>1. PICK a, b, c, d : a = rows[i].left /\ b = rows[j].left /\ c = rows[k].left /\ d = v.descending
    OBVIOUS
  <2>2. a \in Endings /\ b \in Endings /\ c \in Endings /\ d \in BOOLEAN
    BY <1>1, <1>2, <2>1
  <2>3. Ahead(a, i, b, j, d) /\ Ahead(b, j, c, k, d)
    BY <1>3, <1>6, <2>1
  <2>4. i \in Nat /\ j \in Nat /\ k \in Nat
    BY <1>0
  <2>5. Ahead(a, i, c, k, d)
    BY <2>2, <2>3, <2>4, AheadOfThat
  <2> QED BY <1>3, <2>1, <2>5
<1>7. Orders(R0, n)
  BY <1>4, <1>5, <1>6 DEF Orders
<1> QED BY <1>7 DEF R0, n

\* What the filter of the table leaves, in the order of the registry.
OnePerGuard(rows) == \A i, j \in 1..Len(rows) : rows[i].guard = rows[j].guard => i = j
RowsFit == NoCountdown \notin Int /\ fleetRows \in Seq(FleetRow) /\ OnePerGuard(fleetRows)
Wanted(v) == {r \in F!Range(fleetRows) : v.status = Nil \/ r.status = v.status}
KeptRows(v) == F!Filtered(fleetRows, Wanted(v))

LEMMA KeptAre ==
  ASSUME RowsFit, NEW v
  PROVE  LET passed == KeptRows(v)
         IN  /\ passed \in Seq(FleetRow) /\ OnePerGuard(passed) /\ F!Range(passed) = Wanted(v)
             /\ \A j, k \in 1..Len(passed) :
                  j < k => \E i, m \in 1..Len(fleetRows) :
                             i < m /\ fleetRows[i] = passed[j] /\ fleetRows[m] = passed[k]
<1>0. fleetRows \in Seq(FleetRow) /\ OnePerGuard(fleetRows)
  BY DEF RowsFit
<1>1. PICK passed : passed = KeptRows(v)
  OBVIOUS
<1>2. passed = H!Filtered(fleetRows, Wanted(v))
  BY <1>1 DEF KeptRows, F!Filtered, H!Filtered
<1>3. /\ passed \in Seq(FleetRow) /\ Part(passed, fleetRows, Len(fleetRows))
      /\ \A j \in 1..Len(passed) : passed[j] \in Wanted(v)
      /\ \A i \in 1..Len(fleetRows) :
           fleetRows[i] \in Wanted(v) => \E j \in 1..Len(passed) : j <= i /\ passed[j] = fleetRows[i]
  BY <1>0, <1>2, FilterKeeps
<1>4. /\ DOMAIN passed = 1..Len(passed) /\ Len(passed) \in Nat
      /\ DOMAIN fleetRows = 1..Len(fleetRows) /\ Len(fleetRows) \in Nat
  BY <1>0, <1>3
<1>5. ASSUME NEW j \in 1..Len(passed), NEW k \in 1..Len(passed), j < k
      PROVE  \E i, m \in 1..Len(fleetRows) :
               i < m /\ fleetRows[i] = passed[j] /\ fleetRows[m] = passed[k]
  BY <1>3, <1>5 DEF Part
<1>6. ASSUME NEW j \in 1..Len(passed), NEW k \in 1..Len(passed), j < k
      PROVE  passed[j].guard # passed[k].guard
  <2>1. PICK i \in 1..Len(fleetRows), m \in 1..Len(fleetRows) :
          i < m /\ fleetRows[i] = passed[j] /\ fleetRows[m] = passed[k]
    BY <1>5, <1>6
  <2>2. i # m
    BY <2>1
  <2> QED BY <1>0, <2>1, <2>2 DEF OnePerGuard
<1>7. OnePerGuard(passed)
  <2> SUFFICES ASSUME NEW j \in 1..Len(passed), NEW k \in 1..Len(passed), passed[j].guard = passed[k].guard
               PROVE  j = k
    BY DEF OnePerGuard
  <2>1. ~(j < k) /\ ~(k < j)
    BY <1>6
  <2> QED BY <2>1
<1>8. F!Range(passed) = Wanted(v)
  <2>1. \A r \in Wanted(v) : \E i \in 1..Len(fleetRows) : fleetRows[i] = r
    BY <1>4 DEF Wanted, F!Range
  <2>2. \A r \in Wanted(v) : \E j \in 1..Len(passed) : passed[j] = r
    BY <1>3, <2>1
  <2> QED BY <1>3, <1>4, <2>2 DEF F!Range
<1> QED BY <1>1, <1>3, <1>5, <1>7, <1>8

\* The table shows each of them once, and puts them in the order asked for.
Arranged(o, passed, drawn, v) ==
  /\ o \in [1..Len(passed) -> 1..Len(passed)]
  /\ DOMAIN drawn = 1..Len(passed) /\ \A k \in 1..Len(passed) : drawn[k] = passed[o[k]]
  /\ \A i \in 1..Len(passed) : \E k \in 1..Len(passed) : o[k] = i
  /\ \A k, l \in 1..Len(passed) : k < l => <<o[k], o[l]>> \in RowOrder(passed, v)

LEMMA TableIs ==
  ASSUME RowsFit, NEW v \in FleetOrders, v.key # Nil
  PROVE  \E o : Arranged(o, KeptRows(v), F!Applied(v), v)
<1>1. PICK passed : passed = KeptRows(v)
  OBVIOUS
<1>2. passed \in Seq(FleetRow)
  BY <1>1, KeptAre
<1> DEFINE n == Len(passed)
           above(i) == {j \in DOMAIN passed : F!Precedes(passed[j], j, passed[i], i, v)}
           spot(k) == CHOOSE i \in DOMAIN passed : F!Cardinality(above(i)) = k - 1
           o == [k \in 1..n |-> spot(k)]
<1>3. n \in Nat /\ DOMAIN passed = 1..n
  BY <1>2
<1>4. F!Applied(v) = [k \in DOMAIN passed |-> passed[spot(k)]]
  BY <1>1 DEF F!Applied, KeptRows, Wanted
<1>5. PICK R1 : R1 = RowOrder(passed, v)
  OBVIOUS
<1>6. Orders(R1, n)
  BY <1>2, <1>5, RowsAreOrdered DEF RowsFit
<1>7. ASSUME NEW i \in 1..n PROVE F!Cardinality(above(i)) = PlaceOf(R1, n, i)
  <2>1. above(i) = Before(R1, n, i)
    BY <1>3, <1>5 DEF Before, RowOrder
  <2>2. F!Cardinality(above(i)) = Cardinality(above(i))
    BY DEF F!Cardinality, Cardinality
  <2> QED BY <2>1, <2>2 DEF PlaceOf
<1> HIDE DEF above, n
<1>8. ASSUME NEW k \in 1..n PROVE spot(k) \in 1..n /\ PlaceOf(R1, n, spot(k)) = k - 1
  <2>1. PICK i \in 1..n : PlaceOf(R1, n, i) = k - 1
    BY <1>3, <1>6, PlacesAreTaken
  <2>2. \E i1 \in DOMAIN passed : F!Cardinality(above(i1)) = k - 1
    BY <1>3, <1>7, <2>1
  <2>3. spot(k) \in DOMAIN passed /\ F!Cardinality(above(spot(k))) = k - 1
    BY <2>2, Zenon
  <2> HIDE DEF spot
  <2> QED BY <1>3, <1>7, <2>3
<1> HIDE DEF spot
<1>9. o \in [1..n -> 1..n] /\ \A k \in 1..n : PlaceOf(R1, n, o[k]) = k - 1
  BY <1>8
<1>10. DOMAIN F!Applied(v) = 1..n /\ \A k \in 1..n : F!Applied(v)[k] = passed[o[k]]
  BY <1>3, <1>4
<1> HIDE DEF o
<1>11. /\ \A i \in 1..n : \E k \in 1..n : o[k] = i
       /\ \A k, l \in 1..n : k < l => <<o[k], o[l]>> \in R1
  BY <1>3, <1>6, <1>9, InTheirPlaces
<1>12. Arranged(o, passed, F!Applied(v), v)
  BY <1>5, <1>9, <1>10, <1>11 DEF Arranged, n
<1> QED BY <1>1, <1>12

\* A guard is found where its row is.
At(rows, g) == CHOOSE i \in DOMAIN rows : rows[i].guard = g

LEMMA AtIs ==
  ASSUME NEW rows, NEW i \in DOMAIN rows, \A j \in DOMAIN rows : rows[j].guard = rows[i].guard => j = i
  PROVE  At(rows, rows[i].guard) = i
<1>1. PICK g : g = rows[i].guard
  OBVIOUS
<1>2. \E j \in DOMAIN rows : rows[j].guard = g
  BY <1>1
<1>3. At(rows, g) \in DOMAIN rows /\ rows[At(rows, g)].guard = g
  BY <1>2, Zenon DEF At
<1> QED BY <1>1, <1>3

\* In a table the place of a row is that of its guard.
LEMMA ShownAt ==
  ASSUME NoCountdown \notin Int, NEW passed \in Seq(FleetRow), OnePerGuard(passed), NEW v \in FleetOrders,
         NEW o, NEW drawn, Arranged(o, passed, drawn, v), NEW a \in 1..Len(passed), NEW b \in 1..Len(passed)
  PROVE  /\ At(drawn, passed[a].guard) \in Int
         /\ <<a, b>> \in RowOrder(passed, v) => At(drawn, passed[a].guard) < At(drawn, passed[b].guard)
<1>0. Orders(RowOrder(passed, v), Len(passed)) /\ Len(passed) \in Nat
  BY RowsAreOrdered
<1>1. ASSUME NEW k \in 1..Len(passed), NEW l \in 1..Len(passed), o[k] = o[l] PROVE k = l
  <2>1. o[k] \in 1..Len(passed)
    BY DEF Arranged
  <2>2. ~(k < l) /\ ~(l < k)
    BY <1>0, <1>1, <2>1 DEF Arranged, Orders
  <2> QED BY <2>2
<1>2. ASSUME NEW c \in 1..Len(passed)
      PROVE  At(drawn, passed[c].guard) \in 1..Len(passed) /\ o[At(drawn, passed[c].guard)] = c
  <2>1. PICK k \in 1..Len(passed) : o[k] = c
    BY DEF Arranged
  <2>2. k \in DOMAIN drawn /\ drawn[k] = passed[c]
    BY <2>1 DEF Arranged
  <2>3. ASSUME NEW j \in DOMAIN drawn, drawn[j].guard = drawn[k].guard PROVE j = k
    <3>1. j \in 1..Len(passed) /\ drawn[j] = passed[o[j]] /\ o[j] \in 1..Len(passed)
      BY DEF Arranged
    <3>2. o[j] = c
      BY <2>2, <2>3, <3>1 DEF OnePerGuard
    <3> QED BY <1>1, <2>1, <3>1, <3>2
  <2>4. At(drawn, drawn[k].guard) = k
    BY <2>2, <2>3, AtIs
  <2> QED BY <2>1, <2>2, <2>4
<1>3. PICK k, l : k = At(drawn, passed[a].guard) /\ l = At(drawn, passed[b].guard)
  OBVIOUS
<1>4. k \in 1..Len(passed) /\ l \in 1..Len(passed) /\ o[k] = a /\ o[l] = b
  BY <1>2, <1>3
<1>5. ASSUME <<a, b>> \in RowOrder(passed, v) PROVE k < l
  <2>1. k # l
    BY <1>0, <1>4, <1>5 DEF Orders
  <2>2. ASSUME l < k PROVE FALSE
    <3>1. <<b, a>> \in RowOrder(passed, v)
      BY <1>4, <2>2 DEF Arranged
    <3>2. <<a, a>> \in RowOrder(passed, v)
      BY <1>0, <1>5, <3>1 DEF Orders
    <3> QED BY <1>0, <3>2 DEF Orders
  <2> QED BY <1>4, <2>1, <2>2
<1> QED BY <1>3, <1>4, <1>5

LEMMA OrderIs ==
  ASSUME RowsFit, NEW v \in FleetOrders, v.key # Nil
  PROVE  LET drawn == F!Applied(v)
             back == F!Applied([v EXCEPT !.descending = ~v.descending])
         IN  /\ F!Range(drawn) = Wanted(v)
             /\ \A i, j \in DOMAIN drawn :
                  i < j => IF drawn[i].left = drawn[j].left
                           THEN /\ At(fleetRows, drawn[i].guard) < At(fleetRows, drawn[j].guard)
                                /\ At(back, drawn[i].guard) < At(back, drawn[j].guard)
                           ELSE \/ drawn[j].left = NoCountdown
                                \/ At(back, drawn[j].guard) < At(back, drawn[i].guard)
<1>1. PICK turned \in BOOLEAN : turned = ~v.descending
  BY Zenon DEF FleetOrders
<1>2. PICK w : w = [v EXCEPT !.descending = turned]
  OBVIOUS
<1>3. /\ w \in FleetOrders /\ w.status = v.status /\ w.key = v.key /\ w.key # Nil
      /\ w.descending = turned /\ w = [v EXCEPT !.descending = ~v.descending]
  <2>1. w \in FleetOrders
    BY <1>2 DEF FleetOrders
  <2>2. w.status = v.status /\ w.key = v.key /\ w.descending = turned
    BY <1>2 DEF FleetOrders
  <2> QED BY <1>1, <1>2, <2>1, <2>2
<1>4. PICK passed, drawn, back : passed = KeptRows(v) /\ drawn = F!Applied(v) /\ back = F!Applied(w)
  OBVIOUS
<1>5. KeptRows(w) = passed
  BY <1>3, <1>4 DEF KeptRows, Wanted
<1>6. /\ passed \in Seq(FleetRow) /\ OnePerGuard(passed) /\ F!Range(passed) = Wanted(v)
      /\ \A j, k \in 1..Len(passed) :
           j < k => \E i, m \in 1..Len(fleetRows) :
                      i < m /\ fleetRows[i] = passed[j] /\ fleetRows[m] = passed[k]
  BY <1>4, KeptAre
<1>7. PICK o : Arranged(o, passed, drawn, v)
  BY <1>4, TableIs
<1>8. PICK o2 : Arranged(o2, passed, back, w)
  BY <1>3, <1>4, <1>5, TableIs
<1>9. /\ NoCountdown \notin Int /\ Len(passed) \in Nat /\ DOMAIN passed = 1..Len(passed)
      /\ \A k \in 1..Len(passed) : passed[k] \in FleetRow /\ k \in Nat
  BY <1>6 DEF RowsFit
<1>10. F!Range(drawn) = Wanted(v)
  <2>1. \A k \in 1..Len(passed) : drawn[k] = passed[o[k]] /\ o[k] \in 1..Len(passed)
    BY <1>7 DEF Arranged
  <2>2. \A i \in 1..Len(passed) : \E k \in 1..Len(passed) : drawn[k] = passed[i]
    <3> SUFFICES ASSUME NEW i \in 1..Len(passed) PROVE \E k \in 1..Len(passed) : drawn[k] = passed[i]
      OBVIOUS
    <3>1. PICK k \in 1..Len(passed) : o[k] = i
      BY <1>7 DEF Arranged
    <3> QED BY <2>1, <3>1
  <2>3. DOMAIN drawn = 1..Len(passed)
    BY <1>7 DEF Arranged
  <2>4. F!Range(drawn) = F!Range(passed)
    <3>1. ASSUME NEW r \in F!Range(drawn) PROVE r \in F!Range(passed)
      <4>1. PICK k \in 1..Len(passed) : r = drawn[k]
        BY <2>3, <3>1 DEF F!Range
      <4> QED BY <1>9, <2>1, <4>1 DEF F!Range
    <3>2. ASSUME NEW r \in F!Range(passed) PROVE r \in F!Range(drawn)
      <4>1. PICK i \in 1..Len(passed) : r = passed[i]
        BY <1>9, <3>2 DEF F!Range
      <4>2. PICK k \in 1..Len(passed) : drawn[k] = passed[i]
        BY <2>2
      <4> QED BY <2>3, <4>1, <4>2 DEF F!Range
    <3> QED BY <3>1, <3>2
  <2> QED BY <1>6, <2>4
<1>11. ASSUME NEW i \in DOMAIN drawn, NEW j \in DOMAIN drawn, i < j
       PROVE  IF drawn[i].left = drawn[j].left
              THEN /\ At(fleetRows, drawn[i].guard) < At(fleetRows, drawn[j].guard)
                   /\ At(back, drawn[i].guard) < At(back, drawn[j].guard)
              ELSE \/ drawn[j].left = NoCountdown
                   \/ At(back, drawn[j].guard) < At(back, drawn[i].guard)
  <2>1. PICK a \in 1..Len(passed), b \in 1..Len(passed) :
          /\ a = o[i] /\ b = o[j] /\ drawn[i] = passed[a] /\ drawn[j] = passed[b]
          /\ <<a, b>> \in RowOrder(passed, v)
    BY <1>7, <1>11 DEF Arranged
  <2>2. PICK c, d : c = passed[a].left /\ d = passed[b].left
    OBVIOUS
  <2>3. c \in Endings /\ d \in Endings /\ a \in Nat /\ b \in Nat
    BY <1>9, <2>2 DEF FleetRow
  <2>4. Ahead(c, a, d, b, v.descending)
    <3>1. F!Precedes(passed[a], a, passed[b], b, v)
      BY <2>1 DEF RowOrder
    <3> QED BY <1>9, <2>2, <2>3, <3>1, PrecedesIs
  <2>5. ASSUME NEW a1 \in 1..Len(passed), NEW b1 \in 1..Len(passed),
               Ahead(passed[a1].left, a1, passed[b1].left, b1, turned)
        PROVE  At(back, passed[a1].guard) < At(back, passed[b1].guard)
    <3>1. F!Precedes(passed[a1], a1, passed[b1], b1, w)
      BY <1>3, <1>9, <2>5, PrecedesIs
    <3>2. <<a1, b1>> \in RowOrder(passed, w)
      BY <3>1 DEF RowOrder
    <3> QED BY <1>3, <1>6, <1>8, <1>9, <3>2, ShownAt
  <2>6. CASE c = d
    <3>1. a < b
      BY <2>4, <2>6 DEF Ahead
    <3>2. Ahead(c, a, d, b, turned)
      BY <2>6, <3>1 DEF Ahead
    <3>3. At(back, passed[a].guard) < At(back, passed[b].guard)
      BY <2>2, <2>5, <3>2
    <3>4. PICK p \in 1..Len(fleetRows), m \in 1..Len(fleetRows) :
            p < m /\ fleetRows[p] = passed[a] /\ fleetRows[m] = passed[b]
      BY <1>6, <3>1
    <3>5. ASSUME NEW q \in 1..Len(fleetRows) PROVE At(fleetRows, fleetRows[q].guard) = q
      <4>1. DOMAIN fleetRows = 1..Len(fleetRows)
        BY DEF RowsFit
      <4> QED BY <4>1, AtIs DEF RowsFit, OnePerGuard
    <3>6. At(fleetRows, passed[a].guard) < At(fleetRows, passed[b].guard)
      BY <3>4, <3>5
    <3> QED BY <2>1, <2>2, <2>6, <3>3, <3>6
  <2>7. CASE c # d /\ d = NoCountdown
    BY <2>1, <2>2, <2>7
  <2>8. CASE c # d /\ d # NoCountdown
    <3>1. c # NoCountdown /\ IF v.descending THEN d < c ELSE c < d
      BY <2>4, <2>8 DEF Ahead
    <3>2. Ahead(d, b, c, a, turned)
      BY <1>1, <2>8, <3>1 DEF Ahead
    <3>3. At(back, passed[b].guard) < At(back, passed[a].guard)
      BY <2>2, <2>5, <3>2
    <3> QED BY <2>1, <2>2, <2>8, <3>3
  <2> QED BY <2>6, <2>7, <2>8
<1> QED BY <1>3, <1>4, <1>10, <1>11

\* Each guard is once in the registry, once in a poll and once in the table.
Singly(list) == \A i, j \in 1..Len(list) : list[i] = list[j] => i = j
OrderFits ==
  /\ FleetFits /\ Singly(Seeded) /\ NoCountdown \notin Int
  /\ \A facts \in Reports, g \in Registrable :
       facts[g].status \in DOMAIN F!Rank /\ facts[g].left \in Endings
FleetOwn ==
  /\ Singly(fleet) /\ (undo # Nil => Singly(undo))
  /\ \A p \in polls : Singly(p.contacts)
  /\ fleetRows \in Seq(FleetRow) /\ OnePerGuard(fleetRows)

LEMMA FilterIsSingle ==
  ASSUME NEW list \in Seq(Registrable), Singly(list), NEW keep
  PROVE  Singly(F!Filtered(list, keep))
<1>1. PICK left : left = F!Filtered(list, keep)
  OBVIOUS
<1>2. left = H!Filtered(list, keep)
  BY <1>1 DEF F!Filtered, H!Filtered
<1>3. left \in Seq(Registrable) /\ Part(left, list, Len(list))
  BY <1>2, FilterKeeps
<1>4. ASSUME NEW j \in 1..Len(left), NEW k \in 1..Len(left), j < k
      PROVE  left[j] # left[k]
  <2>1. PICK i \in 1..Len(list), m \in 1..Len(list) : i < m /\ list[i] = left[j] /\ list[m] = left[k]
    BY <1>3, <1>4 DEF Part
  <2>2. i # m
    BY <2>1
  <2> QED BY <2>1, <2>2 DEF Singly
<1>5. ASSUME NEW j \in 1..Len(left), NEW k \in 1..Len(left), left[j] = left[k]
      PROVE  j = k
  <2>1. ~(j < k) /\ ~(k < j)
    BY <1>4, <1>5
  <2> QED BY <2>1
<1> QED BY <1>1, <1>5 DEF Singly

LEMMA JoinIsSingle ==
  ASSUME NEW s \in Seq(Registrable), NEW t \in Seq(Registrable), Singly(s), Singly(t),
         \A j \in 1..Len(t), i \in 1..Len(s) : t[j] # s[i]
  PROVE  Singly(s \o t)
<1>1. PICK all : all = s \o t
  OBVIOUS
<1>2. /\ Len(s) \in Nat /\ Len(t) \in Nat /\ Len(all) = Len(s) + Len(t)
      /\ \A i \in 1..Len(s) : all[i] = s[i]
  BY <1>1
<1>3. ASSUME NEW i \in 1..Len(all), i \notin 1..Len(s)
      PROVE  i - Len(s) \in 1..Len(t) /\ all[i] = t[i - Len(s)]
  BY <1>1, <1>2, <1>3
<1>4. ASSUME NEW i \in 1..Len(all), NEW j \in 1..Len(all), all[i] = all[j]
      PROVE  i = j
  <2>1. CASE i \in 1..Len(s) /\ j \in 1..Len(s)
    BY <1>2, <1>4, <2>1 DEF Singly
  <2>2. CASE i \in 1..Len(s) /\ j \notin 1..Len(s)
    BY <1>2, <1>3, <1>4, <2>2
  <2>3. CASE i \notin 1..Len(s) /\ j \in 1..Len(s)
    BY <1>2, <1>3, <1>4, <2>3
  <2>4. CASE i \notin 1..Len(s) /\ j \notin 1..Len(s)
    <3>1. PICK k \in 1..Len(t), l \in 1..Len(t) :
            k = i - Len(s) /\ l = j - Len(s) /\ all[i] = t[k] /\ all[j] = t[l]
      BY <1>3, <2>4
    <3>2. k = l
      BY <1>4, <3>1 DEF Singly
    <3> QED BY <1>2, <3>1, <3>2
  <2> QED BY <2>1, <2>2, <2>3, <2>4
<1> QED BY <1>1, <1>4 DEF Singly

LEMMA PieceIsSingle ==
  ASSUME NEW s \in Seq(Registrable), Singly(s), NEW m \in {1, 2}, NEW n \in 0..Len(s), m <= n + 1
  PROVE  Singly(SubSeq(s, m, n))
<1>1. PICK piece : piece = SubSeq(s, m, n)
  OBVIOUS
<1>2. Len(piece) = n - m + 1 /\ Len(s) \in Nat
  BY <1>1
<1>3. ASSUME NEW i \in 1..Len(piece) PROVE i + m - 1 \in 1..Len(s) /\ piece[i] = s[i + m - 1]
  BY <1>1, <1>2
<1>4. ASSUME NEW i \in 1..Len(piece), NEW j \in 1..Len(piece), piece[i] = piece[j]
      PROVE  i = j
  <2>1. i + m - 1 = j + m - 1
    <3>1. PICK k \in 1..Len(s), l \in 1..Len(s) :
            k = i + m - 1 /\ l = j + m - 1 /\ piece[i] = s[k] /\ piece[j] = s[l]
      BY <1>3
    <3>2. k = l
      BY <1>4, <3>1 DEF Singly
    <3> QED BY <3>1, <3>2
  <2>2. i \in Int /\ j \in Int /\ m \in Int
    OBVIOUS
  <2> QED BY <2>1, <2>2
<1> QED BY <1>1, <1>4 DEF Singly

LEMMA InstancesAreSingle ==
  ASSUME OrderFits, NEW s \in Seq(Registrable), Singly(s)
  PROVE  Singly(F!Instances(s)) /\ F!Instances(s) \in Seq(Registrable)
<1> DEFINE keep == F!Known \ F!Range(s)
<1>0. Seeded \in Seq(Registrable) /\ Singly(Seeded)
  BY DEF OrderFits, FleetFits
<1>1. PICK own : own = F!Filtered(Seeded, keep)
  OBVIOUS
<1>2. own \in Seq(Registrable) /\ \A j \in DOMAIN own : own[j] \in keep
  BY <1>0, <1>1, FleetFilters
<1>3. Singly(own)
  <2> HIDE DEF keep
  <2> QED BY <1>0, <1>1, FilterIsSingle
<1>4. \A j \in 1..Len(own), i \in 1..Len(s) : own[j] # s[i]
  <2>1. DOMAIN own = 1..Len(own) /\ DOMAIN s = 1..Len(s)
    BY <1>2
  <2> QED BY <1>2, <2>1 DEF F!Range
<1>5. F!Instances(s) = s \o own
  BY <1>1 DEF F!Instances
<1>6. s \o own \in Seq(Registrable)
  BY <1>2
<1> QED BY <1>2, <1>3, <1>4, <1>5, <1>6, JoinIsSingle

\* What runs again asks for each guard once.
LEMMA RefreshIsSingle ==
  ASSUME OrderFits, LivePolls, \A p \in polls : Singly(p.contacts), fleet' \in Seq(Registrable),
         Singly(fleet'), F!Refreshed
  PROVE  \A p \in polls' : Singly(p.contacts)
<1>1. PICK s : s = fleet'
  OBVIOUS
<1>2. PICK p : p = F!Poll(F!Instances(s))
  OBVIOUS
<1>3. polls' = F!Abandoned \cup {p}
  BY <1>1, <1>2 DEF F!Refreshed
<1>4. Singly(p.contacts)
  <2>1. p.contacts = F!Instances(s)
    BY <1>2 DEF F!Poll
  <2>2. s \in Seq(Registrable) /\ Singly(s)
    BY <1>1
  <2> QED BY <2>1, <2>2, InstancesAreSingle
<1>5. ASSUME NEW q \in F!Abandoned PROVE Singly(q.contacts)
  <2>1. PICK r \in polls : q = [r EXCEPT !.live = FALSE]
    BY DEF F!Abandoned
  <2>2. r \in [live : BOOLEAN, contacts : Seq(Registrable)]
    BY DEF LivePolls
  <2>3. q.contacts = r.contacts
    BY <2>1, <2>2
  <2> QED BY <2>3
<1> QED BY <1>3, <1>4, <1>5

\* The rows of a poll are of the guards it asked for.
LEMMA RowsOfPoll ==
  ASSUME OrderFits, NEW s \in Seq(Registrable), Singly(s), NEW facts \in Reports,
         NEW rows, rows = [i \in DOMAIN s |-> F!Row(s[i], facts)]
  PROVE  rows \in Seq(FleetRow) /\ OnePerGuard(rows)
<1>1. DOMAIN s = 1..Len(s) /\ Len(s) \in Nat /\ \A i \in 1..Len(s) : s[i] \in Registrable
  OBVIOUS
<1>2. ASSUME NEW i \in 1..Len(s) PROVE rows[i] \in FleetRow /\ rows[i].guard = s[i]
  <2>1. rows[i] = F!Row(s[i], facts)
    BY <1>1
  <2>2. facts[s[i]].status \in DOMAIN F!Rank /\ facts[s[i]].left \in Endings
    BY <1>1 DEF OrderFits
  <2> QED BY <1>1, <2>1, <2>2 DEF F!Row, FleetRow
<1>3. rows \in [1..Len(s) -> FleetRow]
  BY <1>1, <1>2
<1>4. rows \in Seq(FleetRow) /\ Len(rows) = Len(s)
  <2> HIDE DEF FleetRow
  <2> QED BY <1>1, <1>3
<1>5. OnePerGuard(rows)
  <2> SUFFICES ASSUME NEW i \in 1..Len(s), NEW j \in 1..Len(s), rows[i].guard = rows[j].guard
               PROVE  i = j
    BY <1>4 DEF OnePerGuard
  <2>1. s[i] = s[j]
    BY <1>2
  <2> QED BY <2>1 DEF Singly
<1> QED BY <1>4, <1>5

\* A registry that is read from the storage has each guard once.
LEMMA StoredIsSingle ==
  ASSUME FleetFits, NEW s \in F!Stored
  PROVE  s \in Seq(Registrable) /\ Singly(s)
<1>1. PICK m \in 0..Room : s \in [1..m -> Registrable]
  BY DEF F!Stored
<1>2. m \in Nat
  BY <1>1 DEF FleetFits
<1>3. s \in Seq(Registrable) /\ Len(s) = m /\ DOMAIN s = 1..m
  BY <1>1, <1>2
<1>4. Cardinality(F!Range(s)) = m
  BY <1>3 DEF F!Stored, F!Cardinality, Cardinality
<1>5. IsFiniteSet(1..m) /\ Cardinality(1..m) = m
  <2>1. Cardinality(1..m) = IF 1 > m THEN 0 ELSE m - 1 + 1
    BY <1>2, FS_Interval
  <2>2. IsFiniteSet(1..m)
    BY <1>2, FS_Interval
  <2> QED BY <1>2, <2>1, <2>2
<1>6. s \in Surjection(1..m, F!Range(s))
  BY <1>1, <1>3 DEF Surjection, F!Range
<1>7. s \in Injection(1..m, F!Range(s))
  BY <1>4, <1>5, <1>6, FS_Surjection
<1>8. Singly(s)
  BY <1>3, <1>7 DEF Injection, IsInjective, Singly
<1> QED BY <1>3, <1>8

LEMMA OwnAtFirst ==
  ASSUME OrderFits, F!Init
  PROVE  FleetOwn
<1>1. fleet \in F!Stored
  BY DEF F!Init
<1>2. Singly(fleet)
  BY <1>1, StoredIsSingle DEF OrderFits
<1>3. polls = {} /\ fleetRows = <<>> /\ undo = Nil
  BY DEF F!Init
<1>4. fleetRows \in Seq(FleetRow) /\ OnePerGuard(fleetRows)
  BY <1>3 DEF OnePerGuard
<1> QED BY <1>2, <1>3, <1>4 DEF FleetOwn

LEMMA OwnPolls ==
  ASSUME OrderFits, FleetInv, FleetOwn,
         F!OpenFleet \/ F!PollAgain \/ F!CloseFleet
         \/ \E p \in polls : \E facts \in Reports : F!PollAnswered(p, facts)
  PROVE  FleetOwn'
<1>1. fleet' = fleet /\ (undo' = undo \/ undo' = Nil)
  BY DEF F!OpenFleet, F!PollAgain, F!CloseFleet, F!PollAnswered, F!registryVars, F!pickVars
<1>2. Singly(fleet') /\ (undo' # Nil => Singly(undo'))
  BY <1>1 DEF FleetOwn
<1>3. CASE F!OpenFleet \/ F!PollAgain
  <2>1. PICK p : p = F!Poll(F!Instances(fleet))
    OBVIOUS
  <2>2. polls' = polls \cup {p}
    BY <1>3, <2>1 DEF F!OpenFleet, F!PollAgain
  <2>3. Singly(p.contacts)
    <3>1. p.contacts = F!Instances(fleet)
      BY <2>1 DEF F!Poll
    <3> QED BY <3>1, InstancesAreSingle DEF FleetInv, FleetOwn
  <2>4. \A q \in polls' : Singly(q.contacts)
    BY <2>2, <2>3 DEF FleetOwn
  <2>5. fleetRows' = <<>> \/ fleetRows' = fleetRows
    BY <1>3 DEF F!OpenFleet, F!PollAgain
  <2>6. fleetRows' \in Seq(FleetRow) /\ OnePerGuard(fleetRows')
    <3>1. CASE fleetRows' = <<>>
      BY <3>1 DEF OnePerGuard
    <3>2. CASE fleetRows' = fleetRows
      BY <3>2 DEF FleetOwn
    <3> QED BY <2>5, <3>1, <3>2
  <2> QED BY <1>2, <2>4, <2>6 DEF FleetOwn
<1>4. CASE F!CloseFleet
  <2>1. polls' = F!Abandoned /\ fleetRows' = fleetRows
    BY <1>4 DEF F!CloseFleet
  <2>2. ASSUME NEW q \in polls' PROVE Singly(q.contacts)
    <3>1. PICK r \in polls : q = [r EXCEPT !.live = FALSE]
      BY <2>1 DEF F!Abandoned
    <3>2. r \in [live : BOOLEAN, contacts : Seq(Registrable)]
      BY DEF FleetInv, LivePolls
    <3>3. q.contacts = r.contacts
      BY <3>1, <3>2
    <3> QED BY <3>3 DEF FleetOwn
  <2> QED BY <1>2, <2>1, <2>2 DEF FleetOwn
<1>5. ASSUME NEW p \in polls, NEW facts \in Reports, F!PollAnswered(p, facts)
      PROVE  FleetOwn'
  <2>1. \A q \in polls' : Singly(q.contacts)
    BY <1>5 DEF F!PollAnswered, FleetOwn
  <2>2. CASE p.live
    <3>1. fleetRows' = [i \in DOMAIN p.contacts |-> F!Row(p.contacts[i], facts)]
      BY <1>5, <2>2 DEF F!PollAnswered, F!Taken
    <3>2. PICK s, rows : s = p.contacts /\ rows = fleetRows'
      OBVIOUS
    <3>3. s \in Seq(Registrable) /\ Singly(s)
      <4>1. p \in [live : BOOLEAN, contacts : Seq(Registrable)]
        BY DEF FleetInv, LivePolls
      <4> QED BY <3>2, <4>1 DEF FleetOwn
    <3>4. rows \in Seq(FleetRow) /\ OnePerGuard(rows)
      BY <3>1, <3>2, <3>3, RowsOfPoll
    <3> QED BY <1>2, <2>1, <3>2, <3>4 DEF FleetOwn
  <2>3. CASE ~p.live
    <3>1. fleetRows' = fleetRows
      BY <1>5, <2>3 DEF F!PollAnswered, F!Taken
    <3> QED BY <1>2, <2>1, <3>1 DEF FleetOwn
  <2> QED BY <2>2, <2>3
<1> QED BY <1>3, <1>4, <1>5

LEMMA OwnCleanups ==
  ASSUME OrderFits, FleetInv, FleetOwn, fleet' \in Seq(Registrable), NEW lands \in BOOLEAN,
         F!ConfirmCleanup(lands) \/ F!UndoCleanup(lands)
  PROVE  FleetOwn'
<1>0. fleet \in Seq(Registrable) /\ (undo # Nil => undo \in Seq(Registrable)) /\ Singly(fleet)
  BY DEF FleetInv, FleetOwn
<1>1. F!Refreshed /\ fleetRows' = fleetRows
  BY DEF F!ConfirmCleanup, F!UndoCleanup
<1>2. Singly(fleet') /\ (undo' # Nil => Singly(undo'))
  <2>1. CASE F!ConfirmCleanup(lands)
    <3>1. CASE undo' = undo /\ fleet' = fleet
      BY <3>1 DEF FleetOwn
    <3>2. CASE undo' = fleet /\ F!Removes(cleanupPlan)
      <4>1. PICK keep : keep = F!Range(fleet) \ cleanupPlan
        OBVIOUS
      <4>2. fleet' = F!Filtered(fleet, keep)
        BY <3>2, <4>1 DEF F!Removes
      <4> QED BY <1>0, <3>2, <4>2, FilterIsSingle
    <3> QED BY <2>1, <3>1, <3>2 DEF F!ConfirmCleanup, F!registryVars
  <2>2. CASE F!UndoCleanup(lands)
    <3>1. undo # Nil /\ undo' = Nil
      BY <2>2 DEF F!UndoCleanup
    <3>2. CASE fleet' = fleet
      BY <1>0, <3>1, <3>2
    <3>3. CASE F!Restores(undo)
      <4>1. PICK keep : keep = F!Range(fleet) \ F!Range(undo)
        OBVIOUS
      <4>2. PICK rest : rest = F!Filtered(fleet, keep)
        OBVIOUS
      <4>3. PICK all : all = undo \o rest
        OBVIOUS
      <4>4. rest \in Seq(Registrable) /\ Singly(rest) /\ \A j \in DOMAIN rest : rest[j] \in keep
        BY <1>0, <4>2, FleetFilters, FilterIsSingle
      <4>5. undo \in Seq(Registrable) /\ Singly(undo)
        BY <1>0, <3>1 DEF FleetOwn
      <4>6. \A j \in 1..Len(rest), i \in 1..Len(undo) : rest[j] # undo[i]
        <5>1. DOMAIN rest = 1..Len(rest) /\ DOMAIN undo = 1..Len(undo)
          BY <4>4, <4>5
        <5> QED BY <4>1, <4>4, <5>1 DEF F!Range
      <4>7. all \in Seq(Registrable) /\ Singly(all)
        BY <4>3, <4>4, <4>5, <4>6, JoinIsSingle
      <4>8. fleet' = SubSeq(all, 1, IF Len(all) < Room THEN Len(all) ELSE Room)
        BY <3>3, <4>1, <4>2, <4>3 DEF F!Restores
      <4>9. Room \in Nat /\ Len(all) \in Nat
        BY <4>7 DEF OrderFits, FleetFits
      <4>10. PICK n \in 0..Len(all) : fleet' = SubSeq(all, 1, n)
        <5>1. CASE Len(all) < Room
          BY <4>8, <4>9, <5>1
        <5>2. CASE ~(Len(all) < Room)
          BY <4>8, <4>9, <5>2
        <5> QED BY <5>1, <5>2
      <4>11. Singly(SubSeq(all, 1, n))
        <5>1. 1 <= n + 1
          BY <4>9
        <5> QED BY <4>7, <5>1, PieceIsSingle
      <4> QED BY <3>1, <4>10, <4>11
    <3> QED BY <2>2, <3>2, <3>3 DEF F!UndoCleanup, F!registryVars
  <2> QED BY <2>1, <2>2
<1>3. \A p \in polls' : Singly(p.contacts)
  BY <1>1, <1>2, RefreshIsSingle DEF FleetInv, FleetOwn
<1> QED BY <1>1, <1>2, <1>3 DEF FleetOwn

LEMMA OwnOthers ==
  ASSUME OrderFits, FleetInv, FleetOwn, NEW g \in Registrable, F!OtherAdds(g) \/ F!OtherRemoves(g)
  PROVE  FleetOwn'
<1>0. fleet \in Seq(Registrable) /\ Singly(fleet)
  BY DEF FleetInv, FleetOwn
<1>1. UNCHANGED <<polls, fleetRows, undo>>
  BY DEF F!OtherAdds, F!OtherRemoves, F!pollVars, F!pickVars
<1>2. CASE F!OtherRemoves(g)
  <2>1. PICK keep : keep = F!Range(fleet) \ {g}
    OBVIOUS
  <2>2. fleet' = F!Filtered(fleet, keep)
    BY <1>2, <2>1 DEF F!OtherRemoves, F!Removes
  <2>3. Singly(fleet')
    BY <1>0, <2>2, FilterIsSingle
  <2> QED BY <1>1, <2>3 DEF FleetOwn
<1>3. CASE F!OtherAdds(g)
  <2>1. g \notin F!Range(fleet)
    BY <1>3 DEF F!OtherAdds
  <2>2. PICK all : all = Append(fleet, g)
    OBVIOUS
  <2>3. all \in Seq(Registrable) /\ Len(all) = Len(fleet) + 1 /\ Len(fleet) \in Nat
    BY <1>0, <2>2
  <2>4. /\ \A i \in 1..Len(fleet) : all[i] = fleet[i] /\ all[i] # g
        /\ all[Len(fleet) + 1] = g
    <3>1. DOMAIN fleet = 1..Len(fleet)
      BY <1>0
    <3>2. \A i \in 1..Len(fleet) : fleet[i] # g
      BY <2>1, <3>1 DEF F!Range
    <3> QED BY <1>0, <2>2, <3>2
  <2>5. ASSUME NEW i \in 1..Len(all), NEW j \in 1..Len(all), all[i] = all[j]
        PROVE  i = j
    <3>1. i \in 1..Len(fleet) \/ i = Len(fleet) + 1
      BY <2>3
    <3>2. j \in 1..Len(fleet) \/ j = Len(fleet) + 1
      BY <2>3
    <3>3. CASE i \in 1..Len(fleet) /\ j \in 1..Len(fleet)
      BY <1>0, <2>4, <2>5, <3>3 DEF Singly
    <3> QED BY <2>4, <2>5, <3>1, <3>2, <3>3
  <2>6. Singly(all)
    BY <2>5 DEF Singly
  <2>7. PICK m \in {1, 2} : fleet' = SubSeq(all, m, Len(all))
    <3>1. fleet' = SubSeq(all, IF Len(fleet) = Room THEN 2 ELSE 1, Len(all))
      BY <1>3, <2>2, <2>3 DEF F!OtherAdds
    <3> QED BY <3>1
  <2>8. Singly(SubSeq(all, m, Len(all)))
    <3>1. Len(all) \in 0..Len(all) /\ m <= Len(all) + 1
      BY <2>3
    <3> QED BY <2>3, <2>6, <3>1, PieceIsSingle
  <2> QED BY <1>1, <2>7, <2>8 DEF FleetOwn
<1> QED BY <1>2, <1>3

LEMMA OwnStep ==
  ASSUME OrderFits, FleetInv, FleetInv', FleetOwn, [F!Next]_(F!fleetVars)
  PROVE  FleetOwn'
<1>1. ASSUME UNCHANGED <<fleet, polls, fleetRows>>, undo' = undo \/ undo' = Nil PROVE FleetOwn'
  BY <1>1 DEF FleetOwn
<1>2. fleet' \in Seq(Registrable)
  BY DEF FleetInv
<1>3. CASE UNCHANGED F!fleetVars
  BY <1>1, <1>3 DEF F!fleetVars
<1>4. CASE F!ToggleAllVisible \/ F!OpenCleanup \/ F!CancelCleanup \/ F!DismissUndo
  BY <1>1, <1>4 DEF F!ToggleAllVisible, F!OpenCleanup, F!CancelCleanup, F!DismissUndo,
                    F!registryVars, F!pollVars
<1>5. ASSUME NEW g \in Registrable, F!ToggleSelected(g) PROVE FleetOwn'
  BY <1>1, <1>5 DEF F!ToggleSelected, F!registryVars, F!pollVars
<1>6. ASSUME NEW v, F!OtherSetsView(v) \/ \E takes \in BOOLEAN : F!SetView(v, takes)
      PROVE  FleetOwn'
  BY <1>1, <1>6 DEF F!OtherSetsView, F!SetView, F!registryVars, F!pollVars, F!pickVars
<1> QED BY <1>2, <1>3, <1>4, <1>5, <1>6, OwnPolls, OwnCleanups, OwnOthers DEF F!Next

\* What is asked of the view, said of the one view that is used.
LEMMA OrderedIfOwn ==
  ASSUME OrderFits, FleetOwn
  PROVE  F!OrderHolds
<1>1. RowsFit
  BY DEF OrderFits, FleetOwn, RowsFit
<1> SUFFICES ASSUME NEW v \in {[status |-> "Active", key |-> "left", descending |-> TRUE]},
                    v.key # Nil
             PROVE  LET drawn == F!Applied(v)
                        back == F!Applied([v EXCEPT !.descending = ~v.descending])
                        tie(r, s) == IF v.key = "status" THEN r.status = s.status
                                     ELSE r.left = s.left
                    IN /\ F!Range(drawn)
                            = {r \in F!Range(fleetRows) : v.status = Nil \/ r.status = v.status}
                       /\ \A i, j \in DOMAIN drawn :
                            LET r == drawn[i]
                                s == drawn[j]
                            IN i < j =>
                                 IF tie(r, s)
                                 THEN /\ At(fleetRows, r.guard) < At(fleetRows, s.guard)
                                      /\ At(back, r.guard) < At(back, s.guard)
                                 ELSE \/ v.key = "left" /\ s.left = NoCountdown
                                      \/ At(back, s.guard) < At(back, r.guard)
  BY DEF F!OrderHolds, At
<1>2. v \in FleetOrders /\ v.key = "left"
  <2>1. PICK yes \in BOOLEAN : yes = TRUE
    BY Zenon
  <2>2. v = [status |-> "Active", key |-> "left", descending |-> yes]
    BY <2>1
  <2>3. "Active" \in DOMAIN F!Rank
    BY DEF F!Rank
  <2> QED BY <2>2, <2>3 DEF FleetOrders
<1>3. v.key # "status"
  BY <1>2
<1>4. PICK drawn, back : /\ drawn = F!Applied(v)
                         /\ back = F!Applied([v EXCEPT !.descending = ~v.descending])
  OBVIOUS
<1>5. /\ F!Range(drawn) = Wanted(v)
      /\ \A i, j \in DOMAIN drawn :
           i < j => IF drawn[i].left = drawn[j].left
                    THEN /\ At(fleetRows, drawn[i].guard) < At(fleetRows, drawn[j].guard)
                         /\ At(back, drawn[i].guard) < At(back, drawn[j].guard)
                    ELSE \/ drawn[j].left = NoCountdown
                         \/ At(back, drawn[j].guard) < At(back, drawn[i].guard)
  BY <1>1, <1>2, <1>4, OrderIs
<1> QED BY <1>2, <1>3, <1>4, <1>5 DEF Wanted

(* "equal rows never reshuffle between polls or when the direction is       *)
(* flipped", and a row without a countdown is last in both: for any guards, *)
(* any number of them and whatever the polls tell, of the countdowns of the *)
(* active guards (sortFleet, filterFleet; the other orders of the table are *)
(* not used in this run).                                                   *)
THEOREM FleetIsInOrder ==
  ASSUME OrderFits
  PROVE  F!Spec => []F!OrderHolds
<1>1. FleetFits
  BY DEF OrderFits
<1>2. F!Spec => []FleetInv
  BY <1>1, RemovedGuardsStayOut, PTL
<1>3. F!Init => FleetOwn
  BY OwnAtFirst
<1>4. FleetInv /\ FleetInv' /\ FleetOwn /\ [F!Next]_(F!fleetVars) => FleetOwn'
  BY OwnStep
<1>5. FleetOwn => F!OrderHolds
  BY OrderedIfOwn
<1> QED BY <1>2, <1>3, <1>4, <1>5, PTL DEF F!Spec
-----------------------------------------------------------------------------
(* The checklist.  An answer that says yes is true of the guard it was made *)
(* for, and stays true, because what the chain says only grows; it is so    *)
(* from the moment the read is made, so that its delay does not matter.     *)
S == INSTANCE SetupWizard WITH reading <- initReads, asked <- initAsked

AnswersTrue ==
  /\ \A r \in initReads :
       r.before \in S!Answers /\ (r.before = "yes" => r.guard \in initialized)
  /\ initRead.answer \in S!Answers
  /\ initRead.answer = "yes" => initRead.guard \in initialized
  /\ snapshot # Nil => /\ snapshot.status \in S!Answers
                       /\ snapshot.status = "yes" => snapshot.guard \in policies
  /\ verifying # Nil => /\ verifying.before \in S!Answers
                        /\ verifying.before = "yes" => verifying.guard \in policies
  /\ verified # Nil => /\ verified.answer \in S!Answers
                       /\ verified.answer = "yes" => verified.guard \in policies

\* A step of the checklist is green on a yes, and on nothing else.
LEMMA GreenIsYes ==
  ASSUME NEW answer \in S!Answers, S!StepOf(answer) = "done"
  PROVE  answer = "yes"
BY DEF S!StepOf, S!Answers

LEMMA AnswersStep ==
  ASSUME AnswersTrue, S!Next
  PROVE  AnswersTrue'
<1>1. ASSUME NEW g \in SetupGuards, S!Initialize(g)
      PROVE  AnswersTrue'
  BY <1>1 DEF AnswersTrue, S!Initialize
<1>2. ASSUME NEW g \in SetupGuards, S!InstallPolicy(g)
      PROVE  AnswersTrue'
  BY <1>2 DEF AnswersTrue, S!InstallPolicy
<1>3. ASSUME NEW g \in SetupGuards, S!SwitchSetup(g)
      PROVE  AnswersTrue'
  BY <1>3 DEF AnswersTrue, S!SwitchSetup, S!ReadOf, S!Says, S!Answers
<1>4. ASSUME NEW status \in S!Answers, NEW policy \in S!Answers, S!Snapshot(status, policy)
      PROVE  AnswersTrue'
  BY <1>4 DEF AnswersTrue, S!Snapshot, S!Says
<1>5. CASE S!RereadInitialized
  BY <1>5 DEF AnswersTrue, S!RereadInitialized, S!ReadOf, S!Says, S!Answers
<1>6. ASSUME NEW r \in initReads, S!InitAnswers(r)
      PROVE  AnswersTrue'
  BY <1>6 DEF AnswersTrue, S!InitAnswers, S!KeptFor, S!Says, S!Answers
<1>7. CASE S!Verify
  BY <1>7 DEF AnswersTrue, S!Verify, S!Says, S!Answers
<1>8. CASE S!Verified
  BY <1>8 DEF AnswersTrue, S!Verified, S!KeptFor, S!Says, S!Answers
<1>9. ASSUME NEW g \in SetupGuards, S!RememberDeployment(g)
      PROVE  AnswersTrue'
  BY <1>9 DEF AnswersTrue, S!RememberDeployment, S!WriteSetup
<1>10. CASE S!Dismiss
  BY <1>10 DEF AnswersTrue, S!Dismiss, S!WriteSetup
<1>11. CASE S!Restore
  BY <1>11 DEF AnswersTrue, S!Restore, S!WriteSetup
<1> QED
  BY <1>1, <1>2, <1>3, <1>4, <1>5, <1>6, <1>7, <1>8, <1>9, <1>10, <1>11 DEF S!Next

LEMMA AnswersSuffice == AnswersTrue => S!GreenIsTrue
<1> SUFFICES ASSUME AnswersTrue PROVE S!GreenIsTrue
  OBVIOUS
<1>1. S!DeriveInitialized = "done" => onScreen \in initialized
  <2> SUFFICES ASSUME S!DeriveInitialized = "done" PROVE onScreen \in initialized
    OBVIOUS
  <2>1. S!InitShown \in S!Answers /\ S!StepOf(S!InitShown) = "done"
    BY DEF AnswersTrue, S!DeriveInitialized, S!InitShown, S!Answers
  <2>2. S!InitShown = "yes"
    BY <2>1, GreenIsYes
  <2> QED BY <2>2 DEF AnswersTrue, S!InitShown
<1>2. S!DerivePolicy = "done" => onScreen \in policies
  <2> SUFFICES ASSUME S!DerivePolicy = "done" PROVE onScreen \in policies
    OBVIOUS
  <2>1. snapshot # Nil /\ snapshot.guard = onScreen /\ S!StepOf(snapshot.status) = "done"
    BY DEF S!DerivePolicy
  <2>2. snapshot.status = "yes"
    BY <2>1, GreenIsYes DEF AnswersTrue
  <2> QED BY <2>1, <2>2 DEF AnswersTrue
<1>3. S!DeriveVerified = "done" => onScreen \in policies
  <2> SUFFICES ASSUME S!DeriveVerified = "done" PROVE onScreen \in policies
    OBVIOUS
  <2>1. verified # Nil /\ verified.guard = onScreen /\ S!StepOf(verified.answer) = "done"
    BY DEF S!DeriveVerified
  <2>2. verified.answer = "yes"
    BY <2>1, GreenIsYes DEF AnswersTrue
  <2> QED BY <2>1, <2>2 DEF AnswersTrue
<1> QED BY <1>1, <1>2, <1>3 DEF S!GreenIsTrue

(* For any guards, however many reads are on their way: no step of the      *)
(* checklist is green that is not true of the guard on screen               *)
(* (deriveSetupSteps and the requests of SetupWizard).                      *)
THEOREM ChecklistIsTrue == S!Spec => []S!GreenIsTrue
<1>1. S!Init => AnswersTrue
  BY DEF S!Init, AnswersTrue, S!ReadOf, S!Says, S!Answers
<1>2. AnswersTrue /\ [S!Next]_(S!setupVars) => AnswersTrue'
  <2>1. CASE UNCHANGED S!setupVars
    BY <2>1 DEF S!setupVars, AnswersTrue
  <2> QED BY <2>1, AnswersStep
<1> QED BY <1>1, <1>2, AnswersSuffice, PTL DEF S!Spec

-----------------------------------------------------------------------------
(* The storage controls.                                                    *)
R == INSTANCE BrowserRecords

StoreTyped == store \in [StoreKeys -> {Nil} \cup Nat]

(* A clear takes the records of the category that was asked about and no    *)
(* other, for any keys and however many items each holds                    *)
(* (clearOperatorStorageCategory).                                          *)
THEOREM ClearsTakeTheirOwn ==
  ASSUME Nil \notin Nat
  PROVE  R!Spec => []StoreTyped /\ R!ClearsItsOwn
<1> DEFINE own == \A k \in StoreKeys : store[k] # Nil /\ store'[k] = Nil =>
                    confirming # Nil /\ k \in R!KeysOf(confirming)
<1>1. R!Init => StoreTyped
  BY DEF R!Init, StoreTyped
<1>2. ASSUME StoreTyped, [R!Next]_(R!recordVars)
      PROVE  StoreTyped' /\ own
  <2>1. CASE UNCHANGED R!recordVars
    BY <1>2, <2>1 DEF R!recordVars, StoreTyped
  <2>2. CASE R!ToggleInventory
    BY <1>2, <2>2 DEF R!ToggleInventory, StoreTyped
  <2>3. ASSUME NEW c, R!AskToClear(c)
        PROVE  StoreTyped' /\ own
    BY <1>2, <2>3 DEF R!AskToClear, StoreTyped
  <2>4. CASE R!CancelClear
    BY <2>3, <2>4 DEF R!CancelClear
  <2>5. CASE R!ConfirmClear
    BY <1>2, <2>5 DEF R!ConfirmClear, R!Cleared, StoreTyped
  <2>6. ASSUME NEW k \in StoreKeys, R!WriteItem(k)
        PROVE  StoreTyped' /\ own
    <3>1. store' = [store EXCEPT ![k] = IF store[k] = Nil THEN 1 ELSE store[k] + 1]
      BY <2>6 DEF R!WriteItem
    <3>2. (IF store[k] = Nil THEN 1 ELSE store[k] + 1) \in Nat
      BY <1>2 DEF StoreTyped
    <3> QED BY <1>2, <3>1, <3>2 DEF StoreTyped
  <2> QED BY <1>2, <2>1, <2>2, <2>3, <2>4, <2>5, <2>6 DEF R!Next
<1>3. StoreTyped /\ [R!Next]_(R!recordVars) => StoreTyped' /\ [own]_(R!recordVars)
  BY <1>2
<1> QED BY <1>1, <1>3, PTL DEF R!Spec, R!ClearsItsOwn

-----------------------------------------------------------------------------
(* The run.  It has the picks of the protocols too, of which nothing is     *)
(* proved here.                                                             *)
O == INSTANCE ProtocolPicks WITH Protocols <- {x, y}, Exports <- x :> {"f", "g"} @@ y :> {"g"}

Init ==
  /\ part \in Parts
  /\ H!Init
  /\ A!Init /\ (part = "book" \/ format = "none")
  /\ P!Init /\ active = CHOOSE g \in FormGuards : TRUE
  /\ U!Init
  /\ W!Init
  /\ F!Init /\ (part = "fleet" \/ fleet = <<>>)
  /\ R!Init /\ (part = "records" \/ \A k \in StoreKeys : store[k] = Nil)
  /\ D!Init /\ (part = "layout" \/ stored = Nil)
  /\ S!Init /\ onScreen = (CHOOSE g \in SetupGuards : TRUE)
  /\ part = "setup" \/ (initialized = {} /\ ~corrupt)
  /\ O!Init /\ (part = "picks" \/ \A c \in {x, y} : lines[c] = Nil)
  /\ L!Init /\ (part = "links" \/ registry = {})
  /\ T!Init /\ (part = "channel" \/ (means.transport = "none" /\ ~means.refuses))
  /\ N!Init /\ (part = "alerts" \/ permission = "default")
  /\ C!Init

Next ==
  \/ /\ part = "history" /\ H!Next
     /\ UNCHANGED <<part, bookVars, formVars, shellVars, hookVars, fleetVars,
                    recordVars, gridVars, setupVars, pickVars, linkVars, livedVars>>
  \/ /\ part = "book" /\ A!Next
     /\ UNCHANGED <<part, historyVars, formVars, shellVars, hookVars, fleetVars,
                    recordVars, gridVars, setupVars, pickVars, linkVars, livedVars>>
  \/ /\ part = "form" /\ P!Next
     /\ UNCHANGED <<part, historyVars, bookVars, shellVars, hookVars, fleetVars,
                    recordVars, gridVars, setupVars, pickVars, linkVars, livedVars>>
  \/ /\ part = "shell" /\ U!Next
     /\ UNCHANGED <<part, historyVars, bookVars, formVars, hookVars, fleetVars,
                    recordVars, gridVars, setupVars, pickVars, linkVars, livedVars>>
  \/ /\ part = "webhooks" /\ W!Next
     /\ UNCHANGED <<part, historyVars, bookVars, formVars, shellVars, fleetVars,
                    recordVars, gridVars, setupVars, pickVars, linkVars, livedVars>>
  \/ /\ part = "fleet" /\ F!Next
     /\ UNCHANGED <<part, historyVars, bookVars, formVars, shellVars, hookVars,
                    recordVars, gridVars, setupVars, pickVars, linkVars, livedVars>>
  \/ /\ part = "records" /\ R!Next
     /\ UNCHANGED <<part, historyVars, bookVars, formVars, shellVars, hookVars,
                    fleetVars, gridVars, setupVars, pickVars, linkVars, livedVars>>
  \/ /\ part = "layout" /\ D!Next
     /\ UNCHANGED <<part, historyVars, bookVars, formVars, shellVars, hookVars,
                    fleetVars, recordVars, setupVars, pickVars, linkVars, livedVars>>
  \/ /\ part = "setup" /\ S!Next
     /\ UNCHANGED <<part, historyVars, bookVars, formVars, shellVars, hookVars,
                    fleetVars, recordVars, gridVars, pickVars, linkVars, livedVars>>
  \/ /\ part = "picks" /\ O!Next
     /\ UNCHANGED <<part, historyVars, bookVars, formVars, shellVars, hookVars,
                    fleetVars, recordVars, gridVars, setupVars, linkVars, livedVars>>
  \/ /\ part = "links" /\ L!Next
     /\ UNCHANGED <<part, historyVars, bookVars, formVars, shellVars, hookVars,
                    fleetVars, recordVars, gridVars, setupVars, pickVars,
                    livedVars>>
  \/ /\ part = "channel" /\ T!Next
     /\ UNCHANGED <<part, keptVars, noticeVars, capVars>>
  \/ /\ part = "toasts" /\ N!ToastNext
     /\ UNCHANGED <<part, keptVars, channelVars, capVars>>
  \/ /\ part = "alerts" /\ N!AlertNext
     /\ UNCHANGED <<part, keptVars, channelVars, capVars>>
  \/ /\ part = "caps" /\ C!ImportNext
     /\ UNCHANGED <<part, keptVars, channelVars, noticeVars>>
  \/ /\ part = "labels" /\ C!LabelNext
     /\ UNCHANGED <<part, keptVars, channelVars, noticeVars>>

Spec == Init /\ [][Next]_vars

-----------------------------------------------------------------------------
(* The part that runs keeps its types.                                     *)
RecordTypes ==
  CASE part = "history" -> H!HistTypes
    [] part = "book" -> A!BookTypes
    [] part = "form" -> P!FormTypes
    [] part = "shell" -> U!ShellTypes
    [] part = "webhooks" -> W!HookTypes
    [] part = "fleet" -> F!FleetTypes
    [] part = "records" -> R!RecordTypes
    [] part = "layout" -> D!GridTypes
    [] part = "setup" -> S!SetupTypes
    [] part = "picks" -> O!PickTypes
    [] part = "links" -> L!LinkTypes
    [] part = "channel" -> T!ChannelTypes
    [] part \in {"toasts", "alerts"} -> N!NoticeTypes
    [] part \in {"caps", "labels"} -> C!CapTypes

(* What was kept stays until somebody takes it away: a row of the history  *)
(* goes by its age or the limit, a contact by its deletion or a refusal,   *)
(* a category of records by its own question, an error of the console by a *)
(* dismissal or a sixth error; and a guard removed from the fleet comes    *)
(* back only when it is stored again.                                      *)
RecordsOutlive ==
  H!RowsOutlive /\ A!ContactsOutlive /\ R!ClearsItsOwn /\ F!RemovedStaysOut
  /\ N!ErrorsStay

(* What a screen draws belongs to what it says: an address has one entry,  *)
(* no panel of the grid is lost and no two arrangements have one name, the *)
(* alerts that are on are not skipped for their settings, the fleet is in  *)
(* the order asked for, a green step is true of the guard named, the       *)
(* address names the view, the policy screen is of its guard and a page    *)
(* runs the build its worker serves; no tab is left behind a change another tab announced, nothing   *)
(* rings that was not turned on, and the review of a file of caps shows    *)
(* what its rows do.                                                       *)
ScreensAgree ==
  /\ part = "book" => A!OneEntryEach
  /\ part = "form" => P!PolicyScreenOwn
  /\ part = "shell" => U!ShellMatches
  /\ part = "webhooks" => W!OnCanSend
  /\ part = "fleet" => F!OrderHolds
  /\ part = "layout" => D!NoPanelLost /\ D!NamesApart
  /\ part = "setup" => S!GreenIsTrue
  /\ part = "links" => L!AddressNamesView
  /\ part = "channel" => T!HeardInTurn /\ T!NobodyLeftBehind
  /\ part = "toasts" => N!TimersFit
  /\ part = "alerts" => N!NoAmbush /\ N!ChannelsAgree
  /\ part = "caps" => C!PreviewExact /\ C!ReadersAgree
  /\ part = "labels" => C!NothingForgotten
-----------------------------------------------------------------------------
(* The composition.  A step of the whole is a step of one part, and leaves  *)
(* the variables of the others as they were.                                *)
LEMMA PartsBehave ==
  Spec => /\ H!Spec
          /\ A!Spec
          /\ P!Spec
          /\ U!Spec
          /\ W!Spec
          /\ R!Spec
          /\ F!Spec
          /\ S!Spec
          /\ L!Spec
          /\ D!Spec
          /\ N!Init /\ [][N!ToastNext \/ N!AlertNext]_(N!noticeVars)
          /\ T!Init /\ [][T!Next]_(T!channelVars)
<1>1. Init => /\ H!Init /\ A!Init /\ P!Init /\ U!Init /\ W!Init /\ R!Init /\ F!Init
              /\ S!Init /\ L!Init /\ N!Init /\ T!Init /\ D!Init
  BY SMTT(30) DEF Init
<1>2. [Next]_vars => [H!Next]_(H!histVars)
  BY SMTT(30) DEF Next, vars, keptVars, historyVars, H!histVars
<1>3. [Next]_vars => [A!Next]_(A!bookVars)
  BY SMTT(30) DEF Next, vars, keptVars, bookVars, A!bookVars
<1>4. [Next]_vars => [P!Next]_(P!formVars)
  BY SMTT(30) DEF Next, vars, keptVars, formVars, P!formVars
<1>5. [Next]_vars => [U!Next]_(U!shellVars)
  BY SMTT(30) DEF Next, vars, keptVars, shellVars, U!shellVars
<1>6. [Next]_vars => [W!Next]_(W!hookVars)
  BY SMTT(30) DEF Next, vars, keptVars, hookVars, W!hookVars
<1>7. [Next]_vars => [R!Next]_(R!recordVars)
  BY SMTT(30) DEF Next, vars, keptVars, recordVars, R!recordVars
<1>8. [Next]_vars => [F!Next]_(F!fleetVars)
  BY SMTT(30) DEF Next, vars, keptVars, fleetVars, F!fleetVars
<1>9. [Next]_vars => [S!Next]_(S!setupVars)
  BY SMTT(30) DEF Next, vars, keptVars, setupVars, S!setupVars
<1>10. [Next]_vars => [L!Next]_(L!linkVars)
  BY SMTT(30) DEF Next, vars, keptVars, linkVars, L!linkVars
<1>11. [Next]_vars => [N!ToastNext \/ N!AlertNext]_(N!noticeVars)
  BY SMTT(30) DEF Next, vars, livedVars, noticeVars, N!noticeVars
<1>12. [Next]_vars => [T!Next]_(T!channelVars)
  BY SMTT(30) DEF Next, vars, livedVars, channelVars, T!channelVars
<1>13. [Next]_vars => [D!Next]_(D!gridVars)
  BY SMTT(30) DEF Next, vars, keptVars, gridVars, D!gridVars
<1> QED
  BY <1>1, <1>2, <1>3, <1>4, <1>5, <1>6, <1>7, <1>8, <1>9, <1>10, <1>11, <1>12, <1>13, PTL
  DEF Spec, H!Spec, A!Spec, P!Spec, U!Spec, W!Spec, R!Spec, F!Spec, S!Spec, L!Spec, D!Spec

\* The import and the labels share their variables, and a behaviour is of one.
LEMMA LabelsBehave ==
  Spec /\ [](part = "labels") => C!Init /\ [][C!LabelNext]_(C!capVars)
<1>1. Init => C!Init
  BY SMTT(30) DEF Init
<1>2. part = "labels" /\ [Next]_vars => [C!LabelNext]_(C!capVars)
  BY SMTT(30) DEF Next, vars, livedVars, capVars, C!capVars
<1> QED BY <1>1, <1>2, PTL DEF Spec

LEMMA ImportsBehave ==
  Spec /\ [](part = "caps") => C!Init /\ [][C!ImportNext]_(C!capVars)
<1>1. Init => C!Init
  BY SMTT(30) DEF Init
<1>2. part = "caps" /\ [Next]_vars => [C!ImportNext]_(C!capVars)
  BY SMTT(30) DEF Next, vars, livedVars, capVars, C!capVars
<1> QED BY <1>1, <1>2, PTL DEF Spec

ASSUME RecordsFit ==
  /\ HistFits /\ BookFits /\ FleetFits /\ OrderFits /\ ShellFits /\ HooksFit /\ FormFits
  /\ AlertsFit /\ LabelFits /\ LinksFit /\ ChannelFits /\ GridFits
  /\ Nil \notin Nat /\ Visible \in Nat /\ MaxToasts \in Nat

(* What was kept stays until somebody takes it away: the history, the       *)
(* contacts, the records of the browser, the fleet and the errors on        *)
(* screen, for any tabs, lists and limits.                                  *)
THEOREM RecordsStay == Spec => RecordsOutlive
<1>1. H!Spec => H!RowsOutlive
  BY HistoryOutlives, RecordsFit, PTL
<1>2. A!Spec => A!ContactsOutlive
  BY ContactsAreKept, RecordsFit, PTL
<1>3. R!Spec => R!ClearsItsOwn
  BY ClearsTakeTheirOwn, RecordsFit, PTL
<1>4. F!Spec => F!RemovedStaysOut
  BY RemovedGuardsStayOut, RecordsFit, PTL
<1>5. N!Init /\ [][N!ToastNext \/ N!AlertNext]_(N!noticeVars) => N!ErrorsStay
  BY ErrorsAreKept, RecordsFit, PTL
<1> QED BY <1>1, <1>2, <1>3, <1>4, <1>5, PartsBehave, PTL DEF RecordsOutlive

(* No step of the checklist is green that is not true of the guard on       *)
(* screen, in every behaviour the run looks at.                             *)
THEOREM WizardIsTrue == Spec => [](part = "setup" => S!GreenIsTrue)
BY ChecklistIsTrue, PartsBehave, PTL

(* What a screen draws belongs to what it says, for any guards, pages,      *)
(* links, files and limits: the policy screen is of its guard, a page runs  *)
(* the build its worker serves, no alert is skipped for its settings, the   *)
(* fleet is in the order asked for, an address has one entry in the book,   *)
(* no panel is lost and no two arrangements have one name, a green step is  *)
(* true, the address names the view, no tab is left behind a change another *)
(* tab announced, a message has its timer, nothing rings that was not       *)
(* turned on, a review of caps shows what its rows do and no label is       *)
(* forgotten.                                                               *)
THEOREM ScreensSayWhatIs == Spec => []ScreensAgree
<1>1. P!Spec => []P!PolicyScreenOwn
  BY FormStaysOwn, RecordsFit, PTL
<1>2. U!Spec => []U!ShellMatches
  BY ShellIsMatched, RecordsFit, PTL
<1>3. W!Spec => []W!OnCanSend
  BY AlertsAreNotSkipped, RecordsFit, PTL
<1>4. L!Spec => []L!AddressNamesView
  BY AddressIsTheView, RecordsFit, PTL
<1>5. N!Init /\ [][N!ToastNext \/ N!AlertNext]_(N!noticeVars)
        => [](N!TimersFit /\ N!NoAmbush /\ N!ChannelsAgree)
  <2>1. ToastInv => N!TimersFit
    BY DEF ToastInv
  <2> QED BY <2>1, ErrorsAreKept, NobodyIsAmbushed, RecordsFit, PTL
<1>6. C!Init /\ [][C!LabelNext]_(C!capVars) => []C!NothingForgotten
  BY AssetsAreDescribed, RecordsFit, PTL
<1>11. T!Init /\ [][T!Next]_(T!channelVars) => [](T!HeardInTurn /\ T!NobodyLeftBehind)
  BY NoTabIsLeftBehind, RecordsFit, PTL
<1>12. A!Spec => []A!OneEntryEach
  BY AddressesAreUnique, RecordsFit, PTL
<1>13. D!Spec => [](D!NoPanelLost /\ D!NamesApart)
  BY PanelsAreKept, RecordsFit, PTL
\* A behaviour is of one part.
<1>7. [Next]_vars => ((part = "labels") <=> (part = "labels")')
  BY DEF Next, vars
<1>8. Spec => [](part = "labels") \/ []~(part = "labels")
  BY <1>7, PTL DEF Spec
<1>9. Spec => []((part = "labels") => C!NothingForgotten)
  BY <1>6, <1>8, LabelsBehave, PTL
<1>14. [Next]_vars => ((part = "caps") <=> (part = "caps")')
  BY DEF Next, vars
<1>15. Spec => [](part = "caps") \/ []~(part = "caps")
  BY <1>14, PTL DEF Spec
<1>16. Spec => []((part = "caps") => C!PreviewExact /\ C!ReadersAgree)
  BY <1>15, ImportsBehave, ReviewsAreExact, PTL
<1>17. F!Spec => []F!OrderHolds
  BY FleetIsInOrder, RecordsFit, PTL
<1>10. /\ P!PolicyScreenOwn /\ U!ShellMatches /\ W!OnCanSend /\ L!AddressNamesView
       /\ N!TimersFit /\ N!NoAmbush /\ N!ChannelsAgree /\ T!HeardInTurn /\ T!NobodyLeftBehind
       /\ A!OneEntryEach /\ D!NoPanelLost /\ D!NamesApart /\ F!OrderHolds
       /\ (part = "setup" => S!GreenIsTrue) /\ (part = "labels" => C!NothingForgotten)
       /\ (part = "caps" => C!PreviewExact /\ C!ReadersAgree)
       => ScreensAgree
  BY DEF ScreensAgree
<1> QED
  BY <1>1, <1>2, <1>3, <1>4, <1>5, <1>9, <1>10, <1>11, <1>12, <1>13, <1>16, <1>17,
     WizardIsTrue, PartsBehave, PTL
=============================================================================

----------------------------- MODULE SharedLinks -----------------------------
(***************************************************************************)
(* The address bar as a view to hand over: the guard, the network, the tab *)
(* and the verdict filter a link carries, how a page adopts them and how   *)
(* the page writes them back.                                              *)
(*                                                                         *)
(* Every page mounts a provider of its own.  The effects of a mount run in *)
(* one piece, in the order of the code.  A page reached inside the console *)
(* may first be rendered while the address is still that of the page it    *)
(* comes from; a page that is loaded reads its own.  The filter a guard's  *)
(* feed shows is the business of EventViews; here it is the one the        *)
(* address names.                                                          *)
(***************************************************************************)
EXTENDS Naturals, Sequences, FiniteSets, Functions

CONSTANTS
  Known,        \* the guards of the build, in the order of the list
  Strangers,    \* contract addresses the registry may not hold
  Links,        \* the queries of the links that are opened
  MaxVisits,    \* bound on the pages opened
  Nil

VARIABLES
  path,         \* the route of the page
  address,      \* the query in the address bar
  saved,        \* guards of the stored registry
  listed,       \* guards the selector offers
  shown,        \* the guard on screen
  going,        \* a route the page was told to move to, or Nil
  visits

linkVars == <<path, address, saved, listed, shown, going, visits>>

Routes == {"/", "/fleet", "/configure", "/deploy", "/panic"}
ScreenRoutes ==
  [console |-> "/", fleet |-> "/fleet", configure |-> "/configure", deploy |-> "/deploy",
   panic |-> "/panic"]
PanelTabs == {"status", "txhistory", "telemetry", "multisig", "xdr"}
UrlTabs == DOMAIN ScreenRoutes \cup PanelTabs
VerdictFilters == {"all", "allowed", "blocked"}

LooksLikeContractAddress(g) == g \in Range(Known) \cup Strangers

\* A query: the values of guard in their order, the other parameters the
\* console owns, and whatever else the link carries.
NoQuery == [guard |-> <<>>, network |-> Nil, tab |-> Nil, filter |-> Nil, other |-> {}]

\* What a query says once every parameter is checked; the first guard counts.
DecodeUrlState(q) ==
  [guard   |-> IF q.guard # <<>> /\ LooksLikeContractAddress(Head(q.guard))
               THEN Head(q.guard) ELSE Nil,
   network |-> IF q.network = "testnet" THEN q.network ELSE Nil,
   tab     |-> IF q.tab \in UrlTabs THEN q.tab ELSE Nil,
   filter  |-> IF q.filter \in VerdictFilters THEN q.filter ELSE Nil]

EncodeUrlState(s, other) ==
  [guard   |-> IF s.guard = Nil THEN <<>> ELSE <<s.guard>>,
   network |-> s.network,
   tab     |-> s.tab,
   filter  |-> IF s.filter = "all" THEN Nil ELSE s.filter,
   other   |-> other]

WithGuard(q, g) ==
  EncodeUrlState([DecodeUrlState(q) EXCEPT !.guard = g, !.network = "testnet"], q.other)
WithTab(q, tab) == EncodeUrlState([DecodeUrlState(q) EXCEPT !.tab = tab], q.other)
WithFilter(q, f) ==
  EncodeUrlState([DecodeUrlState(q) EXCEPT !.filter = f,
                                           !.tab = IF f = "all" THEN "console" ELSE "telemetry"],
                 q.other)

TabForPathname(p) ==
  LET tabs == {t \in DOMAIN ScreenRoutes : ScreenRoutes[t] = p}
  IN  IF tabs = {} THEN "console" ELSE CHOOSE t \in tabs : TRUE

RouteForTab(tab) == IF tab \in DOMAIN ScreenRoutes THEN ScreenRoutes[tab] ELSE Nil

\* The guard a link asks for: none when it names several, or no contract.
GuardFromSearch(q) ==
  IF Cardinality(Range(q.guard)) = 1 /\ LooksLikeContractAddress(Head(q.guard))
  THEN Head(q.guard) ELSE Nil

\* The guard to move to once the page is mounted, unless it is shown already.
ResolveGuardFromSearch(q, current) ==
  IF GuardFromSearch(q) = current THEN Nil ELSE GuardFromSearch(q)

-----------------------------------------------------------------------------

LinkTypes ==
  /\ path \in Routes /\ going \in Routes \cup {Nil}
  /\ saved \subseteq Range(Known) \cup Strangers
  /\ Range(Known) \subseteq listed
  /\ LooksLikeContractAddress(shown)
  /\ visits \in 0 .. MaxVisits

\* The guard of the first render, from the query it can see.
FirstGuard(q) == IF DecodeUrlState(q).guard = Nil THEN Known[1] ELSE DecodeUrlState(q).guard

\* Mutant: a tab the link names is kept, whatever page it is opened on.
KeepsAnyTab(q, p) ==
  LET tab == DecodeUrlState(q).tab IN IF tab # Nil THEN tab ELSE TabForPathname(p)

\* The tab effect of a mount: a tab the link names is kept, and moves the page
\* when it names another screen.
KeptTab(q, p) ==
  LET tab == DecodeUrlState(q).tab
  IN  IF tab # Nil /\ (RouteForTab(tab) # Nil \/ p = "/") THEN tab ELSE TabForPathname(p)

\* A page mounts at p with the query q, first rendered against the query seen.
Mount(p, q, seen) ==
  LET first     == FirstGuard(seen)
      requested == ResolveGuardFromSearch(q, first)
      tab       == KeptTab(q, p)
      mirrored  == WithTab(WithGuard(q, first), tab)
      now       == IF requested = Nil THEN first ELSE requested
      route     == RouteForTab(tab)
  IN  /\ path' = p
      /\ shown' = now
      /\ listed' = Range(Known) \cup saved \cup (IF requested = Nil THEN {} ELSE {requested})
      /\ address' = IF requested = Nil THEN mirrored ELSE WithGuard(mirrored, requested)
      /\ going' = IF route # Nil /\ route # p THEN route ELSE Nil
      /\ UNCHANGED saved

Visits == visits < MaxVisits /\ visits' = visits + 1

Init ==
  /\ path = "/" /\ going = Nil
  /\ shown = Known[1]
  /\ address = WithTab(WithGuard(NoQuery, Known[1]), "console")
  /\ saved \in SUBSET Strangers
  /\ listed = Range(Known) \cup saved
  /\ visits = 0

\* A link is opened in the browser.
Load(q, p) == Visits /\ Mount(p, q, q)

\* A tab of the console is followed, or the link that configures the guard.
Follow(p, q, seen) ==
  /\ Visits
  /\ going = Nil
  /\ seen \in {address, q}
  /\ Mount(p, q, seen)

\* The page moves to the screen its tab names, without a query.
Redirect(seen) ==
  /\ Visits
  /\ going # Nil
  /\ seen \in {address, NoQuery}
  /\ Mount(going, NoQuery, seen)

SelectGuard(g) ==
  /\ g \in listed /\ g # shown
  /\ shown' = g
  /\ address' = WithGuard(address, g)
  /\ UNCHANGED <<path, saved, listed, going, visits>>

\* A verdict is chosen in the feed, which the console page alone has.
ApplyFilter(f) ==
  /\ path = "/" /\ going = Nil
  /\ address' = WithFilter(address, f)
  /\ UNCHANGED <<path, saved, listed, shown, going, visits>>

\* A guard is added to the registry, and shown.
AddInstance(g) ==
  /\ g \notin saved
  /\ saved' = saved \cup {g}
  /\ listed' = Range(Known) \cup saved'
  /\ shown' = g
  /\ address' = WithGuard(address, g)
  /\ UNCHANGED <<path, going, visits>>

ConfigureHref(g) == [NoQuery EXCEPT !.guard = <<g>>]

Next ==
  \/ \E q \in Links, p \in {"/", "/fleet"} : Load(q, p)
  \/ \E p \in {"/", "/fleet", "/configure"}, q \in {NoQuery, ConfigureHref(shown)} :
       \E seen \in {address, q} : Follow(p, q, seen)
  \/ \E seen \in {address, NoQuery} : Redirect(seen)
  \/ \E g \in listed : SelectGuard(g)
  \/ \E f \in VerdictFilters : ApplyFilter(f)
  \/ \E g \in Strangers : AddInstance(g)

Spec == Init /\ [][Next]_linkVars

-----------------------------------------------------------------------------
(* Whatever link a page was opened with, the address bar ends up naming    *)
(* the view: the guard on screen and nothing beside it, the network of the *)
(* build, a tab that belongs to the page or to the one it is moving to,    *)
(* and no value the console would refuse; three writers merge into one     *)
(* query (the provider's two effects and the feed, through mergeUrlState). *)
AddressNamesView ==
  /\ address.guard = <<shown>> /\ address.network = "testnet"
  /\ address.tab \in UrlTabs
  /\ address.filter \in VerdictFilters \cup {Nil}
  /\ LET route == RouteForTab(address.tab)
     IN  IF going # Nil THEN route = going
         ELSE IF route = Nil THEN path = "/" ELSE route = path
=============================================================================

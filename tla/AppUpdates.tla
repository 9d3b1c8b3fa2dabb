----------------------------- MODULE AppUpdates ------------------------------
(***************************************************************************)
(* A new build of the console: the service worker that waits, the pages    *)
(* that hold it back while they have work in them, the message that lets   *)
(* it take over, and the reload of every page it claims.                   *)
(***************************************************************************)
EXTENDS Naturals, FiniteSets

CONSTANTS
  Pages,     \* tabs of one browser
  MaxBuild,  \* bound: builds that are released
  Risks      \* what panels register, of {"draft", "salt", "write"}

\* What a reload destroys.  A policy draft makes the browser ask; a write whose panel was left
\* is still in flight, and nothing holds the update back for it any more.
Works == Risks \cup {"leftWrite"}

VARIABLES
  build,      \* the build the server gives out
  worker,     \* the version that is active, 0 for none
  waiting,    \* the version that is waiting, 0 for none
  promoters,  \* pages that told the waiting worker to take over
  page        \* the pages that are open

shellVars == <<build, worker, waiting, promoters, page>>

\* A page is under no worker, under one since it loaded, or was claimed by its first one later.
Page == [runs : 1..MaxBuild, under : {"none", "load", "claim"},
         watching : {"no", "yes", "once"}, held : 0..MaxBuild,
         confirming : BOOLEAN, asked : BOOLEAN, reloaded : BOOLEAN, work : SUBSET Works]

ShellTypes ==
  /\ build \in 1..MaxBuild /\ worker \in 0..build /\ waiting \in 0..build
  /\ waiting # 0 => worker < waiting
  /\ DOMAIN page \subseteq Pages /\ \A t \in DOMAIN page : page[t] \in Page
  /\ promoters \subseteq Pages /\ (promoters # {} => waiting # 0)

Init ==
  /\ build = 1 /\ worker = 0 /\ waiting = 0 /\ promoters = {}
  /\ page = [t \in {} |-> 0]

\* A page loads fresh; one that was reloaded by force is controlled by no worker.
Loaded(forced) ==
  [runs |-> build, under |-> IF worker # 0 /\ ~forced THEN "load" ELSE "none",
   watching |-> "no", held |-> 0,
   confirming |-> FALSE, asked |-> FALSE, reloaded |-> FALSE, work |-> {}]

With(t, p) == [u \in DOMAIN page \cup {t} |-> IF u = t THEN p ELSE page[u]]

Controlled(t) == page[t].under # "none"

\* evaluatePwaUpdate: an update waits for what the panels have registered.
Deferred(t) == page[t].work \cap Risks # {}

-----------------------------------------------------------------------------
(* The browser and the server                                              *)

Release == /\ build < MaxBuild /\ build' = build + 1
           /\ UNCHANGED <<worker, waiting, promoters, page>>

OpenPage(t, forced) ==
  /\ page' = With(t, Loaded(forced)) /\ UNCHANGED <<build, worker, waiting, promoters>>

ClosePage(t) ==
  /\ page' = [u \in DOMAIN page \ {t} |-> page[u]] /\ UNCHANGED <<build, worker, waiting, promoters>>

-----------------------------------------------------------------------------
(* The worker                                                              *)

\* Mutant: only the pages that show the notice reload.
ClaimsHolders(stay) ==
  [t \in DOMAIN page |->
     IF ~Controlled(t) THEN [page[t] EXCEPT !.under = "claim"]
     ELSE IF page[t].reloaded \/ page[t].held = 0 THEN page[t]
     ELSE IF t \in stay THEN [page[t] EXCEPT !.reloaded = TRUE]
     ELSE Loaded(FALSE)]

\* The first claim of a page replaces no shell; every later one reloads it, once.
Claims(stay) ==
  [t \in DOMAIN page |->
     IF ~Controlled(t) THEN [page[t] EXCEPT !.under = "claim"]
     ELSE IF page[t].reloaded THEN page[t]
     ELSE IF t \in stay THEN [page[t] EXCEPT !.reloaded = TRUE]
     ELSE Loaded(FALSE)]

\* The browser asks before it reloads over a policy draft, and the operator may stay.
MayStay == {t \in DOMAIN page : "draft" \in page[t].work}

\* Pages that watched hear that a version has been installed; one that is not controlled tells
\* it to take over at once.
Hear(t) == page[t].watching = "yes"
Install ==
  /\ DOMAIN page # {} /\ build > worker /\ build > waiting
  /\ IF worker = 0
     THEN worker' = build /\ page' = Claims({}) /\ UNCHANGED <<waiting, promoters>>
     ELSE /\ waiting' = build
          /\ page' = [t \in DOMAIN page |->
                        IF Hear(t) /\ Controlled(t)
                        THEN [page[t] EXCEPT !.held = build, !.confirming = FALSE] ELSE page[t]]
          /\ promoters' = {t \in DOMAIN page : Hear(t) /\ ~Controlled(t)}
          /\ UNCHANGED worker
  /\ UNCHANGED build

Activate ==
  /\ promoters # {} /\ worker' = waiting /\ waiting' = 0 /\ promoters' = {}
  /\ \E stay \in SUBSET MayStay : page' = Claims(stay)
  /\ UNCHANGED build

-----------------------------------------------------------------------------
(* The page                                                                *)

\* The worker is registered after the load of the page; one that waits already is the only one
\* the page will hear of.
Register(t) ==
  /\ page[t].watching = "no"
  /\ page' = [page EXCEPT ![t].watching = IF waiting = 0 THEN "yes" ELSE "once",
                          ![t].held = IF Controlled(t) THEN waiting ELSE 0]
  /\ promoters' = IF waiting # 0 /\ ~Controlled(t) THEN promoters \cup {t} ELSE promoters
  /\ UNCHANGED <<build, worker, waiting>>

\* reloadNow: work that is registered is warned about first.  A worker that has been replaced
\* hears nothing.
ReloadNow(t) ==
  /\ page[t].held # 0 /\ ~page[t].asked
  /\ IF Deferred(t) /\ ~page[t].confirming
     THEN page' = [page EXCEPT ![t].confirming = TRUE] /\ UNCHANGED promoters
     ELSE /\ page' = [page EXCEPT ![t].asked = TRUE]
          /\ promoters' = IF page[t].held = waiting THEN promoters \cup {t} ELSE promoters
  /\ UNCHANGED <<build, worker, waiting>>

KeepWorking(t) == /\ page[t].confirming /\ page' = [page EXCEPT ![t].confirming = FALSE]
                  /\ UNCHANGED <<build, worker, waiting, promoters>>

\* Three seconds after it asked, the page reloads whatever the worker did.
ReloadTimer(t) ==
  /\ page[t].asked /\ ~page[t].reloaded
  /\ \/ page' = With(t, Loaded(FALSE))
     \/ t \in MayStay /\ page' = [page EXCEPT ![t].reloaded = TRUE]
  /\ UNCHANGED <<build, worker, waiting, promoters>>

\* Panels begin and end what they register.
Begin(t, w) ==
  /\ w \in Risks \ page[t].work /\ page' = [page EXCEPT ![t].work = @ \cup {w}]
  /\ UNCHANGED <<build, worker, waiting, promoters>>

Finish(t, w) == /\ w \in page[t].work /\ page' = [page EXCEPT ![t].work = @ \ {w}]
                /\ UNCHANGED <<build, worker, waiting, promoters>>

\* Leaving a panel drops its drafts and what it registered; the write goes on.
LeavePanel(t) ==
  /\ page[t].work \cap Risks # {}
  /\ page' = [page EXCEPT ![t].work =
                IF "write" \in @ \/ "leftWrite" \in @ THEN {"leftWrite"} ELSE {}]
  /\ UNCHANGED <<build, worker, waiting, promoters>>

Next ==
  \/ Release \/ Install \/ Activate
  \/ \E t \in Pages, forced \in BOOLEAN : OpenPage(t, forced)
  \/ \E t \in DOMAIN page :
       \/ ClosePage(t) \/ Register(t) \/ ReloadNow(t) \/ KeepWorking(t) \/ ReloadTimer(t)
       \/ LeavePanel(t) \/ \E w \in Works : Begin(t, w) \/ Finish(t, w)

Spec == Init /\ [][Next]_shellVars

-----------------------------------------------------------------------------
(* A page that a worker controlled from its load never runs an older build *)
(* than the worker it is under, unless its operator chose to stay.         *)
ShellMatches ==
  \A t \in DOMAIN page : page[t].under = "load" /\ ~page[t].reloaded => page[t].runs >= worker
=============================================================================

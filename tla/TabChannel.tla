----------------------------- MODULE TabChannel -----------------------------
(***************************************************************************)
(* The channel between the tabs: lib/guard/tabSync.ts, as GuardProvider    *)
(* listens to it.  What travels says only that something changed, and the  *)
(* tab that hears it reads again.  A message may come twice, late, to the  *)
(* tab that sent it, or from another build; a tab is reloaded, with a new  *)
(* name, or closed.  SharedConsole has what the tabs do about a change.    *)
(***************************************************************************)
EXTENDS Naturals, Sequences, FiniteSets, Functions

CONSTANTS
  Pages,
  Remembered,    \* REGISTRY_REPLAY_TABS
  MaxSaid,       \* bound: announcements of all the tabs
  MaxFaults,     \* bound: repeated and foreign messages, reloads and closed pages
  Nil

VARIABLES
  means,       \* the transport the browser has, whether it echoes, whether its storage refuses
  tab,         \* a page's name, its coordinator, its revision counter, and what it last read
  world,       \* how often the saved registry and the chain have changed
  cell,        \* the value under TAB_SYNC_STORAGE_KEY
  wire,        \* messages on their way to a page
  lastRevision,   \* the replay filter's map, oldest entry first
  heard,       \* auxiliary: the notices a page has acted on
  said, faults

channelVars == <<means, tab, world, cell, wire, lastRevision, heard, said, faults>>

Types == {"REGISTRY_CHANGED", "FREEZE_STATE_CHANGED"}
Subject(type) == IF type = "REGISTRY_CHANGED" THEN "registry" ELSE "chain"
Transports == {"broadcast", "storage", "none"}

\* createTabSync: the channel, else the storage with its events, else nothing.
Transport(channel, storage, target) ==
  IF channel THEN "broadcast" ELSE IF storage /\ target THEN "storage" ELSE "none"

Reading == [registry : 0..MaxSaid, chain : 0..MaxSaid]
Origins == Pages \X (0..MaxFaults)

ChannelTypes ==
  /\ means.transport \in Transports
  /\ \A p \in Pages :
       /\ tab[p].origin \in Origins /\ tab[p].closed \in BOOLEAN /\ tab[p].revision \in 0..MaxSaid
       /\ tab[p].read \in Reading
       /\ Len(lastRevision[p]) <= Remembered
       /\ IsInjective([i \in DOMAIN lastRevision[p] |-> lastRevision[p][i].origin])
       /\ \A m \in Range(wire[p]) : m.event => m.type \in Types /\ m.origin \in Origins
  /\ world \in Reading /\ said \in 0..MaxSaid /\ faults \in 0..MaxFaults

Init ==
  /\ \E channel, storage, target, echoes, refuses \in BOOLEAN :
       /\ means = [transport |-> Transport(channel, storage, target), echoes |-> echoes,
                   refuses |-> refuses]
       /\ refuses \/ echoes => means.transport = "storage"
  /\ world = [registry |-> 0, chain |-> 0]
  /\ tab = [p \in Pages |-> [origin |-> <<p, 0>>, closed |-> FALSE, revision |-> 0, read |-> world]]
  /\ cell = Nil
  /\ wire = [p \in Pages |-> <<>>] /\ lastRevision = wire /\ heard = wire
  /\ said = 0 /\ faults = 0

-----------------------------------------------------------------------------
(* Announcing                                                              *)

\* broadcast: the event, with the version, kind and revision a registry change carries.
Event(type, origin, revision) ==
  [event |-> TRUE, type |-> type, origin |-> origin, sound |-> TRUE, revision |-> revision]

\* Mutant: the event by itself.
EnvelopeBare(e, n) == [nonce |-> 0, event |-> e]
\* The nonce makes every value new: an equal value would fire no storage event.
Envelope(e, n) == [nonce |-> n, event |-> e]

Reaches(p, e) ==
  [q \in Pages |-> IF (q # p \/ means.echoes) /\ ~tab[q].closed THEN Append(wire[q], e) ELSE wire[q]]

\* send; a refused write is swallowed.
Send(p, e) ==
  CASE means.transport = "none" -> UNCHANGED <<cell, wire>>
    [] means.transport = "broadcast" -> wire' = Reaches(p, e) /\ UNCHANGED cell
    [] means.transport = "storage" ->
         LET value == Envelope(e, said + 1)
         IN  IF means.refuses THEN UNCHANGED <<cell, wire>>
             ELSE cell' = value /\ wire' = IF value = cell THEN wire ELSE Reaches(p, e)

\* A change is made where every tab reads it, and then announced.
Announce(p, type) ==
  /\ ~tab[p].closed /\ said < MaxSaid /\ said' = said + 1
  /\ world' = [world EXCEPT ![Subject(type)] = @ + 1]
  /\ tab' = [tab EXCEPT ![p].revision = IF type = "REGISTRY_CHANGED" THEN @ + 1 ELSE @,
                        ![p].read[Subject(type)] = world'[Subject(type)]]
  /\ Send(p, Event(type, tab[p].origin,
                   IF type = "REGISTRY_CHANGED" THEN tab'[p].revision ELSE 0))
  /\ UNCHANGED <<means, lastRevision, heard, faults>>

-----------------------------------------------------------------------------
(* Hearing                                                                 *)

\* isTabSyncEvent, and the tab's own echo.
Passes(p, m) == m.event /\ m.origin # tab[p].origin

Seen(entries, origin) ==
  LET of == {e \in Range(entries) : e.origin = origin}
  IN  IF of = {} THEN 0 ELSE (CHOOSE e \in of : TRUE).revision

\* parseRegistryChange, then the highest revision remembered of the tab that speaks.
Accepts(entries, m) == m.sound /\ m.revision > Seen(entries, m.origin)

\* Mutant: a tab that is known keeps its place.
RememberInPlace(entries, m) ==
  LET at == {i \in DOMAIN entries : entries[i].origin = m.origin}
      kept == [i \in DOMAIN entries |->
                 IF i \in at THEN [entries[i] EXCEPT !.revision = m.revision] ELSE entries[i]]
      all == IF at # {} THEN kept
             ELSE Append(entries, [origin |-> m.origin, revision |-> m.revision])
  IN  IF Len(all) > Remembered THEN Tail(all) ELSE all
Forget(entries, origin) ==
  LET at == {i \in DOMAIN entries : entries[i].origin = origin}
      here == CHOOSE i \in at : TRUE
  IN  IF at = {} THEN entries
      ELSE SubSeq(entries, 1, here - 1) \o SubSeq(entries, here + 1, Len(entries))
\* The tab that was heard moves to the end, and the one heard longest ago is forgotten.
Remember(entries, m) ==
  LET all == Append(Forget(entries, m.origin), [origin |-> m.origin, revision |-> m.revision])
  IN  IF Len(all) > Remembered THEN Tail(all) ELSE all

\* The chain is read again at once, and so is the saved registry; nothing is taken from m.
Deliver(p) ==
  /\ wire[p] # <<>> /\ wire' = [wire EXCEPT ![p] = Tail(@)]
  /\ LET m == Head(wire[p])
         acts == Passes(p, m) /\ (m.type = "REGISTRY_CHANGED" => Accepts(lastRevision[p], m))
         notes == acts /\ m.type = "REGISTRY_CHANGED"
     IN  /\ tab' = IF acts THEN [tab EXCEPT ![p].read[Subject(m.type)] = world[Subject(m.type)]]
                   ELSE tab
         /\ lastRevision' = IF notes THEN [lastRevision EXCEPT ![p] = Remember(@, m)]
                            ELSE lastRevision
         /\ heard' = IF notes THEN [heard EXCEPT ![p] = Append(@, m)] ELSE heard
  /\ UNCHANGED <<means, world, cell, said, faults>>

-----------------------------------------------------------------------------
(* What goes wrong                                                         *)

Fault == faults < MaxFaults /\ faults' = faults + 1

\* A message comes twice, the second time after those that are on their way.
Repeat(p) ==
  /\ Fault /\ wire[p] # <<>> /\ wire' = [wire EXCEPT ![p] = Append(@, Head(@))]
  /\ UNCHANGED <<means, tab, world, cell, lastRevision, heard, said>>

\* What another build, or nobody, has written.
Foreign ==
  {[event |-> FALSE],
   [event |-> TRUE, type |-> "REGISTRY_CHANGED", origin |-> <<CHOOSE p \in Pages : TRUE, MaxFaults>>,
    sound |-> FALSE, revision |-> MaxSaid]}
Stray(p, m) ==
  /\ Fault /\ ~tab[p].closed /\ wire' = [wire EXCEPT ![p] = Append(@, m)]
  /\ UNCHANGED <<means, tab, world, cell, lastRevision, heard, said>>

\* The page that comes back reads what is there, and knows nobody.
Reload(p) ==
  /\ Fault
  /\ tab' = [tab EXCEPT ![p] = [origin |-> <<p, faults'>>, closed |-> FALSE, revision |-> 0,
                                read |-> world]]
  /\ wire' = [wire EXCEPT ![p] = <<>>] /\ lastRevision' = [lastRevision EXCEPT ![p] = <<>>]
  /\ heard' = [heard EXCEPT ![p] = <<>>]
  /\ UNCHANGED <<means, world, cell, said>>

\* close: the listeners go, and nothing is sent or heard any more.
Close(p) ==
  /\ Fault /\ ~tab[p].closed /\ tab' = [tab EXCEPT ![p].closed = TRUE]
  /\ wire' = [wire EXCEPT ![p] = <<>>]
  /\ UNCHANGED <<means, world, cell, lastRevision, heard, said>>

Next ==
  \/ \E p \in Pages :
       \/ \E type \in Types : Announce(p, type)
       \/ Deliver(p) \/ Repeat(p) \/ Reload(p) \/ Close(p)
       \/ \E m \in Foreign : Stray(p, m)

-----------------------------------------------------------------------------
(* "Accepts each tab's announcements once and in order": a notice is acted *)
(* on again, or after a later one of the same tab, only when as many other *)
(* tabs as are remembered have been heard in between; and a tab never acts *)
(* on its own.                                                             *)
HeardInTurn ==
  \A p \in Pages : \A j \in DOMAIN heard[p] :
    /\ heard[p][j].origin # tab[p].origin
    /\ \A i \in 1..j - 1 :
         heard[p][i].origin = heard[p][j].origin =>
           \/ heard[p][i].revision < heard[p][j].revision
           \/ Cardinality({heard[p][k].origin : k \in i + 1..j - 1}
                            \ {heard[p][i].origin}) >= Remembered

(* Where tabs can reach each other, a tab that has not read the latest     *)
(* change has a message on its way that will make it read, whatever was    *)
(* repeated, forgotten or closed: "the second tab would miss it".          *)
NobodyLeftBehind ==
  means.transport # "none" /\ ~(means.transport = "storage" /\ means.refuses) =>
    \A p \in Pages, type \in Types :
      \/ tab[p].closed \/ tab[p].read[Subject(type)] = world[Subject(type)]
      \/ \E m \in Range(wire[p]) :
           /\ Passes(p, m) /\ m.type = type
           /\ type = "REGISTRY_CHANGED" => Accepts(lastRevision[p], m)
=============================================================================

--------------------------- MODULE DashboardLayout ---------------------------
(***************************************************************************)
(* The arrangement of the console's panels: the order and folding of every *)
(* page, the arrangement kept in the browser, and the named ones.  A page  *)
(* reads the browser's copy once, when it is mounted, and writes its own   *)
(* whole arrangement over it at every change; the named arrangements are   *)
(* read again before each change of them.  The browser may refuse a write. *)
(***************************************************************************)
EXTENDS Naturals, Sequences, SequencesExt

CONSTANTS
  GridPages,    \* pages showing the grid
  DefaultOrder, \* the panels in their default order (a sequence)
  RawLayouts,   \* what the browser may hold at first: Nil, or a record
                \* [version, rows] whose rows are [id, collapsed]
  LayoutNames,  \* the names typed
  Folded,       \* name -> the name in lower case
  MaxNamed,     \* MAX_NAMED_LAYOUTS
  MaxChanges,   \* bound on the changes of an arrangement
  Nil

VARIABLES
  grid,         \* page -> its arrangement, or Nil before it is read
  active,       \* page -> the name of the arrangement loaded last, or Nil
  known,        \* page -> the named arrangements in its list
  resetting,    \* pages with the question of a reset open
  warned,       \* pages that say the browser refused their arrangement
  stored,       \* the arrangement in the browser
  named,        \* the named arrangements in the browser
  changes       \* changes made so far

gridVars == <<grid, active, known, resetting, warned, stored, named, changes>>

PanelIds == ToSet(DefaultOrder)
LayoutVersion == 1

Row(id, folded) == [id |-> id, collapsed |-> folded]
DefaultLayout == [i \in DOMAIN DefaultOrder |-> Row(DefaultOrder[i], FALSE)]

\* The rows that name a panel, the first of each.
Placed(rows) ==
  LET with(list, row) ==
        IF row.id \in PanelIds /\ \A k \in DOMAIN list : list[k].id # row.id
        THEN Append(list, row) ELSE list
      order[n \in 0..Len(rows)] == IF n = 0 THEN <<>> ELSE with(order[n - 1], rows[n])
  IN  order[Len(rows)]

\* Mutant: the panels a stored arrangement does not name are left out.
NamesOnly(rows) == Placed(rows)
\* Every panel once: the rows that name one, and then the panels nobody named.
NormalizeLayout(rows) == Placed(rows \o DefaultLayout)

\* What the browser's record says.  One of a newer version, or with a row that is
\* no panel, is not read; a list of before the versions is normalized.
Decoded(raw) ==
  IF raw = Nil THEN DefaultLayout
  ELSE IF \/ raw.version > LayoutVersion
          \/ raw.version = 0 /\ raw.rows = <<>>
          \/ raw.version = LayoutVersion /\ \E i \in DOMAIN raw.rows : raw.rows[i].id \notin PanelIds
       THEN DefaultLayout
       ELSE NormalizeLayout(raw.rows)

Encoded(layout) == [version |-> LayoutVersion, rows |-> NormalizeLayout(layout)]

\* A panel taken out of its place and put in at another.
Reordered(layout, from, to) == InsertAt(RemoveAt(layout, from), to, layout[from])

\* The place of a name among the arrangements, whatever its case; 0 for none.
PlaceOf(list, name) ==
  LET same == {i \in DOMAIN list : Folded[list[i].name] = Folded[name]}
  IN  IF same = {} THEN 0 ELSE CHOOSE i \in same : \A j \in same : i <= j

\* What saving an arrangement under a name makes of the list.
Saved(list, name, layout) ==
  LET at == PlaceOf(list, name)
  IN  IF at > 0 THEN [list EXCEPT ![at].layout = NormalizeLayout(layout)]
      ELSE Append(list, [name |-> name, layout |-> NormalizeLayout(layout)])

Layouts ==
  {rows \in [DOMAIN DefaultOrder -> [id : PanelIds, collapsed : BOOLEAN]] :
     {rows[i].id : i \in DOMAIN rows} = PanelIds}

GridTypes ==
  /\ grid \in [GridPages -> Layouts \cup {Nil}]
  /\ active \in [GridPages -> LayoutNames \cup {Nil}]
  /\ \A p \in GridPages : known[p] \in Seq([name : LayoutNames, layout : Layouts])
  /\ resetting \subseteq GridPages /\ warned \subseteq GridPages
  /\ named \in Seq([name : LayoutNames, layout : Layouts])
  /\ changes \in 0..MaxChanges

Init ==
  /\ grid = [p \in GridPages |-> Nil]
  /\ active = [p \in GridPages |-> Nil]
  /\ known = [p \in GridPages |-> <<>>]
  /\ resetting = {} /\ warned = {}
  /\ stored \in RawLayouts
  /\ named = <<>>
  /\ changes = 0

-----------------------------------------------------------------------------
Counted == changes < MaxChanges /\ changes' = changes + 1

\* The page reads the browser's copies; a record of an older version is written
\* back in the present one.
Mount(p) ==
  /\ grid[p] = Nil
  /\ grid' = [grid EXCEPT ![p] = Decoded(stored)]
  /\ known' = [known EXCEPT ![p] = named]
  /\ \/ UNCHANGED stored
     \/ /\ stored # Nil
        /\ stored \in {r \in {stored} : r.version = 0 /\ r.rows # <<>>}
        /\ stored' = Encoded(stored.rows)
  /\ UNCHANGED <<active, resetting, warned, named, changes>>

\* An arrangement is taken on, and written over the browser's, which may refuse.
Persist(p, layout) ==
  /\ grid' = [grid EXCEPT ![p] = layout]
  /\ \/ stored' = Encoded(layout) /\ warned' = warned \ {p}
     \/ UNCHANGED stored /\ warned' = warned \cup {p}

\* A panel is dragged, or moved by its buttons, to another place.
Move(p, from, to) ==
  /\ grid[p] # Nil /\ from # to
  /\ Counted
  /\ Persist(p, Reordered(grid[p], from, to))
  /\ UNCHANGED <<active, known, resetting, named>>

Collapse(p, i) ==
  /\ grid[p] # Nil
  /\ Counted
  /\ Persist(p, [grid[p] EXCEPT ![i].collapsed = ~@])
  /\ UNCHANGED <<active, known, resetting, named>>

\* Written, or refused without a word.
Keep(list) == named' \in {list, named}

\* The arrangement is saved under a name: refused when the browser holds as many
\* as it may, whether the name is among them or not.
SaveLayout(p, name) ==
  /\ grid[p] # Nil
  /\ Len(known[p]) < MaxNamed /\ Len(named) < MaxNamed
  /\ Counted
  /\ Keep(Saved(named, name, grid[p]))
  /\ known' = [known EXCEPT ![p] = named']
  /\ active' = [active EXCEPT ![p] = LET at == PlaceOf(named, name)
                                     IN  IF at > 0 THEN named[at].name ELSE name]
  /\ UNCHANGED <<grid, resetting, warned, stored>>

UpdateLayout(p) ==
  /\ grid[p] # Nil /\ active[p] # Nil
  /\ Len(named) < MaxNamed
  /\ Counted
  /\ Keep(Saved(named, active[p], grid[p]))
  /\ known' = [known EXCEPT ![p] = named']
  /\ UNCHANGED <<grid, active, resetting, warned, stored>>

\* An arrangement is chosen from the page's list, which may be an old one.
SelectLayout(p, i) ==
  /\ grid[p] # Nil
  /\ Counted
  /\ Persist(p, known[p][i].layout)
  /\ active' = [active EXCEPT ![p] = known[p][i].name]
  /\ UNCHANGED <<known, resetting, named>>

RenameLayout(p, name) ==
  /\ grid[p] # Nil /\ active[p] # Nil
  /\ PlaceOf(named, active[p]) > 0
  /\ \A i \in DOMAIN named : i # PlaceOf(named, active[p]) => Folded[named[i].name] # Folded[name]
  /\ Counted
  /\ Keep([named EXCEPT ![PlaceOf(named, active[p])].name = name])
  /\ known' = [known EXCEPT ![p] = named']
  /\ active' = [active EXCEPT ![p] = name]
  /\ UNCHANGED <<grid, resetting, warned, stored>>

DeleteLayout(p) ==
  /\ grid[p] # Nil /\ active[p] # Nil
  /\ PlaceOf(named, active[p]) > 0
  /\ Keep(RemoveAt(named, PlaceOf(named, active[p])))
  /\ known' = [known EXCEPT ![p] = named']
  /\ active' = [active EXCEPT ![p] = Nil]
  /\ UNCHANGED <<grid, resetting, warned, stored, changes>>

AskReset(p) ==
  /\ grid[p] # Nil /\ p \notin resetting
  /\ resetting' = resetting \cup {p}
  /\ UNCHANGED <<grid, active, known, warned, stored, named, changes>>

CancelReset(p) ==
  /\ p \in resetting
  /\ resetting' = resetting \ {p}
  /\ UNCHANGED <<grid, active, known, warned, stored, named, changes>>

\* The preview says what would move or unfold; with nothing to change it cannot
\* be confirmed.
ConfirmReset(p) ==
  /\ p \in resetting /\ grid[p] # DefaultLayout
  /\ Persist(p, DefaultLayout)
  /\ active' = [active EXCEPT ![p] = Nil]
  /\ resetting' = resetting \ {p}
  /\ UNCHANGED <<known, named, changes>>

\* The page is loaded anew.
Reload(p) ==
  /\ grid[p] # Nil
  /\ grid' = [grid EXCEPT ![p] = Nil]
  /\ active' = [active EXCEPT ![p] = Nil]
  /\ known' = [known EXCEPT ![p] = <<>>]
  /\ resetting' = resetting \ {p} /\ warned' = warned \ {p}
  /\ UNCHANGED <<stored, named, changes>>

Next ==
  \E p \in GridPages :
    \/ Mount(p)
    \/ \E from, to \in DOMAIN DefaultOrder : Move(p, from, to)
    \/ \E i \in DOMAIN DefaultOrder : Collapse(p, i)
    \/ \E name \in LayoutNames : SaveLayout(p, name) \/ RenameLayout(p, name)
    \/ UpdateLayout(p) \/ DeleteLayout(p)
    \/ \E i \in DOMAIN known[p] : SelectLayout(p, i)
    \/ AskReset(p) \/ CancelReset(p) \/ ConfirmReset(p)
    \/ Reload(p)

Spec == Init /\ [][Next]_gridVars

-----------------------------------------------------------------------------
Whole(layout) == Len(layout) = Len(DefaultOrder)
                 /\ {layout[i].id : i \in DOMAIN layout} = PanelIds

\* Whatever an older build, another page or a refused write left in the browser,
\* every page shows every panel exactly once, and so does every arrangement that
\* can be loaded ("instead of silently dropping a panel the operator relies on").
NoPanelLost ==
  /\ \A p \in GridPages : grid[p] # Nil => Whole(grid[p])
  /\ \A i \in DOMAIN named : Whole(named[i].layout)

\* Two pages never leave two arrangements under one name, or more than the limit.
NamesApart ==
  /\ Len(named) <= MaxNamed
  /\ \A i, j \in DOMAIN named : i # j => Folded[named[i].name] # Folded[named[j].name]
=============================================================================

----------------------------- MODULE AddressBook -----------------------------
(***************************************************************************)
(* The address book of one browser, edited in the dialogs of its tabs: a   *)
(* save that stops at a conflict until the operator resolves it, deletes,  *)
(* and imports previewed against the book and confirmed later.  A record   *)
(* of a file that is not a valid contact is skipped, and left out here.    *)
(***************************************************************************)
EXTENDS Naturals, Sequences, Functions

CONSTANTS
  DialogTabs, \* tabs whose dialog is followed
  Addresses,
  Names,      \* what an operator types as an alias
  Capacity,   \* ADDRESS_BOOK_LIMIT
  Files,      \* files to import: sequences of contacts
  Nil         \* no conflict, no preview

VARIABLES
  format,     \* the stored record: none, legacy, current or of a newer version
  book,       \* the contacts in it, in order
  dialog      \* per tab: the conflict and the preview on screen; the list is what is stored

bookVars == <<format, book, dialog>>

\* An alias is a name and the number of its suffix, 1 for none.
Alias == Names \X (1..Capacity + 2)
Contact == [address : Addresses, alias : Alias]
Conflict == [address : Addresses, alias : Alias, kind : {"duplicate-address", "alias-conflict"}]
Closed == [open |-> FALSE, conflict |-> Nil, preview |-> Nil]

BookTypes ==
  /\ format \in {"none", "legacy", "current", "newer"}
  /\ book \in Seq(Contact) /\ Len(book) <= Capacity
  /\ \A t \in DialogTabs :
       /\ dialog[t].conflict \in Conflict \cup {Nil}
       /\ ~dialog[t].open => dialog[t] = Closed

Typed(name) == <<name, 1>>
AtMost(rows) == SubSeq(rows, 1, IF Len(rows) < Capacity THEN Len(rows) ELSE Capacity)
Has(rows, a) == \E i \in DOMAIN rows : rows[i].address = a
Aliased(rows, l) == \E i \in DOMAIN rows : rows[i].alias = l

\* filter()
Filtered(rows, keep) ==
  LET left[i \in 0..Len(rows)] ==
        IF i = 0 THEN <<>>
        ELSE IF rows[i] \in keep THEN Append(left[i - 1], rows[i]) ELSE left[i - 1]
  IN left[Len(rows)]

Without(rows, a) == Filtered(rows, {c \in Range(rows) : c.address # a})
New(a, l) == [address |-> a, alias |-> l]

Init ==
  /\ format \in {"none", "legacy", "current", "newer"}
  /\ book \in {<<>>} \cup {<<New(a, Typed(n))>> : a \in Addresses, n \in Names}
  /\ format = "none" <=> book = <<>>
  /\ dialog = [t \in DialogTabs |-> Closed]

\* A record of a newer version reads as an empty book.
Load == IF format = "newer" THEN <<>> ELSE book

\* The book is written back whole; what comes of the write is not looked at.
Persist(t, rows, d) ==
  /\ \/ format' = "current" /\ book' = rows
     \/ UNCHANGED <<format, book>>
  /\ dialog' = [dialog EXCEPT ![t] = d]

-----------------------------------------------------------------------------
\* Loading a legacy record writes it back as a current one.
OpenBook(t) ==
  /\ ~dialog[t].open
  /\ format' \in IF format = "legacy" THEN {"legacy", "current"} ELSE {format}
  /\ dialog' = [dialog EXCEPT ![t] = [Closed EXCEPT !.open = TRUE]]
  /\ UNCHANGED book

CloseBook(t) ==
  /\ dialog[t].open
  /\ dialog' = [dialog EXCEPT ![t] = Closed] /\ UNCHANGED <<format, book>>

\* suggestedAlias: the first suffix nobody holds.
Suggested(l) ==
  <<l[1], CHOOSE n \in 2..Capacity + 2 :
            /\ ~Aliased(Load, <<l[1], n>>)
            /\ \A m \in 2..n - 1 : Aliased(Load, <<l[1], m>>)>>

Relabel(a, l) == [i \in DOMAIN Load |-> IF Load[i].address = a THEN New(a, l) ELSE Load[i]]
Unconflicted(t) == [dialog[t] EXCEPT !.conflict = Nil]
Holders(l) == {i \in DOMAIN Load : Load[i].alias = l}
Stop(t, a, l, kind) ==
  /\ dialog' = [dialog EXCEPT ![t].conflict = [address |-> a, alias |-> l, kind |-> kind]]
  /\ UNCHANGED <<format, book>>

\* The address is in the book: the same alias is no change, another needs "update".
SaveKnown(t, a, l, resolution) ==
  /\ Has(Load, a)
  /\ IF New(a, l) \in {Load[i] : i \in DOMAIN Load}
     THEN dialog' = [dialog EXCEPT ![t] = Unconflicted(t)] /\ UNCHANGED <<format, book>>
     ELSE IF resolution = "update" THEN Persist(t, Relabel(a, l), Unconflicted(t))
     ELSE Stop(t, a, l, "duplicate-address")

\* A full book takes no new address; the first holder loses the alias or keeps it.
SaveNew(t, a, l, resolution) ==
  /\ ~Has(Load, a)
  /\ IF Holders(l) # {} /\ resolution = Nil THEN Stop(t, a, l, "alias-conflict")
     ELSE /\ Len(Load) < Capacity
          /\ IF Holders(l) = {} THEN Persist(t, <<New(a, l)>> \o Load, Unconflicted(t))
             ELSE IF resolution = "rename"
                  THEN Persist(t, <<New(a, Suggested(l))>> \o Load, Unconflicted(t))
             ELSE LET holder == CHOOSE i \in Holders(l) : \A j \in Holders(l) : i <= j
                      others == Without(Load, Load[holder].address)
                  IN Persist(t, <<New(a, l)>> \o others, Unconflicted(t))

SaveContact(t, a, l, resolution) ==
  SaveKnown(t, a, l, resolution) \/ SaveNew(t, a, l, resolution)

\* The button is disabled while a conflict is shown.
Save(t, a, n) == dialog[t].open /\ dialog[t].conflict = Nil /\ SaveContact(t, a, Typed(n), Nil)

\* The resolution is applied to the book as it is now.
ResolveConflict(t, resolution) ==
  /\ dialog[t].conflict # Nil
  /\ resolution = "rename" => dialog[t].conflict.kind = "alias-conflict"
  /\ SaveContact(t, dialog[t].conflict.address, dialog[t].conflict.alias, resolution)

CancelConflict(t) ==
  /\ dialog[t].conflict # Nil
  /\ dialog' = [dialog EXCEPT ![t] = Unconflicted(t)] /\ UNCHANGED <<format, book>>

\* An address another tab has deleted is left alone.
DeleteContact(t, a) ==
  /\ dialog[t].open
  /\ LET d == IF dialog[t].conflict # Nil /\ dialog[t].conflict.address = a
              THEN Unconflicted(t) ELSE dialog[t]
     IN IF Has(Load, a) THEN Persist(t, Without(Load, a), d)
        ELSE dialog' = [dialog EXCEPT ![t] = d] /\ UNCHANGED <<format, book>>

\* Records a file may write: an address or an alias seen before in it is skipped.
Adds(rows, c) ==
  IF Has(rows, c.address) \/ Aliased(rows, c.alias) THEN rows ELSE Append(rows, c)
Replaceable(file) ==
  LET added[i \in 0..Len(file)] == IF i = 0 THEN <<>> ELSE Adds(added[i - 1], file[i])
  IN added[Len(file)]

\* A merge skips what the book has already, by address or by alias.
Mergeable(file, current) ==
  Filtered(Replaceable(file),
           {c \in Range(file) : ~Has(current, c.address) /\ ~Aliased(current, c.alias)})

PreviewImport(t, file) ==
  /\ dialog[t].open
  /\ dialog' = [dialog EXCEPT ![t].preview =
       [base |-> Load,
        merge |-> IF Mergeable(file, Load) = <<>> THEN Nil ELSE AtMost(Load \o Mergeable(file, Load)),
        replace |-> AtMost(Replaceable(file))]]
  /\ UNCHANGED <<format, book>>

CancelImport(t) ==
  /\ dialog[t].preview # Nil
  /\ dialog' = [dialog EXCEPT ![t].preview = Nil] /\ UNCHANGED <<format, book>>

\* What was previewed is written, whatever the book has become.
ConfirmImport(t, mode) ==
  /\ dialog[t].preview # Nil /\ dialog[t].preview[mode] # Nil
  /\ Persist(t, dialog[t].preview[mode], [Unconflicted(t) EXCEPT !.preview = Nil])

\* The storage controls remove the key, and no dialog hears of it.
ClearCategory == format' = "none" /\ book' = <<>> /\ UNCHANGED dialog

\* A tab whose dialog is not followed here adds a contact or deletes one.
Elsewhere ==
  /\ \/ \E a \in Addresses, n \in Names :
          /\ ~Has(Load, a) /\ Holders(Typed(n)) = {} /\ Len(Load) < Capacity
          /\ book' = <<New(a, Typed(n))>> \o Load
     \/ \E a \in Addresses : Has(Load, a) /\ book' = Without(Load, a)
  /\ format' = "current" /\ UNCHANGED dialog

Next ==
  \/ \E t \in DialogTabs : OpenBook(t) \/ CloseBook(t) \/ CancelConflict(t) \/ CancelImport(t)
  \/ \E t \in DialogTabs, a \in Addresses : DeleteContact(t, a) \/ \E n \in Names : Save(t, a, n)
  \/ \E t \in DialogTabs, r \in {"rename", "update"} : ResolveConflict(t, r)
  \/ \E t \in DialogTabs, file \in Files : PreviewImport(t, file)
  \/ \E t \in DialogTabs, m \in {"merge", "replace"} : ConfirmImport(t, m)
  \/ ClearCategory \/ Elsewhere

Spec == Init /\ [][Next]_bookVars

-----------------------------------------------------------------------------
\* The operator has said that contacts may go.
Agreed(t) ==
  \/ \E a \in Addresses : DeleteContact(t, a)
  \/ ConfirmImport(t, "replace")
  \/ ResolveConflict(t, "update")

\* The merge on screen was worked out for another book than the one it is written to.
StaleMerge(t) ==
  /\ dialog[t].preview # Nil /\ dialog[t].preview.base # Load
  /\ ConfirmImport(t, "merge")

(* A contact goes or takes another alias only by a decision that says so:  *)
(* a delete, a replace, a conflict resolved with "update", the storage     *)
(* controls; a merge keeps every contact of the book it was previewed on.  *)
ContactsOutlive ==
  [][\A i \in DOMAIN book :
       \/ \E j \in DOMAIN book' : book'[j] = book[i]
       \/ format = "newer" \/ ClearCategory \/ Elsewhere
       \/ \E t \in DialogTabs : Agreed(t) \/ StaleMerge(t)]_bookVars

(* No address is in the book twice, however saves and imports interleave.  *)
OneEntryEach == \A i, j \in DOMAIN book : book[i].address = book[j].address => i = j
=============================================================================

------------------------------ MODULE AssetCaps ------------------------------
(***************************************************************************)
(* The caps per asset of a policy draft: a file of them read, reviewed and *)
(* merged (assetCapsCsv.ts), and the names and decimals shown beside each  *)
(* row (tokenMetadata.ts), as PolicyForm.tsx uses both.  A file is a       *)
(* sequence of rows, of which PolicyDrafts knows only that it was read.    *)
(***************************************************************************)
EXTENDS Naturals, Sequences, Functions

CONSTANTS
  Contracts,      \* addresses of assets
  Files,          \* what the files hold: rows of a shape, an address, a cap and a symbol
  Tables,         \* the rows of the whole drafts that are imported
  TooMuch,        \* a cap beyond 2^127 - 1
  MaxSteps,       \* bound: edits and files
  MaxReads,       \* bound: reads of metadata
  MaxNow, TTL,    \* bound of the clock; TOKEN_METADATA_TTL_MS
  Nil

VARIABLES
  caps,         \* the rows of the draft, in order
  picked,       \* the files being read, each with the rows it was picked for
  preview,      \* the preview under review, and what it was made from
  timer,        \* the addresses the pending timer will read, or Nil
  inFlight,     \* metadataInFlight
  labels,       \* assetMetadata of the form
  cache,        \* the module's cache of every read
  pending,      \* reads of metadata on their way
  now, steps, begun

capVars == <<caps, picked, preview, timer, inFlight, labels, cache, pending, now, steps, begun>>

Amounts == {0, 1, 2, TooMuch}
Row(asset, cap, symbol) == [asset |-> asset, cap |-> cap, symbol |-> symbol]
Assets(rows) == {rows[i].asset : i \in DOMAIN rows} \ {Nil}

CapTypes ==
  /\ \A i \in DOMAIN caps : caps[i].asset \in Contracts \cup {Nil} /\ caps[i].cap \in Amounts
  /\ \A f \in picked : f.file \in Files
  /\ preview # Nil => preview.file \in Files /\ Len(preview.result.accepted) <= Len(preview.file)
  /\ timer = Nil \/ timer \subseteq Contracts
  /\ inFlight \subseteq Contracts
  /\ \A a \in Contracts : /\ labels[a] # Nil => labels[a].at \in 0..now
                          /\ cache[a] # Nil => cache[a].at \in 0..now
  /\ \A r \in pending : r.asset \in Contracts /\ r.at \in 0..now
  /\ now \in 0..MaxNow /\ steps \in 0..MaxSteps /\ begun \in 0..MaxReads

-----------------------------------------------------------------------------
(* The preview of a file                                                   *)

\* Mutant: a symbol is not asked for.
SoundUnnamed(row) == row.shaped /\ row.asset # Nil /\ row.cap > 0
\* A row of three cells with an address, a positive cap and a symbol.
Sound(row) == row.shaped /\ row.asset # Nil /\ row.cap > 0 /\ row.symbol # ""

\* The first of the places, or 0.
Earliest(places) == IF places = {} THEN 0 ELSE CHOOSE i \in places : \A j \in places : i <= j
Position(rows, asset) == Earliest({i \in DOMAIN rows : rows[i].asset = asset})

Nothing(current) == [accepted |-> <<>>, rejected |-> <<>>, duplicates |-> <<>>,
                     merged |-> current, changes |-> <<>>]

Changed(changes, asset, kind) == [a \in DOMAIN changes \cup {asset} |->
                                    IF a = asset THEN kind ELSE changes[a]]

\* A row that is sound claims its address; a later one of the same address is a duplicate.
Read(p, row, n) ==
  LET kept == Row(row.asset, row.cap, row.symbol)
      first == Earliest({k \in DOMAIN p.accepted : p.accepted[k].row.asset = row.asset})
      at == Position(p.merged, row.asset)
      change == IF at = 0 THEN "added" ELSE IF p.merged[at] = kept THEN "unchanged" ELSE "updated"
  IN  IF ~Sound(row) THEN [p EXCEPT !.rejected = Append(@, n)]
      ELSE IF first > 0
      THEN [p EXCEPT !.rejected = Append(@, n),
                     !.duplicates = Append(@, [row |-> n, first |-> p.accepted[first].no])]
      ELSE [p EXCEPT !.accepted = Append(@, [no |-> n, row |-> kept, change |-> change,
                                             before |-> IF at = 0 THEN Nil ELSE p.merged[at]]),
                     !.merged = IF at = 0 THEN Append(@, kept) ELSE [@ EXCEPT ![at] = kept],
                     !.changes = IF change = "unchanged" THEN @
                                 ELSE Changed(@, row.asset, change)]

PreviewAssetCapImport(current, file) ==
  LET read[n \in 0..Len(file)] ==
        IF n = 0 THEN Nothing(current) ELSE Read(read[n - 1], file[n], n)
  IN  read[Len(file)]

\* parseAssetCapsCsv: the rows when every one is in order, which for this reader excludes a cap
\* that is too much, and Nil otherwise.
Parsed(file) ==
  IF \A i \in DOMAIN file : /\ Sound(file[i]) /\ file[i].cap # TooMuch
                            /\ \A j \in 1..i - 1 : file[j].asset # file[i].asset
  THEN [i \in DOMAIN file |-> Row(file[i].asset, file[i].cap, file[i].symbol)] ELSE Nil

\* mergeAssetCapOverrides
Merged(current, rows) ==
  LET with(m, row) ==
        LET at == Position(m.rows, row.asset)
        IN  IF at = 0 THEN [rows |-> Append(m.rows, row),
                            changes |-> Changed(m.changes, row.asset, "added")]
            ELSE [rows |-> [m.rows EXCEPT ![at] = row],
                  changes |-> IF m.rows[at] = row THEN m.changes
                              ELSE Changed(m.changes, row.asset, "updated")]
      all[n \in 0..Len(rows)] ==
        IF n = 0 THEN [rows |-> current, changes |-> <<>>] ELSE with(all[n - 1], rows[n])
  IN  all[Len(rows)]

\* validateAssetCapOverrides: what the review of the draft still objects to.
Problems(rows) ==
  {i \in DOMAIN rows : \/ rows[i].asset = Nil \/ rows[i].cap \in {0, TooMuch} \/ rows[i].symbol = ""
                       \/ \E j \in 1..i - 1 : rows[j].asset = rows[i].asset}

-----------------------------------------------------------------------------
(* What is shown beside a row                                              *)

\* Mutant: what is new is read, and not what the pending timer was for.
AwaitsNew(rows) ==
  IF Assets(rows) = Assets(caps) THEN UNCHANGED timer
  ELSE LET missing == {a \in Assets(rows) \ Assets(caps) :
                         labels[a] = Nil /\ a \notin inFlight}
       IN  timer' = IF missing = {} THEN Nil ELSE missing
\* The effect of a change of addresses: the timer that was pending goes, and one is set for
\* what is neither known nor on its way.
Awaits(rows) ==
  IF Assets(rows) = Assets(caps) THEN UNCHANGED timer
  ELSE LET missing == {a \in Assets(rows) : labels[a] = Nil /\ a \notin inFlight}
       IN  timer' = IF missing = {} THEN Nil ELSE missing

\* A record that is young enough is not read again, unless the operator asks.
Fresh(record) == record # Nil /\ now - record.at < TTL

\* fetchTokenMetadata: a record carries the time it was asked for.
Fetch(assets, forced) ==
  /\ pending' = pending \cup {[asset |-> a, at |-> IF ~forced /\ Fresh(cache[a]) THEN cache[a].at
                                                   ELSE now,
                               cached |-> IF ~forced /\ Fresh(cache[a]) THEN cache[a].source
                                          ELSE Nil,
                               forced |-> forced, no |-> begun, here |-> TRUE] : a \in assets}
  /\ begun < MaxReads /\ begun' = begun + 1

TimerFires ==
  /\ timer # Nil /\ timer' = Nil /\ inFlight' = inFlight \cup timer
  /\ Fetch(timer, FALSE)
  /\ UNCHANGED <<caps, picked, preview, labels, cache, now, steps>>

\* refreshAssetMetadata; the button is off while it reads.
Refresh(a) ==
  /\ a \in Assets(caps) /\ ~\E r \in pending : r.asset = a /\ r.forced /\ r.here
  /\ Fetch({a}, TRUE)
  /\ UNCHANGED <<caps, picked, preview, timer, inFlight, labels, cache, now, steps>>

\* A read ends with what the contract says or with values of the console's own; it never fails.
Answer(r, source) ==
  /\ r \in pending /\ pending' = pending \ {r}
  /\ r.cached # Nil => source = r.cached
  /\ LET record == [source |-> source, at |-> r.at]
     IN  /\ cache' = IF r.cached # Nil THEN cache ELSE [cache EXCEPT ![r.asset] = record]
         /\ labels' = IF r.here THEN [labels EXCEPT ![r.asset] = record] ELSE labels
  /\ inFlight' = IF r.here /\ ~r.forced THEN inFlight \ {r.asset} ELSE inFlight
  /\ UNCHANGED <<caps, picked, preview, timer, now, steps, begun>>

\* The form is left and opened again: the draft is gone, and no policy installed has such rows;
\* the cache stays, and what is on its way ends there.
Remount ==
  /\ caps # <<>> /\ steps < MaxSteps /\ steps' = steps + 1
  /\ caps' = <<>> /\ timer' = Nil /\ picked' = {} /\ preview' = Nil
  /\ labels' = [a \in Contracts |-> Nil] /\ inFlight' = {}
  /\ pending' = {[r EXCEPT !.here = FALSE] : r \in pending}
  /\ UNCHANGED <<cache, now, begun>>

Passes == now < MaxNow /\ now' = now + 1
          /\ UNCHANGED <<caps, picked, preview, timer, inFlight, labels, cache, pending, steps, begun>>

-----------------------------------------------------------------------------
(* The form                                                                *)

Step == steps < MaxSteps /\ steps' = steps + 1
SetCaps(rows) == caps' = rows /\ Awaits(rows)
labelOnly == <<inFlight, labels, cache, pending, now, begun>>

\* A cell is typed, or a row removed; the review is a dialog over the form.  There is no other
\* way to a new row than a file or a whole draft.
EditRow(i, row) == /\ preview = Nil /\ i \in DOMAIN caps /\ row # caps[i] /\ Step
                   /\ SetCaps([caps EXCEPT ![i] = row])
                   /\ UNCHANGED <<picked, preview, labelOnly>>
\* A policy file replaces the draft and its rows.
ImportDraft(rows) == /\ preview = Nil /\ rows # caps /\ Step /\ SetCaps(rows)
                     /\ UNCHANGED <<picked, preview, labelOnly>>
RemoveRow(i) == /\ preview = Nil /\ i \in DOMAIN caps /\ Step
                /\ SetCaps(SubSeq(caps, 1, i - 1) \o SubSeq(caps, i + 1, Len(caps)))
                /\ UNCHANGED <<picked, preview, labelOnly>>

\* The rows are those of the moment the file is picked; another may be picked meanwhile.
PickFile(file) == /\ preview = Nil /\ Step
                  /\ picked' = picked \cup {[file |-> file, current |-> caps]}
                  /\ UNCHANGED <<caps, preview, timer, labelOnly>>
FileRead(f) ==
  /\ f \in picked /\ picked' = picked \ {f}
  /\ preview' = [file |-> f.file, current |-> f.current,
                 result |-> PreviewAssetCapImport(f.current, f.file)]
  /\ UNCHANGED <<caps, timer, steps, labelOnly>>
\* A file that cannot be read at all is an error, and closes a review.
FileFails(f) == /\ f \in picked /\ picked' = picked \ {f} /\ preview' = Nil
                /\ UNCHANGED <<caps, timer, steps, labelOnly>>
ConfirmImport ==
  /\ preview # Nil /\ preview.result.accepted # <<>>
  /\ SetCaps(preview.result.merged) /\ preview' = Nil
  /\ UNCHANGED <<picked, steps, labelOnly>>
CancelImport == /\ preview # Nil /\ preview' = Nil
                /\ UNCHANGED <<caps, picked, timer, steps, labelOnly>>

Init ==
  /\ caps = <<>> /\ picked = {} /\ preview = Nil /\ timer = Nil
  /\ inFlight = {} /\ labels = [a \in Contracts |-> Nil] /\ cache = labels /\ pending = {}
  /\ now = 0 /\ steps = 0 /\ begun = 0

Readdress == \E i \in DOMAIN caps :
               \/ \E a \in Contracts \cup {Nil} : EditRow(i, [caps[i] EXCEPT !.asset = a])
               \/ RemoveRow(i)
Whole == \E rows \in Tables : ImportDraft(rows)
Retype == \E i \in DOMAIN caps :
            \/ \E c \in Amounts : EditRow(i, [caps[i] EXCEPT !.cap = c])
            \/ EditRow(i, [caps[i] EXCEPT !.symbol = ""])
\* The names beside the rows need only the addresses.
ImportNext == \/ Whole \/ Readdress \/ Retype \/ ConfirmImport \/ CancelImport
              \/ \E file \in Files : PickFile(file)
              \/ \E f \in picked : FileRead(f) \/ FileFails(f)
LabelNext == \/ Whole \/ Readdress \/ TimerFires \/ Remount \/ Passes
             \/ \E a \in Contracts : Refresh(a)
             \/ \E r \in pending, source \in {"live", "fallback"} : Answer(r, source)

-----------------------------------------------------------------------------
(* The review shows what the file does, row for row: the first sound row   *)
(* of an address is accepted and no other, each other row is refused, and  *)
(* the rows of the draft that no accepted row names are as they were.      *)
PreviewExact ==
  preview # Nil =>
    LET file == preview.file
        taken == {i \in DOMAIN file : /\ Sound(file[i])
                                      /\ \A j \in 1..i - 1 : Sound(file[j]) =>
                                           file[j].asset # file[i].asset}
        result == preview.result
    IN  /\ {result.accepted[k].no : k \in DOMAIN result.accepted} = taken
        /\ Range(result.rejected) = DOMAIN file \ taken
        /\ \A k \in DOMAIN result.merged :
             IF k <= Len(preview.current) /\ ( preview.current[k].asset \notin {file[i].asset : i \in taken}
                  \/ Position(preview.current, preview.current[k].asset) < k)
             THEN result.merged[k] = preview.current[k]
             ELSE \E i \in taken : result.merged[k] =
                                     Row(file[i].asset, file[i].cap, file[i].symbol)
        /\ DOMAIN result.changes =
             {file[i].asset : i \in {j \in taken :
                LET at == Position(preview.current, file[j].asset)
                IN  at = 0 \/ preview.current[at] # Row(file[j].asset, file[j].cap, file[j].symbol)}}
        /\ Problems(preview.current) = {} =>
             Problems(result.merged) = {k \in DOMAIN result.merged : result.merged[k].cap = TooMuch}

(* A file that the other reader takes whole is taken whole here, with the  *)
(* same rows and the same marks.                                           *)
ReadersAgree ==
  preview # Nil /\ Parsed(preview.file) # Nil =>
    LET other == Merged(preview.current, Parsed(preview.file))
    IN  /\ preview.result.rejected = <<>>
        /\ preview.result.merged = other.rows /\ preview.result.changes = other.changes

(* Each asset of the form is described, or its description is on its way,  *)
(* or the pending timer will ask for it.                                   *)
NothingForgotten ==
  \A a \in Assets(caps) :
    labels[a] # Nil \/ a \in inFlight \/ (timer # Nil /\ a \in timer)
=============================================================================

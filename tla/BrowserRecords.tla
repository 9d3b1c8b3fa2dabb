---------------------------- MODULE BrowserRecords ----------------------------
(***************************************************************************)
(* The inventory of what the console keeps in the browser, and its Clear   *)
(* buttons.  The records are sorted into four categories by the key they   *)
(* are kept under; a record of no category is listed and cannot be         *)
(* cleared.  The counts are those of the last opening or clearing, and the *)
(* other panels write their records in between.                            *)
(***************************************************************************)
EXTENDS Naturals, FiniteSets, FiniteSetsExt

CONSTANTS
  StoreKeys,    \* the kinds of key records are kept under (a subset of AllKeys)
  MaxItems,     \* bound on the items kept under one key
  Nil

VARIABLES
  store,        \* key -> the number of items under it, or Nil: no such key
  listing,      \* whether the inventory is open
  counts,       \* category -> the count on screen
  confirming    \* the category the question is open about, or Nil

recordVars == <<store, listing, counts, confirming>>

Categories == {"history", "address-book", "layouts", "guard-registry"}

LayoutStorageKeys ==
  {"layout", "theme", "density", "sidebar", "mask", "idle", "alerts", "setup", "wallet"}
RegistryKeys == {"instances", "legacy", "scoped"}

\* Kept as well, and in none of the categories.
Unlisted == {"named-layouts", "fleet-view", "webhooks", "tab-sync"}
AllKeys == {"tx", "contacts"} \cup LayoutStorageKeys \cup RegistryKeys \cup Unlisted

\* The keys a category stands for.
KeysOf(c) ==
  StoreKeys \cap (CASE c = "history"        -> {"tx"}
                    [] c = "address-book"   -> {"contacts"}
                    [] c = "layouts"        -> LayoutStorageKeys
                    [] c = "guard-registry" -> RegistryKeys)

\* The items counted under a key: a layout counts as one however much it holds.
Items(c, k) == IF store[k] = Nil THEN 0 ELSE IF c = "layouts" THEN 1 ELSE store[k]

OperatorStorageCategories == 
  [c \in Categories |-> MapThenSumSet(LAMBDA k : Items(c, k), KeysOf(c))]

RecordTypes ==
  /\ store \in [StoreKeys -> {Nil} \cup 0..MaxItems]
  /\ listing \in BOOLEAN
  /\ DOMAIN counts = Categories
  /\ confirming \in Categories \cup {Nil}

Init ==
  /\ store \in [StoreKeys -> {Nil} \cup 1..MaxItems]
  /\ listing = FALSE
  /\ counts = OperatorStorageCategories
  /\ confirming = Nil

\* Opening the inventory counts again; closing it leaves an open question open.
ToggleInventory ==
  /\ listing' = ~listing
  /\ counts' = IF listing THEN counts ELSE OperatorStorageCategories
  /\ UNCHANGED <<store, confirming>>

AskToClear(c) ==
  /\ listing
  /\ confirming' = c
  /\ UNCHANGED <<store, listing, counts>>

CancelClear == confirming # Nil /\ AskToClear(Nil)

\* Mutant: clearing the layouts sweeps every record that no other category owns.
SweepsUnlisted(c) ==
  KeysOf(c) \cup (IF c = "layouts" THEN StoreKeys \cap Unlisted ELSE {})

\* The keys a Clear removes.
Cleared(c) == KeysOf(c)

\* Confirmed, the category's keys are removed and everything is counted again.
ConfirmClear ==
  /\ listing /\ confirming # Nil
  /\ store' = [k \in StoreKeys |-> IF k \in Cleared(confirming) THEN Nil ELSE store[k]]
  /\ counts' = OperatorStorageCategories'
  /\ confirming' = Nil
  /\ UNCHANGED listing

\* A panel writes under one of its keys.
WriteItem(k) ==
  /\ store[k] = Nil \/ (store[k] # Nil /\ store[k] < MaxItems)
  /\ store' = [store EXCEPT ![k] = IF @ = Nil THEN 1 ELSE @ + 1]
  /\ UNCHANGED <<listing, counts, confirming>>

Next ==
  \/ ToggleInventory
  \/ \E c \in Categories : AskToClear(c)
  \/ CancelClear
  \/ ConfirmClear
  \/ \E k \in StoreKeys : WriteItem(k)

Spec == Init /\ [][Next]_recordVars

-----------------------------------------------------------------------------
\* A record goes only when its own category was named in the question and
\* confirmed: whatever the other categories hold, and what no category lists
\* (the webhook address, the named layouts), stays (clearOperatorStorageCategory).
ClearsItsOwn ==
  [][\A k \in StoreKeys : store[k] # Nil /\ store'[k] = Nil =>
       confirming # Nil /\ k \in KeysOf(confirming)]_recordVars
=============================================================================

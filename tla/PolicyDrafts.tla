---------------------------- MODULE PolicyDrafts -----------------------------
(***************************************************************************)
(* The policy form: an unsaved draft with its undo history, the guard the  *)
(* draft was started for, what is staged over it (a preset, an imported    *)
(* file), the review of an install, and the write that spends it, while    *)
(* the guard on screen changes at any time.                                *)
(***************************************************************************)
EXTENDS Naturals, Sequences

CONSTANTS
  FormGuards, \* guards the form is shown for
  Depth,      \* HISTORY_LIMIT
  MaxEdits,   \* bound: drafts an operator makes
  Nil

VARIABLES
  active,     \* the selected guard
  draft,      \* the present of the HistoryStore: a draft, or Nil for none
  past, future,
  burst,      \* pendingBase of a burst of typing: <<>> or <<draft>>
  scope,      \* draftScope
  reading,    \* the guard a policy file is being read for
  staged,     \* a preset or an imported policy waiting for its confirmation
  caps,       \* a file of asset caps: the guard it was picked for, and whether it is read
  approval,   \* the install under review
  write,      \* the write in flight
  outcome,    \* the guard whose outcome is on screen
  edits       \* bound

formVars == <<active, draft, past, future, burst, scope, reading, staged, caps, approval,
              write, outcome, edits>>
historyVars == <<draft, past, future, burst>>

\* A draft remembers, for the properties, the guard the form was showing when it was made.
Draft == [made : FormGuards, valid : BOOLEAN, no : 0..MaxEdits]
Scoped(D) == [guard : FormGuards, draft : D]

FormTypes ==
  /\ active \in FormGuards /\ draft \in Draft \cup {Nil} /\ scope \in FormGuards \cup {Nil}
  /\ past \in Seq(Draft \cup {Nil}) /\ Len(past) <= Depth
  /\ future \in Seq(Draft \cup {Nil}) /\ burst \in {<<>>} \cup {<<d>> : d \in Draft \cup {Nil}}
  /\ reading \in FormGuards \cup {Nil} /\ staged \in Scoped(Draft) \cup {Nil}
  /\ approval \in Scoped(Draft) \cup {Nil}
  /\ caps \in [guard : FormGuards, read : BOOLEAN] \cup {Nil}
  /\ write # Nil => write.guard \in FormGuards /\ write.kind \in {"install", "export", "revoke"}
  /\ outcome \in FormGuards \cup {Nil} /\ edits \in 0..MaxEdits

Init ==
  /\ active \in FormGuards /\ draft = Nil /\ past = <<>> /\ future = <<>> /\ burst = <<>>
  /\ scope = Nil /\ reading = Nil /\ staged = Nil /\ caps = Nil /\ approval = Nil /\ write = Nil
  /\ outcome = Nil /\ edits = 0

\* draftForOtherGuard: held, neither shown nor dropped.
ForOtherGuard == draft # Nil /\ scope # Nil /\ scope # active
Busy == write # Nil
Installed == [made |-> active, valid |-> TRUE, no |-> 0]
Effective == IF draft # Nil /\ ~ForOtherGuard THEN draft ELSE Installed

\* A new draft of the operator; the guard of the form goes with it.
Made(d) == /\ edits < MaxEdits /\ edits' = edits + 1
           /\ d.made = active /\ d.no = edits + 1

-----------------------------------------------------------------------------
(* HistoryStore                                                            *)

Recorded(steps, d) == IF Len(steps) < Depth THEN Append(steps, d) ELSE Append(Tail(steps), d)
Flushed == IF burst = <<>> THEN past ELSE Recorded(past, burst[1])

Push(d) ==
  /\ draft' = d
  /\ IF d = draft THEN UNCHANGED <<past, future, burst>>
     ELSE past' = Recorded(Flushed, draft) /\ future' = <<>> /\ burst' = <<>>

\* Typing joins the burst that is under way.
Edit(d) ==
  /\ draft' = d /\ future' = <<>> /\ UNCHANGED past
  /\ burst' = IF burst = <<>> THEN <<draft>> ELSE burst

Untouched == UNCHANGED <<active, scope, reading, caps, approval, write, outcome, edits>>

DebounceEnds ==
  /\ burst # <<>> /\ past' = Flushed /\ burst' = <<>>
  /\ Untouched /\ UNCHANGED <<draft, future, staged>>

\* Undo and redo move the draft; the guard it is for stays what it was.
UndoEdit ==
  /\ ~Busy /\ ~ForOtherGuard /\ Flushed # <<>>
  /\ future' = Append(future, draft) /\ draft' = Flushed[Len(Flushed)]
  /\ past' = SubSeq(Flushed, 1, Len(Flushed) - 1)
  /\ burst' = <<>>
  /\ Untouched /\ UNCHANGED staged

RedoEdit ==
  /\ ~Busy /\ ~ForOtherGuard /\ future # <<>>
  /\ past' = Recorded(Flushed, draft) /\ draft' = future[Len(future)]
  /\ future' = SubSeq(future, 1, Len(future) - 1)
  /\ burst' = <<>>
  /\ Untouched /\ UNCHANGED staged

-----------------------------------------------------------------------------
(* The form                                                                *)

SetDraft(d) == ~ForOtherGuard /\ Push(d) /\ scope' = IF d = Nil THEN Nil ELSE active

\* A field typed in, or a switch, a row removed.
ChangeField(d) ==
  /\ ~ForOtherGuard /\ Made(d)
  /\ (Edit(d) /\ scope' = active) \/ SetDraft(d)
  /\ UNCHANGED <<active, reading, staged, caps, approval, write, outcome>>

\* "Start from blank" and "reset to installed".
ClearForm ==
  /\ ~Busy
  /\ \/ \E d \in Draft : d.valid /\ Made(d) /\ SetDraft(d)
     \/ draft # Nil /\ SetDraft(Nil) /\ UNCHANGED edits
  /\ UNCHANGED <<active, reading, staged, caps, approval, write, outcome>>

\* The one way to drop a draft of another guard.
DiscardOtherGuardDraft ==
  /\ ForOtherGuard /\ Push(Nil) /\ scope' = Nil
  /\ UNCHANGED <<active, reading, staged, caps, approval, write, outcome, edits>>

StagePreset(d) ==
  /\ ~ForOtherGuard /\ ~Busy /\ d.valid /\ Made(d) /\ staged' = [guard |-> active, draft |-> d]
  /\ UNCHANGED <<active, historyVars, scope, reading, caps, approval, write, outcome>>

\* The file is read for the guard of the form that asked.
ImportPolicyJson ==
  /\ ~ForOtherGuard /\ ~Busy /\ reading = Nil /\ edits < MaxEdits /\ reading' = active
  /\ UNCHANGED <<active, historyVars, scope, staged, caps, approval, write, outcome, edits>>

ImportRead ==
  /\ reading # Nil /\ reading' = Nil
  /\ \/ \E d \in Draft : /\ d.made = reading /\ d.no = edits + 1 /\ edits' = edits + 1
                         /\ edits < MaxEdits /\ staged' = [guard |-> reading, draft |-> d]
     \/ UNCHANGED <<staged, edits>>
  /\ UNCHANGED <<active, historyVars, scope, caps, approval, write, outcome>>

\* Confirmed against the guard it was staged for, or not offered at all; a preset takes the
\* outcome off the screen, an imported policy leaves it.
ApplyStaged ==
  /\ staged # Nil /\ staged.guard = active
  /\ IF ForOtherGuard THEN UNCHANGED <<historyVars, scope>> ELSE SetDraft(staged.draft)
  /\ staged' = Nil /\ outcome' \in {outcome, Nil}
  /\ UNCHANGED <<active, reading, caps, approval, write, edits>>

CancelStaged ==
  /\ staged # Nil /\ staged' = Nil
  /\ UNCHANGED <<active, historyVars, scope, reading, caps, approval, write, outcome, edits>>

\* A file of asset caps is merged with those of the form that picked it.
PickAssets ==
  /\ ~ForOtherGuard /\ ~Busy /\ caps' = [guard |-> active, read |-> FALSE]
  /\ UNCHANGED <<active, historyVars, scope, reading, staged, approval, write, outcome, edits>>
AssetsRead ==
  /\ caps # Nil /\ ~caps.read /\ caps' \in {Nil, [caps EXCEPT !.read = TRUE]}
  /\ UNCHANGED <<active, historyVars, scope, reading, staged, approval, write, outcome, edits>>

\* The merged rows go into the draft of the guard that is selected now.
ApplyAssets(d) ==
  /\ caps # Nil /\ caps.read /\ ~ForOtherGuard
  /\ edits < MaxEdits /\ edits' = edits + 1 /\ d.made = caps.guard /\ d.no = edits + 1
  /\ SetDraft(d) /\ caps' = Nil
  /\ UNCHANGED <<active, reading, staged, approval, write, outcome>>
CancelAssets ==
  /\ caps # Nil /\ caps.read /\ caps' = Nil
  /\ UNCHANGED <<active, historyVars, scope, reading, staged, approval, write, outcome, edits>>

\* What was produced for the guard before goes with the render that sees the new one.
SwitchGuard(g) ==
  /\ g # active /\ active' = g
  /\ approval' = Nil /\ outcome' = Nil /\ staged' = Nil
  /\ UNCHANGED <<historyVars, scope, reading, caps, write, edits>>

-----------------------------------------------------------------------------
(* Writing                                                                 *)

Submit ==
  /\ ~ForOtherGuard /\ ~Busy /\ Effective.valid
  /\ approval' = [guard |-> active, draft |-> Effective]
  /\ UNCHANGED <<active, historyVars, scope, reading, staged, caps, write, outcome, edits>>

CancelReview ==
  /\ approval # Nil /\ approval' = Nil
  /\ UNCHANGED <<active, historyVars, scope, reading, staged, caps, write, outcome, edits>>

\* runScopedWrite: only while the guard that was approved is the active one.
Start(g, d, kind) ==
  /\ write' = IF g = active THEN [guard |-> g, draft |-> d, kind |-> kind, asked |-> active] ELSE Nil
  /\ approval' = IF kind = "revoke" THEN approval ELSE Nil
  /\ outcome' = Nil
  /\ UNCHANGED <<active, historyVars, scope, reading, staged, caps, edits>>

RunInstall == approval # Nil /\ ~Busy /\ Start(approval.guard, approval.draft, "install")
ExportPolicy == ~ForOtherGuard /\ ~Busy /\ Effective.valid /\ Start(active, Effective, "export")
RevokePolicy == ~Busy /\ Start(active, Nil, "revoke")

\* The outcome is shown if its guard is still the active one; the draft stays.
WriteSettles ==
  /\ Busy /\ write' = Nil
  /\ outcome' = IF write.guard = active THEN write.guard ELSE outcome
  /\ UNCHANGED <<active, historyVars, scope, reading, staged, caps, approval, edits>>

Next ==
  \/ DebounceEnds \/ UndoEdit \/ RedoEdit \/ ClearForm \/ DiscardOtherGuardDraft
  \/ \E d \in Draft : ChangeField(d) \/ StagePreset(d) \/ ApplyAssets(d)
  \/ PickAssets \/ AssetsRead \/ CancelAssets
  \/ ImportPolicyJson \/ ImportRead \/ ApplyStaged \/ CancelStaged
  \/ \E g \in FormGuards : SwitchGuard(g)
  \/ Submit \/ CancelReview \/ RunInstall \/ ExportPolicy \/ RevokePolicy \/ WriteSettles

Spec == Init /\ [][Next]_formVars

-----------------------------------------------------------------------------

(* What is on screen, what may be confirmed and what is signed is for the  *)
(* guard it was made for, whenever the guard changes.                      *)
PolicyScreenOwn ==
  /\ outcome \in {Nil, active}
  /\ approval # Nil => approval.guard = active
  /\ write # Nil => write.asked = write.guard
  /\ staged # Nil /\ staged.guard = active => staged.draft.made = active
=============================================================================

--------------------------- MODULE SignedEnvelopes ---------------------------
(***************************************************************************)
(* The panel that broadcasts envelopes signed elsewhere: partial           *)
(* signatures are merged into one envelope, the envelope in the box is     *)
(* held against the account and the ledger, and is submitted.  The box,    *)
(* the text to merge and the wallet change under every answer.             *)
(***************************************************************************)
EXTENDS Naturals, FiniteSets

CONSTANTS
  Copies,    \* signed copies at hand: [body, sigs], a signature being [by, of]
  Lone,      \* keys whose hint no other signer has
  Fit,       \* bodies of this network, in time, of operations the review knows
  Sources,   \* accounts: the source of every copy, and another
  Nil

VARIABLES
  box,        \* xdr
  checked,    \* checkedEnvelope and the envelope its preflight is of
  checking,   \* the check in flight
  merging,    \* the copies of the merge in flight, and whether the signers were read
  merged,     \* mergeReport
  wallet,     \* the account of the connected wallet, or Nil
  submitting, \* the submission in flight
  sent        \* what was handed to the network, and what was checked of it

envelopeVars == <<box, checked, checking, merging, merged, wallet, submitting, sent>>

Owner == CHOOSE s \in Sources : TRUE   \* the source account of the copies

\* What the box may hold.
Mergeable == {[body |-> c.body, sigs |-> UNION {d.sigs : d \in D}] :
                 c \in Copies, D \in SUBSET Copies}
Envelopes == Copies \cup Mergeable

EnvelopeTypes ==
  /\ box \in Envelopes \cup {Nil} /\ wallet \in Sources \cup {Nil}
  /\ checked # Nil => checked.text \in Envelopes /\ checked.read \in Envelopes
  /\ checking \in Envelopes \cup {Nil}
  /\ merging # Nil => merging.copies \subseteq Copies /\ merging.verified \in BOOLEAN
  /\ merged \in Envelopes \cup {Nil}
  /\ submitting # Nil => submitting.envelope \in Envelopes
  /\ sent # Nil => sent.envelope \in Envelopes

Init ==
  /\ box = Nil /\ checked = Nil /\ checking = Nil /\ merging = Nil /\ merged = Nil
  /\ wallet \in Sources \cup {Nil} /\ submitting = Nil /\ sent = Nil

\* verifyEnvelopeNetworkPassphrase and inspectSignedEnvelope
CanSubmit(e) == e.sigs # {} /\ e.body \in Fit

-----------------------------------------------------------------------------
(* The box and the wallet                                                  *)

\* The text area forgets the check with the text it was about.
PasteSigned(e) ==
  /\ box' = e /\ checked' = Nil
  /\ UNCHANGED <<checking, merging, merged, wallet, submitting, sent>>

SwitchWallet(w) ==
  /\ w # wallet /\ wallet' = w
  /\ UNCHANGED <<box, checked, checking, merging, merged, submitting, sent>>

-----------------------------------------------------------------------------
(* The check                                                               *)

CheckEnvelope ==
  /\ submitting = Nil /\ checking = Nil /\ box # Nil
  /\ checking' = box /\ checked' = Nil
  /\ UNCHANGED <<box, merging, merged, wallet, submitting, sent>>

\* Mutant: the check is of the text in the box when the answer comes.
MarkedNow(read) == [text |-> IF box = Nil THEN read ELSE box, read |-> read]
Marked(read) == [text |-> read, read |-> read]

\* preflightSignedEnvelope never fails: what cannot be read is reported unknown.  Decoding may.
EnvelopeChecked ==
  /\ checking # Nil /\ checking' = Nil
  /\ checked' \in {Nil, Marked(checking)}
  /\ UNCHANGED <<box, merging, merged, wallet, submitting, sent>>

-----------------------------------------------------------------------------
(* The merge                                                               *)

Merge(copies) ==
  /\ merging = Nil /\ Cardinality(copies) > 1 /\ copies \subseteq Copies
  /\ merged' = Nil
  /\ \E verified \in BOOLEAN : merging' = [copies |-> copies, verified |-> verified]
  /\ UNCHANGED <<box, checked, checking, wallet, submitting, sent>>

\* mergeMultiEnvelopes: nothing is combined unless the bodies are one, and no signature that
\* is known to be of one signer fails to verify.
SameBody(copies) == \A c, d \in copies : c.body = d.body
Forged(c) == \E s \in c.sigs : s.by \in Lone /\ s.of # c.body
Combined(copies) == [body |-> (CHOOSE c \in copies : TRUE).body,
                     sigs |-> UNION {c.sigs : c \in copies}]

Merged ==
  /\ merging # Nil /\ merging' = Nil
  /\ IF SameBody(merging.copies) /\ ~(merging.verified /\ \E c \in merging.copies : Forged(c))
     THEN merged' = Combined(merging.copies) /\ box' = Combined(merging.copies)
     ELSE UNCHANGED <<merged, box>>
  /\ UNCHANGED <<checked, checking, wallet, submitting, sent>>

-----------------------------------------------------------------------------
(* The submission                                                          *)

\* submit: the review is of the text the button was pressed on.
SubmitSigned ==
  /\ submitting = Nil /\ checking = Nil /\ box # Nil /\ CanSubmit(box)
  /\ checked # Nil /\ checked.text = box
  /\ submitting' = [envelope |-> box, read |-> checked.read, connected |-> wallet # Nil]
  /\ UNCHANGED <<box, checked, checking, merging, merged, wallet, sent>>

\* reviewedAccountCheck: a wallet that was connected must still hold the source account.
AccountAnswers(s) == s.connected => wallet = Owner

Broadcast ==
  /\ submitting # Nil /\ submitting' = Nil
  /\ \/ /\ AccountAnswers(submitting)
        /\ sent' = [envelope |-> submitting.envelope, read |-> submitting.read]
        /\ \/ box' = Nil /\ checked' = Nil         \* taken by the network
           \/ UNCHANGED <<box, checked>>           \* refused by it
     \/ ~AccountAnswers(submitting) /\ UNCHANGED <<box, checked, sent>>
  /\ UNCHANGED <<checking, merging, merged, wallet>>

Next ==
  \/ \E e \in Copies : PasteSigned(e)
  \/ \E w \in Sources \cup {Nil} : SwitchWallet(w)
  \/ CheckEnvelope \/ EnvelopeChecked \/ SubmitSigned \/ Broadcast \/ Merged
  \/ \E D \in SUBSET Copies : Merge(D)

Spec == Init /\ [][Next]_envelopeVars

-----------------------------------------------------------------------------
(* An envelope handed to the network is the one whose sequence and bounds  *)
(* were read, fit to be submitted, whatever was pasted, merged or checked  *)
(* while the answers were on their way.                                    *)
SentWasChecked ==
  sent # Nil => sent.read = sent.envelope /\ CanSubmit(sent.envelope)
=============================================================================

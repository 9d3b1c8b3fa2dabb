------------------------------ MODULE Approvals ------------------------------
(***************************************************************************)
(* The multisig tracker of one tab: an envelope is pasted, the signatures  *)
(* it carries are attributed by hint to the signers the chain lists now,   *)
(* and their weight is held against the threshold.  The rules of the       *)
(* account change on chain under the report.                               *)
(***************************************************************************)
EXTENDS Naturals, Sequences, FiniteSetsExt

CONSTANTS
  Keys,      \* keys that may sign: signers of the account, and others
  Alike,     \* keys whose hints are the same four bytes
  Rules,     \* rules the account may have: [weights, list, hashed, need]
  Pasted,    \* envelopes that may be pasted: sequences of signatures [by, genuine]
  Nil

VARIABLES
  rules,     \* the rules on chain
  xdr,       \* the envelope in the box
  trackBusy, \* the read in flight: the envelope, and the report it refreshes
  track      \* the report

trackVars == <<rules, xdr, trackBusy, track>>

\* What an envelope shows of a signer: the end of its key.
Hint(k) == IF k \in Alike THEN Alike ELSE {k}

TrackTypes ==
  /\ rules \in Rules /\ xdr \in Pasted \cup {Nil}
  /\ trackBusy # Nil => trackBusy.envelope \in Pasted
  /\ track # Nil => /\ track.envelope \in Pasted /\ track.read \in Rules \cup {Nil}
                    /\ track.told \in SUBSET (Keys \cup {"need"})

Init ==
  /\ rules \in Rules /\ xdr = Nil /\ trackBusy = Nil /\ track = Nil

-----------------------------------------------------------------------------
(* The evaluation                                                          *)

\* The places of the signers that show what a key shows.
WithHint(r, k) == {i \in DOMAIN r.list : Hint(r.list[i]) = Hint(k)}

\* matchEnvelopeSignatures: the first signer with the hint, or nobody.
Matched(r, envelope) ==
  {r.list[Min(WithHint(r, envelope[i].by))] :
     i \in {j \in DOMAIN envelope : WithHint(r, envelope[j].by) # {}}}

\* Mutant: hints that several signers share are attributed all the same.
NoneAmbiguous(r) == FALSE
Ambiguous(r) == \E i, j \in DOMAIN r.list : i # j /\ j \in WithHint(r, r.list[i])

\* unmatchedSignatures
Unmatched(r, envelope) == {i \in DOMAIN envelope : WithHint(r, envelope[i].by) = {}}

WeightOf(r, signed) == MapThenSumSet(LAMBDA k : r.weights[k], signed \cap Range(r.list))

\* evaluateApprovalState.  A repeated signature counts once: the matches are a set.
Status(r) == IF r.hashed THEN "unsupported"
             ELSE IF Ambiguous(r) \/ r.need = Nil THEN "incomplete" ELSE "supported"
Collected(r, envelope) == WeightOf(r, Matched(r, envelope))
Ready(r, envelope) == Status(r) = "supported" /\ Collected(r, envelope) >= r.need

\* pendingSigners: who is still to sign, in the order of the account, as far as they are needed.
Waiting(r, envelope) ==
  LET unsigned == {i \in DOMAIN r.list : /\ r.list[i] \notin Matched(r, envelope)
                                         /\ r.weights[r.list[i]] > 0}
      before(i) == WeightOf(r, Matched(r, envelope) \cup {r.list[j] : j \in {k \in unsigned : k < i}})
  IN IF Status(r) # "supported" \/ Ready(r, envelope) THEN {}
     ELSE {r.list[i] : i \in {j \in unsigned : before(j) < r.need}}

\* signerRuleChanges
Changes(old, new) ==
  {k \in Range(old.list) \cup Range(new.list) :
     \/ k \notin Range(old.list) \cap Range(new.list)
     \/ old.weights[k] # new.weights[k]}
  \cup {w \in {"need"} : old.need # new.need}

-----------------------------------------------------------------------------
(* The steps                                                               *)

ChangeRules(r) == r # rules /\ rules' = r /\ UNCHANGED <<xdr, trackBusy, track>>

PasteEnvelope(e) == xdr' = e /\ UNCHANGED <<rules, trackBusy, track>>

\* analyse clears the report; one that cannot be decoded ends there.
Analyse ==
  /\ trackBusy = Nil /\ xdr # Nil /\ track' = Nil
  /\ trackBusy' \in {Nil, [envelope |-> xdr, refreshes |-> Nil]}
  /\ UNCHANGED <<rules, xdr>>

\* refreshSignerRules asks for the envelope of the report, whatever is in the box.
Refresh ==
  /\ trackBusy = Nil /\ track # Nil
  /\ trackBusy' = [envelope |-> track.envelope, refreshes |-> track.read]
  /\ UNCHANGED <<rules, xdr, track>>

\* readAccountSigners and evaluateEnvelope: a read that fails is a report without rules.
SignersRead ==
  /\ trackBusy # Nil /\ trackBusy' = Nil
  /\ \E read \in {rules, Nil} :
       track' = [envelope |-> trackBusy.envelope, read |-> read,
                 told |-> IF trackBusy.refreshes = Nil \/ read = Nil THEN {}
                          ELSE Changes(trackBusy.refreshes, read)]
  /\ UNCHANGED <<rules, xdr>>

Next ==
  \/ \E r \in Rules : ChangeRules(r)
  \/ \E e \in Pasted : PasteEnvelope(e)
  \/ Analyse \/ Refresh \/ SignersRead

-----------------------------------------------------------------------------
\* Who really signed: the network verifies each signature of an envelope.
Signed(envelope) == {envelope[i].by : i \in {j \in DOMAIN envelope : envelope[j].genuine}}
Attributable(r, envelope) ==
  \A i \in DOMAIN envelope :
    envelope[i].genuine /\ (envelope[i].by \in Range(r.list) \/ i \in Unmatched(r, envelope))

(* When the report says that an envelope of genuine signatures, none by an *)
(* outsider with the hint of a signer, can be submitted, the weight of     *)
(* those who really signed meets the threshold it read; and when it names  *)
(* who is still to sign, their signatures would be enough.                 *)
ReadyIsEnough ==
  track # Nil /\ track.read # Nil /\ Attributable(track.read, track.envelope) =>
    LET r == track.read
        e == track.envelope
    IN /\ Ready(r, e) => WeightOf(r, Signed(e)) >= r.need
       /\ Waiting(r, e) # {} /\ WeightOf(r, Range(r.list)) >= r.need =>
            WeightOf(r, Signed(e) \cup Waiting(r, e)) >= r.need
=============================================================================

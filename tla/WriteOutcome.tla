---------------------------- MODULE WriteOutcome ----------------------------
(***************************************************************************)
(* What the write path promises the operator, whatever happens inside it.  *)
(*                                                                         *)
(* A write is handed to the network at most once, and only before its      *)
(* outcome is told.  The outcome is told once.  "nothing" says that the    *)
(* network never got it, "applied" and "rejected" that the ledger included *)
(* it with that result, and "unknown" leaves it to the operator to look.   *)
(***************************************************************************)
CONSTANTS
  Writes,         \* attempts to call the contract
  None            \* nothing told yet

VARIABLES
  fate,           \* what became of the transaction
  told            \* what the operator was told

Fates == {"unsent", "pending", "applied", "rejected", "dropped"}
Verdicts == {"nothing", "applied", "rejected", "unknown"}

Init ==
  /\ fate = [w \in Writes |-> "unsent"]
  /\ told = [w \in Writes |-> None]

Broadcast(w) ==
  /\ told[w] = None /\ fate[w] = "unsent"
  /\ fate' = [fate EXCEPT ![w] = "pending"]
  /\ UNCHANGED told

Settle(w) ==
  /\ fate[w] = "pending"
  /\ \E f \in {"applied", "rejected", "dropped"} : fate' = [fate EXCEPT ![w] = f]
  /\ UNCHANGED told

Tell(w, verdict) ==
  /\ told[w] = None
  /\ verdict = "nothing" => fate[w] = "unsent"
  /\ verdict \in {"applied", "rejected"} => fate[w] = verdict
  /\ told' = [told EXCEPT ![w] = verdict]
  /\ UNCHANGED fate

\* The reply to the broadcast is lost: the network has it, nobody can say so.
BroadcastUnanswered(w) ==
  /\ told[w] = None /\ fate[w] = "unsent"
  /\ fate' = [fate EXCEPT ![w] = "pending"]
  /\ told' = [told EXCEPT ![w] = "unknown"]

Next ==
  \E w \in Writes :
    \/ Broadcast(w)
    \/ BroadcastUnanswered(w)
    \/ Settle(w)
    \/ \E verdict \in Verdicts : Tell(w, verdict)

Spec == Init /\ [][Next]_<<fate, told>>
=============================================================================

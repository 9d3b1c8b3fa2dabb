---------------------------- MODULE ProtocolPicks ----------------------------
(***************************************************************************)
(* Picking the functions a policy allows of each protocol contract: the    *)
(* text of the draft is the state, the picker reads the interface of the   *)
(* contract it is opened on and rewrites the text.  The contract opened    *)
(* and the text change while an interface is being read.                   *)
(***************************************************************************)
EXTENDS Naturals, FiniteSets

CONSTANTS
  Protocols,   \* contracts
  Exports,     \* function from contracts to the functions each one exports, or {}
  Every,       \* the rule of a line without a colon
  Nil

VARIABLES
  lines,       \* draft.protocols: the rule of each contract listed, Nil if it is not
  expanded,    \* the contract whose picker is open
  specRead,    \* the live read of an interface; those before it are cancelled
  offer,       \* the functions of the picker, Nil before the first answer
  manual,      \* the manual input is shown: before the first answer, and without an interface
  picker       \* FunctionPicker: the list is open, and the function under the cursor

pickVars == <<lines, expanded, specRead, offer, manual, picker>>

AllFunctions == UNION {Exports[c] : c \in Protocols}
RuleSet == {Nil, Every} \cup SUBSET AllFunctions

PickTypes ==
  /\ lines \in [Protocols -> RuleSet] /\ expanded \in Protocols \cup {Nil}
  /\ specRead \in Protocols \cup {Nil}
  /\ offer \in {Nil} \cup SUBSET AllFunctions /\ manual \in BOOLEAN
  /\ picker.open \in BOOLEAN /\ picker.cursor \in AllFunctions \cup {Nil}

\* What an operator may have typed for a contract.
Typed(c) == {Nil, Every, Exports[c]} \ {{}}

Init ==
  /\ lines \in [Protocols -> RuleSet] /\ \A c \in Protocols : lines[c] \in Typed(c)
  /\ expanded = Nil /\ specRead = Nil /\ offer = Nil /\ manual = TRUE
  /\ picker = [open |-> FALSE, cursor |-> Nil]

Listed == {c \in Protocols : lines[c] # Nil}

\* exportedFunctionNames of parseContractSpec: a stripped or corrupt interface has none.
Exported(c) == Exports[c]

-----------------------------------------------------------------------------
(* The interface                                                           *)

\* The effect runs for the contract that is open as long as a line names it.
Expand(c) ==
  /\ c \in Listed /\ c # expanded /\ expanded' = c /\ specRead' = c
  /\ picker' = [open |-> FALSE, cursor |-> Nil]
  /\ UNCHANGED <<lines, offer, manual>>

Collapse ==
  /\ expanded # Nil /\ expanded' = Nil /\ specRead' = Nil
  /\ picker' = [open |-> FALSE, cursor |-> Nil]
  /\ UNCHANGED <<lines, offer, manual>>

\* readContractSpec: the bytes may not be had; the answer of before stays until this one.
SpecArrives ==
  /\ specRead # Nil /\ specRead' = Nil
  /\ offer' \in {Exported(specRead), {}} /\ manual' = (offer' = {})
  /\ UNCHANGED <<lines, expanded, picker>>

-----------------------------------------------------------------------------
(* The picker                                                              *)

\* The filter leaves some of the functions; the cursor is on one of them.
Browse(f) ==
  /\ expanded # Nil /\ offer # Nil /\ ~manual /\ f \in offer
  /\ picker' = [open |-> TRUE, cursor |-> f]
  /\ UNCHANGED <<lines, expanded, specRead, offer, manual>>

\* Escape, or a press outside.
CloseList ==
  /\ picker.open /\ picker' = [picker EXCEPT !.open = FALSE]
  /\ UNCHANGED <<lines, expanded, specRead, offer, manual>>

\* replaceRule: the contract gets its line, every other contract is written bare.
KeptRule(c) == Every
ReplaceRule(c, fns) ==
  [d \in Protocols |-> IF lines[d] = Nil THEN Nil
                       ELSE IF d # c THEN KeptRule(d) ELSE IF fns = {} THEN Every ELSE fns]

Selected(c) == IF lines[c] \in {Nil, Every} THEN {} ELSE lines[c]

\* onToggle, from the list or from a chip of what is selected already.
Toggle(f) ==
  LET c == expanded
      fns == IF f \in Selected(c) THEN Selected(c) \ {f} ELSE Selected(c) \cup {f}
  IN /\ c # Nil /\ lines[c] # Nil /\ offer # Nil /\ ~manual
     /\ (picker.open /\ picker.cursor = f) \/ f \in Selected(c)
     /\ lines' = ReplaceRule(c, fns)
     /\ UNCHANGED <<expanded, specRead, offer, manual, picker>>

\* onClear, and the manual input, which writes what is typed.
WriteRule(fns) ==
  /\ expanded # Nil /\ lines[expanded] # Nil
  /\ manual \/ (offer # Nil /\ fns = {} /\ Selected(expanded) # {})
  /\ lines' = ReplaceRule(expanded, fns)
  /\ UNCHANGED <<expanded, specRead, offer, manual, picker>>

\* The text area below: a line is added, edited or removed.
EditLine(c, rule) ==
  /\ rule # lines[c] /\ lines' = [lines EXCEPT ![c] = rule]
  /\ specRead' = IF expanded = c THEN IF rule = Nil THEN Nil
                                      ELSE IF lines[c] = Nil THEN c ELSE specRead
                 ELSE specRead
  /\ UNCHANGED <<expanded, offer, manual, picker>>

Next ==
  \/ \E c \in Protocols : Expand(c) \/ (\E rule \in Typed(c) : EditLine(c, rule))
  \/ Collapse \/ SpecArrives \/ CloseList
  \/ \E f \in AllFunctions : Browse(f) \/ Toggle(f)
  \/ \E fns \in SUBSET AllFunctions : WriteRule(fns)
=============================================================================

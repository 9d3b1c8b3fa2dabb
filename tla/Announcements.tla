---------------------------- MODULE Announcements ----------------------------
(***************************************************************************)
(* What a screen reader is told: the one queue every message leaves by,    *)
(* the flips of the freeze flag between two reads of a guard, and the      *)
(* blocked calls, counted in batches while the feed is on the page.        *)
(***************************************************************************)
EXTENDS Naturals, FiniteSets, Sequences, Functions

CONSTANTS
  HeardGuards,  \* guards whose status is read
  Refusals,     \* blocked events the feed may hold
  QueueCap,     \* ANNOUNCE_QUEUE_CAP
  Nil

VARIABLES
  frozen,    \* guard -> the flag on chain
  last,      \* the last good read of the status announcer
  verified,  \* lastVerified: the flag a write of this console was seen to set
  queue,     \* messages waiting to be spoken
  accepted,  \* lastAccepted, while a repeat of it is redundant
  badge,     \* the badge and its announcer are mounted
  seen, pending, due, told

talkVars == <<frozen, last, verified, queue, accepted, badge, seen, pending, due, told>>
batchVars == <<badge, seen, pending, due, told>>

Message == [guard : HeardGuards, flag : BOOLEAN] \cup [count : 1..Cardinality(Refusals)]

TalkTypes ==
  /\ frozen \in [HeardGuards -> BOOLEAN] /\ verified \in BOOLEAN \cup {Nil}
  /\ last \in [guard : HeardGuards, flag : BOOLEAN] \cup {Nil}
  /\ queue \in Seq(Message) /\ Len(queue) <= QueueCap /\ IsInjective(queue)
  /\ accepted \in Message \cup {Nil}
  /\ badge \in BOOLEAN /\ seen \subseteq Refusals /\ due \in BOOLEAN
  /\ pending \in 0..Cardinality(Refusals) /\ told \in 0..Cardinality(Refusals)

Init ==
  /\ frozen \in [HeardGuards -> BOOLEAN] /\ last = Nil /\ verified = Nil
  /\ queue = <<>> /\ accepted = Nil
  /\ badge = FALSE /\ seen = {} /\ pending = 0 /\ due = FALSE /\ told = 0

-----------------------------------------------------------------------------
(* The queue                                                               *)

\* Mutant: a message that waits is queued again.
AnnounceAgain(m) ==
  IF accepted = m THEN UNCHANGED <<queue, accepted>>
  ELSE /\ queue' = IF Len(queue) < QueueCap THEN Append(queue, m) ELSE Append(Tail(queue), m)
       /\ accepted' = m

\* What is queued already, or was accepted last and a moment ago, is redundant; a full queue
\* drops its oldest message.
Announce(m) ==
  IF m \in Range(queue) \/ accepted = m THEN UNCHANGED <<queue, accepted>>
  ELSE /\ queue' = IF Len(queue) < QueueCap THEN Append(queue, m) ELSE Append(Tail(queue), m)
       /\ accepted' = m

DuplicateWindowEnds == /\ accepted # Nil /\ accepted' = Nil
                       /\ UNCHANGED <<frozen, last, verified, queue, batchVars>>

\* The live region speaks the first message and shifts it.
Speak ==
  /\ queue # <<>> /\ queue' = Tail(queue)
  /\ UNCHANGED <<frozen, last, verified, accepted, batchVars>>

-----------------------------------------------------------------------------
(* Flips of the freeze flag                                                *)

OthersWrite(g) == /\ frozen' = [frozen EXCEPT ![g] = ~@]
                  /\ UNCHANGED <<last, verified, queue, accepted, batchVars>>

\* A freeze or unfreeze of this console, re-read and confirmed.
OwnWrite(g, flag) ==
  /\ frozen' = [frozen EXCEPT ![g] = flag] /\ verified' = flag
  /\ Announce([guard |-> g, flag |-> flag])
  /\ UNCHANGED <<last, batchVars>>

CorroborationEnds == /\ verified # Nil /\ verified' = Nil
                     /\ UNCHANGED <<frozen, last, queue, accepted, batchVars>>

\* The first good read of a guard is a baseline; a flip is told unless it echoes a write.
Observe(g) ==
  /\ last' = [guard |-> g, flag |-> frozen[g]]
  /\ IF last # Nil /\ last # last' /\ last.guard = g /\ verified # frozen[g]
     THEN Announce(last') ELSE UNCHANGED <<queue, accepted>>
  /\ UNCHANGED <<frozen, verified, batchVars>>

-----------------------------------------------------------------------------
(* Blocked calls                                                           *)

Flush(count) ==
  /\ pending' = 0 /\ due' = FALSE /\ told' = told + count
  /\ IF count = 0 THEN UNCHANGED <<queue, accepted>> ELSE Announce([count |-> count])

\* Mutant: what arrives as the batch closes is remembered and not counted.
ObserveRowsLate(rows) ==
  LET fresh == Cardinality(rows \ seen)
  IN IF pending > 0 /\ due THEN Flush(pending)
     ELSE pending' = pending + fresh /\ UNCHANGED <<due, told, queue, accepted>>

\* Counted before they are remembered; a batch whose window is over is told with them.
CountRows(rows) ==
  LET fresh == Cardinality(rows \ seen)
  IN IF pending > 0 /\ due THEN Flush(pending + fresh)
     ELSE pending' = pending + fresh /\ UNCHANGED <<due, told, queue, accepted>>

ObserveRows(rows) ==
  /\ badge /\ CountRows(rows) /\ seen' = seen \cup rows
  /\ UNCHANGED <<frozen, last, verified, badge>>

\* The window is anchored to the first event of the batch; its timer may come late.
WindowEnds == /\ badge /\ pending > 0 /\ ~due /\ due' = TRUE
              /\ UNCHANGED <<frozen, last, verified, queue, accepted, badge, seen, pending, told>>

BatchTimer == /\ badge /\ due /\ Flush(pending)
              /\ UNCHANGED <<frozen, last, verified, badge, seen>>

\* A new badge remembers nothing; the batch of one that leaves is not told.
Mount == /\ ~badge /\ badge' = TRUE
         /\ UNCHANGED <<frozen, last, verified, queue, accepted, seen, pending, due, told>>
Unmount ==
  /\ badge /\ badge' = FALSE /\ seen' = {} /\ pending' = 0 /\ due' = FALSE /\ told' = 0
  /\ UNCHANGED <<frozen, last, verified, queue, accepted>>

Next ==
  \/ DuplicateWindowEnds \/ Speak \/ CorroborationEnds
  \/ \E g \in HeardGuards : OthersWrite(g) \/ Observe(g) \/ \E flag \in BOOLEAN : OwnWrite(g, flag)
  \/ \E rows \in SUBSET Refusals : ObserveRows(rows)
  \/ WindowEnds \/ BatchTimer \/ Mount \/ Unmount

Spec == Init /\ [][Next]_talkVars

-----------------------------------------------------------------------------
(* While the badge is mounted every blocked event is counted once: in what *)
(* was told or in what is about to be.                                     *)
RefusalsCounted == told + pending = Cardinality(seen)
=============================================================================

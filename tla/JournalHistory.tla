--------------------------- MODULE JournalHistory ---------------------------
(***************************************************************************)
(* Histories of one application journal and the two validators the library *)
(* keeps for them: the incremental one, which judges one more step against *)
(* a history it already accepted, and the snapshot one, which judges the   *)
(* whole record at once.                                                   *)
(*                                                                         *)
(* A step's identity is a SHA-256 digest over its own content and over the *)
(* identity of its predecessor.  It is modelled by what a collision-free   *)
(* digest distinguishes: the sequence of all the contents up to the step.  *)
(* A history therefore is such a sequence, and it is its own head identity.*)
(***************************************************************************)
EXTENDS Naturals, Sequences, FiniteSets, JournalStates

CONSTANTS Effects,     \* identities of the declared effects
          KindOf,      \* KindOf[e] is the kind of effect e
          Receipts,    \* receipt identities
          Evidences,   \* completed-evidence identities
          None         \* an absent optional value

ASSUME KindAssumption == KindOf \in [Effects -> EffectKind]
ASSUME EffectsFinite == IsFiniteSet(Effects)
ASSUME NoneAssumption ==
         None \notin Effects \cup Receipts \cup Evidences

(***************************************************************************)
(* The content of a step.  kind = "none" says the step carries no event;   *)
(* fact says whether its replay fact is non-empty.                         *)
(***************************************************************************)
Body ==
  [state : JournalState, effect : Effects \cup {None},
   kind : EventKind \cup {"none"}, fact : BOOLEAN,
   receipt : Receipts \cup {None}, evidence : Evidences \cup {None}]

\* Slip: the initial cursor already counts one step.
InitialCursorOffByOne ==
  [step_count |-> 1, latest_step |-> << >>, state |-> "preparing",
   receipt |-> None, evidence |-> None]

\* The bounded cursor a history determines.
InitialCursor ==
  [step_count |-> 0, latest_step |-> << >>, state |-> "preparing",
   receipt |-> None, evidence |-> None]

CursorOf(h) ==
  IF h = << >> THEN InitialCursor
  ELSE [step_count |-> Len(h), latest_step |-> h, state |-> h[Len(h)].state,
        receipt |-> h[Len(h)].receipt, evidence |-> h[Len(h)].evidence]

\* What the event log of a history says about an effect.
Intended(h, e) == \E i \in DOMAIN h : h[i].effect = e /\ h[i].kind = "intent"
Terminated(h, e) ==
  \E i \in DOMAIN h : h[i].effect = e /\ h[i].kind \in TerminalKind
Completed(h, e) ==
  \E i \in DOMAIN h : h[i].effect = e /\ h[i].kind = "completed"

Required == {e \in Effects : SuccessEffectRequired(KindOf[e])}

\* The number of completion events recorded for required effects: the counter
\* completed_success_effects_ that the history maintains incrementally.
CompletionEvents(h) ==
  {i \in DOMAIN h : h[i].kind = "completed" /\ h[i].effect \in Required}

\* Slip: a terminal event only needs an intent.
ValidEventRepeated(h, b) ==
  /\ b.effect \in Effects
  /\ IF b.kind = "intent"
     THEN ~Intended(h, b.effect) /\ ~Terminated(h, b.effect)
     ELSE Intended(h, b.effect)

\* One intent per effect, and one terminal event after it.
ValidEvent(h, b) ==
  /\ b.effect \in Effects
  /\ IF b.kind = "intent"
     THEN ~Intended(h, b.effect) /\ ~Terminated(h, b.effect)
     ELSE Intended(h, b.effect) /\ ~Terminated(h, b.effect)

\* Slip: a retained receipt may be exchanged for another one.
ValidAdvanceReplacing(h, b) ==
  /\ StateMayFollow(CursorOf(h).state, b.state)
  /\ CursorOf(h).receipt # None => b.receipt # None

\* cursor::advance: lifecycle order, and authority already retained stays.
ValidAdvance(h, b) ==
  LET current == CursorOf(h)
  IN  /\ StateMayFollow(current.state, b.state)
      /\ current.receipt # None => b.receipt = current.receipt
      /\ current.evidence # None => b.evidence = current.evidence

\* step::make: completed evidence needs receipt authority.
ValidBody(b) ==
  /\ b.evidence # None => b.receipt # None
  /\ b.kind = "none" <=> b.effect = None

ValidResolution(b, completed) ==
  /\ b.evidence # None => b.receipt # None
  /\ SuccessfulState(b.state) =>
       /\ b.receipt # None
       /\ b.evidence # None
       /\ completed = Cardinality(Required)
  /\ ~SuccessfulState(b.state) => b.evidence = None
  /\ b.state = "recovered" => b.receipt # None

\* history::validate_step: everything a step has to satisfy.
ValidStep(h, b) ==
  LET introduces == CursorOf(h).receipt = None /\ b.receipt # None
  IN  /\ ValidBody(b)
      /\ ValidAdvance(h, b)
      /\ b.kind # "none" => ValidEvent(h, b)
      /\ b.kind \in {"none", "intent"} => ~b.fact
      /\ introduces /\ b.kind # "none" =>
           b.kind = "completed" /\ KindOf[b.effect] = "seal_receipt"
      /\ introduces /\ SuccessfulState(b.state) => b.kind # "none"
      /\ ValidResolution(b, Cardinality(CompletionEvents(Append(h, b))))

(***************************************************************************)
(* The snapshot validator, application_journal_record::make: the events    *)
(* replayed from nothing, and the resolution judged from the resulting     *)
(* progress of every effect instead of from a counter.                     *)
(***************************************************************************)
SnapshotEventsValid(h) ==
  \A i \in DOMAIN h : h[i].kind # "none" =>
    LET earlier(kinds) ==
          \E j \in 1 .. i - 1 : h[j].effect = h[i].effect /\ h[j].kind \in kinds
    IN  /\ h[i].effect \in Effects
        /\ IF h[i].kind = "intent" THEN ~earlier(EventKind)
           ELSE earlier({"intent"}) /\ ~earlier(TerminalKind)

SnapshotResolutionValid(h) ==
  LET c == CursorOf(h)
  IN  /\ c.evidence # None => c.receipt # None
      /\ SuccessfulState(c.state) =>
           /\ c.receipt # None
           /\ c.evidence # None
           /\ \A e \in Required : Intended(h, e) /\ Completed(h, e)
      /\ ~SuccessfulState(c.state) => c.evidence = None
      /\ c.state = "recovered" => c.receipt # None

SnapshotValid(h) == SnapshotEventsValid(h) /\ SnapshotResolutionValid(h)

=============================================================================

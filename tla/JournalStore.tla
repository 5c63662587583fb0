---------------------------- MODULE JournalStore ----------------------------
(***************************************************************************)
(* The declaration/step/cursor protocol over one durable journal store.    *)
(*                                                                         *)
(* Sessions are the in-process users of the journal: the engine that       *)
(* creates it, engines that reopen it for restart, and controllers that    *)
(* rehydrate it to classify an interrupted attempt.  A session calls the   *)
(* store one primitive at a time; any number of sessions interleave, and   *)
(* each may die between two primitives.  A session that throws loses its   *)
(* memory, which is what a crash does to it too.                           *)
(***************************************************************************)
EXTENDS JournalHistory

CONSTANTS Sessions,   \* users of the journal
          Bodies,     \* step contents the sessions try to append
          MaxSteps    \* bound on the length of the history

ASSUME BodiesAssumption == Bodies \subseteq Body
ASSUME MaxStepsAssumption == MaxSteps \in Nat

VARIABLES declared,   \* store: the immutable declaration is durable
          steps,      \* store: steps[n] is the durable step n, or None
          cursor,     \* store: the durable cursor, or None
          pc,         \* session: where it is in a protocol operation
          mem,        \* session: the history it holds in memory
          snap,       \* session: the cursor its load started from
          pending     \* session: content of the step it is committing

store == <<declared, steps, cursor>>
vars == <<declared, steps, cursor, pc, mem, snap, pending>>

Histories == Seq(Bodies)
Cursor ==
  [step_count : Nat, latest_step : Histories, state : JournalState,
   receipt : Receipts \cup {None}, evidence : Evidences \cup {None}]
Step == [sequence : Nat, predecessor : Histories, body : Bodies]

\* An absent optional is none of the records the store keeps.
ASSUME NoneIsNoRecord == None \notin Step \cup Cursor \cup Body

PCs == {"closed", "declared", "open", "validated", "published",
        "load_cursor", "seed", "replay", "adopt"}

\* Slip: a step that does not name its predecessor.
StepUnchained(h, b) == [sequence |-> Len(h), predecessor |-> None, body |-> b]

\* application_journal_step::make with the cursor of h as predecessor.
StepAfter(h, b) == [sequence |-> Len(h), predecessor |-> h, body |-> b]

\* Does step p extend history h?
ExactSuccessor(h, p) ==
  /\ p.sequence = Len(h)
  /\ p.predecessor = h
  /\ ValidStep(h, p.body)

Init ==
  /\ declared = FALSE
  /\ steps = [n \in 0 .. MaxSteps |-> None]
  /\ cursor = None
  /\ pc = [s \in Sessions |-> "closed"]
  /\ mem = [s \in Sessions |-> << >>]
  /\ snap = [s \in Sessions |-> None]
  /\ pending = [s \in Sessions |-> None]

----------------------------------------------------------------------------
\* The memory of a session that throws, crashes or is destroyed.
Discard(s) ==
  /\ pc' = [pc EXCEPT ![s] = "closed"]
  /\ mem' = [mem EXCEPT ![s] = << >>]
  /\ snap' = [snap EXCEPT ![s] = None]
  /\ pending' = [pending EXCEPT ![s] = None]

Crash(s) ==
  /\ pc[s] # "closed"
  /\ Discard(s)
  /\ UNCHANGED store

\* Slip: a cursor is published without comparing.
CursorUnchecked(expected) == TRUE

\* The exact compare-and-publish of the store, as a success or a throw.
CursorMatches(expected) == cursor = expected

\* publish_initial_journal: declare, then publish the initial cursor.
PublishDeclaration(s) ==
  /\ pc[s] = "closed"
  /\ ~declared
  /\ declared' = TRUE
  /\ pc' = [pc EXCEPT ![s] = "declared"]
  /\ UNCHANGED <<steps, cursor, mem, snap, pending>>

PublishInitialCursor(s) ==
  /\ pc[s] = "declared"
  /\ UNCHANGED <<declared, steps>>
  /\ \/ /\ CursorMatches(None)
        /\ cursor' = InitialCursor
        /\ pc' = [pc EXCEPT ![s] = "open"]
        /\ UNCHANGED <<mem, snap, pending>>
     \/ /\ ~CursorMatches(None)
        /\ Discard(s)
        /\ UNCHANGED cursor

----------------------------------------------------------------------------
\* Slip: the in-memory head moves before the step is durable.
ValidateAndAdvance(s, b) ==
  /\ pc[s] = "open"
  /\ Len(mem[s]) < MaxSteps
  /\ ValidStep(mem[s], b)
  /\ pending' = [pending EXCEPT ![s] = b]
  /\ mem' = [mem EXCEPT ![s] = Append(mem[s], b)]
  /\ pc' = [pc EXCEPT ![s] = "validated"]
  /\ UNCHANGED <<declared, steps, cursor, snap>>

\* append_journal_step: validate without advancing the in-memory head, ...
ValidateStep(s, b) ==
  /\ pc[s] = "open"
  /\ Len(mem[s]) < MaxSteps
  /\ ValidStep(mem[s], b)
  /\ pending' = [pending EXCEPT ![s] = b]
  /\ pc' = [pc EXCEPT ![s] = "validated"]
  /\ UNCHANGED <<declared, steps, cursor, mem, snap>>

\* Slip: a step already published at the sequence is replaced.
PublishStepOverwriting(s) ==
  /\ pc[s] = "validated"
  /\ steps' = [steps EXCEPT ![Len(mem[s])] = StepAfter(mem[s], pending[s])]
  /\ pc' = [pc EXCEPT ![s] = "published"]
  /\ UNCHANGED <<declared, cursor, mem, snap, pending>>

\* ... publish the immutable step (a different step there is a conflict), ...
PublishStep(s) ==
  LET p == StepAfter(mem[s], pending[s])
      n == Len(mem[s])
  IN  /\ pc[s] = "validated"
      /\ UNCHANGED <<declared, cursor>>
      /\ \/ /\ steps[n] \in {None, p}
            /\ steps' = [steps EXCEPT ![n] = p]
            /\ pc' = [pc EXCEPT ![s] = "published"]
            /\ UNCHANGED <<mem, snap, pending>>
         \/ /\ steps[n] \notin {None, p}
            /\ Discard(s)
            /\ UNCHANGED steps

\* ... and advance cursor and memory together with an exact compare.
AdvanceCursor(s) ==
  LET h == Append(mem[s], pending[s])
  IN  /\ pc[s] = "published"
      /\ UNCHANGED <<declared, steps>>
      /\ \/ /\ CursorMatches(CursorOf(mem[s]))
            /\ cursor' = CursorOf(h)
            /\ mem' = [mem EXCEPT ![s] = h]
            /\ pc' = [pc EXCEPT ![s] = "open"]
            /\ pending' = [pending EXCEPT ![s] = None]
            /\ UNCHANGED snap
         \/ /\ ~CursorMatches(CursorOf(mem[s]))
            /\ Discard(s)
            /\ UNCHANGED cursor

----------------------------------------------------------------------------
\* application_journal_history::load, one store primitive at a time.
LoadDeclaration(s) ==
  /\ pc[s] = "closed"
  /\ declared
  /\ pc' = [pc EXCEPT ![s] = "load_cursor"]
  /\ UNCHANGED <<declared, steps, cursor, mem, snap, pending>>

LoadCursor(s) ==
  /\ pc[s] = "load_cursor"
  /\ snap' = [snap EXCEPT ![s] = cursor]
  /\ pc' = [pc EXCEPT ![s] = IF cursor = None THEN "seed" ELSE "replay"]
  /\ UNCHANGED <<declared, steps, cursor, mem, pending>>

SeedCursor(s) ==
  /\ pc[s] = "seed"
  /\ UNCHANGED <<declared, steps>>
  /\ \/ /\ CursorMatches(None)
        /\ cursor' = InitialCursor
        /\ snap' = [snap EXCEPT ![s] = InitialCursor]
        /\ pc' = [pc EXCEPT ![s] = "replay"]
        /\ UNCHANGED <<mem, pending>>
     \/ /\ ~CursorMatches(None)
        /\ Discard(s)
        /\ UNCHANGED cursor

\* A committed step that is missing or does not extend the history throws.
LoadStep(s) ==
  LET p == steps[Len(mem[s])]
  IN  /\ pc[s] = "replay"
      /\ Len(mem[s]) < snap[s].step_count
      /\ UNCHANGED store
      /\ \/ /\ p # None /\ ExactSuccessor(mem[s], p)
            /\ mem' = [mem EXCEPT ![s] = Append(mem[s], p.body)]
            /\ UNCHANGED <<pc, snap, pending>>
         \/ /\ p = None \/ ~ExactSuccessor(mem[s], p)
            /\ Discard(s)

\* The one permitted probe, at exactly cursor.step_count().
ProbeSuccessor(s) ==
  LET p == steps[snap[s].step_count]
      replayed == CursorOf(mem[s]) = snap[s]
  IN  /\ pc[s] = "replay"
      /\ Len(mem[s]) = snap[s].step_count
      /\ UNCHANGED store
      /\ \/ /\ replayed /\ p = None
            /\ pc' = [pc EXCEPT ![s] = "open"]
            /\ snap' = [snap EXCEPT ![s] = None]
            /\ UNCHANGED <<mem, pending>>
         \/ /\ replayed /\ p # None /\ ExactSuccessor(mem[s], p)
            /\ pc' = [pc EXCEPT ![s] = "adopt"]
            /\ pending' = [pending EXCEPT ![s] = p.body]
            /\ UNCHANGED <<mem, snap>>
         \/ /\ ~replayed \/ (p # None /\ ~ExactSuccessor(mem[s], p))
            /\ Discard(s)

\* A valid orphan advances the head by exact compare-and-publish.
AdoptSuccessor(s) ==
  LET h == Append(mem[s], pending[s])
  IN  /\ pc[s] = "adopt"
      /\ UNCHANGED <<declared, steps>>
      /\ \/ /\ CursorMatches(snap[s])
            /\ cursor' = CursorOf(h)
            /\ mem' = [mem EXCEPT ![s] = h]
            /\ pc' = [pc EXCEPT ![s] = "open"]
            /\ snap' = [snap EXCEPT ![s] = None]
            /\ pending' = [pending EXCEPT ![s] = None]
         \/ /\ ~CursorMatches(snap[s])
            /\ Discard(s)
            /\ UNCHANGED cursor

----------------------------------------------------------------------------
Next ==
  \E s \in Sessions :
    \/ PublishDeclaration(s) \/ PublishInitialCursor(s)
    \/ \E b \in Bodies : ValidateStep(s, b)
    \/ PublishStep(s) \/ AdvanceCursor(s)
    \/ LoadDeclaration(s) \/ LoadCursor(s) \/ SeedCursor(s)
    \/ LoadStep(s) \/ ProbeSuccessor(s) \/ AdoptSuccessor(s)
    \/ Crash(s)

Spec == Init /\ [][Next]_vars

----------------------------------------------------------------------------
\* The committed history: the one the durable cursor names.
Committed == IF cursor = None THEN << >> ELSE cursor.latest_step

IsPrefixOf(g, h) ==
  Len(g) <= Len(h) /\ \A i \in 1 .. Len(g) : g[i] = h[i]

\* Every variable keeps the shape of the C++ object it stands for: optional
\* declaration, step and cursor in the store, protocol position, history,
\* loaded cursor and pending step content in a session.
TypeOK ==
  /\ declared \in BOOLEAN
  /\ steps \in [0 .. MaxSteps -> Step \cup {None}]
  /\ cursor \in Cursor \cup {None}
  /\ pc \in [Sessions -> PCs]
  /\ mem \in [Sessions -> Histories]
  /\ snap \in [Sessions -> Cursor \cup {None}]
  /\ pending \in [Sessions -> Bodies \cup {None}]

\* The append protocol leaves at most one durable step beyond the cursor, and
\* that step is a valid successor of the committed history; the steps before
\* the cursor are exactly the committed history, chained by predecessor.  This
\* is what lets application_journal_history::load probe one sequence only.
SpineIntact ==
  \A n \in 0 .. MaxSteps :
    /\ n < Len(Committed) =>
         /\ steps[n] # None
         /\ Len(steps[n].predecessor) = n
         /\ IsPrefixOf(steps[n].predecessor, Committed)
         /\ ExactSuccessor(steps[n].predecessor, steps[n])
         /\ steps[n].body = Committed[n + 1]
    /\ n = Len(Committed) /\ steps[n] # None =>
         cursor # None /\ ExactSuccessor(Committed, steps[n])
    /\ n > Len(Committed) => steps[n] = None

\* No session, however stale, holds a history that the committed one does not
\* extend: the engine advances its memory only after the cursor (comment at
\* append_journal_step), so no transition looks committed that is not.
SessionsHoldPrefixes ==
  \A s \in Sessions : IsPrefixOf(mem[s], Committed)

\* A history committed through the incremental validator always satisfies the
\* snapshot validator, so history::snapshot() never throws on one.
CommittedSnapshotValid == SnapshotValid(Committed)

\* Rehydration fails closed on a missing, foreign or malformed step or on a
\* cursor that disagrees with the steps; no crash, interleaving or orphan of
\* the protocol itself ever brings a load into those branches.
RehydrationFindsExactHistory ==
  \A s \in Sessions : pc[s] = "replay" =>
    LET p == steps[Len(mem[s])]
    IN  /\ Len(mem[s]) < snap[s].step_count =>
             p # None /\ ExactSuccessor(mem[s], p)
        /\ Len(mem[s]) = snap[s].step_count =>
             /\ CursorOf(mem[s]) = snap[s]
             /\ p # None => ExactSuccessor(mem[s], p)

\* Receipt and completed evidence, once behind the durable cursor, are never
\* replaced or withdrawn by any session, and the journal never shrinks.
AuthorityRetained ==
  [][cursor # None =>
       /\ cursor' # None
       /\ cursor'.step_count >= cursor.step_count
       /\ cursor.receipt # None => cursor'.receipt = cursor.receipt
       /\ cursor.evidence # None => cursor'.evidence = cursor.evidence]_cursor

\* What the sessions' protocol positions guarantee: the strengthening that
\* makes SpineIntact and SessionsHoldPrefixes inductive.
LiveSession == {"open", "validated", "published", "replay", "adopt"}

CursorDetermined ==
  /\ cursor # None => cursor = CursorOf(Committed)
  /\ Len(Committed) <= MaxSteps
  /\ steps[MaxSteps] = None

SessionPositioned(s) ==
    /\ pc[s] # "closed" => declared
    /\ pc[s] \in LiveSession => cursor # None
    /\ pc[s] \in {"replay", "adopt"} =>
         /\ snap[s] # None
         /\ snap[s] = CursorOf(snap[s].latest_step)
         /\ IsPrefixOf(snap[s].latest_step, Committed)
         /\ IsPrefixOf(mem[s], snap[s].latest_step)
    /\ pc[s] = "adopt" => snap[s] = CursorOf(mem[s])
    /\ pc[s] \in {"validated", "published", "adopt"} =>
         /\ pending[s] \in Bodies
         /\ ValidStep(mem[s], pending[s])
         /\ Len(mem[s]) < MaxSteps
    /\ pc[s] \in {"published", "adopt"} =>
         steps[Len(mem[s])] = StepAfter(mem[s], pending[s])

SessionsPositioned == \A s \in Sessions : SessionPositioned(s)

\* The inductive invariant: type, spine, prefixes and protocol positions.
\* A session can commit or adopt only because all of them hold together.
ProtocolInvariant ==
  /\ TypeOK
  /\ CursorDetermined
  /\ SpineIntact
  /\ SessionsHoldPrefixes
  /\ SessionsPositioned

\* The protocol implements one append-only log whatever sessions do.
Abstract ==
  INSTANCE AppendOnlyJournal
    WITH Accepts <- ValidStep, declared <- cursor # None, log <- Committed
ImplementsAppendOnlyJournal == Abstract!ASpec

=============================================================================

------------------------- MODULE JournalStoreProofs -------------------------
(***************************************************************************)
(* Proofs about the declaration/step/cursor protocol, for any number of    *)
(* sessions, any declared effects and any bound on the history.            *)
(***************************************************************************)
EXTENDS JournalStore, FiniteSetTheorems, TLAPS

(***************************************************************************)
(* Facts about histories and cursors.                                      *)
(***************************************************************************)

\* The cursor of a history is a cursor and names that history as its head
\* (application_journal_cursor::initial and ::advance).
LEMMA CursorOfHistory ==
  ASSUME NEW h \in Histories
  PROVE  /\ CursorOf(h) \in Cursor
         /\ CursorOf(h).latest_step = h
         /\ CursorOf(h).step_count = Len(h)
<1>1. CASE h = << >>
  BY <1>1 DEF CursorOf, InitialCursor, Cursor, Histories, JournalState
<1>2. CASE h # << >>
  <2>1. Len(h) \in Nat /\ Len(h) # 0 /\ h[Len(h)] \in Bodies
    BY <1>2 DEF Histories
  <2> QED  BY <1>2, <2>1, BodiesAssumption DEF CursorOf, Cursor, Body
<1> QED  BY <1>1, <1>2

\* Two histories with the same cursor are the same history.
LEMMA CursorInjective ==
  ASSUME NEW g \in Histories, NEW h \in Histories, CursorOf(g) = CursorOf(h)
  PROVE  g = h
BY CursorOfHistory

\* Appending a step content gives the history one longer.
LEMMA AppendHistory ==
  ASSUME NEW h \in Histories, NEW b \in Bodies
  PROVE  /\ Append(h, b) \in Histories
         /\ Len(Append(h, b)) = Len(h) + 1
         /\ \A i \in 1 .. Len(h) : Append(h, b)[i] = h[i]
         /\ Append(h, b)[Len(h) + 1] = b
         /\ IsPrefixOf(h, Append(h, b))
BY DEF Histories, IsPrefixOf

\* Being a prefix is transitive, and a prefix of the same length is equal.
LEMMA PrefixTransitive ==
  ASSUME NEW f \in Histories, NEW g \in Histories, NEW h \in Histories,
         IsPrefixOf(f, g), IsPrefixOf(g, h)
  PROVE  IsPrefixOf(f, h)
BY DEF Histories, IsPrefixOf

\* A prefix as long as the whole is the whole.
LEMMA PrefixOfSameLength ==
  ASSUME NEW g \in Histories, NEW h \in Histories,
         IsPrefixOf(g, h), Len(g) = Len(h)
  PROVE  g = h
BY DEF Histories, IsPrefixOf

\* The first cursor names the empty history.
LEMMA InitialCursorType == InitialCursor \in Cursor /\ InitialCursor # None
<1>1. << >> \in Histories /\ CursorOf(<< >>) = InitialCursor
  BY DEF CursorOf, Histories
<1> QED  BY <1>1, CursorOfHistory, NoneIsNoRecord

\* The step made after a history is a step, and no absent optional.
LEMMA StepAfterType ==
  ASSUME NEW h \in Histories, NEW b \in Bodies
  PROVE  StepAfter(h, b) \in Step /\ StepAfter(h, b) # None
BY NoneIsNoRecord DEF StepAfter, Step, Histories

(***************************************************************************)
(* The protocol keeps its invariant.                                       *)
(***************************************************************************)

\* An empty store with closed sessions satisfies the protocol invariant.
LEMMA InitProtocol == Init => ProtocolInvariant
<1> SUFFICES ASSUME Init PROVE ProtocolInvariant  OBVIOUS
<1>0. << >> \in Histories /\ Len(<< >>) = 0  BY DEF Histories
<1>1. TypeOK  BY <1>0 DEF Init, TypeOK, PCs
<1>2. Committed = << >>  BY DEF Init, Committed
<1>3. CursorDetermined
  BY <1>0, <1>2, MaxStepsAssumption DEF Init, CursorDetermined
<1>4. SpineIntact  BY <1>0, <1>2, MaxStepsAssumption DEF Init, SpineIntact
<1>5. SessionsHoldPrefixes
  BY <1>0, <1>2 DEF Init, SessionsHoldPrefixes, IsPrefixOf
<1>6. SessionsPositioned  BY DEF Init, SessionsPositioned, SessionPositioned, LiveSession
<1> QED  BY <1>1, <1>3, <1>4, <1>5, <1>6 DEF ProtocolInvariant

\* The committed history is a history.
LEMMA CommittedType ==
  ASSUME TypeOK PROVE Committed \in Histories /\ Len(Committed) \in Nat
BY DEF TypeOK, Committed, Cursor, Histories

\* What every step does to the store: the cursor stays, the committed history
\* only gets longer, and a durable step is never replaced.
StoreGrows ==
  /\ declared => declared'
  /\ cursor # None => cursor' # None
  /\ IsPrefixOf(Committed, Committed')
  /\ \A n \in 0 .. MaxSteps : steps[n] # None => steps'[n] = steps[n]

\* The memory of session t is left alone.
Idle(t) ==
  /\ pc'[t] = pc[t] /\ mem'[t] = mem[t]
  /\ snap'[t] = snap[t] /\ pending'[t] = pending[t]

\* A session that does not move stays well positioned while the store grows.
LEMMA IdleSession ==
  ASSUME ProtocolInvariant, TypeOK', StoreGrows,
         NEW t \in Sessions, Idle(t)
  PROVE  SessionPositioned(t)' /\ IsPrefixOf(mem[t], Committed)'
<1>1. /\ Committed \in Histories /\ Committed' \in Histories
      /\ mem[t] \in Histories /\ Len(mem[t]) \in Nat
      /\ MaxSteps \in Nat
      /\ snap[t] \in Cursor \cup {None}
  BY CommittedType, MaxStepsAssumption
     DEF ProtocolInvariant, TypeOK, Committed, Cursor, Histories
<1>2. IsPrefixOf(mem[t], Committed)'
  BY <1>1, PrefixTransitive
     DEF ProtocolInvariant, SessionsHoldPrefixes, StoreGrows, Idle, IsPrefixOf
<1>3. SessionPositioned(t)
  BY DEF ProtocolInvariant, SessionsPositioned
<1>4. ASSUME pc[t] \in {"replay", "adopt"}
      PROVE  IsPrefixOf(snap[t].latest_step, Committed')
  <2>1. snap[t].latest_step \in Histories
    BY <1>1, <1>3, <1>4 DEF SessionPositioned, Cursor
  <2> QED  BY <1>1, <1>3, <1>4, <2>1, PrefixTransitive
              DEF SessionPositioned, StoreGrows
<1>5. ASSUME pc[t] \in {"published", "adopt"}
      PROVE  steps'[Len(mem[t])] = StepAfter(mem[t], pending[t])
  <2>1. /\ pending[t] \in Bodies /\ Len(mem[t]) \in 0 .. MaxSteps
        /\ steps[Len(mem[t])] = StepAfter(mem[t], pending[t])
    BY <1>1, <1>3, <1>5 DEF SessionPositioned
  <2> QED  BY <1>1, <2>1, StepAfterType DEF StoreGrows
<1>6. SessionPositioned(t)'
  BY <1>3, <1>4, <1>5 DEF SessionPositioned, Idle, StoreGrows, IsPrefixOf
<1> QED  BY <1>2, <1>6

\* A session that throws or crashes leaves the invariant alone.
LEMMA DiscardStep ==
  ASSUME ProtocolInvariant, NEW s \in Sessions, Discard(s), UNCHANGED store
  PROVE  ProtocolInvariant'
<1>0. << >> \in Histories /\ Len(<< >>) = 0  BY DEF Histories
<1>1. TypeOK'
  BY <1>0 DEF ProtocolInvariant, TypeOK, Discard, store, PCs
<1>2. Committed' = Committed /\ Committed \in Histories
  BY CommittedType DEF ProtocolInvariant, Committed, store
<1>3. StoreGrows
  BY <1>2 DEF StoreGrows, store, IsPrefixOf, Histories
<1>4. CursorDetermined' /\ SpineIntact'
  BY <1>2 DEF ProtocolInvariant, CursorDetermined, SpineIntact, store
<1>5. /\ pc'[s] = "closed" /\ mem'[s] = << >>
      /\ \A t \in Sessions : t # s => Idle(t)
  BY DEF ProtocolInvariant, TypeOK, Discard, Idle
<1>6. SessionPositioned(s)' /\ IsPrefixOf(mem[s], Committed)'
  BY <1>0, <1>2, <1>5 DEF SessionPositioned, LiveSession, IsPrefixOf, Histories
<1>7. SessionsPositioned' /\ SessionsHoldPrefixes'
  BY <1>1, <1>3, <1>5, <1>6, IdleSession
     DEF SessionsPositioned, SessionsHoldPrefixes
<1> QED  BY <1>1, <1>4, <1>7 DEF ProtocolInvariant

\* Only session s moves, and the store is left alone.
LEMMA SessionStep ==
  ASSUME ProtocolInvariant, TypeOK', UNCHANGED store,
         NEW s \in Sessions, \A t \in Sessions : t # s => Idle(t),
         SessionPositioned(s)', IsPrefixOf(mem[s], Committed)'
  PROVE  ProtocolInvariant'
<1>2. Committed' = Committed /\ Committed \in Histories
  BY CommittedType DEF ProtocolInvariant, Committed, store
<1>3. StoreGrows  BY <1>2 DEF StoreGrows, store, IsPrefixOf, Histories
<1>4. CursorDetermined' /\ SpineIntact'
  BY <1>2 DEF ProtocolInvariant, CursorDetermined, SpineIntact, store
<1>5. SessionsPositioned' /\ SessionsHoldPrefixes'
  BY <1>3, IdleSession DEF SessionsPositioned, SessionsHoldPrefixes
<1> QED  BY <1>4, <1>5 DEF ProtocolInvariant

\* Publishing the declaration disturbs nobody.
LEMMA PublishDeclarationStep ==
  ASSUME ProtocolInvariant, NEW s \in Sessions, PublishDeclaration(s)
  PROVE  ProtocolInvariant'
<1>1. TypeOK'  BY DEF ProtocolInvariant, TypeOK, PublishDeclaration, PCs
<1>2. /\ Committed' = Committed /\ cursor' = cursor /\ steps' = steps
      /\ Committed \in Histories
  BY CommittedType DEF ProtocolInvariant, Committed, PublishDeclaration
<1>3. StoreGrows  BY <1>2 DEF StoreGrows, IsPrefixOf, Histories, PublishDeclaration
<1>4. CursorDetermined' /\ SpineIntact'
  BY <1>2 DEF ProtocolInvariant, CursorDetermined, SpineIntact, PublishDeclaration
<1>5. \A t \in Sessions : t # s => Idle(t)
  BY DEF ProtocolInvariant, TypeOK, PublishDeclaration, Idle
<1>6. SessionPositioned(s)' /\ IsPrefixOf(mem[s], Committed)'
  BY <1>2 DEF ProtocolInvariant, TypeOK, PublishDeclaration, SessionPositioned,
     LiveSession, SessionsHoldPrefixes, IsPrefixOf
<1> QED  BY <1>1, <1>3, <1>4, <1>5, <1>6, IdleSession
           DEF ProtocolInvariant, SessionsPositioned, SessionsHoldPrefixes

\* The first cursor opens an empty history: before it no session is live and
\* no step is durable.
LEMMA FirstCursor ==
  ASSUME ProtocolInvariant, TypeOK', NEW s \in Sessions,
         cursor = None, declared, cursor' = InitialCursor,
         UNCHANGED <<declared, steps>>,
         \A t \in Sessions : t # s => Idle(t),
         mem'[s] = mem[s],
         \/ pc'[s] = "open"
         \/ pc'[s] = "replay" /\ snap'[s] = InitialCursor
  PROVE  ProtocolInvariant'
<1>0. << >> \in Histories /\ Len(<< >>) = 0  BY DEF Histories
<1>1. CursorOf(<< >>) = InitialCursor /\ InitialCursor \in Cursor
  BY <1>0, CursorOfHistory DEF CursorOf
<1>2. InitialCursor # None /\ InitialCursor.latest_step = << >>
  BY <1>1, NoneIsNoRecord DEF InitialCursor
<1>3. Committed = << >> /\ Committed' = << >>
  BY <1>2 DEF Committed
<1>4. StoreGrows  BY <1>0, <1>3 DEF StoreGrows, IsPrefixOf
<1>5. CursorDetermined'
  BY <1>0, <1>1, <1>3, MaxStepsAssumption
     DEF ProtocolInvariant, CursorDetermined
<1>6. SpineIntact'
  BY <1>0, <1>2, <1>3, MaxStepsAssumption DEF ProtocolInvariant, SpineIntact
<1>7. mem[s] = << >>
  BY <1>0, <1>3, PrefixOfSameLength
     DEF ProtocolInvariant, SessionsHoldPrefixes, TypeOK, IsPrefixOf, Histories
<1>8. IsPrefixOf(mem[s], Committed)'
  BY <1>0, <1>3, <1>7 DEF IsPrefixOf
<1>9. SessionPositioned(s)'
  BY <1>0, <1>1, <1>2, <1>3, <1>7, <1>8
     DEF SessionPositioned, LiveSession, IsPrefixOf
<1> QED  BY <1>4, <1>5, <1>6, <1>8, <1>9, IdleSession
           DEF ProtocolInvariant, SessionsPositioned, SessionsHoldPrefixes

\* The creator of a journal publishes its first cursor.
LEMMA PublishInitialCursorStep ==
  ASSUME ProtocolInvariant, NEW s \in Sessions, PublishInitialCursor(s)
  PROVE  ProtocolInvariant'
<1>1. CASE CursorMatches(None) /\ cursor' = InitialCursor
             /\ pc' = [pc EXCEPT ![s] = "open"] /\ UNCHANGED <<mem, snap, pending>>
  <2>1. TypeOK'
    BY <1>1, InitialCursorType DEF ProtocolInvariant, TypeOK, PublishInitialCursor, PCs
  <2>2. /\ \A t \in Sessions : t # s => Idle(t)
        /\ pc'[s] = "open" /\ mem'[s] = mem[s]
    BY <1>1 DEF ProtocolInvariant, TypeOK, Idle
  <2>3. declared
    BY DEF PublishInitialCursor, ProtocolInvariant, SessionsPositioned,
           SessionPositioned
  <2> QED  BY <1>1, <2>1, <2>2, <2>3, FirstCursor
              DEF PublishInitialCursor, CursorMatches
<1>2. CASE Discard(s) /\ UNCHANGED cursor
  BY <1>2, DiscardStep DEF PublishInitialCursor, store
<1> QED  BY <1>1, <1>2 DEF PublishInitialCursor

\* A load publishes the first cursor of a journal that has none.
LEMMA SeedCursorStep ==
  ASSUME ProtocolInvariant, NEW s \in Sessions, SeedCursor(s)
  PROVE  ProtocolInvariant'
<1>1. CASE /\ CursorMatches(None) /\ cursor' = InitialCursor
           /\ snap' = [snap EXCEPT ![s] = InitialCursor]
           /\ pc' = [pc EXCEPT ![s] = "replay"] /\ UNCHANGED <<mem, pending>>
  <2>1. TypeOK'
    BY <1>1, InitialCursorType
       DEF ProtocolInvariant, TypeOK, SeedCursor, PCs
  <2>2. /\ \A t \in Sessions : t # s => Idle(t)
        /\ pc'[s] = "replay" /\ snap'[s] = InitialCursor /\ mem'[s] = mem[s]
    BY <1>1 DEF ProtocolInvariant, TypeOK, Idle
  <2>3. declared
    BY DEF SeedCursor, ProtocolInvariant, SessionsPositioned, SessionPositioned
  <2> QED  BY <1>1, <2>1, <2>2, <2>3, FirstCursor DEF SeedCursor, CursorMatches
<1>2. CASE Discard(s) /\ UNCHANGED cursor
  BY <1>2, DiscardStep DEF SeedCursor, store
<1> QED  BY <1>1, <1>2 DEF SeedCursor

\* Validating reads only the session's own history.
LEMMA ValidateStepStep ==
  ASSUME ProtocolInvariant, NEW s \in Sessions, NEW b \in Bodies,
         ValidateStep(s, b)
  PROVE  ProtocolInvariant'
<1>0. b \in Bodies  OBVIOUS
<1>1. TypeOK'
  BY <1>0 DEF ProtocolInvariant, TypeOK, ValidateStep, PCs
<1>2. /\ \A t \in Sessions : t # s => Idle(t)
      /\ pc'[s] = "validated" /\ mem'[s] = mem[s] /\ pending'[s] = b
      /\ UNCHANGED store
  BY DEF ProtocolInvariant, TypeOK, ValidateStep, Idle, store
<1>3. Committed' = Committed  BY <1>2 DEF store, Committed
<1>4. SessionPositioned(s) /\ IsPrefixOf(mem[s], Committed)
  BY DEF ProtocolInvariant, SessionsPositioned, SessionsHoldPrefixes
<1>5. SessionPositioned(s)'
  BY <1>0, <1>2, <1>4
     DEF ValidateStep, SessionPositioned, LiveSession, store
<1>6. IsPrefixOf(mem[s], Committed)'  BY <1>2, <1>3, <1>4 DEF IsPrefixOf
<1> QED  BY <1>1, <1>2, <1>5, <1>6, SessionStep

\* Publishing either finds the same step or extends the spine by one: a free
\* slot at the length of a prefix of the committed history is its successor.
LEMMA PublishStepStep ==
  ASSUME ProtocolInvariant, NEW s \in Sessions, PublishStep(s)
  PROVE  ProtocolInvariant'
<1> DEFINE n == Len(mem[s])
           p == StepAfter(mem[s], pending[s])
<1>1. CASE /\ steps[n] \in {None, p} /\ steps' = [steps EXCEPT ![n] = p]
           /\ pc' = [pc EXCEPT ![s] = "published"]
           /\ UNCHANGED <<mem, snap, pending>>
  <2>1. /\ SessionPositioned(s) /\ IsPrefixOf(mem[s], Committed)
        /\ pc[s] = "validated"
    BY DEF ProtocolInvariant, SessionsPositioned, SessionsHoldPrefixes,
           PublishStep
  <2>2. /\ pending[s] \in Bodies /\ ValidStep(mem[s], pending[s])
        /\ mem[s] \in Histories /\ n \in 0 .. MaxSteps /\ n < MaxSteps
        /\ Committed \in Histories /\ cursor # None
    BY <2>1, CommittedType, MaxStepsAssumption
       DEF SessionPositioned, LiveSession, ProtocolInvariant, TypeOK, Histories
  <2>3. p \in Step /\ p # None  BY <2>2, StepAfterType
  <2>4. TypeOK'
    BY <1>1, <2>2, <2>3 DEF ProtocolInvariant, TypeOK, PublishStep, PCs
  <2>5. Committed' = Committed /\ cursor' = cursor /\ declared' = declared
    BY DEF PublishStep, Committed
  <2>6. steps'[n] = p /\ \A m \in 0 .. MaxSteps : m # n => steps'[m] = steps[m]
    BY <1>1, <2>2 DEF ProtocolInvariant, TypeOK
  <2>7. StoreGrows
    BY <1>1, <2>2, <2>5, <2>6 DEF StoreGrows, IsPrefixOf, Histories
  <2>8. CursorDetermined'
    BY <2>2, <2>5, <2>6, MaxStepsAssumption
       DEF ProtocolInvariant, CursorDetermined
  <2>9. SpineIntact'
    <3>1. CASE steps[n] = p
      <4>1. steps' = steps  BY <1>1, <2>2, <3>1 DEF ProtocolInvariant, TypeOK
      <4> QED  BY <2>5, <4>1 DEF ProtocolInvariant, SpineIntact
    <3>2. CASE steps[n] = None
      <4>1. n = Len(Committed)
        BY <2>1, <2>2, <3>2
           DEF ProtocolInvariant, SpineIntact, IsPrefixOf, Histories
      <4>2. mem[s] = Committed  BY <2>1, <2>2, <4>1, PrefixOfSameLength
      <4>3. ExactSuccessor(Committed, p)
        BY <2>2, <4>2 DEF ExactSuccessor, StepAfter
      <4> QED
        BY <2>2, <2>5, <2>6, <4>1, <4>3 DEF ProtocolInvariant, SpineIntact
    <3> QED  BY <1>1, <3>1, <3>2
  <2>10. \A t \in Sessions : t # s => Idle(t)
    BY <1>1 DEF ProtocolInvariant, TypeOK, Idle
  <2>11. pc'[s] = "published"  BY <1>1 DEF ProtocolInvariant, TypeOK
  <2>12. SessionPositioned(s)' /\ IsPrefixOf(mem[s], Committed)'
    BY <1>1, <2>1, <2>2, <2>5, <2>6, <2>11
       DEF SessionPositioned, LiveSession
  <2> QED  BY <2>4, <2>7, <2>8, <2>9, <2>10, <2>12, IdleSession
              DEF ProtocolInvariant, SessionsPositioned, SessionsHoldPrefixes
<1>2. CASE Discard(s) /\ UNCHANGED steps
  BY <1>2, DiscardStep DEF PublishStep, store
<1> QED  BY <1>1, <1>2 DEF PublishStep

\* Moving the cursor over a durable valid successor keeps the spine: shared by
\* the append of an engine and by the adoption of an orphan.
LEMMA CommitSuccessor ==
  ASSUME ProtocolInvariant, TypeOK', NEW s \in Sessions,
         pc[s] \in {"published", "adopt"}, CursorMatches(CursorOf(mem[s])),
         cursor' = CursorOf(Append(mem[s], pending[s])),
         mem'[s] = Append(mem[s], pending[s]), pc'[s] = "open",
         UNCHANGED <<declared, steps>>,
         \A t \in Sessions : t # s => Idle(t)
  PROVE  ProtocolInvariant'
<1> DEFINE h == Append(mem[s], pending[s])
<1>1. SessionPositioned(s)  BY DEF ProtocolInvariant, SessionsPositioned
<1>2. /\ pending[s] \in Bodies /\ ValidStep(mem[s], pending[s])
      /\ mem[s] \in Histories /\ Len(mem[s]) \in Nat /\ MaxSteps \in Nat
      /\ Len(mem[s]) < MaxSteps /\ cursor # None /\ declared
      /\ steps[Len(mem[s])] = StepAfter(mem[s], pending[s])
      /\ Committed \in Histories
  BY <1>1, CommittedType, MaxStepsAssumption
     DEF SessionPositioned, LiveSession, ProtocolInvariant, TypeOK, Histories
<1>3. Committed = mem[s]
  BY <1>2, CursorInjective
     DEF ProtocolInvariant, CursorDetermined, CursorMatches
<1>4. /\ h \in Histories /\ Len(h) = Len(mem[s]) + 1
      /\ \A i \in 1 .. Len(mem[s]) : h[i] = mem[s][i]
      /\ h[Len(mem[s]) + 1] = pending[s]
      /\ IsPrefixOf(mem[s], h)
  BY <1>2, AppendHistory
<1>5. cursor' # None /\ Committed' = h
  BY <1>4, CursorOfHistory, NoneIsNoRecord DEF Committed
<1>6. StoreGrows  BY <1>2, <1>3, <1>4, <1>5 DEF StoreGrows
<1>7. CursorDetermined'
  BY <1>2, <1>4, <1>5 DEF ProtocolInvariant, CursorDetermined
<1>8. SpineIntact'
  <2> SUFFICES ASSUME NEW n \in 0 .. MaxSteps
               PROVE  /\ n < Len(h) =>
                           /\ steps[n] # None
                           /\ ExactSuccessor(steps[n].predecessor, steps[n])
                           /\ Len(steps[n].predecessor) = n
                           /\ IsPrefixOf(steps[n].predecessor, h)
                           /\ steps[n].body = h[n + 1]
                      /\ n >= Len(h) => steps[n] = None
    BY <1>4, <1>5 DEF SpineIntact
  <2>1. CASE n < Len(mem[s])
    <3>1. /\ steps[n] # None
          /\ ExactSuccessor(steps[n].predecessor, steps[n])
          /\ Len(steps[n].predecessor) = n
          /\ IsPrefixOf(steps[n].predecessor, mem[s])
          /\ steps[n].body = mem[s][n + 1]
      BY <1>2, <1>3, <2>1 DEF ProtocolInvariant, SpineIntact
    <3>2. steps[n].predecessor \in Histories
      BY <3>1 DEF ProtocolInvariant, TypeOK, Step
    <3> QED  BY <1>2, <1>4, <2>1, <3>1, <3>2, PrefixTransitive
  <2>2. CASE n = Len(mem[s])
    BY <1>2, <1>4, <2>2, StepAfterType DEF StepAfter, ExactSuccessor
  <2>3. CASE n > Len(mem[s])
    BY <1>2, <1>3, <1>4, <2>3 DEF ProtocolInvariant, SpineIntact
  <2> QED  BY <1>2, <2>1, <2>2, <2>3
<1>9. SessionPositioned(s)'
  BY <1>2, <1>5 DEF SessionPositioned, LiveSession
<1>10. IsPrefixOf(mem[s], Committed)'
  BY <1>4, <1>5 DEF IsPrefixOf, Histories
<1> QED  BY <1>6, <1>7, <1>8, <1>9, <1>10, IdleSession
           DEF ProtocolInvariant, SessionsPositioned, SessionsHoldPrefixes

\* The append ends with the exact successor of what the session remembers.
LEMMA AdvanceCursorStep ==
  ASSUME ProtocolInvariant, NEW s \in Sessions, AdvanceCursor(s)
  PROVE  ProtocolInvariant'
<1> DEFINE h == Append(mem[s], pending[s])
<1>1. CASE /\ CursorMatches(CursorOf(mem[s])) /\ cursor' = CursorOf(h)
           /\ mem' = [mem EXCEPT ![s] = h] /\ pc' = [pc EXCEPT ![s] = "open"]
           /\ pending' = [pending EXCEPT ![s] = None] /\ UNCHANGED snap
  <2>1. pending[s] \in Bodies /\ mem[s] \in Histories
    BY DEF AdvanceCursor, ProtocolInvariant, SessionsPositioned,
           SessionPositioned, TypeOK
  <2>2. h \in Histories /\ CursorOf(h) \in Cursor
    BY <2>1, AppendHistory, CursorOfHistory
  <2>3. TypeOK'
    BY <1>1, <2>2 DEF ProtocolInvariant, TypeOK, AdvanceCursor, PCs
  <2>4. /\ \A t \in Sessions : t # s => Idle(t)
        /\ pc'[s] = "open" /\ mem'[s] = h
    BY <1>1 DEF ProtocolInvariant, TypeOK, Idle
  <2> QED  BY <1>1, <2>3, <2>4, CommitSuccessor DEF AdvanceCursor
<1>2. CASE Discard(s) /\ UNCHANGED cursor
  BY <1>2, DiscardStep DEF AdvanceCursor, store
<1> QED  BY <1>1, <1>2 DEF AdvanceCursor

\* A load that adopts an orphan commits it as an append would have.
LEMMA AdoptSuccessorStep ==
  ASSUME ProtocolInvariant, NEW s \in Sessions, AdoptSuccessor(s)
  PROVE  ProtocolInvariant'
<1> DEFINE h == Append(mem[s], pending[s])
<1>1. CASE /\ CursorMatches(snap[s]) /\ cursor' = CursorOf(h)
           /\ mem' = [mem EXCEPT ![s] = h] /\ pc' = [pc EXCEPT ![s] = "open"]
           /\ snap' = [snap EXCEPT ![s] = None]
           /\ pending' = [pending EXCEPT ![s] = None]
  <2>1. /\ pending[s] \in Bodies /\ mem[s] \in Histories
        /\ snap[s] = CursorOf(mem[s])
    BY DEF AdoptSuccessor, ProtocolInvariant, SessionsPositioned,
           SessionPositioned, TypeOK
  <2>2. h \in Histories /\ CursorOf(h) \in Cursor
    BY <2>1, AppendHistory, CursorOfHistory
  <2>3. TypeOK'
    BY <1>1, <2>2 DEF ProtocolInvariant, TypeOK, AdoptSuccessor, PCs
  <2>4. /\ \A t \in Sessions : t # s => Idle(t)
        /\ pc'[s] = "open" /\ mem'[s] = h
    BY <1>1 DEF ProtocolInvariant, TypeOK, Idle
  <2> QED  BY <1>1, <2>1, <2>3, <2>4, CommitSuccessor DEF AdoptSuccessor
<1>2. CASE Discard(s) /\ UNCHANGED cursor
  BY <1>2, DiscardStep DEF AdoptSuccessor, store
<1> QED  BY <1>1, <1>2 DEF AdoptSuccessor

\* Reading the declaration changes only the position.
LEMMA LoadDeclarationStep ==
  ASSUME ProtocolInvariant, NEW s \in Sessions, LoadDeclaration(s)
  PROVE  ProtocolInvariant'
<1>1. TypeOK'  BY DEF ProtocolInvariant, TypeOK, LoadDeclaration, PCs
<1>2. /\ \A t \in Sessions : t # s => Idle(t)
      /\ pc'[s] = "load_cursor" /\ mem'[s] = mem[s] /\ UNCHANGED store
  BY DEF ProtocolInvariant, TypeOK, LoadDeclaration, Idle, store
<1>3. SessionPositioned(s)' /\ IsPrefixOf(mem[s], Committed)'
  BY <1>2 DEF SessionPositioned, LiveSession, LoadDeclaration, store,
     ProtocolInvariant, SessionsHoldPrefixes, IsPrefixOf, Committed
<1> QED  BY <1>1, <1>2, <1>3, SessionStep

\* The history a session holds before its load starts replaying is empty.
LEMMA LoadCursorStep ==
  ASSUME ProtocolInvariant, NEW s \in Sessions, LoadCursor(s)
  PROVE  ProtocolInvariant'
<1>1. TypeOK'  BY DEF ProtocolInvariant, TypeOK, LoadCursor, PCs
<1>2. /\ \A t \in Sessions : t # s => Idle(t)
      /\ pc'[s] = IF cursor = None THEN "seed" ELSE "replay"
      /\ mem'[s] = mem[s] /\ snap'[s] = cursor /\ UNCHANGED store
  BY DEF ProtocolInvariant, TypeOK, LoadCursor, Idle, store
<1>3. /\ SessionPositioned(s) /\ IsPrefixOf(mem[s], Committed)
      /\ Committed' = Committed /\ Committed \in Histories
  BY <1>2, CommittedType
     DEF ProtocolInvariant, SessionsPositioned, SessionsHoldPrefixes, store,
         Committed
<1>4. cursor # None => /\ cursor.latest_step = Committed
                       /\ cursor = CursorOf(Committed)
  BY DEF ProtocolInvariant, CursorDetermined, Committed
<1>5. SessionPositioned(s)'
  BY <1>2, <1>3, <1>4
     DEF SessionPositioned, LiveSession, LoadCursor, store, IsPrefixOf, Histories
<1>6. IsPrefixOf(mem[s], Committed)'  BY <1>2, <1>3 DEF IsPrefixOf
<1> QED  BY <1>1, <1>2, <1>5, <1>6, SessionStep

\* In a load, the step after a shorter prefix is the committed one: present,
\* chained to that very prefix, and valid after it.
LEMMA ReplayFindsSuccessor ==
  ASSUME ProtocolInvariant, NEW s \in Sessions, pc[s] = "replay",
         Len(mem[s]) < snap[s].step_count
  PROVE  /\ Len(mem[s]) \in 0 .. MaxSteps
         /\ steps[Len(mem[s])] \in Step
         /\ steps[Len(mem[s])] # None
         /\ ExactSuccessor(mem[s], steps[Len(mem[s])])
         /\ steps[Len(mem[s])].body = snap[s].latest_step[Len(mem[s]) + 1]
<1>1. /\ SessionPositioned(s) /\ IsPrefixOf(mem[s], Committed)
      /\ mem[s] \in Histories /\ Committed \in Histories
      /\ Len(mem[s]) \in Nat /\ MaxSteps \in Nat /\ Len(Committed) <= MaxSteps
      /\ Len(Committed) \in Nat
  BY CommittedType, MaxStepsAssumption
     DEF ProtocolInvariant, SessionsPositioned, SessionsHoldPrefixes, TypeOK,
         CursorDetermined, Histories
<1>2. /\ snap[s].latest_step \in Histories
      /\ snap[s].step_count = Len(snap[s].latest_step)
      /\ IsPrefixOf(snap[s].latest_step, Committed)
  <2>1. snap[s] \in Cursor /\ snap[s] = CursorOf(snap[s].latest_step)
    BY <1>1 DEF SessionPositioned, ProtocolInvariant, TypeOK
  <2>2. snap[s].latest_step \in Histories  BY <2>1 DEF Cursor
  <2>3. snap[s].step_count = Len(snap[s].latest_step)
    BY <2>1, <2>2, CursorOfHistory
  <2> QED  BY <1>1, <2>2, <2>3 DEF SessionPositioned
<1> DEFINE n == Len(mem[s])
<1>3. n < Len(Committed) /\ n \in 0 .. MaxSteps
      /\ snap[s].latest_step[n + 1] = Committed[n + 1]
  BY <1>1, <1>2 DEF IsPrefixOf, Histories
<1>4. /\ steps[n] # None /\ steps[n].body = Committed[n + 1]
      /\ Len(steps[n].predecessor) = n
      /\ IsPrefixOf(steps[n].predecessor, Committed)
      /\ ExactSuccessor(steps[n].predecessor, steps[n])
  BY <1>3 DEF ProtocolInvariant, SpineIntact
<1>5. steps[n] \in Step /\ steps[n].predecessor \in Histories
  BY <1>3, <1>4 DEF ProtocolInvariant, TypeOK, Step
<1>6. steps[n].predecessor = mem[s]
  <2>1. IsPrefixOf(mem[s], steps[n].predecessor)
    BY <1>1, <1>4, <1>5 DEF IsPrefixOf, Histories
  <2> QED  BY <1>1, <1>4, <1>5, <2>1, PrefixOfSameLength
<1> QED  BY <1>3, <1>4, <1>5, <1>6

\* A load reads the committed steps one by one.
LEMMA LoadStepStep ==
  ASSUME ProtocolInvariant, NEW s \in Sessions, LoadStep(s)
  PROVE  ProtocolInvariant'
<1> DEFINE p == steps[Len(mem[s])]
<1>1. CASE /\ p # None /\ ExactSuccessor(mem[s], p)
           /\ mem' = [mem EXCEPT ![s] = Append(mem[s], p.body)]
           /\ UNCHANGED <<pc, snap, pending>>
  <2>1. p \in Step /\ p.body = snap[s].latest_step[Len(mem[s]) + 1]
    BY ReplayFindsSuccessor DEF LoadStep
  <2>2. /\ p.body \in Bodies /\ mem[s] \in Histories /\ Len(mem[s]) \in Nat
        /\ snap[s] \in Cursor \cup {None}
    BY <2>1 DEF Step, ProtocolInvariant, TypeOK, Histories
  <2>3. /\ SessionPositioned(s) /\ pc[s] = "replay" /\ snap[s] \in Cursor
        /\ snap[s].latest_step \in Histories
        /\ snap[s].step_count = Len(snap[s].latest_step)
        /\ Len(mem[s]) < snap[s].step_count
    <3>1. SessionPositioned(s) /\ pc[s] = "replay"
          /\ Len(mem[s]) < snap[s].step_count
      BY DEF ProtocolInvariant, SessionsPositioned, LoadStep
    <3>2. snap[s] \in Cursor /\ snap[s] = CursorOf(snap[s].latest_step)
      BY <2>2, <3>1 DEF SessionPositioned
    <3>3. snap[s].latest_step \in Histories  BY <3>2 DEF Cursor
    <3> QED  BY <3>1, <3>2, <3>3, CursorOfHistory
  <2>4. /\ Append(mem[s], p.body) \in Histories
        /\ Len(Append(mem[s], p.body)) = Len(mem[s]) + 1
        /\ \A i \in 1 .. Len(mem[s]) : Append(mem[s], p.body)[i] = mem[s][i]
        /\ Append(mem[s], p.body)[Len(mem[s]) + 1] = p.body
    BY <2>2, AppendHistory
  <2>5. IsPrefixOf(Append(mem[s], p.body), snap[s].latest_step)
    BY <2>1, <2>2, <2>3, <2>4 DEF SessionPositioned, IsPrefixOf, Histories
  <2>6. TypeOK'
    BY <1>1, <2>4 DEF ProtocolInvariant, TypeOK, LoadStep, store
  <2>7. /\ \A t \in Sessions : t # s => Idle(t)
        /\ mem'[s] = Append(mem[s], p.body) /\ UNCHANGED store
    BY <1>1 DEF ProtocolInvariant, TypeOK, Idle, LoadStep
  <2>8. Committed' = Committed /\ Committed \in Histories
    BY <2>7, CommittedType DEF ProtocolInvariant, Committed, store
  <2>9. IsPrefixOf(mem[s], Committed)'
    BY <2>3, <2>4, <2>5, <2>7, <2>8, PrefixTransitive
       DEF SessionPositioned
  <2>10. SessionPositioned(s)'
    BY <1>1, <2>3, <2>5, <2>7, <2>8 DEF SessionPositioned, LiveSession, store
  <2> QED  BY <2>6, <2>7, <2>9, <2>10, SessionStep
<1>2. CASE Discard(s)
  BY <1>2, DiscardStep DEF LoadStep
<1> QED  BY <1>1, <1>2 DEF LoadStep

\* A load looks for one step past the cursor.
LEMMA ProbeSuccessorStep ==
  ASSUME ProtocolInvariant, NEW s \in Sessions, ProbeSuccessor(s)
  PROVE  ProtocolInvariant'
<1> DEFINE p == steps[snap[s].step_count]
<1>0. /\ SessionPositioned(s) /\ IsPrefixOf(mem[s], Committed)
      /\ UNCHANGED store /\ Committed' = Committed
      /\ mem[s] \in Histories /\ Committed \in Histories
      /\ Len(mem[s]) = snap[s].step_count /\ pc[s] = "replay"
  BY CommittedType DEF ProtocolInvariant, SessionsPositioned,
     SessionsHoldPrefixes, ProbeSuccessor, store, TypeOK, Committed
<1>1. CASE /\ pc' = [pc EXCEPT ![s] = "open"] /\ snap' = [snap EXCEPT ![s] = None]
           /\ UNCHANGED <<mem, pending>>
  <2>1. TypeOK'
    BY <1>0, <1>1 DEF ProtocolInvariant, TypeOK, store, PCs
  <2>2. /\ \A t \in Sessions : t # s => Idle(t)
        /\ pc'[s] = "open" /\ mem'[s] = mem[s]
    BY <1>1 DEF ProtocolInvariant, TypeOK, Idle
  <2>3. SessionPositioned(s)' /\ IsPrefixOf(mem[s], Committed)'
    BY <1>0, <2>2 DEF SessionPositioned, LiveSession, store, IsPrefixOf
  <2> QED  BY <1>0, <2>1, <2>2, <2>3, SessionStep
<1>2. CASE /\ CursorOf(mem[s]) = snap[s]
           /\ p # None /\ ExactSuccessor(mem[s], p)
           /\ pc' = [pc EXCEPT ![s] = "adopt"]
           /\ pending' = [pending EXCEPT ![s] = p.body] /\ UNCHANGED <<mem, snap>>
  <2>1. /\ Len(mem[s]) \in Nat /\ MaxSteps \in Nat /\ Len(Committed) \in Nat
        /\ Len(mem[s]) <= Len(Committed) /\ Len(Committed) <= MaxSteps
    BY <1>0, MaxStepsAssumption
       DEF ProtocolInvariant, CursorDetermined, IsPrefixOf, Histories
  <2>2. p \in Step /\ p.body \in Bodies /\ p = StepAfter(mem[s], p.body)
    <3>1. p \in Step
      BY <1>0, <1>2, <2>1 DEF ProtocolInvariant, TypeOK
    <3> QED  BY <1>2, <3>1 DEF Step, ExactSuccessor, StepAfter
  <2>3. Len(mem[s]) < MaxSteps
    BY <1>0, <1>2, <2>1 DEF ProtocolInvariant, CursorDetermined
  <2>4. TypeOK'
    BY <1>0, <1>2, <2>2 DEF ProtocolInvariant, TypeOK, store, PCs
  <2>5. /\ \A t \in Sessions : t # s => Idle(t)
        /\ pc'[s] = "adopt" /\ mem'[s] = mem[s] /\ pending'[s] = p.body
        /\ snap'[s] = snap[s]
    BY <1>2 DEF ProtocolInvariant, TypeOK, Idle
  <2>6. ValidStep(mem[s], p.body)  BY <1>2 DEF ExactSuccessor
  <2>7. SessionPositioned(s)' /\ IsPrefixOf(mem[s], Committed)'
    BY <1>0, <1>2, <2>2, <2>3, <2>5, <2>6
       DEF SessionPositioned, LiveSession, store, IsPrefixOf
  <2> QED  BY <1>0, <2>4, <2>5, <2>7, SessionStep
<1>3. CASE Discard(s)
  BY <1>0, <1>3, DiscardStep
<1> QED  BY <1>1, <1>2, <1>3 DEF ProbeSuccessor

\* The protocol invariant holds in every reachable state: the store keeps one
\* chained spine with at most one successor, every session holds a prefix of
\* it, and what a session is about to commit is valid after that prefix.
THEOREM ProtocolHolds == Spec => []ProtocolInvariant
<1>1. Init => ProtocolInvariant  BY InitProtocol
<1>2. ProtocolInvariant /\ [Next]_vars => ProtocolInvariant'
  <2> SUFFICES ASSUME ProtocolInvariant, [Next]_vars PROVE ProtocolInvariant'
    OBVIOUS
  <2>1. CASE UNCHANGED vars
    BY <2>1 DEF vars, ProtocolInvariant, TypeOK, CursorDetermined, SpineIntact,
       SessionsHoldPrefixes, SessionsPositioned, SessionPositioned, Committed
  <2>2. CASE Next
    <3>1. PICK s \in Sessions :
            \/ PublishDeclaration(s) \/ PublishInitialCursor(s)
            \/ \E b \in Bodies : ValidateStep(s, b)
            \/ PublishStep(s) \/ AdvanceCursor(s)
            \/ LoadDeclaration(s) \/ LoadCursor(s) \/ SeedCursor(s)
            \/ LoadStep(s) \/ ProbeSuccessor(s) \/ AdoptSuccessor(s)
            \/ Crash(s)
      BY <2>2 DEF Next
    <3>2. CASE Crash(s)  BY <3>2, DiscardStep DEF Crash
    <3> QED
      BY <3>1, <3>2, PublishDeclarationStep, PublishInitialCursorStep,
         ValidateStepStep, PublishStepStep, AdvanceCursorStep,
         LoadDeclarationStep, LoadCursorStep, SeedCursorStep, LoadStepStep,
         ProbeSuccessorStep, AdoptSuccessorStep
  <2> QED  BY <2>1, <2>2
<1> QED  BY <1>1, <1>2, PTL DEF Spec

(***************************************************************************)
(* What the invariant gives a user of the journal.                         *)
(***************************************************************************)

\* The variables always have the shape of the C++ objects they stand for.
THEOREM TypeCorrect == Spec => []TypeOK
<1>1. ProtocolInvariant => TypeOK  BY DEF ProtocolInvariant
<1> QED  BY <1>1, ProtocolHolds, PTL

\* At most one durable step lies beyond the cursor, and it is a valid
\* successor; what lies before it is the committed history.
THEOREM SpineAlwaysIntact == Spec => []SpineIntact
<1>1. ProtocolInvariant => SpineIntact  BY DEF ProtocolInvariant
<1> QED  BY <1>1, ProtocolHolds, PTL

\* No session ever holds a history the committed one does not extend.
THEOREM SessionsAlwaysHoldPrefixes == Spec => []SessionsHoldPrefixes
<1>1. ProtocolInvariant => SessionsHoldPrefixes  BY DEF ProtocolInvariant
<1> QED  BY <1>1, ProtocolHolds, PTL

\* Rehydration never meets a missing, foreign or malformed step, however
\* loads, appends, adoptions and crashes interleave.
THEOREM RehydrationNeverFailsClosed == Spec => []RehydrationFindsExactHistory
<1>1. ASSUME ProtocolInvariant PROVE RehydrationFindsExactHistory
  <2> SUFFICES ASSUME NEW s \in Sessions, pc[s] = "replay",
                      Len(mem[s]) = snap[s].step_count
               PROVE  /\ CursorOf(mem[s]) = snap[s]
                      /\ steps[Len(mem[s])] # None =>
                           ExactSuccessor(mem[s], steps[Len(mem[s])])
    BY <1>1, ReplayFindsSuccessor DEF RehydrationFindsExactHistory
  <2>1. /\ SessionPositioned(s) /\ mem[s] \in Histories
        /\ Committed \in Histories /\ IsPrefixOf(mem[s], Committed)
        /\ MaxSteps \in Nat /\ Len(Committed) <= MaxSteps
    BY <1>1, CommittedType, MaxStepsAssumption
       DEF ProtocolInvariant, SessionsPositioned, SessionsHoldPrefixes, TypeOK,
           CursorDetermined
  <2>2. snap[s] \in Cursor /\ snap[s] = CursorOf(snap[s].latest_step)
    BY <1>1, <2>1 DEF SessionPositioned, ProtocolInvariant, TypeOK
  <2>3. /\ snap[s].latest_step \in Histories
        /\ snap[s].step_count = Len(snap[s].latest_step)
    BY <2>2, CursorOfHistory DEF Cursor
  <2>4. mem[s] = snap[s].latest_step
    BY <2>1, <2>3, PrefixOfSameLength DEF SessionPositioned
  <2>5. ASSUME steps[Len(mem[s])] # None
        PROVE  ExactSuccessor(mem[s], steps[Len(mem[s])])
    <3> DEFINE n == Len(mem[s])
    <3>1. n \in 0 .. MaxSteps /\ n <= Len(Committed) /\ Len(Committed) \in Nat
      BY <2>1 DEF IsPrefixOf, Histories
    <3>2. CASE n = Len(Committed)
      <4>1. mem[s] = Committed  BY <2>1, <3>2, PrefixOfSameLength
      <4> QED  BY <1>1, <2>5, <3>1, <3>2, <4>1 DEF ProtocolInvariant, SpineIntact
    <3>3. CASE n < Len(Committed)
      <4>1. /\ Len(steps[n].predecessor) = n
            /\ IsPrefixOf(steps[n].predecessor, Committed)
            /\ ExactSuccessor(steps[n].predecessor, steps[n])
        BY <1>1, <3>1, <3>3 DEF ProtocolInvariant, SpineIntact
      <4>2. steps[n].predecessor \in Histories
        BY <1>1, <2>5, <3>1 DEF ProtocolInvariant, TypeOK, Step
      <4>3. IsPrefixOf(mem[s], steps[n].predecessor)
        BY <2>1, <4>1, <4>2 DEF IsPrefixOf, Histories
      <4>4. mem[s] = steps[n].predecessor
        BY <2>1, <4>1, <4>2, <4>3, PrefixOfSameLength
      <4> QED  BY <4>1, <4>4
    <3> QED  BY <3>1, <3>2, <3>3
  <2> QED  BY <2>2, <2>4, <2>5
<1> QED  BY <1>1, ProtocolHolds, PTL

\* What a step does to the committed history: nothing, its creation, or the
\* addition of one step content that is valid after it.
LEMMA CommittedStep ==
  ASSUME ProtocolInvariant, [Next]_vars
  PROVE  \/ cursor' = cursor
         \/ cursor = None /\ cursor' = InitialCursor
         \/ /\ cursor # None
            /\ \E b \in Bodies :
                 /\ ValidStep(Committed, b)
                 /\ cursor' = CursorOf(Append(Committed, b))
<1>1. ASSUME NEW s \in Sessions, pc[s] \in {"published", "adopt"},
             CursorMatches(CursorOf(mem[s])),
             cursor' = CursorOf(Append(mem[s], pending[s]))
      PROVE  /\ cursor # None
             /\ \E b \in Bodies :
                  /\ ValidStep(Committed, b)
                  /\ cursor' = CursorOf(Append(Committed, b))
  <2>1. /\ SessionPositioned(s) /\ mem[s] \in Histories
        /\ Committed \in Histories
    BY CommittedType DEF ProtocolInvariant, SessionsPositioned, TypeOK
  <2>2. /\ cursor # None /\ pending[s] \in Bodies
        /\ ValidStep(mem[s], pending[s])
    BY <1>1, <2>1 DEF SessionPositioned, LiveSession
  <2>3. Committed = mem[s]
    BY <1>1, <2>1, <2>2, CursorInjective
       DEF ProtocolInvariant, CursorDetermined, CursorMatches
  <2> QED  BY <1>1, <2>2, <2>3
<1>2. CASE UNCHANGED vars  BY <1>2 DEF vars
<1>3. ASSUME NEW s \in Sessions, AdvanceCursor(s)
      PROVE  \/ cursor' = cursor
             \/ /\ cursor # None
                /\ \E b \in Bodies :
                     /\ ValidStep(Committed, b)
                     /\ cursor' = CursorOf(Append(Committed, b))
  BY <1>1, <1>3 DEF AdvanceCursor
<1>4. ASSUME NEW s \in Sessions, AdoptSuccessor(s)
      PROVE  \/ cursor' = cursor
             \/ /\ cursor # None
                /\ \E b \in Bodies :
                     /\ ValidStep(Committed, b)
                     /\ cursor' = CursorOf(Append(Committed, b))
  <2>1. snap[s] = CursorOf(mem[s])
    BY <1>4 DEF AdoptSuccessor, ProtocolInvariant, SessionsPositioned,
       SessionPositioned
  <2> QED  BY <1>1, <1>4, <2>1 DEF AdoptSuccessor
<1>5. ASSUME NEW s \in Sessions,
             PublishInitialCursor(s) \/ SeedCursor(s)
      PROVE  cursor' = cursor \/ (cursor = None /\ cursor' = InitialCursor)
  BY <1>5 DEF PublishInitialCursor, SeedCursor, CursorMatches
<1>6. ASSUME NEW s \in Sessions,
             \/ PublishDeclaration(s) \/ \E b \in Bodies : ValidateStep(s, b)
             \/ PublishStep(s) \/ LoadDeclaration(s) \/ LoadCursor(s)
             \/ LoadStep(s) \/ ProbeSuccessor(s) \/ Crash(s)
      PROVE  cursor' = cursor
  BY <1>6 DEF PublishDeclaration, ValidateStep, PublishStep, LoadDeclaration,
     LoadCursor, LoadStep, ProbeSuccessor, Crash, store
<1> QED  BY <1>2, <1>3, <1>4, <1>5, <1>6 DEF Next

\* The protocol implements one append-only log.
THEOREM Refinement == Spec => ImplementsAppendOnlyJournal
<1>1. Init => Abstract!AInit
  BY DEF Init, Abstract!AInit, Committed
<1>2. ASSUME ProtocolInvariant, ProtocolInvariant', [Next]_vars
      PROVE  [Abstract!ANext]_(Abstract!avars)
  <2>1. CASE cursor' = cursor
    BY <2>1 DEF Abstract!avars, Committed
  <2>2. CASE cursor = None /\ cursor' = InitialCursor
    BY <2>2, InitialCursorType
       DEF Abstract!ANext, Abstract!Declare, Committed, InitialCursor
  <2>3. CASE /\ cursor # None
             /\ \E b \in Bodies :
                  /\ ValidStep(Committed, b)
                  /\ cursor' = CursorOf(Append(Committed, b))
    <3>1. PICK b \in Bodies : /\ ValidStep(Committed, b)
                              /\ cursor' = CursorOf(Append(Committed, b))
      BY <2>3
    <3>2. Append(Committed, b) \in Histories
      BY <1>2, CommittedType, AppendHistory DEF ProtocolInvariant
    <3>3. cursor' # None /\ Committed' = Append(Committed, b)
      BY <3>1, <3>2, CursorOfHistory, NoneIsNoRecord DEF Committed
    <3> QED  BY <2>3, <3>1, <3>3 DEF Abstract!ANext, Abstract!AppendOne
  <2> QED  BY <1>2, <2>1, <2>2, <2>3, CommittedStep
<1> QED  BY <1>1, <1>2, ProtocolHolds, PTL
           DEF Spec, ImplementsAppendOnlyJournal, Abstract!ASpec

\* Receipt and completed evidence behind the cursor are never replaced, and
\* the journal never shrinks.
THEOREM AuthorityAlwaysRetained == Spec => AuthorityRetained
<1>1. ASSUME ProtocolInvariant, [Next]_vars, cursor # None
      PROVE  \/ cursor' = cursor
             \/ /\ cursor' # None
                /\ cursor'.step_count >= cursor.step_count
                /\ cursor.receipt # None => cursor'.receipt = cursor.receipt
                /\ cursor.evidence # None => cursor'.evidence = cursor.evidence
  <2>1. CASE cursor' = cursor  BY <2>1
  <2>2. CASE \E b \in Bodies : /\ ValidStep(Committed, b)
                               /\ cursor' = CursorOf(Append(Committed, b))
    <3>1. PICK b \in Bodies : /\ ValidStep(Committed, b)
                              /\ cursor' = CursorOf(Append(Committed, b))
      BY <2>2
    <3> DEFINE h == Append(Committed, b)
    <3>2. /\ h \in Histories /\ Len(h) = Len(Committed) + 1
          /\ h[Len(Committed) + 1] = b /\ Committed \in Histories
          /\ Len(Committed) \in Nat
      BY <1>1, CommittedType, AppendHistory DEF ProtocolInvariant
    <3>3. h # << >>  BY <3>2
    <3>4. /\ cursor' \in Cursor /\ cursor'.step_count = Len(h)
          /\ cursor'.receipt = b.receipt /\ cursor'.evidence = b.evidence
      BY <3>1, <3>2, <3>3, CursorOfHistory DEF CursorOf
    <3>5. cursor = CursorOf(Committed) /\ cursor.step_count = Len(Committed)
      BY <1>1, <3>2, CursorOfHistory DEF ProtocolInvariant, CursorDetermined
    <3>6. /\ cursor.receipt # None => b.receipt = cursor.receipt
          /\ cursor.evidence # None => b.evidence = cursor.evidence
      BY <3>1, <3>5 DEF ValidStep, ValidAdvance
    <3> QED  BY <3>2, <3>4, <3>5, <3>6, NoneIsNoRecord
  <2> QED  BY <1>1, <2>1, <2>2, CommittedStep
<1>2. ASSUME ProtocolInvariant, [Next]_vars
      PROVE  [cursor # None =>
                /\ cursor' # None
                /\ cursor'.step_count >= cursor.step_count
                /\ cursor.receipt # None => cursor'.receipt = cursor.receipt
                /\ cursor.evidence # None =>
                     cursor'.evidence = cursor.evidence]_cursor
  BY <1>1, <1>2
<1> QED  BY <1>2, ProtocolHolds, PTL DEF Spec, AuthorityRetained

(***************************************************************************)
(* The incremental validator and the snapshot validator agree.             *)
(***************************************************************************)

\* One more valid step keeps the event log of the snapshot valid.
LEMMA SnapshotEventsStep ==
  ASSUME NEW h \in Histories, NEW b \in Bodies,
         SnapshotEventsValid(h), ValidStep(h, b)
  PROVE  SnapshotEventsValid(Append(h, b))
<1> DEFINE g == Append(h, b)
           n == Len(h) + 1
<1>1. /\ Len(h) \in Nat /\ DOMAIN h = 1 .. Len(h) /\ DOMAIN g = 1 .. n
      /\ \A i \in 1 .. Len(h) : g[i] = h[i]
      /\ g[n] = b
  BY AppendHistory DEF Histories
<1> HIDE DEF g
<1>2. ASSUME NEW i \in 1 .. Len(h), g[i].kind # "none"
      PROVE  /\ g[i].effect \in Effects
             /\ IF g[i].kind = "intent"
                THEN ~ \E j \in 1 .. i - 1 : /\ g[j].effect = g[i].effect
                                             /\ g[j].kind \in EventKind
                ELSE /\ \E j \in 1 .. i - 1 : /\ g[j].effect = g[i].effect
                                              /\ g[j].kind \in {"intent"}
                     /\ ~ \E j \in 1 .. i - 1 : /\ g[j].effect = g[i].effect
                                                /\ g[j].kind \in TerminalKind
  <2>1. \A j \in 1 .. i - 1 : j \in 1 .. Len(h) /\ g[j] = h[j]
    BY <1>1
  <2>2. g[i] = h[i]  BY <1>1
  <2> QED  BY <1>1, <1>2, <2>1, <2>2 DEF SnapshotEventsValid
<1>3. ASSUME b.kind # "none"
      PROVE  /\ b.effect \in Effects
             /\ IF b.kind = "intent"
                THEN ~ \E j \in 1 .. Len(h) : /\ g[j].effect = b.effect
                                              /\ g[j].kind \in EventKind
                ELSE /\ \E j \in 1 .. Len(h) : /\ g[j].effect = b.effect
                                               /\ g[j].kind \in {"intent"}
                     /\ ~ \E j \in 1 .. Len(h) : /\ g[j].effect = b.effect
                                                 /\ g[j].kind \in TerminalKind
  <2>1. ValidEvent(h, b)  BY <1>3 DEF ValidStep
  <2> QED  BY <1>1, <2>1 DEF ValidEvent, Intended, Terminated, EventKind
<1>4. \A i \in 1 .. n : i \in 1 .. Len(h) \/ (i = n /\ i - 1 = Len(h))
  BY <1>1
<1> QED  BY <1>1, <1>2, <1>3, <1>4 DEF SnapshotEventsValid, g

\* With as many completion events as there are required effects, and at most
\* one per effect, every required effect has completed: the counter of the
\* incremental validator means what the snapshot validator checks.
LEMMA CounterMeansAllCompleted ==
  ASSUME NEW g \in Histories, SnapshotEventsValid(g),
         Cardinality(CompletionEvents(g)) = Cardinality(Required)
  PROVE  \A e \in Required : Intended(g, e) /\ Completed(g, e)
<1> DEFINE f == [i \in CompletionEvents(g) |-> g[i].effect]
<1>1. IsFiniteSet(Required)
  BY EffectsFinite, FS_Subset DEF Required
<1>2. DOMAIN g = 1 .. Len(g) /\ Len(g) \in Nat  BY DEF Histories
<1>3. f \in [CompletionEvents(g) -> Required]  BY DEF CompletionEvents
<1>4. ASSUME NEW i \in CompletionEvents(g), NEW j \in CompletionEvents(g),
             i < j, g[i].effect = g[j].effect
      PROVE  FALSE
  <2>1. i \in 1 .. j - 1 /\ j \in DOMAIN g
    BY <1>2, <1>4 DEF CompletionEvents
  <2>2. /\ g[j].kind = "completed" /\ g[i].kind \in TerminalKind
    BY DEF CompletionEvents, TerminalKind
  <2> QED  BY <1>4, <2>1, <2>2 DEF SnapshotEventsValid
<1>5. f \in Injection(CompletionEvents(g), Required)
  <2>1. ASSUME NEW i \in CompletionEvents(g), NEW j \in CompletionEvents(g),
               f[i] = f[j]
        PROVE  i = j
    <3>1. i \in Nat /\ j \in Nat  BY <1>2 DEF CompletionEvents
    <3> QED  BY <1>4, <2>1, <3>1
  <2> QED  BY <1>3, <2>1 DEF Injection, IsInjective
<1>6. f \in Surjection(CompletionEvents(g), Required)
  BY <1>1, <1>5, FS_Injection
<1>7. ASSUME NEW e \in Required PROVE Intended(g, e) /\ Completed(g, e)
  <2>1. PICK i \in CompletionEvents(g) : f[i] = e
    BY <1>6 DEF Surjection
  <2>2. i \in DOMAIN g /\ g[i].effect = e /\ g[i].kind = "completed"
    BY <2>1 DEF CompletionEvents
  <2>3. \E j \in 1 .. i - 1 : g[j].effect = e /\ g[j].kind = "intent"
    BY <2>2 DEF SnapshotEventsValid
  <2>4. \A j \in 1 .. i - 1 : j \in DOMAIN g  BY <1>2, <2>2
  <2> QED  BY <2>2, <2>3, <2>4 DEF Intended, Completed
<1> QED  BY <1>7

\* What the incremental validator accepts keeps the snapshot validator content.
LEMMA SnapshotStep ==
  ASSUME NEW h \in Histories, NEW b \in Bodies,
         SnapshotValid(h), ValidStep(h, b)
  PROVE  SnapshotValid(Append(h, b))
<1> DEFINE g == Append(h, b)
<1>1. SnapshotEventsValid(g)  BY SnapshotEventsStep DEF SnapshotValid
<1>2. g \in Histories /\ Len(g) = Len(h) + 1 /\ g[Len(h) + 1] = b /\ Len(h) \in Nat
  BY AppendHistory DEF Histories
<1>3. g # << >>  BY <1>2
<1>4. /\ CursorOf(g).state = b.state /\ CursorOf(g).receipt = b.receipt
      /\ CursorOf(g).evidence = b.evidence
  BY <1>2, <1>3 DEF CursorOf
<1>5. ValidResolution(b, Cardinality(CompletionEvents(g)))
  BY DEF ValidStep
<1>6. SuccessfulState(b.state) =>
        \A e \in Required : Intended(g, e) /\ Completed(g, e)
  BY <1>1, <1>2, <1>5, CounterMeansAllCompleted DEF ValidResolution
<1> HIDE DEF g
<1>7. SnapshotResolutionValid(g)
  BY <1>4, <1>5, <1>6 DEF ValidResolution, SnapshotResolutionValid
<1> QED  BY <1>1, <1>7 DEF SnapshotValid, g

\* Every committed history satisfies the snapshot validator.
THEOREM CommittedAlwaysSnapshotValid == Spec => []CommittedSnapshotValid
<1>1. Init => CommittedSnapshotValid
  BY DEF Init, CommittedSnapshotValid, Committed, SnapshotValid,
     SnapshotEventsValid, SnapshotResolutionValid, CursorOf, InitialCursor,
     SuccessfulState
<1>2. ASSUME ProtocolInvariant, CommittedSnapshotValid, [Next]_vars
      PROVE  CommittedSnapshotValid'
  <2>1. CASE cursor' = cursor
    BY <1>2, <2>1 DEF CommittedSnapshotValid, Committed
  <2>2. CASE cursor = None /\ cursor' = InitialCursor
    <3>1. Committed = << >> /\ Committed' = << >>
      BY <2>2, InitialCursorType DEF Committed, InitialCursor
    <3> QED  BY <1>2, <3>1 DEF CommittedSnapshotValid
  <2>3. CASE \E b \in Bodies : /\ ValidStep(Committed, b)
                               /\ cursor' = CursorOf(Append(Committed, b))
    <3>1. PICK b \in Bodies : /\ ValidStep(Committed, b)
                              /\ cursor' = CursorOf(Append(Committed, b))
      BY <2>3
    <3>2. Committed \in Histories /\ Append(Committed, b) \in Histories
      BY <1>2, CommittedType, AppendHistory DEF ProtocolInvariant
    <3>3. Committed' = Append(Committed, b)
      BY <3>1, <3>2, CursorOfHistory, NoneIsNoRecord DEF Committed
    <3> QED  BY <1>2, <3>1, <3>2, <3>3, SnapshotStep
                DEF CommittedSnapshotValid
  <2> QED  BY <1>2, <2>1, <2>2, <2>3, CommittedStep
<1> QED  BY <1>1, <1>2, ProtocolHolds, PTL DEF Spec

=============================================================================

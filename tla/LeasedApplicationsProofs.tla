----------------------- MODULE LeasedApplicationsProofs -----------------------
(***************************************************************************)
(* Proofs about the controllers of one target, for any number of them and  *)
(* any requests, backends, archives, lease losses and bounds: an effect is *)
(* issued at most once, a running call is for the published state, and     *)
(* what is staged, captured and found at the path is what the declared     *)
(* plan says.                                                              *)
(***************************************************************************)
EXTENDS LeasedApplications, TLAPS

(***************************************************************************)
(* The invariant of a journal and of the sessions that write it.           *)
(***************************************************************************)
Phases ==
  {"admission", "declare", "enter_preparation", "stage", "seal_preparation",
   "enter_rejected", "begin_mutation", "enter_active", "announce", "execute",
   "record", "effects_visible", "enter_completion", "observe", "complete",
   "interrupt", "enter_recovery", "begin_recovery", "announce_recovery",
   "recover", "record_recovery", "conclude", "resume_preparation",
   "resume_rejected", "resume_active"}

\* A call in progress: what it was given, and what it remembers.
Sessions ==
  [pc : Phases, mode : {"fresh", "resumed"}, request : Requests,
   archive : Archives \cup {NotGiven}, backend : Backends, nonce : Nonces,
   memory : History, observed : BOOLEAN, fact : Fact]

\* A history that has no receipt: what was captured and staged before the
\* journal left "preparing", and what was written while it was in each state.
Coherent(h) ==
  /\ h.receipt = "none"
  /\ h.captured = NotGiven <=> h.staged = NotGiven
  /\ h.state # "preparing" => h.captured # NotGiven
  /\ h.state \in {"preparing", "prepared"} => h.active = "none"
  /\ h.recover # "none" => h.state = "recovering"

\* What a session knows of its own history at each of its steps.
Positioned(pc, h, fact) ==
  /\ pc \in {"admission", "declare", "enter_preparation"} => h = Blank
  /\ pc \in {"stage", "seal_preparation"} => h.state = "preparing"
  /\ pc = "seal_preparation" => h.captured # NotGiven
  /\ pc \in {"enter_rejected", "begin_mutation"} => h.state = "prepared"
  /\ pc = "resume_rejected" => h.state # "preparing"
  /\ pc \in {"enter_active", "resume_active", "announce", "execute", "record",
             "effects_visible", "enter_completion", "observe", "complete",
             "interrupt", "enter_recovery", "begin_recovery", "conclude"} =>
       h.state \notin {"preparing", "prepared"}
  /\ pc \in {"enter_active", "announce"} => h.active = "none"
  /\ pc \in {"execute", "record"} => h.active = "intent"
  /\ pc \in {"announce_recovery", "recover", "record_recovery"} => h.state = "recovering"
  /\ pc = "announce_recovery" => h.recover = "none"
  /\ pc \in {"recover", "record_recovery"} => h.recover = "intent"
  /\ pc \in {"record", "record_recovery"} => fact # "none"

\* A session of a history g: it remembers g, or something shorter.
Follows(h, g) == h.steps <= g.steps /\ (h.steps = g.steps => h = g)

\* An issued effect was announced; a session about to issue one is the first.
SessionKept(s) ==
  /\ s \in Sessions /\ s.nonce <= begun
  /\ Submitted[s.request].kind = "remove" \/ s.archive \in Archives
  /\ Coherent(s.memory)
  /\ Positioned(s.pc, s.memory, s.fact)
  /\ Follows(s.memory, journal[s.nonce])
  /\ s.pc = "execute" => /\ issued[s.nonce].active = 0
                         /\ journal[s.nonce].active # "none"
  /\ s.pc = "recover" => /\ issued[s.nonce].recover = 0
                         /\ journal[s.nonce].recover # "none"

JournalKept(n) ==
  /\ journal[n] \in History
  /\ journal[n].receipt = "none" => Coherent(journal[n])
  /\ begun < n => journal[n] = Blank
  /\ issued[n] \in [active : {0, 1}, recover : {0, 1}]
  /\ issued[n].active = 1 => journal[n].active # "none"
  /\ issued[n].recover = 1 => journal[n].recover # "none"

\* No two sessions are about to issue the same effect.
OneIssuer ==
  \A c, d \in Controllers :
    /\ session[c].pc \in {"execute", "recover"}
    /\ session[d].pc = session[c].pc /\ session[d].nonce = session[c].nonce
    => c = d

Shape ==
  /\ DOMAIN session = Controllers
  /\ session = [c \in Controllers |-> session[c]]
  /\ journal = [n \in Nonces |-> journal[n]]
  /\ issued = [n \in Nonces |-> issued[n]]
  /\ world \in [DOMAIN Initial -> Contents]
  /\ begun \in 0 .. MaxAttempts

IssueInvariant ==
  /\ Shape
  /\ \A n \in Nonces : JournalKept(n)
  /\ \A c \in Controllers : InSession(c) => SessionKept(session[c])
  /\ OneIssuer

(***************************************************************************)
(* The invariant of leases and projections.                                *)
(***************************************************************************)
Projections == {Projection(i, j) : i \in Nat, j \in DOMAIN State}

\* The lock domain in which requests are applied.
Shared(domain) == \E q \in Requests : Target[TargetOf(q)].domain = domain

Projected(c) == control[c].projection # NotGiven
ProjectedLease(c) == control[c].projection.lease

\* A projection whose lease is held in the shared domain is of the published
\* state, and the lease is the controller's own.
ProjectionKept(c) ==
  Projected(c) =>
    /\ control[c].projection \in Projections
    /\ ProjectedLease(c) \in DOMAIN acquired
    /\ ProjectedLease(c) \in held => ProjectedLease(c) = control[c].lease
    /\ ProjectedLease(c) \in held /\ Shared(acquired[ProjectedLease(c)].domain) =>
         control[c].projection.snapshot = State[installed].snapshot

CallKept(c) ==
  InSession(c) =>
    /\ Request(c) \in Requests
    /\ Projected(c) /\ ProjectedLease(c) = control[c].lease
    /\ control[c].projection.snapshot = PlanOf(Request(c)).snapshot
    /\ Shared(acquired[control[c].lease].domain)

LeaseInvariant ==
  /\ acquired \in Seq(Acquisitions) /\ Len(acquired) <= MaxLeases
  /\ held \subseteq DOMAIN acquired
  /\ \A i, j \in held : acquired[i].domain = acquired[j].domain => i = j
  /\ control = [c \in Controllers |->
                  [lease |-> control[c].lease, projection |-> control[c].projection]]
  /\ session = [c \in Controllers |-> session[c]]
  /\ \A c \in Controllers : control[c].lease \in 0 .. Len(acquired)
  /\ \A c, d \in Controllers :
       control[c].lease # 0 /\ control[c].lease = control[d].lease => c = d
  /\ \A c \in Controllers : ProjectionKept(c) /\ CallKept(c)
  /\ declared = [n \in Nonces |-> declared[n]]
  /\ \A n \in Nonces : Journaled(n) =>
       n <= begun /\ \E q \in Requests : declared[n].target = TargetOf(q)
  /\ installed \in DOMAIN State /\ published \subseteq 1 .. begun
  /\ begun \in 0 .. MaxAttempts /\ lapses \in 0 .. MaxLapses

(***************************************************************************)
(* Steps that leave the journals alone, and steps that append to one.      *)
(***************************************************************************)
\* Only the session of controller c moves.
OnlyMoves(c) ==
  /\ session' = [d \in Controllers |-> session'[d]]
  /\ \A d \in Controllers \ {c} : session'[d] = session[d]

\* A session that leaves, or goes where its memory allows, keeps the invariant
\* as long as it does not arrive at the issue of an effect.
LEMMA SessionMoves ==
  ASSUME IssueInvariant, NEW c \in Controllers, OnlyMoves(c),
         UNCHANGED <<journal, begun, issued>>, world' \in [DOMAIN Initial -> Contents],
         InSession(c)' => /\ SessionKept(session[c])'
                          /\ session'[c].pc \notin {"execute", "recover"}
  PROVE  IssueInvariant'
<1>1. Shape'
  BY DEF IssueInvariant, Shape, OnlyMoves
<1>2. \A n \in Nonces : JournalKept(n)'
  BY DEF IssueInvariant, JournalKept
<1>3. \A d \in Controllers : InSession(d)' => SessionKept(session[d])'
  <2> SUFFICES ASSUME NEW d \in Controllers, d # c, InSession(d)'
               PROVE  SessionKept(session[d])'
    OBVIOUS
  <2>1. session'[d] = session[d] /\ SessionKept(session[d])
    BY DEF OnlyMoves, InSession, IssueInvariant
  <2> QED  BY <2>1 DEF SessionKept
<1>4. OneIssuer'
  BY DEF OneIssuer, OnlyMoves, InSession, IssueInvariant
<1> QED  BY <1>1, <1>2, <1>3, <1>4 DEF IssueInvariant

\* Committing the step after the history a session remembers leaves every
\* other session with something shorter, and forgets no announced effect.
LEMMA JournalAdvances ==
  ASSUME IssueInvariant, NEW c \in Controllers, OnlyMoves(c), InSession(c),
         UNCHANGED <<begun, issued, world>>, CursorMatches(c),
         NEW h \in History, h.steps = Memory(c).steps + 1,
         h.receipt = "none" => Coherent(h),
         Memory(c).active # "none" => h.active # "none",
         Memory(c).recover # "none" => h.recover # "none",
         journal' = [journal EXCEPT ![session[c].nonce] = h],
         InSession(c)' => /\ SessionKept(session[c])'
                          /\ session'[c].nonce = session[c].nonce
                          /\ session'[c].pc = "execute" => Memory(c).active = "none"
                          /\ session'[c].pc = "recover" => Memory(c).recover = "none"
  PROVE  IssueInvariant'
<1> DEFINE m == session[c].nonce
<1>1. /\ SessionKept(session[c]) /\ m \in Nonces /\ m <= begun
      /\ Memory(c) \in History /\ journal[m] = Memory(c) /\ journal'[m] = h
      /\ \A n \in Nonces \ {m} : journal'[n] = journal[n]
  BY DEF IssueInvariant, Shape, SessionKept, Sessions, Follows, CursorMatches, Memory
<1>2. Shape'
  BY DEF IssueInvariant, Shape, OnlyMoves
<1>3. \A n \in Nonces : JournalKept(n)'
  <2> SUFFICES ASSUME NEW n \in Nonces PROVE JournalKept(n)'  OBVIOUS
  <2>1. CASE n # m
    BY <1>1, <2>1 DEF IssueInvariant, JournalKept
  <2>2. CASE n = m
    <3>1. JournalKept(m) /\ begun \in Nat /\ m \in Nat
      BY <1>1 DEF IssueInvariant, Shape, Nonces
    <3> QED  BY <1>1, <2>2, <3>1 DEF JournalKept
  <2> QED  BY <2>1, <2>2
<1>4. \A d \in Controllers : InSession(d)' => SessionKept(session[d])'
  <2> SUFFICES ASSUME NEW d \in Controllers, d # c, InSession(d)'
               PROVE  SessionKept(session[d])'
    OBVIOUS
  <2>1. session'[d] = session[d] /\ SessionKept(session[d])
    BY DEF OnlyMoves, InSession, IssueInvariant
  <2>2. /\ session[d].nonce \in Nonces
        /\ session[d].memory.steps \in Nat /\ Memory(c).steps \in Nat
    BY <1>1, <2>1 DEF SessionKept, Sessions, History
  <2>3. Follows(session[d].memory, journal'[session[d].nonce])
    BY <1>1, <2>1, <2>2 DEF SessionKept, Follows
  <2>4. session[d].pc = "execute" =>
          /\ issued[session[d].nonce].active = 0
          /\ journal'[session[d].nonce].active # "none"
    BY <1>1, <2>1, <2>2 DEF SessionKept
  <2>5. session[d].pc = "recover" =>
          /\ issued[session[d].nonce].recover = 0
          /\ journal'[session[d].nonce].recover # "none"
    BY <1>1, <2>1, <2>2 DEF SessionKept
  <2> QED  BY <2>1, <2>3, <2>4, <2>5 DEF SessionKept
<1>5. OneIssuer'
  <2>1. \A d \in Controllers \ {c} :
          /\ session'[d] = session[d]
          /\ InSession(d) => SessionKept(session[d])
    BY DEF OnlyMoves, IssueInvariant
  <2>2. \A d \in Controllers \ {c} : session[d].nonce = m =>
          /\ session[d].pc = "execute" => Memory(c).active # "none"
          /\ session[d].pc = "recover" => Memory(c).recover # "none"
    BY <1>1, <2>1 DEF SessionKept, InSession
  <2>3. session'[c].pc \in {"execute", "recover"} =>
          /\ session'[c].nonce = m
          /\ session'[c].pc = "execute" => Memory(c).active = "none"
          /\ session'[c].pc = "recover" => Memory(c).recover = "none"
    BY DEF InSession
  <2> QED  BY <2>1, <2>2, <2>3 DEF OneIssuer, IssueInvariant
<1> QED  BY <1>2, <1>3, <1>4, <1>5 DEF IssueInvariant

\* An append that stays coherent, and leads where its step allows, keeps the
\* invariant.
LEMMA AppendKept ==
  ASSUME IssueInvariant, NEW c \in Controllers, InSession(c), UNCHANGED effects,
         NEW next \in Phases \ {"admission", "declare", "enter_preparation"},
         NEW h \in History, AppendStep(c, h, next),
         h.steps = Memory(c).steps, Coherent(h),
         Positioned(next, h, session[c].fact),
         Memory(c).active # "none" => h.active # "none",
         Memory(c).recover # "none" => h.recover # "none",
         next = "execute" => Memory(c).active = "none",
         next = "recover" => Memory(c).recover = "none"
  PROVE  IssueInvariant'
<1> DEFINE m == session[c].nonce
           step == [h EXCEPT !.steps = @ + 1]
<1>1. /\ SessionKept(session[c]) /\ session[c] \in Sessions
      /\ m \in Nonces /\ Memory(c) \in History /\ journal[m] = Memory(c)
  BY DEF IssueInvariant, SessionKept, Sessions, Follows, AppendStep,
         CursorMatches, Memory
<1>2. /\ step \in History /\ step.steps = Memory(c).steps + 1
      /\ step.active = h.active /\ step.recover = h.recover
      /\ step.state = h.state /\ step.captured = h.captured
      /\ step.staged = h.staged /\ step.receipt = h.receipt
  BY DEF History
<1>3. /\ OnlyMoves(c) /\ journal' = [journal EXCEPT ![m] = step]
      /\ CursorMatches(c)
      /\ UNCHANGED <<begun, issued, world>>
      /\ session'[c] = [session[c] EXCEPT !.memory = step, !.pc = next]
  BY DEF AppendStep, OnlyMoves, IssueInvariant, Shape, effects
<1>4. /\ session'[c] \in Sessions /\ session'[c].nonce = m
      /\ session'[c].pc = next /\ session'[c].memory = step
      /\ session'[c].request = session[c].request
      /\ session'[c].archive = session[c].archive
      /\ session'[c].fact = session[c].fact
  BY <1>1, <1>2, <1>3 DEF Sessions
<1>5. journal'[m] = step /\ issued'[m] = issued[m] /\ JournalKept(m)
  BY <1>1, <1>3 DEF IssueInvariant, Shape
<1>6. next = "execute" => issued[m].active = 0 /\ step.active # "none"
  BY <1>1, <1>2, <1>5 DEF JournalKept, Positioned
<1>7. next = "recover" => issued[m].recover = 0 /\ step.recover # "none"
  BY <1>1, <1>2, <1>5 DEF JournalKept, Positioned
<1>8. /\ Follows(step, step) /\ Coherent(step)
      /\ Positioned(next, step, session[c].fact)
  BY <1>2 DEF Follows, History, Coherent, Positioned
<1>9. SessionKept(session[c])'
  BY <1>1, <1>2, <1>3, <1>4, <1>5, <1>6, <1>7, <1>8 DEF SessionKept
<1> QED  BY <1>1, <1>2, <1>3, <1>4, <1>8, <1>9, JournalAdvances

(***************************************************************************)
(* Every step keeps the invariant of the journals.                         *)
(***************************************************************************)
\* An effect is announced under the cursor the session last saw before it is
\* issued, so no other session of the attempt can be about to issue it.
LEMMA IssueStep ==
  ASSUME IssueInvariant, LeaseInvariant, [Next]_vars
  PROVE  IssueInvariant'
<1> USE DEF InSession
\* Steps of the controllers and of the leases.
<1>a. ASSUME UNCHANGED <<session, journal, begun, issued, world>>
      PROVE  IssueInvariant'
  BY <1>a DEF IssueInvariant, Shape, JournalKept, SessionKept, OneIssuer
\* A session returns.
<1>b. ASSUME NEW c \in Controllers, Return(c), UNCHANGED <<journal, begun, effects>>
      PROVE  IssueInvariant'
  <2>1. OnlyMoves(c) /\ session'[c] = NoSession
    BY <1>b DEF Return, OnlyMoves, IssueInvariant, Shape
  <2> QED  BY <1>b, <2>1, SessionMoves DEF NoSession, effects, IssueInvariant, Shape
\* A session goes on.
<1>c. ASSUME NEW c \in Controllers, InSession(c),
             NEW pc \in Phases \ {"execute", "recover"},
             Positioned(pc, Memory(c), session[c].fact),
             \/ session' = [session EXCEPT ![c].pc = pc]
             \/ session' = [session EXCEPT ![c].pc = pc, ![c].observed = TRUE],
             UNCHANGED <<journal, begun, effects>>
      PROVE  IssueInvariant'
  <2>1. SessionKept(session[c]) /\ session[c] \in Sessions
    BY <1>c DEF IssueInvariant, SessionKept
  <2>2. /\ OnlyMoves(c)
        /\ \/ session'[c] = [session[c] EXCEPT !.pc = pc]
           \/ session'[c] = [session[c] EXCEPT !.pc = pc, !.observed = TRUE]
    BY <1>c DEF OnlyMoves, IssueInvariant, Shape
  <2>3. /\ session'[c] \in Sessions /\ session'[c].nonce = session[c].nonce
        /\ session'[c].pc = pc /\ session'[c].memory = Memory(c)
        /\ session'[c].request = session[c].request
        /\ session'[c].archive = session[c].archive
        /\ session'[c].fact = session[c].fact
    BY <2>1, <2>2 DEF Sessions, Memory
  <2>4. SessionKept(session[c])'
    BY <1>c, <2>1, <2>3 DEF SessionKept, Memory, effects
  <2> QED  BY <1>c, <2>2, <2>3, <2>4, SessionMoves DEF effects, IssueInvariant, Shape
\* A session seals a receipt.
<1>d. ASSUME NEW c \in Controllers, InSession(c), NEW state \in JournalState,
             NEW receipt \in Receipt, SealReceipt(c, state, receipt)
      PROVE  IssueInvariant'
  <2> DEFINE h == [Memory(c) EXCEPT !.steps = @ + 1, !.state = state,
                                    !.receipt = receipt]
  <2>1. SessionKept(session[c]) /\ Memory(c) \in History
    BY <1>d DEF IssueInvariant, SessionKept, Sessions, Memory
  <2>2. /\ h.steps = Memory(c).steps + 1 /\ h.state = state
        /\ h.receipt = receipt /\ receipt # "none"
        /\ h.active = Memory(c).active /\ h.recover = Memory(c).recover
    BY <1>d, <2>1 DEF History, Receipt
  <2>4. h \in History
    <3>1. [Memory(c) EXCEPT !.steps = @ + 1] \in History
      BY <2>1 DEF History
    <3>2. \A g \in History : [g EXCEPT !.state = state] \in History
      BY DEF History
    <3>3. \A g \in History : [g EXCEPT !.receipt = receipt] \in History
      BY DEF History
    <3> QED  BY <3>1, <3>2, <3>3
  <2>3. /\ OnlyMoves(c) /\ session'[c] = NoSession /\ CursorMatches(c)
        /\ UNCHANGED <<begun, issued, world>>
        /\ journal' = [journal EXCEPT ![session[c].nonce] = h]
    BY <1>d DEF SealReceipt, Return, OnlyMoves, IssueInvariant, Shape, effects
  <2> HIDE DEF h
  <2>5. h.receipt # "none"  BY <2>2
  <2>6. ~InSession(c)'  BY <2>3 DEF NoSession
  <2> QED  BY <1>d, <2>2, <2>3, <2>4, <2>5, <2>6, JournalAdvances
\* The backend answers.
<1>e. ASSUME NEW c \in Controllers, InSession(c), NEW content \in Contents,
             NEW next \in {"record", "record_recovery"}, Answer(c, content, next),
             \/ /\ At(c, "execute") /\ next = "record"
                /\ issued' = [issued EXCEPT ![session[c].nonce].active = @ + 1]
             \/ /\ At(c, "recover") /\ next = "record_recovery"
                /\ issued' = [issued EXCEPT ![session[c].nonce].recover = @ + 1]
      PROVE  IssueInvariant'
  <2> DEFINE m == session[c].nonce
  <2>1. SessionKept(session[c]) /\ session[c] \in Sessions /\ m \in Nonces /\ m <= begun
    BY <1>e DEF IssueInvariant, SessionKept, Sessions
  <2>2. PICK fact \in {"completed", "failed", "indeterminate"} :
          session' = [session EXCEPT ![c].fact = fact, ![c].pc = next]
    BY <1>e DEF Answer
  <2>3. /\ session' = [d \in Controllers |-> session'[d]]
        /\ \A d \in Controllers \ {c} : session'[d] = session[d]
        /\ session'[c] = [session[c] EXCEPT !.fact = fact, !.pc = next]
    BY <1>e, <2>2 DEF IssueInvariant, Shape
  <2>4. /\ session'[c].nonce = m /\ session'[c].pc = next
        /\ session'[c].memory = Memory(c) /\ session'[c].fact = fact
        /\ session'[c].request = session[c].request
        /\ session'[c].archive = session[c].archive
    BY <2>1, <2>3 DEF Sessions, Memory
  <2>5. session'[c] \in Sessions
    <3>1. [session[c] EXCEPT !.fact = fact] \in Sessions
      BY <2>1 DEF Sessions, Fact
    <3>2. \A s \in Sessions : [s EXCEPT !.pc = next] \in Sessions
      BY <1>e DEF Sessions, Phases
    <3> QED  BY <2>3, <3>1, <3>2
  <2>6. UNCHANGED <<journal, begun>>
    BY <1>e DEF Answer
  <2>7. /\ issued' = [n \in Nonces |-> issued'[n]]
        /\ \A n \in Nonces \ {m} : issued'[n] = issued[n]
        /\ \A n \in Nonces : issued[n] \in [active : {0, 1}, recover : {0, 1}]
    BY <1>e, <2>1 DEF IssueInvariant, Shape, JournalKept
  <2>8. \/ /\ session[c].pc = "execute" /\ next = "record"
           /\ issued'[m] = [issued[m] EXCEPT !.active = @ + 1]
        \/ /\ session[c].pc = "recover" /\ next = "record_recovery"
           /\ issued'[m] = [issued[m] EXCEPT !.recover = @ + 1]
    BY <1>e, <2>1 DEF At, IssueInvariant, Shape
  <2>9. \/ /\ session[c].pc = "execute" /\ next = "record"
           /\ issued'[m] = [active |-> 1, recover |-> issued[m].recover]
        \/ /\ session[c].pc = "recover" /\ next = "record_recovery"
           /\ issued'[m] = [active |-> issued[m].active, recover |-> 1]
    BY <2>1, <2>7, <2>8 DEF SessionKept
  <2>10. Shape'
    <3>1. world' \in [DOMAIN Initial -> Contents]
      BY <1>e DEF Answer, IssueInvariant, Shape
    <3> QED  BY <2>3, <2>6, <2>7, <3>1 DEF IssueInvariant, Shape
  <2>11. ASSUME NEW n \in Nonces PROVE JournalKept(n)'
    <3>1. JournalKept(n)  BY DEF IssueInvariant
    <3>2. CASE n # m
      BY <2>6, <2>7, <3>1, <3>2 DEF JournalKept
    <3>3. CASE n = m
      BY <2>1, <2>6, <2>7, <2>9, <3>1, <3>3 DEF JournalKept, SessionKept
    <3> QED  BY <3>2, <3>3
  <2>12. SessionKept(session[c])'
    <3>1. Positioned(next, Memory(c), fact)
      BY <1>e, <2>1, <2>9 DEF SessionKept, Positioned, Memory
    <3> QED  BY <1>e, <2>1, <2>4, <2>5, <2>6, <3>1 DEF SessionKept, Memory
  <2>13. ASSUME NEW d \in Controllers, d # c, session[d].pc # "idle"
         PROVE  SessionKept(session[d])'
    <3>1. SessionKept(session[d]) /\ session[d].nonce \in Nonces
      BY <2>13 DEF IssueInvariant, SessionKept, Sessions
    <3>2. session[d].nonce = m => session[d].pc # session[c].pc
      BY <2>9, <2>13 DEF IssueInvariant, OneIssuer
    <3>3. /\ session[d].pc = "execute" => issued'[session[d].nonce].active = 0
          /\ session[d].pc = "recover" => issued'[session[d].nonce].recover = 0
      BY <2>7, <2>9, <3>1, <3>2 DEF SessionKept
    <3>4. session'[d] = session[d]  BY <2>3, <2>13
    <3> QED  BY <2>6, <3>1, <3>3, <3>4 DEF SessionKept
  <2>14. OneIssuer'
    <3>1. next \notin {"execute", "recover"}  BY <1>e
    <3>2. \A d \in Controllers : session'[d].pc \in {"execute", "recover"} =>
            session'[d] = session[d]
      BY <2>3, <2>4, <3>1
    <3> QED  BY <3>2 DEF IssueInvariant, OneIssuer
  <2> QED  BY <2>3, <2>10, <2>11, <2>12, <2>13, <2>14 DEF IssueInvariant
<1>1. ASSUME NEW c \in Controllers, Preparation(c) PROVE IssueInvariant'
  <2>1. CASE Apply(c)
    <3>0. PICK q \in Requests, b \in Backends, archive \in Archives \cup {NotGiven} :
            /\ Admissible(q, control[c].projection, LeaseOf(c), b, archive)
            /\ session' = [session EXCEPT ![c] =
                 Entered("fresh", "admission", q, archive, b,
                         Transaction(b, TargetOf(q), control[c].lease, begun + 1).nonce,
                         Blank)]
      BY <2>1 DEF Apply
    <3>1. /\ Submitted[q].kind = "remove" \/ archive \in Archives
          /\ session' = [session EXCEPT ![c] =
               Entered("fresh", "admission", q, archive, b, begun + 1, Blank)]
      <4>1. Submitted[q].kind = "remove" \/ archive \in Archives
        BY <3>0 DEF Admissible
      <4>2. Transaction(b, TargetOf(q), control[c].lease, begun + 1).nonce = begun + 1
        BY DEF Transaction
      <4> QED  BY <3>0, <4>1, <4>2
    <3>2. /\ begun' = begun + 1 /\ begun \in 0 .. MaxAttempts /\ begun < MaxAttempts
          /\ UNCHANGED <<journal, issued, world>> /\ MaxAttempts \in Nat
      BY <2>1, BoundsAssumption DEF Apply, effects, IssueInvariant, Shape
    <3>3. /\ begun' \in Nonces /\ journal[begun'] = Blank
          /\ JournalKept(begun')
      BY <3>2 DEF Nonces, IssueInvariant, JournalKept
    <3>4. /\ session' = [d \in Controllers |-> session'[d]]
          /\ \A d \in Controllers \ {c} : session'[d] = session[d]
          /\ session'[c] =
               Entered("fresh", "admission", q, archive, b, begun', Blank)
      BY <3>1, <3>2 DEF IssueInvariant, Shape
    <3>5. Blank \in History /\ Coherent(Blank)
      BY DEF Blank, History, JournalState, Receipt, Fact, Coherent
    <3>6. SessionKept(session[c])'
      <4>1. session'[c] \in Sessions
        BY <3>3, <3>4, <3>5 DEF Entered, Sessions, Phases, Fact
      <4>2. /\ session'[c].pc = "admission" /\ session'[c].memory = Blank
            /\ session'[c].nonce = begun' /\ session'[c].request = q
            /\ session'[c].archive = archive
        BY <3>4 DEF Entered
      <4>3. Follows(Blank, Blank) /\ Positioned("admission", Blank, session'[c].fact)
        BY DEF Follows, Blank, Positioned
      <4> QED  BY <3>1, <3>2, <3>3, <3>5, <4>1, <4>2, <4>3 DEF SessionKept
    <3>7. ASSUME NEW d \in Controllers, d # c, session[d].pc # "idle"
          PROVE  SessionKept(session[d])'
      <4>1. SessionKept(session[d]) /\ session'[d] = session[d]
        BY <3>4, <3>7 DEF IssueInvariant
      <4>2. session[d].nonce \in Nat /\ begun \in Nat
        BY <3>2, <4>1 DEF SessionKept, Sessions, Nonces
      <4> QED  BY <3>2, <4>1, <4>2 DEF SessionKept
    <3>8. Shape'  BY <3>2, <3>4 DEF IssueInvariant, Shape
    <3>9. ASSUME NEW n \in Nonces PROVE JournalKept(n)'
      BY <3>2 DEF IssueInvariant, JournalKept, Nonces
    <3>10. OneIssuer'
      <4>1. session'[c].pc = "admission"  BY <3>4 DEF Entered
      <4> QED  BY <3>4, <4>1 DEF OneIssuer, IssueInvariant
    <3> QED  BY <3>4, <3>6, <3>7, <3>8, <3>9, <3>10 DEF IssueInvariant
  <2>2. CASE FinishAdmission(c)
    <3>1. CASE ~Satisfied(c)
      BY <2>2, <3>1, <1>b DEF FinishAdmission
    <3>2. CASE Satisfied(c)
      <4>1. Positioned("declare", Memory(c), session[c].fact)
        BY <2>2 DEF FinishAdmission, At, IssueInvariant, SessionKept, Positioned, Memory
      <4> QED  BY <2>2, <3>2, <4>1, <1>c DEF FinishAdmission, At, Phases
    <3> QED  BY <3>1, <3>2
  <2>3. CASE Declare(c)
    <3>1. Positioned("enter_preparation", Memory(c), session[c].fact)
      BY <2>3 DEF Declare, At, IssueInvariant, SessionKept, Positioned, Memory
    <3> QED  BY <2>3, <3>1, <1>c DEF Declare, Goto, At, Phases
  <2>4. CASE EnterPreparation(c)
    <3>1. Positioned("stage", Memory(c), session[c].fact)
      BY <2>4 DEF EnterPreparation, Gate, At, IssueInvariant, SessionKept,
                  Positioned, Memory, Blank
    <3> QED  BY <2>4, <3>1, <1>c DEF EnterPreparation, Gate, Goto, At, Phases
  <2>5. CASE Stage(c)
    <3> DEFINE planned == Planned(Request(c), session[c].archive)
               h == [Memory(c) EXCEPT !.captured = Found(c), !.staged = planned]
    <3>1. /\ SessionKept(session[c]) /\ session[c] \in Sessions
          /\ Memory(c) \in History /\ Memory(c).state = "preparing"
          /\ Coherent(Memory(c))
      BY <2>5 DEF Stage, At, IssueInvariant, SessionKept, Sessions, Memory, Positioned
    <3>2. Found(c) \in Contents /\ planned \in Contents /\ NotGiven \notin Contents
      <4>1. Found(c) \in Contents
        BY <3>1, TargetsAssumption DEF Found, Sessions, IssueInvariant, Shape
      <4>2. planned \in Contents
        BY <3>1 DEF SessionKept, Planned, Request, Contents
      <4> QED  BY <4>1, <4>2, TargetsAssumption
    <3>3. h \in History
      <4>1. [Memory(c) EXCEPT !.captured = Found(c)] \in History
        BY <3>1, <3>2 DEF History
      <4>2. \A g \in History : [g EXCEPT !.staged = planned] \in History
        BY <3>2 DEF History
      <4> QED  BY <4>1, <4>2
    <3>4. /\ h.steps = Memory(c).steps /\ h.state = "preparing"
          /\ h.captured = Found(c) /\ h.staged = planned
          /\ h.active = Memory(c).active /\ h.recover = Memory(c).recover
          /\ h.receipt = Memory(c).receipt
      BY <3>1 DEF History
    <3>5. AppendStep(c, h, "seal_preparation") /\ UNCHANGED effects /\ InSession(c)
      BY <2>5 DEF Stage, At
    <3> HIDE DEF h, planned
    <3>6. Coherent(h) /\ Positioned("seal_preparation", h, session[c].fact)
      BY <3>1, <3>2, <3>4 DEF Coherent, Positioned
    <3> QED  BY <3>3, <3>4, <3>5, <3>6, AppendKept DEF Phases
  <2>6. CASE SealPreparation(c)
    <3> DEFINE h == [Memory(c) EXCEPT !.state = "prepared"]
               next == IF session[c].mode = "fresh" THEN "enter_rejected"
                       ELSE "resume_rejected"
    <3>1. /\ Memory(c) \in History /\ Memory(c).state = "preparing"
          /\ Coherent(Memory(c)) /\ Memory(c).captured # NotGiven
      BY <2>6 DEF SealPreparation, At, IssueInvariant, SessionKept, Sessions,
                  Memory, Positioned
    <3>2. /\ h \in History /\ h.steps = Memory(c).steps /\ h.state = "prepared"
          /\ h.captured = Memory(c).captured /\ h.staged = Memory(c).staged
          /\ h.active = Memory(c).active /\ h.recover = Memory(c).recover
          /\ h.receipt = Memory(c).receipt
      BY <3>1 DEF History, JournalState
    <3>3. AppendStep(c, h, next) /\ UNCHANGED effects /\ InSession(c)
      BY <2>6 DEF SealPreparation, At
    <3>4. next \in {"enter_rejected", "resume_rejected"}  OBVIOUS
    <3> HIDE DEF h, next
    <3>5. Coherent(h) /\ Positioned(next, h, session[c].fact)
      BY <3>1, <3>2, <3>4 DEF Coherent, Positioned
    <3> QED  BY <3>2, <3>3, <3>4, <3>5, AppendKept DEF Phases
  <2> QED  BY <1>1, <2>1, <2>2, <2>3, <2>4, <2>5, <2>6 DEF Preparation
\* What a session has at hand.
<1>f. ASSUME NEW c \in Controllers, InSession(c)
      PROVE  /\ Memory(c) \in History /\ Coherent(Memory(c))
             /\ session[c].fact \in Fact
             /\ Positioned(session[c].pc, Memory(c), session[c].fact)
             /\ \A state \in JournalState : [Memory(c) EXCEPT !.state = state] \in History
             /\ \A fact \in Fact : [Memory(c) EXCEPT !.active = fact] \in History
             /\ \A fact \in Fact : [Memory(c) EXCEPT !.recover = fact] \in History
             /\ Memory(c).captured \in Contents \cup {NotGiven}
             /\ Memory(c).staged \in Contents \cup {NotGiven}
  <2>1. SessionKept(session[c]) /\ session[c] \in Sessions /\ Memory(c) \in History
    BY <1>f DEF IssueInvariant, SessionKept, Sessions, Memory
  <2>2. /\ Memory(c).captured \in Contents \cup {NotGiven}
        /\ Memory(c).staged \in Contents \cup {NotGiven}
    BY <2>1 DEF History
  <2>3. \A state \in JournalState : [Memory(c) EXCEPT !.state = state] \in History
    BY <2>1 DEF History
  <2>4. \A fact \in Fact : [Memory(c) EXCEPT !.active = fact] \in History
    BY <2>1 DEF History
  <2>5. \A fact \in Fact : [Memory(c) EXCEPT !.recover = fact] \in History
    BY <2>1 DEF History
  <2> QED  BY <2>1, <2>2, <2>3, <2>4, <2>5 DEF SessionKept, Sessions, Memory
\* An append that changes the lifecycle state only.
<1>g. ASSUME NEW c \in Controllers, InSession(c), NEW state \in JournalState,
             NEW next \in Phases \ {"admission", "declare", "enter_preparation",
                                    "execute", "recover"},
             AppendStep(c, [Memory(c) EXCEPT !.state = state], next),
             UNCHANGED effects,
             \A h \in History :
               /\ h.state = state
               /\ h.captured = Memory(c).captured /\ h.staged = Memory(c).staged
               /\ h.active = Memory(c).active /\ h.recover = Memory(c).recover
               /\ h.receipt = Memory(c).receipt
               => Coherent(h) /\ Positioned(next, h, session[c].fact)
      PROVE  IssueInvariant'
  <2> DEFINE h == [Memory(c) EXCEPT !.state = state]
  <2>1. h \in History  BY <1>g, <1>f
  <2>2. /\ h.steps = Memory(c).steps /\ h.state = state
        /\ h.captured = Memory(c).captured /\ h.staged = Memory(c).staged
        /\ h.active = Memory(c).active /\ h.recover = Memory(c).recover
        /\ h.receipt = Memory(c).receipt
    BY <1>g, <1>f DEF History
  <2>3. AppendStep(c, h, next)  BY <1>g
  <2> HIDE DEF h
  <2>4. Coherent(h) /\ Positioned(next, h, session[c].fact)  BY <1>g, <2>1, <2>2
  <2> QED  BY <1>g, <2>1, <2>2, <2>3, <2>4, AppendKept
\* An append about the active effect, or about its recovery.
<1>h. ASSUME NEW c \in Controllers, InSession(c), NEW fact \in Fact \ {"none"},
             NEW next \in Phases \ {"admission", "declare", "enter_preparation"},
             UNCHANGED effects,
             NEW h \in {[Memory(c) EXCEPT !.active = fact],
                        [Memory(c) EXCEPT !.recover = fact]},
             AppendStep(c, h, next), Coherent(h),
             Positioned(next, h, session[c].fact),
             next = "execute" => Memory(c).active = "none",
             next = "recover" => Memory(c).recover = "none"
      PROVE  IssueInvariant'
  <2>1. h \in History  BY <1>h, <1>f
  <2>2. /\ h.steps = Memory(c).steps
        /\ h.active \in {Memory(c).active, fact}
        /\ h.recover \in {Memory(c).recover, fact}
    BY <1>h, <1>f DEF History
  <2> QED  BY <1>h, <2>1, <2>2, AppendKept
<1>2. ASSUME NEW c \in Controllers, Mutation(c) PROVE IssueInvariant'
  <2>1. CASE EnterRejected(c)
    <3>1. Positioned("begin_mutation", Memory(c), session[c].fact)
      BY <2>1, <1>f DEF EnterRejected, Gate, At, Positioned
    <3> QED  BY <2>1, <3>1, <1>c DEF EnterRejected, Gate, Goto, At, Phases
  <2>2. CASE BeginMutation(c)
    <3> DEFINE next == IF session[c].mode = "fresh" THEN "enter_active"
                       ELSE "resume_active"
    <3>1. InSession(c) /\ session[c].pc = "begin_mutation"
      BY <2>2 DEF BeginMutation, At
    <3>2. /\ AppendStep(c, [Memory(c) EXCEPT !.state = "mutating"], next)
          /\ UNCHANGED effects
      BY <2>2 DEF BeginMutation
    <3>3. next \in {"enter_active", "resume_active"}  OBVIOUS
    <3> HIDE DEF next
    <3>4. ASSUME NEW h \in History, h.state = "mutating",
                 h.captured = Memory(c).captured, h.staged = Memory(c).staged,
                 h.active = Memory(c).active, h.recover = Memory(c).recover,
                 h.receipt = Memory(c).receipt
          PROVE  Coherent(h) /\ Positioned(next, h, session[c].fact)
      BY <3>1, <3>3, <3>4, <1>f DEF Coherent, Positioned
    <3>5. /\ "mutating" \in JournalState
          /\ next \in Phases \ {"admission", "declare", "enter_preparation",
                                "execute", "recover"}
      BY <3>3 DEF Phases, JournalState
    <3> QED  BY <3>1, <3>2, <3>4, <3>5, <1>g
  <2>3. CASE EnterActive(c)
    <3>1. Positioned("announce", Memory(c), session[c].fact)
      BY <2>3, <1>f DEF EnterActive, Gate, At, Positioned
    <3> QED  BY <2>3, <3>1, <1>c DEF EnterActive, Gate, Goto, At, Phases
  <2>4. CASE Announce(c)
    <3> DEFINE h == [Memory(c) EXCEPT !.active = "intent"]
    <3>1. /\ InSession(c) /\ session[c].pc = "announce"
          /\ AppendStep(c, h, "execute") /\ UNCHANGED effects
      BY <2>4 DEF Announce, At
    <3>2. Coherent(h) /\ Positioned("execute", h, session[c].fact)
      BY <3>1, <1>f DEF Coherent, Positioned, History
    <3>3. Memory(c).active = "none"  BY <3>1, <1>f DEF Positioned
    <3> QED  BY <3>1, <3>2, <3>3, <1>h DEF Phases, Fact
  <2>5. CASE ExecuteActive(c)
    <3>1. InSession(c) /\ session[c].pc = "execute"
      BY <2>5 DEF ExecuteActive, At
    <3>2. Memory(c).staged \in Contents
      BY <3>1, <1>f DEF Positioned, Coherent
    <3> QED  BY <2>5, <3>1, <3>2, <1>e DEF ExecuteActive
  <2>6. CASE RecordActive(c)
    <3> DEFINE fact == session[c].fact
               h == [Memory(c) EXCEPT !.active = fact]
               next == IF fact = "completed" THEN "effects_visible" ELSE "interrupt"
    <3>1. /\ InSession(c) /\ session[c].pc = "record"
          /\ AppendStep(c, h, next) /\ UNCHANGED effects
      BY <2>6 DEF RecordActive, At
    <3>2. next \in {"effects_visible", "interrupt"}  OBVIOUS
    <3>3. fact \in Fact \ {"none"}  BY <3>1, <1>f DEF Positioned
    <3>4. /\ Coherent(h) /\ Positioned("effects_visible", h, fact)
          /\ Positioned("interrupt", h, fact)
      BY <3>1, <1>f DEF Coherent, Positioned, History
    <3> QED  BY <3>1, <3>2, <3>3, <3>4, <1>h DEF Phases
  <2>7. CASE EffectsVisible(c)
    <3>1. InSession(c) /\ session[c].pc = "effects_visible" /\ UNCHANGED effects
      BY <2>7 DEF EffectsVisible, At
    <3>2. CASE Memory(c).state = "mutating"
      <4>1. AppendStep(c, [Memory(c) EXCEPT !.state = "effects_visible"],
                       "enter_completion")
        BY <2>7, <3>2 DEF EffectsVisible
      <4>2. ASSUME NEW h \in History, h.state = "effects_visible",
                   h.captured = Memory(c).captured, h.staged = Memory(c).staged,
                   h.active = Memory(c).active, h.recover = Memory(c).recover,
                   h.receipt = Memory(c).receipt
            PROVE  Coherent(h) /\ Positioned("enter_completion", h, session[c].fact)
        BY <3>1, <3>2, <4>2, <1>f DEF Coherent, Positioned
      <4>3. "effects_visible" \in JournalState /\ "enter_completion" \in Phases
        BY DEF JournalState, Phases
      <4> QED  BY <3>1, <4>1, <4>2, <4>3, <1>g
    <3>3. CASE Memory(c).state # "mutating"
      <4>1. Positioned("enter_completion", Memory(c), session[c].fact)
        BY <3>1, <1>f DEF Positioned
      <4> QED  BY <2>7, <3>1, <3>3, <4>1, <1>c DEF EffectsVisible, Goto, Phases
    <3> QED  BY <3>2, <3>3
  <2> QED  BY <1>2, <2>1, <2>2, <2>3, <2>4, <2>5, <2>6, <2>7 DEF Mutation
<1>3. ASSUME NEW c \in Controllers, Resolution(c) PROVE IssueInvariant'
  <2>1. CASE EnterCompletion(c)
    <3>1. Positioned("observe", Memory(c), session[c].fact)
      BY <2>1, <1>f DEF EnterCompletion, Gate, At, Positioned
    <3> QED  BY <2>1, <3>1, <1>c DEF EnterCompletion, Gate, Goto, At, Phases
  <2>2. CASE Observe(c)
    <3>1. /\ Positioned("complete", Memory(c), session[c].fact)
          /\ Positioned("interrupt", Memory(c), session[c].fact)
      BY <2>2, <1>f DEF Observe, At, Positioned
    <3> QED  BY <2>2, <3>1, <1>c DEF Observe, Goto, At, Phases
  <2>3. CASE Complete(c)
    BY <2>3, <1>d DEF Complete, At, JournalState, Receipt
  <2>4. CASE Interrupt(c)
    <3>1. InSession(c) /\ session[c].pc = "interrupt" /\ UNCHANGED effects
      BY <2>4 DEF Interrupt, At
    <3>2. CASE Memory(c).state # "recovering"
      <4>1. PICK state \in {"indeterminate", "recovery_pending"} :
              AppendStep(c, [Memory(c) EXCEPT !.state = state], "enter_recovery")
        BY <2>4, <3>2 DEF Interrupt
      <4>2. ASSUME NEW h \in History, h.state = state,
                   h.captured = Memory(c).captured, h.staged = Memory(c).staged,
                   h.active = Memory(c).active, h.recover = Memory(c).recover,
                   h.receipt = Memory(c).receipt
            PROVE  Coherent(h) /\ Positioned("enter_recovery", h, session[c].fact)
        BY <3>1, <3>2, <4>2, <1>f DEF Coherent, Positioned
      <4>3. state \in JournalState /\ "enter_recovery" \in Phases
        BY DEF JournalState, Phases
      <4> QED  BY <3>1, <4>1, <4>2, <4>3, <1>g
    <3>3. CASE Memory(c).state = "recovering"
      <4>1. Positioned("enter_recovery", Memory(c), session[c].fact)
        BY <3>1, <1>f DEF Positioned
      <4> QED  BY <2>4, <3>1, <3>3, <4>1, <1>c DEF Interrupt, Goto, Phases
    <3> QED  BY <3>2, <3>3
  <2>5. CASE EnterRecovery(c)
    <3>1. /\ Positioned("conclude", Memory(c), session[c].fact)
          /\ Positioned("begin_recovery", Memory(c), session[c].fact)
      BY <2>5, <1>f DEF EnterRecovery, Gate, At, Positioned
    <3> QED  BY <2>5, <3>1, <1>c DEF EnterRecovery, Gate, Goto, At, Phases
  <2>6. CASE BeginRecovery(c)
    <3>1. InSession(c) /\ session[c].pc = "begin_recovery" /\ UNCHANGED effects
      BY <2>6 DEF BeginRecovery, At
    <3>2. CASE Memory(c).state # "recovering"
      <4>1. AppendStep(c, [Memory(c) EXCEPT !.state = "recovering"],
                       "announce_recovery")
        BY <2>6, <3>2 DEF BeginRecovery
      <4>2. ASSUME NEW h \in History, h.state = "recovering",
                   h.captured = Memory(c).captured, h.staged = Memory(c).staged,
                   h.active = Memory(c).active, h.recover = Memory(c).recover,
                   h.receipt = Memory(c).receipt
            PROVE  Coherent(h) /\ Positioned("announce_recovery", h, session[c].fact)
        BY <3>1, <3>2, <4>2, <1>f DEF Coherent, Positioned
      <4>3. "recovering" \in JournalState /\ "announce_recovery" \in Phases
        BY DEF JournalState, Phases
      <4> QED  BY <3>1, <4>1, <4>2, <4>3, <1>g
    <3>3. CASE Memory(c).state = "recovering"
      <4>1. /\ Positioned("conclude", Memory(c), session[c].fact)
            /\ Memory(c).recover = "none" =>
                 Positioned("announce_recovery", Memory(c), session[c].fact)
        BY <3>1, <3>3, <1>f DEF Positioned
      <4> QED  BY <2>6, <3>1, <3>3, <4>1, <1>c DEF BeginRecovery, Goto, Phases
    <3> QED  BY <3>2, <3>3
  <2>7. CASE AnnounceRecovery(c)
    <3> DEFINE h == [Memory(c) EXCEPT !.recover = "intent"]
    <3>1. /\ InSession(c) /\ session[c].pc = "announce_recovery"
          /\ AppendStep(c, h, "recover") /\ UNCHANGED effects
      BY <2>7 DEF AnnounceRecovery, At
    <3>2. Coherent(h) /\ Positioned("recover", h, session[c].fact)
      BY <3>1, <1>f DEF Coherent, Positioned, History
    <3>3. Memory(c).recover = "none"  BY <3>1, <1>f DEF Positioned
    <3> QED  BY <3>1, <3>2, <3>3, <1>h DEF Phases, Fact
  <2>8. CASE Recover(c)
    <3>1. InSession(c) /\ session[c].pc = "recover"
      BY <2>8 DEF Recover, At
    <3>2. Memory(c).captured \in Contents
      BY <3>1, <1>f DEF Positioned, Coherent
    <3> QED  BY <2>8, <3>1, <3>2, <1>e DEF Recover
  <2>9. CASE RecordRecovery(c)
    <3> DEFINE fact == session[c].fact
               h == [Memory(c) EXCEPT !.recover = fact]
    <3>1. /\ InSession(c) /\ session[c].pc = "record_recovery"
          /\ AppendStep(c, h, "conclude") /\ UNCHANGED effects
      BY <2>9 DEF RecordRecovery, At
    <3>2. fact \in Fact \ {"none"}  BY <3>1, <1>f DEF Positioned
    <3>3. Coherent(h) /\ Positioned("conclude", h, fact)
      BY <3>1, <1>f DEF Coherent, Positioned, History
    <3>4. "conclude" \in Phases \ {"admission", "declare", "enter_preparation"}
      BY DEF Phases
    <3> QED  BY <3>1, <3>2, <3>3, <3>4, <1>h
  <2>10. CASE Conclude(c)
    BY <2>10, <1>d DEF Conclude, At, JournalState, Receipt
  <2> QED  BY <1>3, <2>1, <2>2, <2>3, <2>4, <2>5, <2>6, <2>7, <2>8, <2>9, <2>10
           DEF Resolution
<1>4. ASSUME NEW c \in Controllers, Restart(c) PROVE IssueInvariant'
  <2>1. CASE Resume(c)
    <3>0. PICK n \in Nonces, q \in Requests, b \in Backends,
               archive \in Archives \cup {NotGiven} :
            /\ Journaled(n) /\ Resumable(journal[n])
            /\ Restartable(q, control[c].projection, LeaseOf(c), b, archive, declared[n],
                           Transaction(b, TargetOf(q), control[c].lease, n))
            /\ session' = [session EXCEPT ![c] =
                 Entered("resumed", "resume_preparation", q, archive, b, n, journal[n])]
      BY <2>1 DEF Resume
    <3>1. /\ Journaled(n) /\ journal[n].receipt = "none"
          /\ Submitted[q].kind = "remove" \/ archive \in Archives
          /\ session' = [session EXCEPT ![c] =
               Entered("resumed", "resume_preparation", q, archive, b, n, journal[n])]
      BY <3>0 DEF Restartable, Admissible, Resumable
    <3>2. /\ journal[n] \in History /\ Coherent(journal[n]) /\ n <= begun
          /\ journal[n].steps \in Nat
      BY <3>1 DEF IssueInvariant, JournalKept, LeaseInvariant, History
    <3>3. /\ OnlyMoves(c)
          /\ session'[c] =
               Entered("resumed", "resume_preparation", q, archive, b, n, journal[n])
      BY <3>1 DEF OnlyMoves, IssueInvariant, Shape
    <3>4. UNCHANGED <<journal, begun, effects>>
      BY <2>1 DEF Resume
    <3>5. SessionKept(session[c])'
      <4>1. session'[c] \in Sessions
        BY <3>2, <3>3 DEF Entered, Sessions, Phases, Fact
      <4>2. /\ session'[c].pc = "resume_preparation"
            /\ session'[c].memory = journal[n]
            /\ session'[c].nonce = n /\ session'[c].request = q
            /\ session'[c].archive = archive
        BY <3>3 DEF Entered
      <4>3. /\ Follows(journal[n], journal[n])
            /\ Positioned("resume_preparation", journal[n], session'[c].fact)
        BY <3>2 DEF Follows, Positioned
      <4> QED  BY <3>1, <3>2, <3>4, <4>1, <4>2, <4>3 DEF SessionKept
    <3>6. session'[c].pc = "resume_preparation"  BY <3>3 DEF Entered
    <3> QED  BY <3>3, <3>4, <3>5, <3>6, SessionMoves DEF effects, IssueInvariant, Shape
  <2>2. CASE ResumePreparation(c)
    <3>1. InSession(c) /\ session[c].pc = "resume_preparation"
      BY <2>2 DEF ResumePreparation, At
    <3>2. CASE Memory(c).state # "preparing"
      <4>1. Positioned("resume_rejected", Memory(c), session[c].fact)
        BY <3>2 DEF Positioned
      <4> QED  BY <2>2, <3>1, <3>2, <4>1, <1>c DEF ResumePreparation, Goto, Phases
    <3>3. CASE Memory(c).state = "preparing" /\ Satisfied(c)
      <4>1. /\ Positioned("stage", Memory(c), session[c].fact)
            /\ Memory(c).captured # NotGiven =>
                 Positioned("seal_preparation", Memory(c), session[c].fact)
        BY <3>3 DEF Positioned
      <4> QED  BY <2>2, <3>1, <3>3, <4>1, <1>c DEF ResumePreparation, Phases
    <3>4. CASE Memory(c).state = "preparing" /\ ~Satisfied(c)
      BY <2>2, <3>1, <3>4, <1>d DEF ResumePreparation, JournalState, Receipt
    <3> QED  BY <3>2, <3>3, <3>4
  <2>3. CASE ResumeRejected(c)
    <3> DEFINE go == CASE Memory(c).state = "prepared" -> "begin_mutation"
                       [] RequiresRecovery(Memory(c)) -> "interrupt"
                       [] OTHER -> "resume_active"
    <3>0. Goto(c, go) /\ UNCHANGED <<journal, begun, effects>>
      BY <2>3 DEF ResumeRejected, Gate
    <3>4. Memory(c).state = "prepared" => go = "begin_mutation"
      BY DEF RequiresRecovery
    <3>5. Memory(c).state # "prepared" => go \in {"interrupt", "resume_active"}
      OBVIOUS
    <3> HIDE DEF go
    <3>1. InSession(c) /\ Memory(c).state # "preparing"
      BY <2>3, <1>f DEF ResumeRejected, Gate, At, Positioned
    <3>2. CASE Memory(c).state = "prepared"
      <4>1. Positioned("begin_mutation", Memory(c), session[c].fact)
        BY <3>2 DEF Positioned
      <4> QED  BY <3>0, <3>1, <3>2, <3>4, <4>1, <1>c DEF Goto, Phases
    <3>3. CASE Memory(c).state # "prepared"
      <4>1. /\ Positioned("interrupt", Memory(c), session[c].fact)
            /\ Positioned("resume_active", Memory(c), session[c].fact)
        BY <3>1, <3>3 DEF Positioned
      <4> QED  BY <3>0, <3>1, <3>3, <3>5, <4>1, <1>c DEF Goto, Phases
    <3> QED  BY <3>2, <3>3
  <2>4. CASE ResumeActive(c)
    <3>1. /\ InSession(c)
          /\ Positioned("effects_visible", Memory(c), session[c].fact)
          /\ Memory(c).active = "none" =>
               Positioned("announce", Memory(c), session[c].fact)
      BY <2>4, <1>f DEF ResumeActive, Gate, At, Positioned
    <3> QED  BY <2>4, <3>1, <1>c DEF ResumeActive, Gate, Goto, Phases
  <2> QED  BY <1>4, <2>1, <2>2, <2>3, <2>4 DEF Restart
<1>5. ASSUME NEW c \in Controllers, Controller(c) PROVE IssueInvariant'
  <2>1. CASE Crash(c)
    BY <2>1, <1>b DEF Crash
  <2>2. CASE ~Crash(c)
    BY <1>5, <2>2, <1>a
       DEF Controller, Acquire, ReadState, PublishState, Release, effects
  <2> QED  BY <2>1, <2>2
<1>6. ASSUME NEW c \in Controllers, LosesLease(c) \/ LosesCursor(c)
      PROVE  IssueInvariant'
  BY <1>6, <1>b DEF LosesLease, LosesCursor
<1>7. ASSUME NEW i \in held, Lapse(i) PROVE IssueInvariant'
  BY <1>7, <1>a DEF Lapse, effects
<1>8. CASE UNCHANGED vars
  BY <1>8, <1>a DEF vars
<1> QED  BY <1>1, <1>2, <1>3, <1>4, <1>5, <1>6, <1>7, <1>8 DEF Next

(***************************************************************************)
(* Every step keeps the invariant of the leases.                           *)
(***************************************************************************)
\* Only one held lease is of the shared domain, so whoever publishes a state
\* is the only controller whose projection is of the state before.
LEMMA LeaseStep ==
  ASSUME IssueInvariant, LeaseInvariant, [Next]_vars
  PROVE  LeaseInvariant'
<1> USE DEF InSession, Request, Projected, ProjectedLease, Journaled
\* A session that goes on, or returns, keeps its request.
<1>a. ASSUME NEW c \in Controllers, InSession(c),
             UNCHANGED <<leases, declared, stateStore, begun>>,
             \/ Return(c)
             \/ \E pc \in Phases : Goto(c, pc)
             \/ \E pc \in Phases :
                  session' = [session EXCEPT ![c].pc = pc, ![c].observed = TRUE]
             \/ \E pc \in Phases, fact \in Fact :
                  session' = [session EXCEPT ![c].fact = fact, ![c].pc = pc]
             \/ \E h : \E pc \in Phases : AppendStep(c, h, pc)
      PROVE  LeaseInvariant'
  <2>1. session[c] \in Sessions
    BY <1>a DEF IssueInvariant, SessionKept
  <2>2. /\ session' = [d \in Controllers |-> session'[d]]
        /\ \A d \in Controllers \ {c} : session'[d] = session[d]
    BY <1>a DEF Return, Goto, AppendStep, LeaseInvariant
  <2>3. session'[c].pc # "idle" => session'[c].request = session[c].request
    <3>1. CASE Return(c)
      BY <3>1 DEF Return, NoSession, LeaseInvariant
    <3>2. ASSUME NEW pc \in Phases, Goto(c, pc)
          PROVE  session'[c].request = session[c].request
      <4>1. session'[c] = [session[c] EXCEPT !.pc = pc]
        BY <3>2 DEF Goto, LeaseInvariant
      <4> QED  BY <2>1, <4>1 DEF Sessions
    <3>3. ASSUME NEW pc \in Phases,
                 session' = [session EXCEPT ![c].pc = pc, ![c].observed = TRUE]
          PROVE  session'[c].request = session[c].request
      <4>1. session'[c] = [session[c] EXCEPT !.pc = pc, !.observed = TRUE]
        BY <3>3 DEF LeaseInvariant
      <4> QED  BY <2>1, <4>1 DEF Sessions
    <3>4. ASSUME NEW pc \in Phases, NEW fact \in Fact,
                 session' = [session EXCEPT ![c].fact = fact, ![c].pc = pc]
          PROVE  session'[c].request = session[c].request
      <4>1. session'[c] = [session[c] EXCEPT !.fact = fact, !.pc = pc]
        BY <3>4 DEF LeaseInvariant
      <4> QED  BY <2>1, <4>1 DEF Sessions
    <3>5. ASSUME NEW h, NEW pc \in Phases, AppendStep(c, h, pc)
          PROVE  session'[c].request = session[c].request
      <4>1. PICK step :
              session'[c] = [session[c] EXCEPT !.memory = step, !.pc = pc]
        BY <3>5 DEF AppendStep, LeaseInvariant
      <4> QED  BY <2>1, <4>1 DEF Sessions
    <3> QED  BY <1>a, <3>1, <3>2, <3>3, <3>4, <3>5
  <2>4. ASSUME NEW d \in Controllers PROVE ProjectionKept(d)' /\ CallKept(d)'
    BY <1>a, <2>2, <2>3
       DEF leases, stateStore, LeaseInvariant, ProjectionKept, CallKept
  <2> QED  BY <1>a, <2>2, <2>4 DEF leases, stateStore, LeaseInvariant
\* A session begins with a request its projection was admitted for.
<1>b. ASSUME NEW c \in Controllers, NEW s, s.pc # "idle", s.request \in Requests,
             session' = [session EXCEPT ![c] = s],
             control[c].lease # 0, Projected(c),
             \E b, archive : Admissible(s.request, control[c].projection, LeaseOf(c),
                                        b, archive),
             UNCHANGED <<leases, declared, stateStore>>,
             begun' \in begun .. MaxAttempts
      PROVE  LeaseInvariant'
  <2>1. /\ session' = [d \in Controllers |-> session'[d]]
        /\ \A d \in Controllers \ {c} : session'[d] = session[d]
        /\ session'[c] = s
    BY <1>b DEF LeaseInvariant
  <2>2. /\ control[c].lease = control[c].projection.lease
        /\ acquired[control[c].lease].domain = Target[TargetOf(s.request)].domain
        /\ control[c].projection.snapshot = PlanOf(s.request).snapshot
    BY <1>b DEF Admissible, LeaseBinds, LeaseInScope, LeaseOf, StateMatches
  <2>3. ASSUME NEW d \in Controllers PROVE ProjectionKept(d)' /\ CallKept(d)'
    BY <1>b, <2>1, <2>2
       DEF leases, stateStore, LeaseInvariant, ProjectionKept, CallKept, Shared
  <2>4. /\ \A n \in Nonces : n <= begun => n <= begun'
        /\ published \subseteq 1 .. begun' /\ begun' \in 0 .. MaxAttempts
    BY <1>b, BoundsAssumption DEF LeaseInvariant, Nonces
  <2> QED  BY <1>b, <2>1, <2>3, <2>4 DEF leases, stateStore, LeaseInvariant
\* A gate, an append, a receipt or an answer.
<1>c. ASSUME NEW c \in Controllers, InSession(c),
             \/ \E pc \in Phases, next \in Phases, passes \in BOOLEAN :
                  Gate(c, pc, passes, next)
             \/ /\ \E h : \E pc \in Phases : AppendStep(c, h, pc)
                /\ UNCHANGED effects
             \/ \E state, receipt : SealReceipt(c, state, receipt)
             \/ \E content : \E next \in Phases : Answer(c, content, next)
      PROVE  LeaseInvariant'
  <2>1. CASE \E pc \in Phases, next \in Phases, passes \in BOOLEAN :
               Gate(c, pc, passes, next)
    BY <1>c, <2>1, <1>a DEF Gate
  <2>2. CASE \E h : \E pc \in Phases : AppendStep(c, h, pc)
    BY <1>c, <2>2, <1>a DEF AppendStep
  <2>3. CASE \E state, receipt : SealReceipt(c, state, receipt)
    BY <1>c, <2>3, <1>a DEF SealReceipt
  <2>4. CASE \E content : \E next \in Phases : Answer(c, content, next)
    BY <1>c, <2>4, <1>a DEF Answer, Fact
  <2> QED  BY <1>c, <2>1, <2>2, <2>3, <2>4
<1>1. ASSUME NEW c \in Controllers, Preparation(c) PROVE LeaseInvariant'
  <2>1. CASE Apply(c)
    <3>0. PICK q \in Requests, b \in Backends, archive \in Archives \cup {NotGiven} :
            /\ Admissible(q, control[c].projection, LeaseOf(c), b, archive)
            /\ session' = [session EXCEPT ![c] =
                 Entered("fresh", "admission", q, archive, b,
                         Transaction(b, TargetOf(q), control[c].lease, begun + 1).nonce,
                         Blank)]
      BY <2>1 DEF Apply
    <3>1. /\ Admissible(q, control[c].projection, LeaseOf(c), b, archive)
          /\ session' = [session EXCEPT ![c] =
               Entered("fresh", "admission", q, archive, b, begun + 1, Blank)]
      BY <3>0 DEF Transaction
    <3>2. begun' \in begun .. MaxAttempts
      BY <2>1, BoundsAssumption DEF Apply, LeaseInvariant
    <3> QED  BY <2>1, <3>1, <3>2, <1>b DEF Apply, Entered
  <2>2. CASE FinishAdmission(c)
    BY <2>2, <1>a DEF FinishAdmission, At, Phases
  <2>3. CASE Declare(c)
    <3> DEFINE m == session[c].nonce
               h == Header(Request(c), m, control[c].projection, LeaseOf(c))
    <3>1. /\ InSession(c) /\ session[c] \in Sessions /\ m \in Nonces /\ m <= begun
          /\ Request(c) \in Requests
      BY <2>3 DEF Declare, At, IssueInvariant, SessionKept, Sessions
    <3>2. /\ declared' = [declared EXCEPT ![m] = h] /\ h.target = TargetOf(Request(c))
          /\ Goto(c, "enter_preparation") /\ UNCHANGED <<leases, begun, stateStore>>
      BY <2>3 DEF Declare, Header
    <3>3. session'[c].request = session[c].request
      BY <3>1, <3>2 DEF Goto, LeaseInvariant, Sessions
    <3>4. /\ session' = [d \in Controllers |-> session'[d]]
          /\ \A d \in Controllers \ {c} : session'[d] = session[d]
      BY <3>2 DEF Goto, LeaseInvariant
    <3>5. ASSUME NEW d \in Controllers PROVE ProjectionKept(d)' /\ CallKept(d)'
      <4>1. ProjectionKept(d) /\ CallKept(d)  BY DEF LeaseInvariant
      <4>2. ProjectionKept(d)'
        BY <3>2, <4>1 DEF leases, stateStore, ProjectionKept
      <4>3. CallKept(d)'
        BY <3>1, <3>2, <3>3, <3>4, <4>1 DEF leases, CallKept
      <4> QED  BY <4>2, <4>3
    <3>6. declared' = [n \in Nonces |-> declared'[n]]
      BY <3>2 DEF LeaseInvariant
    <3>7. ASSUME NEW n \in Nonces, declared'[n] # NotGiven
          PROVE  n <= begun' /\ \E q \in Requests : declared'[n].target = TargetOf(q)
      <4>1. CASE n = m
        BY <3>1, <3>2, <4>1 DEF LeaseInvariant
      <4>2. CASE n # m
        <5>1. declared'[n] = declared[n]
          BY <3>2, <4>2 DEF LeaseInvariant
        <5> QED  BY <3>2, <3>7, <5>1 DEF LeaseInvariant
      <4> QED  BY <4>1, <4>2
    <3> HIDE DEF h, m
    <3> QED  BY <3>2, <3>4, <3>5, <3>6, <3>7 DEF leases, stateStore, LeaseInvariant
  <2>4. CASE EnterPreparation(c)
    BY <2>4, <1>c DEF EnterPreparation, Gate, At, Phases
  <2>5. CASE Stage(c)
    BY <2>5, <1>c DEF Stage, At, Phases
  <2>6. CASE SealPreparation(c)
    BY <2>6, <1>c DEF SealPreparation, At, Phases
  <2> QED  BY <1>1, <2>1, <2>2, <2>3, <2>4, <2>5, <2>6 DEF Preparation
<1>2. ASSUME NEW c \in Controllers, Mutation(c) PROVE LeaseInvariant'
  <2>1. CASE EnterRejected(c)
    BY <2>1, <1>c DEF EnterRejected, Gate, At, Phases
  <2>2. CASE BeginMutation(c)
    BY <2>2, <1>c DEF BeginMutation, At, Phases
  <2>3. CASE EnterActive(c)
    BY <2>3, <1>c DEF EnterActive, Gate, At, Phases
  <2>4. CASE Announce(c)
    BY <2>4, <1>c DEF Announce, At, Phases
  <2>5. CASE ExecuteActive(c)
    BY <2>5, <1>c DEF ExecuteActive, At, Phases
  <2>6. CASE RecordActive(c)
    BY <2>6, <1>c DEF RecordActive, At, Phases
  <2>7. CASE EffectsVisible(c)
    BY <2>7, <1>a, <1>c DEF EffectsVisible, At, Phases
  <2> QED  BY <1>2, <2>1, <2>2, <2>3, <2>4, <2>5, <2>6, <2>7 DEF Mutation
<1>3. ASSUME NEW c \in Controllers, Resolution(c) PROVE LeaseInvariant'
  <2>1. CASE EnterCompletion(c)
    BY <2>1, <1>c DEF EnterCompletion, Gate, At, Phases
  <2>2. CASE Observe(c)
    BY <2>2, <1>a DEF Observe, At, Phases
  <2>3. CASE Complete(c)
    BY <2>3, <1>c DEF Complete, At, Phases
  <2>4. CASE Interrupt(c)
    BY <2>4, <1>a, <1>c DEF Interrupt, At, Phases
  <2>5. CASE EnterRecovery(c)
    BY <2>5, <1>c DEF EnterRecovery, Gate, At, Phases
  <2>6. CASE BeginRecovery(c)
    BY <2>6, <1>a, <1>c DEF BeginRecovery, At, Phases
  <2>7. CASE AnnounceRecovery(c)
    BY <2>7, <1>c DEF AnnounceRecovery, At, Phases
  <2>8. CASE Recover(c)
    BY <2>8, <1>c DEF Recover, At, Phases
  <2>9. CASE RecordRecovery(c)
    BY <2>9, <1>c DEF RecordRecovery, At, Phases
  <2>10. CASE Conclude(c)
    BY <2>10, <1>c DEF Conclude, At, Phases
  <2> QED  BY <1>3, <2>1, <2>2, <2>3, <2>4, <2>5, <2>6, <2>7, <2>8, <2>9, <2>10
           DEF Resolution
<1>4. ASSUME NEW c \in Controllers, Restart(c) PROVE LeaseInvariant'
  <2>1. CASE Resume(c)
    <3>1. PICK n \in Nonces, q \in Requests, b \in Backends,
               archive \in Archives \cup {NotGiven} :
            /\ Restartable(q, control[c].projection, LeaseOf(c), b, archive, declared[n],
                           Transaction(b, TargetOf(q), control[c].lease, n))
            /\ session' = [session EXCEPT ![c] =
                 Entered("resumed", "resume_preparation", q, archive, b, n, journal[n])]
      BY <2>1 DEF Resume
    <3>2. Admissible(q, control[c].projection, LeaseOf(c), b, archive)
      BY <3>1 DEF Restartable
    <3>3. begun' \in begun .. MaxAttempts
      BY <2>1, BoundsAssumption DEF Resume, LeaseInvariant
    <3> QED  BY <2>1, <3>1, <3>2, <3>3, <1>b DEF Resume, Entered
  <2>2. CASE ResumePreparation(c)
    BY <2>2, <1>a, <1>c DEF ResumePreparation, At, Phases
  <2>3. CASE ResumeRejected(c)
    BY <2>3, <1>c DEF ResumeRejected, Gate, At, Phases
  <2>4. CASE ResumeActive(c)
    BY <2>4, <1>c DEF ResumeActive, Gate, At, Phases
  <2> QED  BY <1>4, <2>1, <2>2, <2>3, <2>4 DEF Restart
<1>5. ASSUME NEW c \in Controllers, Controller(c) PROVE LeaseInvariant'
\* Which leases and projections the controllers have after the step.
  <2>a. ASSUME NEW l, NEW p,
               \/ control' = [control EXCEPT ![c].lease = l] /\ p = control[c].projection
               \/ control' = [control EXCEPT ![c].projection = p] /\ l = control[c].lease
               \/ control' = [control EXCEPT ![c] = [lease |-> l, projection |-> p]]
        PROVE  /\ control'[c].lease = l /\ control'[c].projection = p
               /\ \A d \in Controllers \ {c} : control'[d] = control[d]
               /\ control' = [d \in Controllers |->
                    [lease |-> control'[d].lease, projection |-> control'[d].projection]]
    <3>1. /\ control[c] = [lease |-> control[c].lease, projection |-> control[c].projection]
          /\ \A d \in Controllers : control[d] =
               [lease |-> control[d].lease, projection |-> control[d].projection]
          /\ control = [d \in Controllers |-> control[d]]
      BY DEF LeaseInvariant
    <3>2. control'[c] = [lease |-> l, projection |-> p]
      BY <2>a, <3>1
    <3>3. /\ \A d \in Controllers \ {c} : control'[d] = control[d]
          /\ control' = [d \in Controllers |-> control'[d]]
      BY <2>a, <3>1
    <3> QED  BY <3>1, <3>2, <3>3
  <2>1. CASE Acquire(c)
    <3> DEFINE l == Len(acquired) + 1
    <3>1. PICK a \in Acquisitions :
            /\ \A i \in held : acquired[i].domain # a.domain
            /\ acquired' = Append(acquired, a)
            /\ held' = held \cup {Len(acquired')}
            /\ control' = [control EXCEPT ![c].lease = Len(acquired')]
      BY <2>1 DEF Acquire
    <3>2. /\ control[c].lease = 0 /\ Len(acquired) < MaxLeases
          /\ UNCHANGED <<session, declared, begun, lapses, stateStore>>
      BY <2>1 DEF Acquire
    <3>3. /\ acquired' \in Seq(Acquisitions) /\ Len(acquired') = l /\ l \in Nat \ {0}
          /\ \A i \in DOMAIN acquired : acquired'[i] = acquired[i]
          /\ acquired'[l] = a /\ DOMAIN acquired' = DOMAIN acquired \cup {l}
          /\ l \notin DOMAIN acquired /\ 0 \notin DOMAIN acquired
          /\ DOMAIN acquired = 1 .. Len(acquired) /\ l <= MaxLeases
      BY <3>1, <3>2, BoundsAssumption DEF LeaseInvariant
    <3>4. /\ control'[c].lease = l /\ control'[c].projection = control[c].projection
          /\ \A d \in Controllers \ {c} : control'[d] = control[d]
          /\ control' = [d \in Controllers |->
               [lease |-> control'[d].lease, projection |-> control'[d].projection]]
      BY <2>a, <3>1, <3>3
    <3>5. held' = held \cup {l} /\ held \subseteq DOMAIN acquired
      BY <3>1, <3>3 DEF LeaseInvariant
    <3> HIDE DEF l
    <3>6. \A i, j \in held' : acquired'[i].domain = acquired'[j].domain => i = j
      BY <3>1, <3>3, <3>5 DEF LeaseInvariant
    <3>7. \A d \in Controllers : control'[d].lease \in 0 .. Len(acquired')
      BY <3>3, <3>4 DEF LeaseInvariant
    <3>8. \A d, e \in Controllers :
            control'[d].lease # 0 /\ control'[d].lease = control'[e].lease => d = e
      BY <3>3, <3>4 DEF LeaseInvariant
    <3>9. ASSUME NEW d \in Controllers PROVE ProjectionKept(d)' /\ CallKept(d)'
      <4>1. ProjectionKept(d) /\ CallKept(d)  BY DEF LeaseInvariant
      <4>2. ProjectionKept(d)'
        BY <3>2, <3>3, <3>4, <3>5, <4>1 DEF ProjectionKept, stateStore
      <4>3. CallKept(d)'
        BY <3>2, <3>3, <3>4, <4>1 DEF ProjectionKept, CallKept
      <4> QED  BY <4>2, <4>3
    <3> QED  BY <3>2, <3>3, <3>4, <3>5, <3>6, <3>7, <3>8, <3>9
                DEF LeaseInvariant, stateStore
  <2>2. CASE ReadState(c)
    <3> DEFINE p == Projection(control[c].lease, installed)
    <3>1. /\ session[c].pc = "idle" /\ control[c].lease \in held
          /\ control' = [control EXCEPT ![c].projection = p]
          /\ UNCHANGED <<acquired, held, lapses, session, declared, begun, stateStore>>
      BY <2>2 DEF ReadState, At
    <3>2. p \in Projections /\ p.lease = control[c].lease
          /\ p.snapshot = State[installed].snapshot
      <4>1. control[c].lease \in Nat /\ installed \in DOMAIN State
        BY DEF LeaseInvariant
      <4>2. p \in Projections  BY <4>1 DEF Projections
      <4> QED  BY <4>2 DEF Projection
    <3> HIDE DEF p
    <3>3. /\ control'[c].lease = control[c].lease /\ control'[c].projection = p
          /\ \A d \in Controllers \ {c} : control'[d] = control[d]
          /\ control' = [d \in Controllers |->
               [lease |-> control'[d].lease, projection |-> control'[d].projection]]
      BY <2>a, <3>1
    <3>4. ASSUME NEW d \in Controllers PROVE ProjectionKept(d)' /\ CallKept(d)'
      BY <3>1, <3>2, <3>3 DEF LeaseInvariant, ProjectionKept, CallKept, stateStore
    <3> QED  BY <3>1, <3>3, <3>4 DEF LeaseInvariant, stateStore
  <2>3. CASE PublishState(c)
    <3>1. PICK n \in Nonces \ published :
            /\ Journaled(n) /\ LeaseInScope(declared[n].target, LeaseOf(c))
            /\ published' = published \cup {n}
      BY <2>3 DEF PublishState
    <3>2. /\ session[c].pc = "idle" /\ control[c].lease # 0
          /\ installed' \in DOMAIN State
          /\ control' = [control EXCEPT ![c].projection = NotGiven]
          /\ UNCHANGED <<acquired, held, lapses, session, declared, begun>>
      BY <2>3 DEF PublishState, At
    <3>3. /\ control'[c].lease = control[c].lease /\ control'[c].projection = NotGiven
          /\ \A d \in Controllers \ {c} : control'[d] = control[d]
          /\ control' = [d \in Controllers |->
               [lease |-> control'[d].lease, projection |-> control'[d].projection]]
      BY <2>a, <3>2
    <3>4. PICK q \in Requests : declared[n].target = TargetOf(q)
      BY <3>1 DEF LeaseInvariant
    <3>5. control[c].lease \in held
          /\ acquired[control[c].lease].domain = Target[TargetOf(q)].domain
      BY <3>1, <3>4 DEF LeaseInScope, LeaseOf
    <3>6. \A i \in held : Shared(acquired[i].domain) => i = control[c].lease
      BY <3>5, DomainAssumption DEF LeaseInvariant, Shared
    <3>7. ASSUME NEW d \in Controllers PROVE ProjectionKept(d)' /\ CallKept(d)'
      <4>1. CASE d = c
        BY <3>2, <3>3, <4>1 DEF ProjectionKept, CallKept
      <4>2. CASE d # c
        <5>1. ProjectionKept(d) /\ CallKept(d)
              /\ (control[c].lease # 0 => control[d].lease # control[c].lease)
          BY <4>2 DEF LeaseInvariant
        <5> QED  BY <3>2, <3>3, <3>6, <4>2, <5>1 DEF ProjectionKept, CallKept
      <4> QED  BY <4>1, <4>2
    <3>8. published' \subseteq 1 .. begun'
      BY <3>1, <3>2 DEF LeaseInvariant, Nonces
    <3> QED  BY <3>2, <3>3, <3>7, <3>8 DEF LeaseInvariant
  <2>4. CASE Release(c)
    <3>1. /\ session[c].pc = "idle" /\ held' = held \ {control[c].lease}
          /\ control' = [control EXCEPT ![c].lease = 0]
          /\ UNCHANGED <<acquired, lapses, session, declared, begun, stateStore>>
      BY <2>4 DEF Release, At
    <3>2. /\ control'[c].lease = 0 /\ control'[c].projection = control[c].projection
          /\ \A d \in Controllers \ {c} : control'[d] = control[d]
          /\ control' = [d \in Controllers |->
               [lease |-> control'[d].lease, projection |-> control'[d].projection]]
      BY <2>a, <3>1
    <3>3. ASSUME NEW d \in Controllers PROVE ProjectionKept(d)' /\ CallKept(d)'
      <4>1. ProjectionKept(d) /\ CallKept(d)  BY DEF LeaseInvariant
      <4>2. CASE d = c
        BY <3>1, <3>2, <4>1, <4>2 DEF ProjectionKept, CallKept, stateStore
      <4>3. CASE d # c
        BY <3>1, <3>2, <4>1, <4>3 DEF ProjectionKept, CallKept, stateStore
      <4> QED  BY <4>2, <4>3
    <3>4. Len(acquired) \in Nat  BY DEF LeaseInvariant
    <3> QED  BY <3>1, <3>2, <3>3, <3>4 DEF LeaseInvariant, stateStore
  <2>5. CASE Crash(c)
    <3>1. /\ held' = held \ {control[c].lease} /\ Return(c)
          /\ control' = [control EXCEPT ![c] = [lease |-> 0, projection |-> NotGiven]]
          /\ UNCHANGED <<acquired, lapses, declared, begun, stateStore>>
      BY <2>5 DEF Crash
    <3>2. /\ control'[c].lease = 0 /\ control'[c].projection = NotGiven
          /\ \A d \in Controllers \ {c} : control'[d] = control[d]
          /\ control' = [d \in Controllers |->
               [lease |-> control'[d].lease, projection |-> control'[d].projection]]
      BY <2>a, <3>1
    <3>3. /\ session' = [d \in Controllers |-> session'[d]]
          /\ \A d \in Controllers \ {c} : session'[d] = session[d]
          /\ session'[c].pc = "idle"
      BY <3>1 DEF Return, NoSession, LeaseInvariant
    <3>4. ASSUME NEW d \in Controllers PROVE ProjectionKept(d)' /\ CallKept(d)'
      BY <3>1, <3>2, <3>3 DEF LeaseInvariant, ProjectionKept, CallKept, stateStore
    <3>5. Len(acquired) \in Nat  BY DEF LeaseInvariant
    <3> QED  BY <3>1, <3>2, <3>3, <3>4, <3>5 DEF LeaseInvariant, stateStore
  <2> QED  BY <1>5, <2>1, <2>2, <2>3, <2>4, <2>5 DEF Controller
<1>6. ASSUME NEW c \in Controllers, LosesLease(c) \/ LosesCursor(c)
      PROVE  LeaseInvariant'
  BY <1>6, <1>a DEF LosesLease, LosesCursor, Gates, Appends
<1>7. ASSUME NEW i \in held, Lapse(i) PROVE LeaseInvariant'
  <2>1. ASSUME NEW d \in Controllers PROVE ProjectionKept(d)' /\ CallKept(d)'
    BY <1>7 DEF Lapse, stateStore, LeaseInvariant, ProjectionKept, CallKept
  <2>2. lapses' \in 0 .. MaxLapses
    BY <1>7, BoundsAssumption DEF Lapse, LeaseInvariant
  <2> QED  BY <1>7, <2>1, <2>2 DEF Lapse, stateStore, LeaseInvariant
<1>8. CASE UNCHANGED vars
  BY <1>8 DEF vars, LeaseInvariant, ProjectionKept, CallKept
<1> QED  BY <1>1, <1>2, <1>3, <1>4, <1>5, <1>6, <1>7, <1>8 DEF Next

(***************************************************************************)
(* The invariants of what is declared, captured and staged.                *)
(***************************************************************************)
\* What the plan of a request puts at the path.
PlannedBy(q) ==
  IF Submitted[q].kind = "remove" THEN "absent" ELSE PlanOf(q).image

\* A journal declares a request made for its backend, and stages the request's
\* plan; nothing is written before the declaration.
DeclarationKept(n) ==
  IF Journaled(n)
  THEN /\ declared[n].request \in Requests
       /\ declared[n].backend = BackendOf(declared[n].request)
       /\ journal[n].staged \in {NotGiven, PlannedBy(declared[n].request)}
  ELSE journal[n] = Blank

\* A session works on the request its journal declares, with an archive and a
\* backend that fit the request.
Undeclared == {"admission", "declare"}
BindingKept(s) ==
  /\ s.backend.backend = BackendOf(s.request)
  /\ Planned(s.request, s.archive) = PlannedBy(s.request)
  /\ s.memory.staged \in {NotGiven, PlannedBy(s.request)}
  /\ IF s.pc \in Undeclared THEN ~Journaled(s.nonce)
     ELSE Journaled(s.nonce) /\ declared[s.nonce].request = s.request

\* No two sessions are about to declare the same attempt.
OneDeclarer ==
  \A c, d \in Controllers :
    /\ session[c].pc \in Undeclared /\ session[d].pc \in Undeclared
    /\ session[c].nonce = session[d].nonce
    => c = d

\* Only the backends of declared attempts were ever asked to change anything.
WorldDeclared ==
  \A m \in DOMAIN Initial : world[m] # Initial[m] =>
    \E n \in Nonces : Journaled(n) /\ declared[n].backend = m

DeclarationInvariant ==
  /\ \A n \in Nonces : DeclarationKept(n)
  /\ \A c \in Controllers : InSession(c) => BindingKept(session[c])
  /\ OneDeclarer
  /\ WorldDeclared

\* A call in progress holds its lease, what it observed is still there, and
\* what it captured is what its plan accepted.
ObservationKept(c) ==
  /\ control[c].lease \in held
  /\ session[c].pc \in {"admission", "resume_preparation"} => ~session[c].observed
  /\ session[c].pc \in {"declare", "enter_preparation", "stage"} => session[c].observed
  /\ session[c].pc \in BeforeMutation /\ session[c].observed => Satisfied(c)
  /\ Memory(c).captured \in {NotGiven, PlanOf(Request(c)).before}

CaptureKept(n) ==
  Journaled(n) =>
    journal[n].captured \in {NotGiven, PlanOf(declared[n].request).before}

ObservationInvariant ==
  lapses = 0 =>
    /\ \A c \in Controllers : InSession(c) => ObservationKept(c)
    /\ \A n \in Nonces : CaptureKept(n)

(***************************************************************************)
(* The ordinary steps of a session: all but the ones that observe, declare *)
(* or stage.                                                               *)
(***************************************************************************)
\* A history with the capture and the stage that a session remembers.
Keeps(c, h) ==
  /\ h \in History
  /\ h.staged = Memory(c).staged /\ h.captured = Memory(c).captured

\* At most the session's own journal advances, and it keeps them.
Records(c) ==
  \/ UNCHANGED journal
  \/ /\ session[c].pc \notin Undeclared
     /\ \E h : Keeps(c, h) /\ journal' = [journal EXCEPT ![session[c].nonce] = h]

SameCall(s, t) ==
  /\ t.request = s.request /\ t.archive = s.archive /\ t.backend = s.backend
  /\ t.nonce = s.nonce /\ t.observed = s.observed

\* Nothing leads back to an observation, or to what follows one.
Advances(pc, next) ==
  /\ pc \notin Undeclared
  /\ next \in Phases \ (Undeclared \cup {"resume_preparation", "enter_preparation"})
  /\ next = "stage" => pc = "enter_preparation"
  /\ next \in BeforeMutation => pc \in BeforeMutation

Ends(c) ==
  /\ OnlyMoves(c) /\ InSession(c) /\ session'[c].pc = "idle"
  /\ Records(c) /\ UNCHANGED <<leases, declared, begun, world>>

Continues(c) ==
  /\ OnlyMoves(c) /\ InSession(c)
  /\ SameCall(session[c], session'[c]) /\ Keeps(c, session'[c].memory)
  /\ Advances(session[c].pc, session'[c].pc)
  /\ Records(c) /\ UNCHANGED <<leases, declared, begun>>
  /\ \/ UNCHANGED world
     \/ /\ session'[c].pc \notin BeforeMutation
        /\ \A m \in DOMAIN Initial \ {session[c].backend.backend} : world'[m] = world[m]

\* What an append leaves of the capture and the stage.
LEMMA EditsKeep ==
  ASSUME IssueInvariant, NEW c \in Controllers, InSession(c)
  PROVE  /\ session[c] \in Sessions /\ SessionKept(session[c])
         /\ Keeps(c, Memory(c))
         /\ \A state \in JournalState : Keeps(c, [Memory(c) EXCEPT !.state = state])
         /\ \A fact \in Fact : Keeps(c, [Memory(c) EXCEPT !.active = fact])
         /\ \A fact \in Fact : Keeps(c, [Memory(c) EXCEPT !.recover = fact])
         /\ \A h : Keeps(c, h) => Keeps(c, [h EXCEPT !.steps = @ + 1])
<1>1. SessionKept(session[c]) /\ session[c] \in Sessions /\ Memory(c) \in History
  BY DEF IssueInvariant, SessionKept, Sessions, Memory
<1>2. \A state \in JournalState : Keeps(c, [Memory(c) EXCEPT !.state = state])
  BY <1>1 DEF Keeps, History
<1>3. \A fact \in Fact : Keeps(c, [Memory(c) EXCEPT !.active = fact])
  BY <1>1 DEF Keeps, History
<1>4. \A fact \in Fact : Keeps(c, [Memory(c) EXCEPT !.recover = fact])
  BY <1>1 DEF Keeps, History
<1>5. \A h : Keeps(c, h) => Keeps(c, [h EXCEPT !.steps = @ + 1])
  BY DEF Keeps, History
<1> QED  BY <1>1, <1>2, <1>3, <1>4, <1>5 DEF Keeps

\* A session that seals a receipt ends with the capture and the stage it
\* remembers.
LEMMA ReceiptEnds ==
  ASSUME IssueInvariant, NEW c \in Controllers, InSession(c),
         session[c].pc \notin Undeclared, NEW state \in JournalState,
         NEW receipt \in Receipt, SealReceipt(c, state, receipt)
  PROVE  Ends(c)
<1> DEFINE h == [Memory(c) EXCEPT !.steps = @ + 1, !.state = state,
                                  !.receipt = receipt]
<1>1. Memory(c) \in History
  BY EditsKeep DEF Keeps
<1>2. Keeps(c, h)
  <2>1. Keeps(c, [Memory(c) EXCEPT !.steps = @ + 1])
    BY EditsKeep
  <2>2. \A g : Keeps(c, g) => Keeps(c, [g EXCEPT !.state = state])
    BY DEF Keeps, History
  <2>3. \A g : Keeps(c, g) => Keeps(c, [g EXCEPT !.receipt = receipt])
    BY DEF Keeps, History
  <2> QED  BY <2>1, <2>2, <2>3
<1>3. /\ OnlyMoves(c) /\ session'[c] = NoSession
      /\ UNCHANGED <<leases, declared, begun, world>>
      /\ journal' = [journal EXCEPT ![session[c].nonce] = h]
  BY DEF SealReceipt, Return, OnlyMoves, IssueInvariant, Shape, effects
<1> HIDE DEF h
<1>4. Records(c)  BY <1>2, <1>3 DEF Records
<1> QED  BY <1>3, <1>4 DEF Ends, NoSession

\* A session changes nothing of the call it was given, and its journal keeps
\* what was captured and staged; only the two calls of the backend change the
\* world.
LEMMA OrdinaryStep ==
  ASSUME IssueInvariant, NEW c \in Controllers,
         \/ EnterPreparation(c) \/ SealPreparation(c) \/ Mutation(c) \/ Resolution(c)
         \/ ResumeRejected(c) \/ ResumeActive(c) \/ LosesLease(c) \/ LosesCursor(c)
  PROVE  Ends(c) \/ Continues(c)
<1> USE DEF InSession
\* The session goes on.
<1>a. ASSUME InSession(c), NEW next, Advances(session[c].pc, next), Goto(c, next),
             UNCHANGED <<leases, declared, journal, begun, effects>>
      PROVE  Continues(c)
  <2>1. session[c] \in Sessions /\ Keeps(c, Memory(c))
    BY <1>a, EditsKeep
  <2>2. OnlyMoves(c) /\ session'[c] = [session[c] EXCEPT !.pc = next]
    BY <1>a DEF Goto, OnlyMoves, IssueInvariant, Shape
  <2>3. /\ SameCall(session[c], session'[c]) /\ session'[c].memory = Memory(c)
        /\ session'[c].pc = next
    BY <2>1, <2>2 DEF Sessions, SameCall, Memory
  <2> QED  BY <1>a, <2>1, <2>2, <2>3 DEF Continues, Records, effects
\* It appends a step and goes on.
<1>b. ASSUME InSession(c), NEW next, Advances(session[c].pc, next), NEW h,
             Keeps(c, h), AppendStep(c, h, next), UNCHANGED effects
      PROVE  Continues(c)
  <2> DEFINE step == [h EXCEPT !.steps = @ + 1]
  <2>1. session[c] \in Sessions /\ Keeps(c, step)
    BY <1>b, EditsKeep
  <2>2. /\ OnlyMoves(c)
        /\ session'[c] = [session[c] EXCEPT !.memory = step, !.pc = next]
        /\ journal' = [journal EXCEPT ![session[c].nonce] = step]
        /\ UNCHANGED <<leases, declared, begun, world>>
    BY <1>b DEF AppendStep, OnlyMoves, IssueInvariant, Shape, effects
  <2> HIDE DEF step
  <2>3. /\ SameCall(session[c], session'[c]) /\ session'[c].memory = step
        /\ session'[c].pc = next
    BY <2>1, <2>2 DEF Sessions, SameCall
  <2>4. Records(c)
    BY <1>b, <2>1, <2>2 DEF Records, Advances
  <2> QED  BY <1>b, <2>1, <2>2, <2>3, <2>4 DEF Continues
\* It returns.
<1>d. ASSUME InSession(c), Return(c),
             UNCHANGED <<leases, declared, journal, begun, effects>>
      PROVE  Ends(c)
  BY <1>d DEF Return, NoSession, OnlyMoves, Ends, Records, effects, IssueInvariant, Shape
\* The backend answers.
<1>e. ASSUME InSession(c), NEW next \in {"record", "record_recovery"}, NEW content,
             Advances(session[c].pc, next), Answer(c, content, next)
      PROVE  Continues(c)
  <2>1. session[c] \in Sessions /\ Keeps(c, Memory(c))
    BY <1>e, EditsKeep
  <2>2. PICK fact \in {"completed", "failed", "indeterminate"} :
          session' = [session EXCEPT ![c].fact = fact, ![c].pc = next]
    BY <1>e DEF Answer
  <2>3. OnlyMoves(c) /\ session'[c] = [session[c] EXCEPT !.fact = fact, !.pc = next]
    BY <2>2 DEF OnlyMoves, IssueInvariant, Shape
  <2>4. /\ SameCall(session[c], session'[c]) /\ session'[c].memory = Memory(c)
        /\ session'[c].pc = next
    BY <2>1, <2>3 DEF Sessions, SameCall, Memory
  <2>5. \A m \in DOMAIN Initial \ {session[c].backend.backend} : world'[m] = world[m]
    BY <1>e DEF Answer, IssueInvariant, Shape
  <2>6. next \notin BeforeMutation  BY <1>e DEF BeforeMutation
  <2>7. UNCHANGED <<leases, declared, begun, journal>>  BY <1>e DEF Answer
  <2> QED  BY <1>e, <2>1, <2>3, <2>4, <2>5, <2>6, <2>7 DEF Continues, Records
<1> USE DEF At
<1>1. CASE EnterPreparation(c)
  BY <1>1, <1>a DEF EnterPreparation, Gate, Advances, Undeclared, Phases, BeforeMutation
<1>2. CASE SealPreparation(c)
  <2>1. Keeps(c, [Memory(c) EXCEPT !.state = "prepared"])
    BY <1>2, EditsKeep DEF SealPreparation, JournalState
  <2>2. /\ Advances("seal_preparation", "enter_rejected")
        /\ Advances("seal_preparation", "resume_rejected")
    BY DEF Advances, Undeclared, Phases, BeforeMutation
  <2> QED  BY <1>2, <2>1, <2>2, <1>b DEF SealPreparation
<1>3. CASE Mutation(c)
  <2>1. CASE EnterRejected(c)
    BY <2>1, <1>a DEF EnterRejected, Gate, Advances, Undeclared, Phases, BeforeMutation
  <2>2. CASE BeginMutation(c)
    <3>1. Keeps(c, [Memory(c) EXCEPT !.state = "mutating"])
      BY <2>2, EditsKeep DEF BeginMutation, JournalState
    <3>2. /\ Advances("begin_mutation", "enter_active")
          /\ Advances("begin_mutation", "resume_active")
      BY DEF Advances, Undeclared, Phases, BeforeMutation
    <3> QED  BY <2>2, <3>1, <3>2, <1>b DEF BeginMutation
  <2>3. CASE EnterActive(c)
    BY <2>3, <1>a DEF EnterActive, Gate, Advances, Undeclared, Phases, BeforeMutation
  <2>4. CASE Announce(c)
    <3>1. Keeps(c, [Memory(c) EXCEPT !.active = "intent"])
      BY <2>4, EditsKeep DEF Announce, Fact
    <3>2. Advances("announce", "execute")
      BY DEF Advances, Undeclared, Phases, BeforeMutation
    <3> QED  BY <2>4, <3>1, <3>2, <1>b DEF Announce
  <2>5. CASE ExecuteActive(c)
    <3>1. Advances("execute", "record")
      BY DEF Advances, Undeclared, Phases, BeforeMutation
    <3> QED  BY <2>5, <3>1, <1>e DEF ExecuteActive
  <2>6. CASE RecordActive(c)
    <3>1. Keeps(c, [Memory(c) EXCEPT !.active = session[c].fact])
      BY <2>6, EditsKeep DEF RecordActive, Sessions
    <3>2. Advances("record", "effects_visible") /\ Advances("record", "interrupt")
      BY DEF Advances, Undeclared, Phases, BeforeMutation
    <3> QED  BY <2>6, <3>1, <3>2, <1>b DEF RecordActive
  <2>7. CASE EffectsVisible(c)
    <3>1. Keeps(c, [Memory(c) EXCEPT !.state = "effects_visible"])
      BY <2>7, EditsKeep DEF EffectsVisible, JournalState
    <3>2. Advances("effects_visible", "enter_completion")
      BY DEF Advances, Undeclared, Phases, BeforeMutation
    <3> QED  BY <2>7, <3>1, <3>2, <1>a, <1>b DEF EffectsVisible
  <2> QED  BY <1>3, <2>1, <2>2, <2>3, <2>4, <2>5, <2>6, <2>7 DEF Mutation
<1>4. CASE Resolution(c)
  <2>1. CASE EnterCompletion(c)
    BY <2>1, <1>a DEF EnterCompletion, Gate, Advances, Undeclared, Phases, BeforeMutation
  <2>2. CASE Observe(c)
    <3>1. Advances("observe", "complete") /\ Advances("observe", "interrupt")
      BY DEF Advances, Undeclared, Phases, BeforeMutation
    <3> QED  BY <2>2, <3>1, <1>a DEF Observe
  <2>3. CASE Complete(c)
    BY <2>3, ReceiptEnds DEF Complete, JournalState, Receipt, Undeclared
  <2>4. CASE Interrupt(c)
    <3>1. /\ Keeps(c, [Memory(c) EXCEPT !.state = "indeterminate"])
          /\ Keeps(c, [Memory(c) EXCEPT !.state = "recovery_pending"])
      BY <2>4, EditsKeep DEF Interrupt, JournalState
    <3>2. Advances("interrupt", "enter_recovery")
      BY DEF Advances, Undeclared, Phases, BeforeMutation
    <3> QED  BY <2>4, <3>1, <3>2, <1>a, <1>b DEF Interrupt
  <2>5. CASE EnterRecovery(c)
    <3>1. /\ Advances("enter_recovery", "conclude")
          /\ Advances("enter_recovery", "begin_recovery")
      BY DEF Advances, Undeclared, Phases, BeforeMutation
    <3> QED  BY <2>5, <3>1, <1>a DEF EnterRecovery, Gate
  <2>6. CASE BeginRecovery(c)
    <3>1. Keeps(c, [Memory(c) EXCEPT !.state = "recovering"])
      BY <2>6, EditsKeep DEF BeginRecovery, JournalState
    <3>2. /\ Advances("begin_recovery", "announce_recovery")
          /\ Advances("begin_recovery", "conclude")
      BY DEF Advances, Undeclared, Phases, BeforeMutation
    <3> QED  BY <2>6, <3>1, <3>2, <1>a, <1>b DEF BeginRecovery
  <2>7. CASE AnnounceRecovery(c)
    <3>1. Keeps(c, [Memory(c) EXCEPT !.recover = "intent"])
      BY <2>7, EditsKeep DEF AnnounceRecovery, Fact
    <3>2. Advances("announce_recovery", "recover")
      BY DEF Advances, Undeclared, Phases, BeforeMutation
    <3> QED  BY <2>7, <3>1, <3>2, <1>b DEF AnnounceRecovery
  <2>8. CASE Recover(c)
    <3>1. Advances("recover", "record_recovery")
      BY DEF Advances, Undeclared, Phases, BeforeMutation
    <3> QED  BY <2>8, <3>1, <1>e DEF Recover
  <2>9. CASE RecordRecovery(c)
    <3>1. Keeps(c, [Memory(c) EXCEPT !.recover = session[c].fact])
      BY <2>9, EditsKeep DEF RecordRecovery, Sessions
    <3>2. Advances("record_recovery", "conclude")
      BY DEF Advances, Undeclared, Phases, BeforeMutation
    <3> QED  BY <2>9, <3>1, <3>2, <1>b DEF RecordRecovery
  <2>10. CASE Conclude(c)
    BY <2>10, ReceiptEnds DEF Conclude, JournalState, Receipt, Undeclared
  <2> QED  BY <1>4, <2>1, <2>2, <2>3, <2>4, <2>5, <2>6, <2>7, <2>8, <2>9, <2>10
           DEF Resolution
<1>5. CASE ResumeRejected(c)
  <2>1. PICK next \in {"begin_mutation", "interrupt", "resume_active"} : Goto(c, next)
    BY <1>5 DEF ResumeRejected, Gate
  <2>2. Advances("resume_rejected", next)
    BY DEF Advances, Undeclared, Phases, BeforeMutation
  <2> QED  BY <1>5, <2>1, <2>2, <1>a DEF ResumeRejected, Gate
<1>6. CASE ResumeActive(c)
  <2>1. /\ Advances("resume_active", "announce")
        /\ Advances("resume_active", "effects_visible")
    BY DEF Advances, Undeclared, Phases, BeforeMutation
  <2> QED  BY <1>6, <2>1, <1>a DEF ResumeActive, Gate
<1>7. CASE LosesLease(c) \/ LosesCursor(c)
  BY <1>7, <1>d DEF LosesLease, LosesCursor, Gates, Appends
<1> QED  BY <1>1, <1>2, <1>3, <1>4, <1>5, <1>6, <1>7

\* What admission has established about the backend and the archive.
LEMMA AdmittedBinding ==
  ASSUME NEW q \in Requests, NEW p, NEW l, NEW b, NEW archive,
         Admissible(q, p, l, b, archive)
  PROVE  b.backend = BackendOf(q) /\ Planned(q, archive) = PlannedBy(q)
<1>1. b.backend = BackendOf(q)
  BY DEF Admissible, BackendMatches, BackendOf
<1>2. CASE Submitted[q].kind = "remove"
  BY <1>1, <1>2 DEF Planned, PlannedBy
<1>3. CASE Submitted[q].kind # "remove"
  <2>1. archive.image = Submitted[q].incoming.image
    BY <1>3 DEF Admissible, ArchiveMatches
  <2>2. PlanOf(q).image = Submitted[q].incoming.image
    BY <1>3 DEF Requests, RequestMade, IncomingMatches, PlanOf
  <2> QED  BY <1>1, <1>3, <2>1, <2>2 DEF Planned, PlannedBy
<1> QED  BY <1>2, <1>3

(***************************************************************************)
(* Every step keeps the invariant of the declarations.                     *)
(***************************************************************************)
\* A session that does not take a new attempt keeps the invariant as far as it
\* keeps its own part of it.
LEMMA DeclarationMoves ==
  ASSUME DeclarationInvariant, NEW c \in Controllers, OnlyMoves(c), UNCHANGED declared,
         InSession(c)' =>
           /\ BindingKept(session[c])'
           /\ session'[c].pc \in Undeclared =>
                session[c].pc \in Undeclared /\ session'[c].nonce = session[c].nonce,
         \A n \in Nonces : DeclarationKept(n)', WorldDeclared'
  PROVE  DeclarationInvariant'
<1>1. ASSUME NEW d \in Controllers, InSession(d)' PROVE BindingKept(session[d])'
  <2>1. CASE d = c  BY <1>1, <2>1
  <2>2. CASE d # c
    BY <1>1, <2>2 DEF OnlyMoves, InSession, DeclarationInvariant, BindingKept, Journaled
  <2> QED  BY <2>1, <2>2
<1>2. OneDeclarer'
  BY DEF OneDeclarer, OnlyMoves, InSession, Undeclared, DeclarationInvariant
<1> QED  BY <1>1, <1>2 DEF DeclarationInvariant

\* The histories, after a step that appends at most what a session remembers.
LEMMA DeclarationsRecorded ==
  ASSUME IssueInvariant, DeclarationInvariant, NEW c \in Controllers, InSession(c),
         Records(c), UNCHANGED declared
  PROVE  \A n \in Nonces : DeclarationKept(n)'
<1> SUFFICES ASSUME NEW n \in Nonces PROVE DeclarationKept(n)'  OBVIOUS
<1> DEFINE m == session[c].nonce
<1>1. BindingKept(session[c]) /\ m \in Nonces /\ DeclarationKept(n)
  BY DEF DeclarationInvariant, IssueInvariant, SessionKept, Sessions
<1>2. CASE UNCHANGED journal
  BY <1>1, <1>2 DEF DeclarationKept, Journaled
<1>3. ASSUME session[c].pc \notin Undeclared, NEW h, Keeps(c, h),
             journal' = [journal EXCEPT ![m] = h]
      PROVE  DeclarationKept(n)'
  <2>1. n # m => journal'[n] = journal[n]
    BY <1>3 DEF IssueInvariant, Shape
  <2>2. journal'[m] = h /\ h.staged = Memory(c).staged
    BY <1>1, <1>3 DEF Keeps, IssueInvariant, Shape
  <2> QED  BY <1>1, <1>3, <2>1, <2>2 DEF DeclarationKept, Journaled, BindingKept, Memory
<1> QED  BY <1>2, <1>3 DEF Records

\* An attempt is declared once, by the call that began it, and is carried on
\* only for the request it declares.
LEMMA DeclarationStep ==
  ASSUME IssueInvariant, LeaseInvariant, DeclarationInvariant, [Next]_vars
  PROVE  DeclarationInvariant'
<1> USE DEF InSession, At
\* Steps of the controllers and of the leases.
<1>a. ASSUME UNCHANGED <<session, declared, journal, world>>
      PROVE  DeclarationInvariant'
  BY <1>a DEF DeclarationInvariant, DeclarationKept, BindingKept, OneDeclarer,
              WorldDeclared, Journaled
\* A session ends.
<1>b. ASSUME NEW c \in Controllers, Ends(c) PROVE DeclarationInvariant'
  <2>1. \A n \in Nonces : DeclarationKept(n)'
    BY <1>b, DeclarationsRecorded DEF Ends
  <2>2. WorldDeclared'
    BY <1>b DEF Ends, WorldDeclared, DeclarationInvariant, Journaled
  <2> QED  BY <1>b, <2>1, <2>2, DeclarationMoves DEF Ends
\* A session goes on with its call.
<1>c. ASSUME NEW c \in Controllers, OnlyMoves(c), InSession(c),
             SameCall(session[c], session'[c]) \/ session'[c] =
               [session[c] EXCEPT !.pc = session'[c].pc, !.observed = TRUE],
             session'[c].memory.staged \in {NotGiven, PlannedBy(Request(c))},
             session'[c].pc \in Undeclared <=> session[c].pc \in Undeclared,
             UNCHANGED declared, \A n \in Nonces : DeclarationKept(n)', WorldDeclared'
      PROVE  DeclarationInvariant'
  <2>1. BindingKept(session[c]) /\ session[c] \in Sessions
    BY <1>c, EditsKeep DEF DeclarationInvariant
  <2>2. /\ session'[c].request = session[c].request
        /\ session'[c].archive = session[c].archive
        /\ session'[c].backend = session[c].backend
        /\ session'[c].nonce = session[c].nonce
    BY <1>c, <2>1 DEF SameCall, Sessions
  <2>3. BindingKept(session[c])'
    BY <1>c, <2>1, <2>2 DEF BindingKept, Journaled, Request
  <2> QED  BY <1>c, <2>2, <2>3, DeclarationMoves
<1>d. ASSUME NEW c \in Controllers, Continues(c) PROVE DeclarationInvariant'
  <2>1. BindingKept(session[c]) /\ session[c] \in Sessions
    BY <1>d, EditsKeep DEF Continues, DeclarationInvariant
  <2>2. \A n \in Nonces : DeclarationKept(n)'
    BY <1>d, DeclarationsRecorded DEF Continues
  <2>3. session[c].pc \notin Undeclared /\ session'[c].pc \notin Undeclared
    BY <1>d DEF Continues, Advances
  <2>4. session'[c].memory.staged \in {NotGiven, PlannedBy(Request(c))}
    BY <1>d, <2>1 DEF Continues, Keeps, BindingKept, Memory, Request
  <2>5. WorldDeclared'
    <3> DEFINE n == session[c].nonce
    <3>1. n \in Nonces /\ Journaled(n) /\ declared[n].backend = session[c].backend.backend
      BY <2>1, <2>3 DEF BindingKept, Sessions, DeclarationInvariant, DeclarationKept
    <3>2. \A m \in DOMAIN Initial \ {session[c].backend.backend} : world'[m] = world[m]
      BY <1>d DEF Continues
    <3>3. UNCHANGED declared  BY <1>d DEF Continues
    <3> QED  BY <3>1, <3>2, <3>3 DEF WorldDeclared, DeclarationInvariant, Journaled
  <2> QED  BY <1>d, <2>2, <2>3, <2>4, <2>5, <1>c DEF Continues
\* A session observes, or goes on as it is.
<1>e. ASSUME NEW c \in Controllers, InSession(c), NEW pc \in Phases,
             pc \in Undeclared <=> session[c].pc \in Undeclared,
             \/ session' = [session EXCEPT ![c].pc = pc]
             \/ session' = [session EXCEPT ![c].pc = pc, ![c].observed = TRUE],
             UNCHANGED <<declared, journal, effects>>
      PROVE  DeclarationInvariant'
  <2>1. BindingKept(session[c]) /\ session[c] \in Sessions
    BY <1>e, EditsKeep DEF DeclarationInvariant
  <2>2. /\ OnlyMoves(c)
        /\ \/ session'[c] = [session[c] EXCEPT !.pc = pc]
           \/ session'[c] = [session[c] EXCEPT !.pc = pc, !.observed = TRUE]
    BY <1>e DEF OnlyMoves, IssueInvariant, Shape
  <2>3. /\ SameCall(session[c], session'[c]) \/ session'[c] =
             [session[c] EXCEPT !.pc = pc, !.observed = TRUE]
        /\ session'[c].memory = session[c].memory /\ session'[c].pc = pc
    BY <2>1, <2>2 DEF Sessions, SameCall
  <2>4. /\ \A n \in Nonces : DeclarationKept(n)'
        /\ WorldDeclared'
    BY <1>e DEF DeclarationInvariant, DeclarationKept, WorldDeclared, Journaled, effects
  <2>5. session'[c].memory.staged \in {NotGiven, PlannedBy(Request(c))}
    BY <2>1, <2>3 DEF BindingKept, Request
  <2> QED  BY <1>e, <2>2, <2>3, <2>4, <2>5, <1>c
<1>1. ASSUME NEW c \in Controllers, Preparation(c) PROVE DeclarationInvariant'
  <2>1. CASE Apply(c)
    <3>1. PICK q \in Requests, b \in Backends, archive \in Archives \cup {NotGiven} :
            /\ Admissible(q, control[c].projection, LeaseOf(c), b, archive)
            /\ session' = [session EXCEPT ![c] =
                 Entered("fresh", "admission", q, archive, b,
                         Transaction(b, TargetOf(q), control[c].lease, begun + 1).nonce,
                         Blank)]
      BY <2>1 DEF Apply
    <3> DEFINE s == Entered("fresh", "admission", q, archive, b, begun + 1, Blank)
    <3>2. /\ session' = [d \in Controllers |-> session'[d]]
          /\ \A d \in Controllers \ {c} : session'[d] = session[d]
          /\ session'[c] = s
      BY <3>1 DEF Transaction, IssueInvariant, Shape
    <3>3. /\ s.pc = "admission" /\ s.request = q /\ s.archive = archive
          /\ s.backend = b /\ s.nonce = begun + 1 /\ s.memory.staged = NotGiven
      BY DEF Entered, Blank
    <3> HIDE DEF s
    <3>4. /\ begun \in Nat /\ begun + 1 \in Nonces
          /\ UNCHANGED <<declared, journal, world>>
      BY <2>1, BoundsAssumption DEF Apply, effects, IssueInvariant, Shape, Nonces
    <3>5. ~Journaled(begun + 1)
      <4>1. \A n \in Nonces : Journaled(n) => n <= begun  BY DEF LeaseInvariant
      <4> QED  BY <3>4, <4>1
    <3>6. ASSUME NEW d \in Controllers, session'[d].pc # "idle"
          PROVE  BindingKept(session[d])'
      <4>1. CASE d = c
        BY <3>1, <3>2, <3>3, <3>4, <3>5, <4>1, AdmittedBinding
           DEF BindingKept, Journaled, Undeclared
      <4>2. CASE d # c
        BY <3>2, <3>4, <3>6, <4>2 DEF DeclarationInvariant, BindingKept, Journaled
      <4> QED  BY <4>1, <4>2
    <3>7. \A d \in Controllers \ {c} : session[d].pc # "idle" =>
            session[d].nonce # begun + 1
      BY <3>4, EditsKeep DEF SessionKept, Sessions, Nonces
    <3>8. OneDeclarer'
      BY <3>2, <3>3, <3>7 DEF OneDeclarer, Undeclared, DeclarationInvariant
    <3> QED  BY <3>4, <3>6, <3>8
             DEF DeclarationInvariant, DeclarationKept, WorldDeclared, Journaled
  <2>2. CASE FinishAdmission(c)
    <3>1. CASE Satisfied(c)
      BY <2>2, <3>1, <1>e DEF FinishAdmission, Phases, Undeclared
    <3>2. CASE ~Satisfied(c)
      <4>1. Ends(c)
        BY <2>2, <3>2 DEF FinishAdmission, Return, NoSession, Ends, Records, OnlyMoves,
                          effects, IssueInvariant, Shape
      <4> QED  BY <4>1, <1>b
    <3> QED  BY <3>1, <3>2
  <2>3. CASE Declare(c)
    <3> DEFINE m == session[c].nonce
               h == Header(Request(c), m, control[c].projection, LeaseOf(c))
    <3>1. /\ session[c] \in Sessions /\ BindingKept(session[c]) /\ m \in Nonces
          /\ session[c].pc = "declare" /\ session[c].request \in Requests
          /\ ~Journaled(m)
      BY <2>3, EditsKeep DEF Declare, DeclarationInvariant, BindingKept, Undeclared, Sessions
    <3>2. /\ declared' = [declared EXCEPT ![m] = h] /\ UNCHANGED <<journal, world>>
          /\ Goto(c, "enter_preparation")
      BY <2>3 DEF Declare, effects
    <3>3. h # NotGiven
      <4>1. PICK i \in 1 .. MaxLeases, j \in DOMAIN State :
              control[c].projection = Projection(i, j)
        <5>1. ProjectionKept(c) /\ CallKept(c)  BY DEF LeaseInvariant
        <5>2. /\ control[c].projection \in Projections
              /\ control[c].projection.lease \in DOMAIN acquired
          BY <3>1, <5>1 DEF ProjectionKept, CallKept, Projected, ProjectedLease
        <5>3. DOMAIN acquired \subseteq 1 .. MaxLeases
          BY BoundsAssumption DEF LeaseInvariant
        <5>4. PICK i \in Nat, j \in DOMAIN State :
                control[c].projection = Projection(i, j)
          BY <5>2 DEF Projections
        <5>5. control[c].projection.lease = i  BY <5>4 DEF Projection
        <5> QED  BY <5>2, <5>3, <5>4, <5>5
      <4>2. control[c].lease = i
        <5>1. CallKept(c)  BY DEF LeaseInvariant
        <5>2. control[c].projection.lease = control[c].lease
          BY <3>1, <5>1 DEF CallKept, ProjectedLease
        <5>3. control[c].projection.lease = i  BY <4>1 DEF Projection
        <5> QED  BY <5>2, <5>3
      <4>3. h = Header(Request(c), m, Projection(i, j), [id |-> i])
        BY <4>1, <4>2 DEF Header, LeaseOf
      <4> QED  BY <3>1, <4>3, NotGivenAssumption DEF Request, Nonces
    <3>4. h.request = session[c].request /\ h.backend = BackendOf(session[c].request)
      BY DEF Header, Request
    <3> HIDE DEF h
    <3>5. /\ declared'[m] = h
          /\ \A n \in Nonces \ {m} : declared'[n] = declared[n]
      BY <3>1, <3>2 DEF LeaseInvariant
    <3>6. /\ OnlyMoves(c) /\ session'[c].pc = "enter_preparation"
          /\ session'[c].request = session[c].request
          /\ session'[c].archive = session[c].archive
          /\ session'[c].backend = session[c].backend
          /\ session'[c].nonce = session[c].nonce
          /\ session'[c].memory = session[c].memory
      BY <3>1, <3>2 DEF Goto, OnlyMoves, Sessions, IssueInvariant, Shape
    <3>7. ASSUME NEW n \in Nonces PROVE DeclarationKept(n)'
      <4>1. CASE n = m
        BY <3>1, <3>2, <3>3, <3>4, <3>5, <4>1
           DEF DeclarationInvariant, DeclarationKept, Journaled, Blank
      <4>2. CASE n # m
        BY <3>2, <3>5, <4>2 DEF DeclarationInvariant, DeclarationKept, Journaled
      <4> QED  BY <4>1, <4>2
    <3>8. ASSUME NEW d \in Controllers, session'[d].pc # "idle"
          PROVE  BindingKept(session[d])'
      <4>1. CASE d = c
        BY <3>1, <3>3, <3>4, <3>5, <3>6, <4>1 DEF BindingKept, Journaled, Undeclared
      <4>2. CASE d # c
        <5>1. session'[d] = session[d] /\ session[d] \in Sessions /\ BindingKept(session[d])
          BY <3>6, <3>8, <4>2, EditsKeep DEF OnlyMoves, DeclarationInvariant
        <5>2. session[d].nonce # m
          BY <3>1, <4>2, <5>1 DEF BindingKept, DeclarationInvariant, OneDeclarer, Undeclared
        <5> QED  BY <3>5, <5>1, <5>2 DEF BindingKept, Journaled, Sessions
      <4> QED  BY <4>1, <4>2
    <3>9. OneDeclarer'
      BY <3>6 DEF OneDeclarer, OnlyMoves, Undeclared, DeclarationInvariant
    <3>10. WorldDeclared'
      BY <3>1, <3>2, <3>5 DEF WorldDeclared, DeclarationInvariant, Journaled
    <3> QED  BY <3>7, <3>8, <3>9, <3>10 DEF DeclarationInvariant
  <2>4. CASE EnterPreparation(c)
    BY <2>4, OrdinaryStep, <1>b, <1>d
  <2>5. CASE Stage(c)
    <3> DEFINE m == session[c].nonce
               planned == Planned(Request(c), session[c].archive)
               h == [Memory(c) EXCEPT !.captured = Found(c), !.staged = planned]
               step == [h EXCEPT !.steps = @ + 1]
    <3>1. /\ session[c].pc = "stage" /\ session[c] \in Sessions
          /\ Memory(c) \in History /\ BindingKept(session[c]) /\ m \in Nonces
      BY <2>5, EditsKeep DEF Stage, Keeps, DeclarationInvariant, Sessions
    <3>2. step.staged = PlannedBy(Request(c))
      <4>1. step.staged = planned  BY <3>1 DEF History
      <4> QED  BY <3>1, <4>1 DEF BindingKept, Request
    <3>3. /\ OnlyMoves(c)
          /\ session'[c] = [session[c] EXCEPT !.memory = step, !.pc = "seal_preparation"]
          /\ journal' = [journal EXCEPT ![m] = step]
          /\ UNCHANGED <<declared, world>>
      BY <2>5 DEF Stage, AppendStep, OnlyMoves, IssueInvariant, Shape, effects
    <3> HIDE DEF step
    <3>4. /\ SameCall(session[c], session'[c]) /\ session'[c].memory = step
          /\ session'[c].pc = "seal_preparation"
      BY <3>1, <3>3 DEF Sessions, SameCall
    <3>5. /\ journal'[m] = step
          /\ \A n \in Nonces \ {m} : journal'[n] = journal[n]
      BY <3>1, <3>3 DEF IssueInvariant, Shape
    <3>6. ASSUME NEW n \in Nonces PROVE DeclarationKept(n)'
      <4>1. CASE n = m
        BY <3>1, <3>2, <3>3, <3>5, <4>1 DEF DeclarationInvariant, DeclarationKept,
           Journaled, BindingKept, Undeclared, Request
      <4>2. CASE n # m
        BY <3>3, <3>5, <4>2 DEF DeclarationInvariant, DeclarationKept, Journaled
      <4> QED  BY <4>1, <4>2
    <3>7. WorldDeclared'
      BY <3>3 DEF WorldDeclared, DeclarationInvariant, Journaled
    <3> QED  BY <3>1, <3>2, <3>3, <3>4, <3>6, <3>7, <1>c DEF Undeclared
  <2>6. CASE SealPreparation(c)
    BY <2>6, OrdinaryStep, <1>b, <1>d
  <2> QED  BY <1>1, <2>1, <2>2, <2>3, <2>4, <2>5, <2>6 DEF Preparation
<1>2. ASSUME NEW c \in Controllers, Restart(c) PROVE DeclarationInvariant'
  <2>1. CASE Resume(c)
    <3>1. PICK n \in Nonces, q \in Requests, b \in Backends,
               archive \in Archives \cup {NotGiven} :
            /\ Journaled(n)
            /\ Restartable(q, control[c].projection, LeaseOf(c), b, archive, declared[n],
                           Transaction(b, TargetOf(q), control[c].lease, n))
            /\ session' = [session EXCEPT ![c] =
                 Entered("resumed", "resume_preparation", q, archive, b, n, journal[n])]
      BY <2>1 DEF Resume
    <3> DEFINE s == Entered("resumed", "resume_preparation", q, archive, b, n, journal[n])
    <3>2. OnlyMoves(c) /\ session'[c] = s
      BY <3>1 DEF OnlyMoves, IssueInvariant, Shape
    <3>3. /\ s.pc = "resume_preparation" /\ s.request = q /\ s.archive = archive
          /\ s.backend = b /\ s.nonce = n /\ s.memory = journal[n]
      BY DEF Entered
    <3> HIDE DEF s
    <3>4. declared[n].request = q /\ Admissible(q, control[c].projection, LeaseOf(c), b, archive)
      BY <3>1 DEF Restartable, JournalMatches
    <3>5. UNCHANGED <<declared, journal, world>>
      BY <2>1 DEF Resume, effects
    <3>6. BindingKept(session[c])'
      BY <3>1, <3>2, <3>3, <3>4, <3>5, AdmittedBinding
         DEF BindingKept, Journaled, Undeclared, DeclarationInvariant, DeclarationKept
    <3>7. /\ \A k \in Nonces : DeclarationKept(k)'
          /\ WorldDeclared'
      BY <3>5 DEF DeclarationInvariant, DeclarationKept, WorldDeclared, Journaled
    <3> QED  BY <3>2, <3>3, <3>5, <3>6, <3>7, DeclarationMoves DEF Undeclared
  <2>2. CASE ResumePreparation(c)
    <3>1. session[c].pc = "resume_preparation"  BY <2>2 DEF ResumePreparation
    <3>2. CASE Memory(c).state # "preparing"
      BY <2>2, <3>1, <3>2, <1>e DEF ResumePreparation, Goto, Phases, Undeclared
    <3>3. CASE Memory(c).state = "preparing" /\ Satisfied(c)
      <4>1. PICK pc \in {"stage", "seal_preparation"} :
              session' = [session EXCEPT ![c].pc = pc, ![c].observed = TRUE]
        BY <2>2, <3>3 DEF ResumePreparation
      <4>2. UNCHANGED <<declared, journal, effects>>
        BY <2>2, <3>3 DEF ResumePreparation
      <4> QED  BY <3>1, <4>1, <4>2, <1>e DEF Phases, Undeclared
    <3>4. CASE Memory(c).state = "preparing" /\ ~Satisfied(c)
      <4>1. Ends(c)
        BY <2>2, <3>1, <3>4, ReceiptEnds
           DEF ResumePreparation, JournalState, Receipt, Undeclared
      <4> QED  BY <4>1, <1>b
    <3> QED  BY <3>2, <3>3, <3>4
  <2>3. CASE ResumeRejected(c) \/ ResumeActive(c)
    BY <2>3, OrdinaryStep, <1>b, <1>d
  <2> QED  BY <1>2, <2>1, <2>2, <2>3 DEF Restart
<1>3. ASSUME NEW c \in Controllers,
             Mutation(c) \/ Resolution(c) \/ LosesLease(c) \/ LosesCursor(c)
      PROVE  DeclarationInvariant'
  BY <1>3, OrdinaryStep, <1>b, <1>d
<1>4. ASSUME NEW c \in Controllers, Controller(c) PROVE DeclarationInvariant'
  <2>1. CASE Crash(c)
    <3>1. OnlyMoves(c) /\ session'[c].pc = "idle"
      BY <2>1 DEF Crash, Return, NoSession, OnlyMoves, IssueInvariant, Shape
    <3>2. UNCHANGED <<declared, journal, world>>
      BY <2>1 DEF Crash, effects
    <3>3. /\ \A k \in Nonces : DeclarationKept(k)'
          /\ WorldDeclared'
      BY <3>2 DEF DeclarationInvariant, DeclarationKept, WorldDeclared, Journaled
    <3> QED  BY <3>1, <3>2, <3>3, DeclarationMoves
  <2>2. CASE ~Crash(c)
    BY <1>4, <2>2, <1>a
       DEF Controller, Acquire, ReadState, PublishState, Release, effects
  <2> QED  BY <2>1, <2>2
<1>5. ASSUME NEW i \in held, Lapse(i) PROVE DeclarationInvariant'
  BY <1>5, <1>a DEF Lapse, effects
<1>6. CASE UNCHANGED vars
  BY <1>6, <1>a DEF vars
<1> QED  BY <1>1, <1>2, <1>3, <1>4, <1>5, <1>6 DEF Next

(***************************************************************************)
(* Every step keeps the invariant of the observations.                     *)
(***************************************************************************)
\* Every call in progress is in the one shared lock domain, so two of them do
\* not both hold their leases.
LEMMA OneCall ==
  ASSUME LeaseInvariant, ObservationInvariant, lapses = 0,
         NEW c \in Controllers, NEW d \in Controllers, InSession(c), InSession(d)
  PROVE  c = d
<1>1. /\ CallKept(c) /\ CallKept(d)
      /\ control[c].lease \in held /\ control[d].lease \in held
  BY DEF LeaseInvariant, ObservationInvariant, ObservationKept
<1>2. acquired[control[c].lease].domain = acquired[control[d].lease].domain
  BY <1>1, DomainAssumption DEF CallKept, Shared
<1>3. control[c].lease = control[d].lease
  BY <1>1, <1>2 DEF LeaseInvariant
<1>4. control[c].lease # 0
  BY <1>1 DEF LeaseInvariant
<1> QED  BY <1>3, <1>4 DEF LeaseInvariant

\* A step of the only session, which keeps its own part of the invariant.
LEMMA ObservationMoves ==
  ASSUME LeaseInvariant, ObservationInvariant, lapses = 0,
         NEW c \in Controllers, InSession(c), OnlyMoves(c),
         InSession(c)' => ObservationKept(c)', \A n \in Nonces : CaptureKept(n)'
  PROVE  ObservationInvariant'
<1>1. \A d \in Controllers \ {c} : ~InSession(d)
  BY OneCall
<1>2. \A d \in Controllers \ {c} : ~InSession(d)'
  BY <1>1 DEF OnlyMoves, InSession
<1> QED  BY <1>2 DEF ObservationInvariant

\* The histories, after a step that appends at most what a session remembers.
LEMMA CapturesRecorded ==
  ASSUME IssueInvariant, DeclarationInvariant, ObservationInvariant, lapses = 0,
         NEW c \in Controllers, InSession(c), Records(c), UNCHANGED declared
  PROVE  \A n \in Nonces : CaptureKept(n)'
<1> SUFFICES ASSUME NEW n \in Nonces PROVE CaptureKept(n)'  OBVIOUS
<1> DEFINE m == session[c].nonce
<1>1. /\ BindingKept(session[c]) /\ m \in Nonces /\ CaptureKept(n)
      /\ ObservationKept(c)
  BY EditsKeep DEF DeclarationInvariant, ObservationInvariant, Sessions
<1>2. CASE UNCHANGED journal
  BY <1>1, <1>2 DEF CaptureKept, Journaled
<1>3. ASSUME session[c].pc \notin Undeclared, NEW h, Keeps(c, h),
             journal' = [journal EXCEPT ![m] = h]
      PROVE  CaptureKept(n)'
  <2>1. n # m => journal'[n] = journal[n]
    BY <1>3 DEF IssueInvariant, Shape
  <2>2. journal'[m] = h /\ h.captured = Memory(c).captured
    BY <1>1, <1>3 DEF Keeps, IssueInvariant, Shape
  <2>3. declared[m].request = Request(c)
    BY <1>1, <1>3 DEF BindingKept, Request
  <2> QED  BY <1>1, <2>1, <2>2, <2>3 DEF CaptureKept, Journaled, ObservationKept
<1> QED  BY <1>2, <1>3 DEF Records

\* Until it issues its own effect, the only call in progress finds what it
\* observed: nobody else holds a lease of the domain.
LEMMA ObservationStep ==
  ASSUME IssueInvariant, LeaseInvariant, DeclarationInvariant, ObservationInvariant,
         [Next]_vars
  PROVE  ObservationInvariant'
<1> USE DEF InSession, At
<1>0. lapses' = lapses \/ \E i \in held : Lapse(i)
  <2>1. ASSUME NEW c \in Controllers, Ends(c) \/ Continues(c) PROVE lapses' = lapses
    BY <2>1 DEF Ends, Continues, leases
  <2>2. ASSUME NEW c \in Controllers, Controller(c) PROVE lapses' = lapses
    BY <2>2 DEF Controller, Acquire, ReadState, PublishState, Release, Crash
  <2>3. ASSUME NEW c \in Controllers,
               Apply(c) \/ FinishAdmission(c) \/ Declare(c) \/ Stage(c)
        PROVE  lapses' = lapses
    BY <2>3 DEF Apply, FinishAdmission, Declare, Stage, AppendStep, leases
  <2>4. ASSUME NEW c \in Controllers, Resume(c) \/ ResumePreparation(c)
        PROVE  lapses' = lapses
    BY <2>4 DEF Resume, ResumePreparation, SealReceipt, leases
  <2>5. CASE UNCHANGED vars  BY <2>5 DEF vars
  <2> QED  BY <2>1, <2>2, <2>3, <2>4, <2>5, OrdinaryStep DEF Next, Preparation, Restart
<1> SUFFICES ASSUME lapses' = 0 PROVE ObservationInvariant'
  BY DEF ObservationInvariant
<1>x. lapses = 0
  <2>1. lapses \in Nat  BY BoundsAssumption DEF LeaseInvariant
  <2> QED  BY <1>0, <2>1 DEF Lapse
\* A session ends.
<1>b. ASSUME NEW c \in Controllers, Ends(c) PROVE ObservationInvariant'
  <2>1. \A n \in Nonces : CaptureKept(n)'
    BY <1>b, <1>x, CapturesRecorded DEF Ends
  <2> QED  BY <1>b, <1>x, <2>1, ObservationMoves DEF Ends
\* A session goes on with its call.
<1>d. ASSUME NEW c \in Controllers, Continues(c) PROVE ObservationInvariant'
  <2>1. \A n \in Nonces : CaptureKept(n)'
    BY <1>d, <1>x, CapturesRecorded DEF Continues
  <2>2. ObservationKept(c)  BY <1>d, <1>x DEF Continues, ObservationInvariant
  <2>3. UNCHANGED <<control, held>>  BY <1>d DEF Continues, leases
  <2>4. Memory(c)'.captured = Memory(c).captured /\ Request(c)' = Request(c)
    BY <1>d DEF Continues, Keeps, SameCall, Memory, Request
  <2>5. /\ session'[c].pc \notin {"admission", "resume_preparation", "declare",
                                  "enter_preparation"}
        /\ session'[c].pc = "stage" => session[c].pc = "enter_preparation"
        /\ session'[c].pc \in BeforeMutation => session[c].pc \in BeforeMutation
    BY <1>d DEF Continues, Advances, Undeclared
  <2>6. session'[c].pc \in BeforeMutation /\ session'[c].observed => Satisfied(c)'
    BY <1>d, <2>2, <2>4, <2>5
       DEF Continues, SameCall, ObservationKept, Satisfied, Found, Request
  <2>7. ObservationKept(c)'
    BY <1>d, <2>2, <2>3, <2>4, <2>5, <2>6 DEF Continues, SameCall, ObservationKept
  <2> QED  BY <1>d, <1>x, <2>1, <2>7, ObservationMoves DEF Continues
\* A call begins, under a lease that is held.
<1>e. ASSUME NEW c \in Controllers, NEW s, session' = [session EXCEPT ![c] = s],
             s.pc \in {"admission", "resume_preparation"}, ~s.observed,
             s.memory.captured \in {NotGiven, PlanOf(s.request).before},
             control[c].lease \in held,
             UNCHANGED <<leases, declared, journal, world>>
      PROVE  ObservationInvariant'
  <2>1. /\ session'[c] = s
        /\ \A d \in Controllers \ {c} : session'[d] = session[d]
    BY <1>e DEF IssueInvariant, Shape
  <2>2. ObservationKept(c)'
    BY <1>e, <2>1 DEF ObservationKept, BeforeMutation, leases, Memory, Request
  <2>3. ASSUME NEW d \in Controllers \ {c}, session'[d].pc # "idle"
        PROVE  ObservationKept(d)'
    BY <1>e, <1>x, <2>1, <2>3 DEF ObservationInvariant, ObservationKept, leases, Memory,
                                  Request, Satisfied, Found
  <2>4. \A n \in Nonces : CaptureKept(n)'
    BY <1>e, <1>x DEF ObservationInvariant, CaptureKept, Journaled
  <2> QED  BY <2>2, <2>3, <2>4 DEF ObservationInvariant
\* A session observes, or goes on as it is.
<1>f. ASSUME NEW c \in Controllers, InSession(c), NEW pc \in Phases,
             pc \notin {"admission", "resume_preparation"},
             \/ /\ session' = [session EXCEPT ![c].pc = pc]
                /\ ~session[c].observed
                /\ pc \notin {"declare", "enter_preparation", "stage"}
             \/ /\ session' = [session EXCEPT ![c].pc = pc, ![c].observed = TRUE]
                /\ Satisfied(c),
             UNCHANGED <<leases, declared, journal, world>>
      PROVE  ObservationInvariant'
  <2>1. ObservationKept(c) /\ session[c] \in Sessions
    BY <1>f, <1>x, EditsKeep DEF ObservationInvariant
  <2>2. /\ OnlyMoves(c)
        /\ \/ session'[c] = [session[c] EXCEPT !.pc = pc]
           \/ session'[c] = [session[c] EXCEPT !.pc = pc, !.observed = TRUE]
    BY <1>f DEF OnlyMoves, IssueInvariant, Shape
  <2>3. /\ session'[c].pc = pc
        /\ session'[c].request = session[c].request
        /\ session'[c].backend = session[c].backend
        /\ session'[c].memory = session[c].memory
    BY <2>1, <2>2 DEF Sessions
  <2>4. \/ session'[c].observed /\ Satisfied(c)
        \/ /\ ~session'[c].observed
           /\ pc \notin {"declare", "enter_preparation", "stage"}
    <3>1. CASE /\ session' = [session EXCEPT ![c].pc = pc, ![c].observed = TRUE]
               /\ Satisfied(c)
      <4>1. session'[c] = [session[c] EXCEPT !.pc = pc, !.observed = TRUE]
        BY <3>1 DEF IssueInvariant, Shape
      <4> QED  BY <2>1, <3>1, <4>1 DEF Sessions
    <3>2. CASE /\ session' = [session EXCEPT ![c].pc = pc]
               /\ ~session[c].observed
               /\ pc \notin {"declare", "enter_preparation", "stage"}
      <4>1. session'[c] = [session[c] EXCEPT !.pc = pc]
        BY <3>2 DEF IssueInvariant, Shape
      <4> QED  BY <2>1, <3>2, <4>1 DEF Sessions
    <3> QED  BY <1>f, <3>1, <3>2
  <2>5. ObservationKept(c)'
    BY <1>f, <2>1, <2>3, <2>4
       DEF ObservationKept, leases, Memory, Request, Satisfied, Found
  <2>6. \A n \in Nonces : CaptureKept(n)'
    BY <1>f, <1>x DEF ObservationInvariant, CaptureKept, Journaled
  <2> QED  BY <1>f, <1>x, <2>2, <2>5, <2>6, ObservationMoves
<1>1. ASSUME NEW c \in Controllers, Preparation(c) PROVE ObservationInvariant'
  <2>1. CASE Apply(c)
    <3>1. PICK q \in Requests, b \in Backends, archive \in Archives \cup {NotGiven} :
            /\ Admissible(q, control[c].projection, LeaseOf(c), b, archive)
            /\ session' = [session EXCEPT ![c] =
                 Entered("fresh", "admission", q, archive, b,
                         Transaction(b, TargetOf(q), control[c].lease, begun + 1).nonce,
                         Blank)]
      BY <2>1 DEF Apply
    <3>2. control[c].lease \in held
      BY <3>1 DEF Admissible, LeaseBinds, LeaseInScope, LeaseOf
    <3>3. UNCHANGED <<leases, declared, journal, world>>
      BY <2>1 DEF Apply, effects
    <3> DEFINE s == Entered("fresh", "admission", q, archive, b, begun + 1, Blank)
    <3>4. /\ s.pc = "admission" /\ ~s.observed /\ s.request = q
          /\ s.memory.captured = NotGiven
      BY DEF Entered, Blank
    <3>5. session' = [session EXCEPT ![c] = s]  BY <3>1 DEF Transaction
    <3> HIDE DEF s
    <3> QED  BY <3>2, <3>3, <3>4, <3>5, <1>e
  <2>2. CASE FinishAdmission(c)
    <3>1. CASE Satisfied(c)
      BY <2>2, <3>1, <1>f DEF FinishAdmission, Phases, effects
    <3>2. CASE ~Satisfied(c)
      <4>1. Ends(c)
        BY <2>2, <3>2 DEF FinishAdmission, Return, NoSession, Ends, Records, OnlyMoves,
                          effects, IssueInvariant, Shape
      <4> QED  BY <4>1, <1>b
    <3> QED  BY <3>1, <3>2
  <2>3. CASE Declare(c)
    <3> DEFINE m == session[c].nonce
    <3>1. /\ session[c] \in Sessions /\ BindingKept(session[c]) /\ m \in Nonces
          /\ session[c].pc = "declare" /\ ObservationKept(c) /\ ~Journaled(m)
      BY <2>3, <1>x, EditsKeep
         DEF Declare, DeclarationInvariant, ObservationInvariant, BindingKept, Undeclared,
             Sessions
    <3>2. /\ \A n \in Nonces \ {m} : declared'[n] = declared[n]
          /\ UNCHANGED <<leases, journal, world>> /\ Goto(c, "enter_preparation")
      BY <2>3 DEF Declare, effects, LeaseInvariant
    <3>3. OnlyMoves(c) /\ session'[c] = [session[c] EXCEPT !.pc = "enter_preparation"]
      BY <3>2 DEF Goto, OnlyMoves, IssueInvariant, Shape
    <3>4. /\ session'[c].pc = "enter_preparation"
          /\ session'[c].request = session[c].request
          /\ session'[c].backend = session[c].backend
          /\ session'[c].observed = session[c].observed
          /\ session'[c].memory = session[c].memory
      BY <3>1, <3>3 DEF Sessions
    <3>5. ObservationKept(c)'
      BY <3>1, <3>2, <3>4 DEF ObservationKept, BeforeMutation, leases, Memory, Request,
                              Satisfied, Found
    <3>6. ASSUME NEW n \in Nonces PROVE CaptureKept(n)'
      <4>1. CASE n = m
        BY <3>1, <3>2, <4>1 DEF DeclarationInvariant, DeclarationKept, Blank, CaptureKept
      <4>2. CASE n # m
        BY <1>x, <3>2, <4>2 DEF ObservationInvariant, CaptureKept, Journaled
      <4> QED  BY <4>1, <4>2
    <3> QED  BY <1>x, <3>1, <3>3, <3>5, <3>6, ObservationMoves
  <2>4. CASE EnterPreparation(c)
    BY <2>4, OrdinaryStep, <1>b, <1>d
  <2>5. CASE Stage(c)
    <3> DEFINE m == session[c].nonce
               planned == Planned(Request(c), session[c].archive)
               h == [Memory(c) EXCEPT !.captured = Found(c), !.staged = planned]
               step == [h EXCEPT !.steps = @ + 1]
    <3>1. /\ session[c].pc = "stage" /\ session[c] \in Sessions
          /\ Memory(c) \in History /\ BindingKept(session[c]) /\ m \in Nonces
          /\ ObservationKept(c)
      BY <2>5, <1>x, EditsKeep
         DEF Stage, Keeps, DeclarationInvariant, ObservationInvariant, Sessions
    <3>2. step.captured = PlanOf(Request(c)).before
      <4>1. step.captured = Found(c)  BY <3>1 DEF History
      <4>2. Satisfied(c)  BY <3>1 DEF ObservationKept, BeforeMutation
      <4> QED  BY <4>1, <4>2 DEF Satisfied
    <3>3. /\ OnlyMoves(c)
          /\ session'[c] = [session[c] EXCEPT !.memory = step, !.pc = "seal_preparation"]
          /\ journal' = [journal EXCEPT ![m] = step]
          /\ UNCHANGED <<leases, declared, world>>
      BY <2>5 DEF Stage, AppendStep, OnlyMoves, IssueInvariant, Shape, effects
    <3> HIDE DEF step
    <3>4. /\ SameCall(session[c], session'[c]) /\ session'[c].memory = step
          /\ session'[c].pc = "seal_preparation"
      BY <3>1, <3>3 DEF Sessions, SameCall
    <3>5. /\ journal'[m] = step
          /\ \A n \in Nonces \ {m} : journal'[n] = journal[n]
      BY <3>1, <3>3 DEF IssueInvariant, Shape
    <3>6. ObservationKept(c)'
      BY <3>1, <3>2, <3>3, <3>4 DEF SameCall, ObservationKept, BeforeMutation, leases,
                                    Memory, Request, Satisfied, Found
    <3>7. declared[m].request = Request(c)
      BY <3>1 DEF BindingKept, Undeclared, Request
    <3>8. ASSUME NEW n \in Nonces PROVE CaptureKept(n)'
      <4>1. CASE n = m
        BY <3>2, <3>3, <3>5, <3>7, <4>1 DEF CaptureKept
      <4>2. CASE n # m
        BY <1>x, <3>3, <3>5, <4>2 DEF ObservationInvariant, CaptureKept, Journaled
      <4> QED  BY <4>1, <4>2
    <3> QED  BY <1>x, <3>1, <3>3, <3>6, <3>8, ObservationMoves
  <2>6. CASE SealPreparation(c)
    BY <2>6, OrdinaryStep, <1>b, <1>d
  <2> QED  BY <1>1, <2>1, <2>2, <2>3, <2>4, <2>5, <2>6 DEF Preparation
<1>2. ASSUME NEW c \in Controllers, Restart(c) PROVE ObservationInvariant'
  <2>1. CASE Resume(c)
    <3>1. PICK n \in Nonces, q \in Requests, b \in Backends,
               archive \in Archives \cup {NotGiven} :
            /\ Journaled(n)
            /\ Restartable(q, control[c].projection, LeaseOf(c), b, archive, declared[n],
                           Transaction(b, TargetOf(q), control[c].lease, n))
            /\ session' = [session EXCEPT ![c] =
                 Entered("resumed", "resume_preparation", q, archive, b, n, journal[n])]
      BY <2>1 DEF Resume
    <3> DEFINE s == Entered("resumed", "resume_preparation", q, archive, b, n, journal[n])
    <3>2. declared[n].request = q /\ control[c].lease \in held
      BY <3>1 DEF Restartable, JournalMatches, Admissible, LeaseBinds, LeaseInScope, LeaseOf
    <3>3. /\ s.pc = "resume_preparation" /\ ~s.observed /\ s.request = q
          /\ s.memory = journal[n]
      BY DEF Entered
    <3>4. s.memory.captured \in {NotGiven, PlanOf(s.request).before}
      BY <1>x, <3>1, <3>2, <3>3 DEF ObservationInvariant, CaptureKept
    <3>5. UNCHANGED <<leases, declared, journal, world>>
      BY <2>1 DEF Resume, effects
    <3>6. session' = [session EXCEPT ![c] = s]  BY <3>1
    <3> HIDE DEF s
    <3> QED  BY <3>2, <3>3, <3>4, <3>5, <3>6, <1>e
  <2>2. CASE ResumePreparation(c)
    <3>1. session[c].pc = "resume_preparation"  BY <2>2 DEF ResumePreparation
    <3>2. CASE Memory(c).state # "preparing"
      <4>1. ~session[c].observed
        BY <1>x, <3>1 DEF ObservationInvariant, ObservationKept
      <4> QED  BY <2>2, <3>1, <3>2, <4>1, <1>f DEF ResumePreparation, Goto, Phases, effects
    <3>3. CASE Memory(c).state = "preparing" /\ Satisfied(c)
      <4>1. PICK pc \in {"stage", "seal_preparation"} :
              session' = [session EXCEPT ![c].pc = pc, ![c].observed = TRUE]
        BY <2>2, <3>3 DEF ResumePreparation
      <4>2. UNCHANGED <<leases, declared, journal, world>>
        BY <2>2, <3>3 DEF ResumePreparation, effects
      <4> QED  BY <3>1, <3>3, <4>1, <4>2, <1>f DEF Phases
    <3>4. CASE Memory(c).state = "preparing" /\ ~Satisfied(c)
      <4>1. Ends(c)
        BY <2>2, <3>1, <3>4, ReceiptEnds
           DEF ResumePreparation, JournalState, Receipt, Undeclared
      <4> QED  BY <4>1, <1>b
    <3> QED  BY <3>2, <3>3, <3>4
  <2>3. CASE ResumeRejected(c) \/ ResumeActive(c)
    BY <2>3, OrdinaryStep, <1>b, <1>d
  <2> QED  BY <1>2, <2>1, <2>2, <2>3 DEF Restart
<1>3. ASSUME NEW c \in Controllers,
             Mutation(c) \/ Resolution(c) \/ LosesLease(c) \/ LosesCursor(c)
      PROVE  ObservationInvariant'
  BY <1>3, OrdinaryStep, <1>b, <1>d
\* Leases are taken and given up by controllers that are in no call.
<1>4. ASSUME NEW c \in Controllers, Controller(c) PROVE ObservationInvariant'
  <2>1. UNCHANGED <<declared, journal, world>>
    BY <1>4 DEF Controller, Acquire, ReadState, PublishState, Release, Crash, effects
  <2>2. \A n \in Nonces : CaptureKept(n)'
    BY <1>x, <2>1 DEF ObservationInvariant, CaptureKept, Journaled
  <2>3. ASSUME NEW d \in Controllers, InSession(d)'
        PROVE  /\ InSession(d) /\ session'[d] = session[d]
               /\ control'[d].lease \in held'
    <3>1. /\ control = [e \in Controllers |-> control[e]]
          /\ \A e \in Controllers : control[e] =
               [lease |-> control[e].lease, projection |-> control[e].projection]
          /\ session = [e \in Controllers |-> session[e]]
      BY DEF LeaseInvariant
    <3>2. CASE Crash(c)
      <4>1. d # c /\ session'[d] = session[d] /\ control'[d] = control[d]
        BY <2>3, <3>1, <3>2 DEF Crash, Return, NoSession
      <4>2. control[d].lease \in held /\ control[d].lease # 0
        <5>1. control[d].lease \in held
          BY <1>x, <2>3, <4>1 DEF ObservationInvariant, ObservationKept
        <5> QED  BY <5>1 DEF LeaseInvariant
      <4> QED  BY <2>3, <3>2, <4>1, <4>2 DEF Crash, LeaseInvariant
    <3>3. CASE ~Crash(c)
      <4>1. session' = session
        BY <1>4, <3>3 DEF Controller, Acquire, ReadState, PublishState, Release
      <4>2. control[d].lease \in held /\ control[d].lease # 0
        <5>1. control[d].lease \in held
          BY <1>x, <2>3, <4>1 DEF ObservationInvariant, ObservationKept
        <5> QED  BY <5>1 DEF LeaseInvariant
      <4>3. CASE Acquire(c)
        BY <3>1, <4>1, <4>2, <4>3, <2>3 DEF Acquire
      <4>4. CASE Release(c)
        <5>1. d # c  BY <2>3, <4>1, <4>4 DEF Release
        <5> QED  BY <2>3, <3>1, <4>1, <4>2, <4>4, <5>1 DEF Release, LeaseInvariant
      <4>5. CASE ReadState(c) \/ PublishState(c)
        BY <2>3, <3>1, <4>1, <4>2, <4>5 DEF ReadState, PublishState
      <4> QED  BY <1>4, <3>3, <4>3, <4>4, <4>5 DEF Controller
    <3> QED  BY <3>2, <3>3
  <2>4. ASSUME NEW d \in Controllers, InSession(d)' PROVE ObservationKept(d)'
    BY <1>x, <2>1, <2>3, <2>4
       DEF ObservationInvariant, ObservationKept, Memory, Request, Satisfied, Found
  <2> QED  BY <2>2, <2>4 DEF ObservationInvariant
<1>5. ASSUME NEW i \in held, Lapse(i) PROVE ObservationInvariant'
  BY <1>5, <1>x DEF Lapse
<1>6. CASE UNCHANGED vars
  BY <1>6, <1>x DEF vars, ObservationInvariant, ObservationKept, CaptureKept, Journaled,
                    Memory, Request, Satisfied, Found
<1> QED  BY <1>1, <1>2, <1>3, <1>4, <1>5, <1>6 DEF Next

(***************************************************************************)
(* The theorems.                                                           *)
(***************************************************************************)
\* At first nothing is leased, declared, captured or issued.
LEMMA InitInvariant == Init => IssueInvariant /\ LeaseInvariant
<1> SUFFICES ASSUME Init PROVE IssueInvariant /\ LeaseInvariant  OBVIOUS
<1>1. Blank \in History /\ Coherent(Blank)
  BY DEF Blank, History, JournalState, Receipt, Fact, Coherent
<1>2. /\ Shape /\ \A n \in Nonces : JournalKept(n)
  BY <1>1, TargetsAssumption, BoundsAssumption DEF Init, Shape, JournalKept
<1>3. \A c \in Controllers : ~InSession(c)
  BY DEF Init, InSession, NoSession
<1>4. IssueInvariant
  BY <1>2, <1>3 DEF IssueInvariant, OneIssuer, InSession
<1>5. LeaseInvariant
  <2>1. acquired \in Seq(Acquisitions) /\ Len(acquired) = 0
    BY DEF Init
  <2>2. \A c \in Controllers : ProjectionKept(c) /\ CallKept(c)
    BY <1>3 DEF Init, ProjectionKept, CallKept, Projected
  <2> QED  BY <1>3, <2>1, <2>2, TargetsAssumption, BoundsAssumption
              DEF Init, LeaseInvariant, Journaled
<1> QED  BY <1>4, <1>5

\* The invariant of journals, sessions and leases, at every step.
THEOREM LeasesAndJournalsKept == Spec => [](IssueInvariant /\ LeaseInvariant)
<1>1. Init => IssueInvariant /\ LeaseInvariant  BY InitInvariant
<1>2. IssueInvariant /\ LeaseInvariant /\ [Next]_vars
      => (IssueInvariant /\ LeaseInvariant)'
  BY IssueStep, LeaseStep
<1> QED  BY <1>1, <1>2, PTL DEF Spec

\* Leases, sessions and journals keep their shapes, and no session remembers
\* more of its journal than the store committed.
THEOREM LeasedApplicationsTyped == Spec => []TypeOK
<1>1. ASSUME IssueInvariant, LeaseInvariant PROVE TypeOK
  <2>1. journal \in [Nonces -> History]
    BY <1>1 DEF IssueInvariant, Shape, JournalKept
  <2>2. issued \in [Nonces -> [active : Nat, recover : Nat]]
    BY <1>1 DEF IssueInvariant, Shape, JournalKept
  <2>3. ASSUME NEW c \in Controllers, session[c].pc # "idle"
        PROVE  /\ session[c].nonce \in 1 .. begun
               /\ session[c].memory \in History
               /\ Memory(c).steps <= journal[session[c].nonce].steps
    BY <1>1, <2>3, BoundsAssumption
       DEF IssueInvariant, Shape, InSession, SessionKept, Sessions, Follows, Memory, Nonces
  <2> QED  BY <1>1, <2>1, <2>2, <2>3 DEF IssueInvariant, Shape, LeaseInvariant, TypeOK
<1> QED  BY <1>1, LeasesAndJournalsKept, PTL

\* An attempt's active effect and its recovery reach the backend at most once,
\* however many controllers resume the attempt and whatever leases are lost
\* (append_journal_step before every backend call).
THEOREM EffectsIssuedOnce == Spec => []IssuedOnce
<1>1. IssueInvariant => IssuedOnce
  BY DEF IssueInvariant, JournalKept, IssuedOnce
<1> QED  BY <1>1, LeasesAndJournalsKept, PTL

\* The plan of every running call whose lease is held is the one for the
\* installed state that is published now (validate_state and
\* validate_target_mutation_lease).
THEOREM PlansAreCurrent == Spec => []PlanCurrent
<1>1. LeaseInvariant => PlanCurrent
  BY DEF LeaseInvariant, ProjectionKept, CallKept, PlanCurrent
<1> QED  BY <1>1, LeasesAndJournalsKept, PTL

\* What is declared, captured and staged, at every step.
THEOREM CallsKept == Spec => [](DeclarationInvariant /\ ObservationInvariant)
<1>1. Init => DeclarationInvariant /\ ObservationInvariant
  <2> SUFFICES ASSUME Init PROVE DeclarationInvariant /\ ObservationInvariant  OBVIOUS
  <2>1. /\ \A c \in Controllers : session[c].pc = "idle"
        /\ \A n \in Nonces : ~Journaled(n) /\ journal[n] = Blank
        /\ world = Initial
    BY DEF Init, NoSession, Journaled
  <2>2. DeclarationInvariant
    BY <2>1 DEF DeclarationInvariant, DeclarationKept, InSession, OneDeclarer,
                Undeclared, WorldDeclared
  <2>3. ObservationInvariant
    BY <2>1 DEF ObservationInvariant, InSession, CaptureKept
  <2> QED  BY <2>2, <2>3
<1>2. /\ IssueInvariant /\ LeaseInvariant
      /\ DeclarationInvariant /\ ObservationInvariant /\ [Next]_vars
      => (DeclarationInvariant /\ ObservationInvariant)'
  BY DeclarationStep, ObservationStep
<1> QED  BY <1>1, <1>2, LeasesAndJournalsKept, PTL DEF Spec

\* What a session observed when it was admitted, or when it resumed a preparing
\* journal, still holds when its own effect is issued, unless a lease was lost
\* (one held lease per domain, checked again at every gate).
THEOREM AdmittedFactsPersist == Spec => []AdmittedFactsHold
<1>1. ObservationInvariant => AdmittedFactsHold
  <2> SUFFICES ASSUME ObservationInvariant, lapses = 0, NEW c \in Controllers,
                      session[c].pc \in BeforeMutation, session[c].observed
               PROVE  Satisfied(c)
    BY DEF AdmittedFactsHold
  <2>1. InSession(c)  BY DEF InSession, BeforeMutation
  <2> QED  BY <2>1 DEF ObservationInvariant, ObservationKept
<1> QED  BY <1>1, CallsKept, PTL

\* What recovery would restore is the state the plan accepted, whichever
\* session captured it, unless a lease was lost (resume_preparation observes
\* the paths again before it captures).
THEOREM CapturesAccepted == Spec => []CaptureAccepted
<1>1. ObservationInvariant => CaptureAccepted
  BY DEF ObservationInvariant, CaptureKept, CaptureAccepted
<1> QED  BY <1>1, CallsKept, PTL

\* An attempt stages the result of the plan its journal declares, whatever its
\* restarts are called with, and only the backends of declared attempts are
\* touched (validate_incoming_archive, validate_journal_bindings).
THEOREM PlansExecuted == Spec => []DeclaredPlanExecuted
<1>1. DeclarationInvariant => DeclaredPlanExecuted
  BY DEF DeclarationInvariant, DeclarationKept, WorldDeclared, PlannedBy,
         DeclaredPlanExecuted
<1> QED  BY <1>1, CallsKept, PTL

=============================================================================

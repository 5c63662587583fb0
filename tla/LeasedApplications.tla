-------------------------- MODULE LeasedApplications --------------------------
(***************************************************************************)
(* Controllers that apply plans to one target and resume each other's      *)
(* journals, under leases that exclude per lock domain and may be lost.    *)
(*                                                                         *)
(* An attempt has one active effect, its capture and its recovery; the     *)
(* whole effect graph is ApplicationAttempt's.  One append is one step, as *)
(* JournalStore justifies, and it needs the cursor the session last saw.   *)
(***************************************************************************)
EXTENDS ApplicationAuthority, JournalStates, Naturals, Sequences, FiniteSets

CONSTANTS Controllers,
          Backends,      \* backend identities and capabilities
          Archives,      \* replay archives a caller may pass
          Acquisitions,  \* target and lock domain of the leases taken
          State,         \* installed states, in the order they are published
          Initial,       \* backend -> content of its managed target at first
          MaxLeases,     \* bound on acquisitions
          MaxAttempts,   \* bound on attempts
          MaxLapses      \* bound on leases lost by a live process

ASSUME BoundsAssumption ==
  MaxLeases \in Nat /\ MaxAttempts \in Nat /\ MaxLapses \in Nat

\* Contents of a path: at first, without the package, and of each archive.
Contents == {Initial[m] : m \in DOMAIN Initial} \cup {"absent"}
              \cup {archive.image : archive \in Archives}

\* Each backend has one managed target, and there is an installed state.
ASSUME TargetsAssumption ==
  /\ Initial \in [DOMAIN Initial -> Contents]
  /\ NotGiven \notin Contents
  /\ \A b \in Backends : b.backend \in DOMAIN Initial
  /\ 1 \in DOMAIN State

\* The projection of installed state j, read under lease i.
Projection(i, j) ==
  [lease |-> i, complete |-> TRUE, snapshot |-> State[j].snapshot,
   inventory |-> State[j].inventory, owners |-> State[j].owners]

\* No journal header is the absent value.
ASSUME NotGivenAssumption ==
  \A q \in Requests, n \in 1 .. MaxAttempts, i \in 1 .. MaxLeases, j \in DOMAIN State :
    Header(q, n, Projection(i, j), [id |-> i]) # NotGiven

\* What may be applied at all belongs to the lock domain of the one installed
\* state.
ASSUME DomainAssumption ==
  \A q, r \in Requests : Target[TargetOf(q)].domain = Target[TargetOf(r)].domain

VARIABLES
  acquired,   \* target and domain of every acquisition, by lease identity
  held,       \* the acquisitions whose held() is true
  control,    \* the lease and state projection a controller keeps (0 is none)
  session,    \* the apply or resume call a controller is in
  declared,   \* journal declarations, by attempt nonce
  journal,    \* their committed histories, as folded from the steps
  world,      \* content of the path, at the target of each mutation backend
  installed,  \* index of the published installed state
  published,  \* completed attempts whose result was published
  begun,      \* backend transactions begun
  issued,     \* how often an attempt's active effect and recovery were issued
  lapses

vars == <<acquired, held, control, session, declared, journal, world,
          installed, published, begun, issued, lapses>>
leases == <<acquired, held, control, lapses>>
stateStore == <<installed, published>>
effects == <<world, issued>>

Nonces == 1 .. MaxAttempts
Fact == {"none", "intent", "completed", "failed", "indeterminate"}
Receipt == {"failed_before_target_mutation", "failed_with_partial_effects",
            "failed_fully_recovered", "indeterminate", "completed"}
History ==
  [steps : Nat, state : JournalState, captured : Contents \cup {NotGiven},
   staged : Contents \cup {NotGiven}, active : Fact, recover : Fact,
   receipt : Receipt \cup {"none"}]
NoSession == [pc |-> "idle"]
Blank == [steps |-> 0, state |-> "preparing", captured |-> NotGiven,
          staged |-> NotGiven, active |-> "none", recover |-> "none",
          receipt |-> "none"]

Init ==
  /\ acquired = << >>
  /\ held = {}
  /\ control = [c \in Controllers |-> [lease |-> 0, projection |-> NotGiven]]
  /\ session = [c \in Controllers |-> NoSession]
  /\ declared = [n \in Nonces |-> NotGiven]
  /\ journal = [n \in Nonces |-> Blank]
  /\ world = Initial
  /\ installed = 1
  /\ published = {}
  /\ begun = 0
  /\ issued = [n \in Nonces |-> [active |-> 0, recover |-> 0]]
  /\ lapses = 0

LeaseOf(c) ==
  LET i == control[c].lease
  IN  [id |-> i, target |-> acquired[i].target, domain |-> acquired[i].domain,
       held |-> i \in held]

At(c, pc) == session[c].pc = pc
Goto(c, pc) == session' = [session EXCEPT ![c].pc = pc]
Return(c) == session' = [session EXCEPT ![c] = NoSession]
Request(c) == session[c].request
Memory(c) == session[c].memory
Journaled(n) == declared[n] # NotGiven

----------------------------------------------------------------------------
(***************************************************************************)
(* The controller's side, as the contracts in mutation_lease.h and         *)
(* DESIGN.md describe it.                                                  *)
(***************************************************************************)
\* At most one lease of a domain is held.
Acquire(c) ==
  /\ control[c].lease = 0 /\ Len(acquired) < MaxLeases
  /\ \E a \in Acquisitions :
       /\ \A i \in held : acquired[i].domain # a.domain
       /\ acquired' = Append(acquired, a)
       /\ held' = held \cup {Len(acquired')}
       /\ control' = [control EXCEPT ![c].lease = Len(acquired')]
  /\ UNCHANGED <<session, declared, journal, begun, lapses, effects, stateStore>>

\* The state is read under the lease; the projection is kept for later calls.
ReadState(c) ==
  /\ At(c, "idle") /\ control[c].lease \in held
  /\ control' = [control EXCEPT
                   ![c].projection = Projection(control[c].lease, installed)]
  /\ UNCHANGED <<acquired, held, lapses, session, declared, journal, begun,
                 effects, stateStore>>

\* A completed attempt's state is published under a lease of its target, and
\* the projection of the superseded state is not used again.
PublishState(c) ==
  /\ At(c, "idle") /\ control[c].lease # 0
  /\ installed + 1 \in DOMAIN State
  /\ \E n \in Nonces \ published :
       /\ Journaled(n) /\ journal[n].receipt = "completed"
       /\ LeaseInScope(declared[n].target, LeaseOf(c))
       /\ published' = published \cup {n}
  /\ installed' = installed + 1
  /\ control' = [control EXCEPT ![c].projection = NotGiven]
  /\ UNCHANGED <<acquired, held, lapses, session, declared, journal, begun, effects>>

\* The projection outlives the lease in the hands of the caller.
Release(c) ==
  /\ At(c, "idle") /\ control[c].lease # 0
  /\ held' = held \ {control[c].lease}
  /\ control' = [control EXCEPT ![c].lease = 0]
  /\ UNCHANGED <<acquired, lapses, session, declared, journal, begun, effects,
                 stateStore>>

\* Between two calls a crash is a release after which nothing is kept.
Crash(c) ==
  /\ session[c].pc # "idle"
  /\ held' = held \ {control[c].lease}
  /\ control' = [control EXCEPT ![c] = [lease |-> 0, projection |-> NotGiven]]
  /\ Return(c)
  /\ UNCHANGED <<acquired, lapses, declared, journal, begun, effects, stateStore>>

\* The lock behind a lease is lost while its process goes on.
Lapse(i) ==
  /\ i \in held /\ lapses < MaxLapses
  /\ held' = held \ {i}
  /\ lapses' = lapses + 1
  /\ UNCHANGED <<acquired, control, session, declared, journal, begun, effects,
                 stateStore>>

----------------------------------------------------------------------------
(***************************************************************************)
(* What a session does with its authority.                                 *)
(***************************************************************************)
LeaseStillBinds(c) ==
  LeaseBinds(TargetOf(Request(c)), control[c].projection, LeaseOf(c))

Bound(c, states) ==
  PhaseBound(states, Request(c), control[c].projection, LeaseOf(c),
             declared[session[c].nonce], Memory(c).state)

\* The entry of a phase.
Gate(c, pc, passes, next) ==
  /\ At(c, pc) /\ passes
  /\ Goto(c, next)
  /\ UNCHANGED <<leases, declared, journal, begun, effects, stateStore>>

\* Slip: a step is appended whatever the cursor is.
CursorIgnored(c) == TRUE
\* compare_and_publish_cursor succeeds on the cursor the session last saw.
CursorMatches(c) == Memory(c).steps = journal[session[c].nonce].steps

\* append_journal_step: memory follows the durable history.
AppendStep(c, h, next) ==
  LET step == [h EXCEPT !.steps = @ + 1]
  IN  /\ CursorMatches(c)
      /\ journal' = [journal EXCEPT ![session[c].nonce] = step]
      /\ session' = [session EXCEPT ![c].memory = step, ![c].pc = next]
      /\ UNCHANGED <<leases, declared, begun, stateStore>>

\* Append the step that seals a receipt, and return.
SealReceipt(c, state, receipt) ==
  /\ CursorMatches(c)
  /\ journal' = [journal EXCEPT ![session[c].nonce] =
                   [Memory(c) EXCEPT !.steps = @ + 1, !.state = state,
                                     !.receipt = receipt]]
  /\ Return(c)
  /\ UNCHANGED <<leases, declared, begun, effects, stateStore>>

Found(c) == world[session[c].backend.backend]
Satisfied(c) == Found(c) = PlanOf(Request(c)).before

\* What the plan's image, or its absence, puts at the path.
Planned(q, archive) == IF Submitted[q].kind = "remove" THEN "absent" ELSE archive.image

Transaction(b, t, lease, nonce) ==
  [backend |-> b.backend, observation |-> b.observation,
   capabilities |-> b.capabilities, target |-> t, lease |-> lease, nonce |-> nonce]

Entered(mode, pc, q, archive, b, nonce, memory) ==
  [pc |-> pc, mode |-> mode, request |-> q, archive |-> archive, backend |-> b,
   nonce |-> nonce, memory |-> memory, observed |-> FALSE, fact |-> "none"]

----------------------------------------------------------------------------
(***************************************************************************)
(* apply(): admission, declaration and preparation.                        *)
(***************************************************************************)
\* validate_application_admission and the begin of the backend transaction.
Apply(c) ==
  /\ At(c, "idle") /\ begun < MaxAttempts
  /\ control[c].lease # 0 /\ control[c].projection # NotGiven
  /\ \E q \in Requests, b \in Backends, archive \in Archives \cup {NotGiven} :
       LET x == Transaction(b, TargetOf(q), control[c].lease, begun + 1)
       IN  /\ Admissible(q, control[c].projection, LeaseOf(c), b, archive)
           /\ TransactionMatches(TargetOf(q), LeaseOf(c), b, x)
           /\ session' = [session EXCEPT ![c] =
                Entered("fresh", "admission", q, archive, b, x.nonce, Blank)]
  /\ begun' = begun + 1
  /\ UNCHANGED <<leases, declared, journal, effects, stateStore>>

\* finish_admission: the lease again, then the one live observation.
FinishAdmission(c) ==
  /\ At(c, "admission") /\ LeaseStillBinds(c)
  /\ IF Satisfied(c)
     THEN session' = [session EXCEPT ![c].pc = "declare", ![c].observed = TRUE]
     ELSE Return(c)
  /\ UNCHANGED <<leases, declared, journal, begun, effects, stateStore>>

\* publish_initial_journal
Declare(c) ==
  LET h == Header(Request(c), session[c].nonce, control[c].projection, LeaseOf(c))
  IN  /\ At(c, "declare") /\ HeaderMade(h)
      /\ declared' = [declared EXCEPT ![session[c].nonce] = h]
      /\ Goto(c, "enter_preparation")
      /\ UNCHANGED <<leases, journal, begun, effects, stateStore>>

EnterPreparation(c) ==
  Gate(c, "enter_preparation", Bound(c, {"preparing"}), "stage")

\* The capture of the old object and the sealed stage of the new one.
Stage(c) ==
  /\ At(c, "stage")
  /\ AppendStep(c, [Memory(c) EXCEPT
                      !.captured = Found(c),
                      !.staged = Planned(Request(c), session[c].archive)],
                "seal_preparation")
  /\ UNCHANGED effects

SealPreparation(c) ==
  /\ At(c, "seal_preparation")
  /\ AppendStep(c, [Memory(c) EXCEPT !.state = "prepared"],
                IF session[c].mode = "fresh" THEN "enter_rejected"
                ELSE "resume_rejected")
  /\ UNCHANGED effects

----------------------------------------------------------------------------
(***************************************************************************)
(* Rejected and active phases.                                             *)
(***************************************************************************)
EnterRejected(c) ==
  Gate(c, "enter_rejected", Bound(c, {"prepared"}), "begin_mutation")

BeginMutation(c) ==
  /\ At(c, "begin_mutation")
  /\ AppendStep(c, [Memory(c) EXCEPT !.state = "mutating"],
                IF session[c].mode = "fresh" THEN "enter_active" ELSE "resume_active")
  /\ UNCHANGED effects

EnterActive(c) == Gate(c, "enter_active", Bound(c, {"mutating"}), "announce")

Announce(c) ==
  /\ At(c, "announce")
  /\ AppendStep(c, [Memory(c) EXCEPT !.active = "intent"], "execute")
  /\ UNCHANGED effects

\* The backend's answer; indeterminate may have happened or not.
Answer(c, content, next) ==
  /\ \E fact \in {"completed", "failed", "indeterminate"} :
       /\ session' = [session EXCEPT ![c].fact = fact, ![c].pc = next]
       /\ world' \in {w \in {world, [world EXCEPT ![session[c].backend.backend] = content]} :
                        /\ fact = "completed" => w[session[c].backend.backend] = content
                        /\ fact = "failed" => w = world}
  /\ UNCHANGED <<leases, declared, journal, begun, stateStore>>

\* Nothing is checked between the intent and the call.
ExecuteActive(c) ==
  /\ At(c, "execute")
  /\ issued' = [issued EXCEPT ![session[c].nonce].active = @ + 1]
  /\ Answer(c, Memory(c).staged, "record")

RecordActive(c) ==
  /\ At(c, "record")
  /\ AppendStep(c, [Memory(c) EXCEPT !.active = session[c].fact],
                IF session[c].fact = "completed" THEN "effects_visible" ELSE "interrupt")
  /\ UNCHANGED effects

EffectsVisible(c) ==
  /\ At(c, "effects_visible")
  /\ IF Memory(c).state = "mutating"
     THEN AppendStep(c, [Memory(c) EXCEPT !.state = "effects_visible"], "enter_completion")
     ELSE /\ Goto(c, "enter_completion")
          /\ UNCHANGED <<leases, declared, journal, begun, stateStore>>
  /\ UNCHANGED effects

----------------------------------------------------------------------------
(***************************************************************************)
(* Completion and recovery.                                                *)
(***************************************************************************)
EnterCompletion(c) ==
  Gate(c, "enter_completion", Bound(c, {"effects_visible", "result_observed"}), "observe")

\* The result observation, judged; publication, synchronization and seal of
\* the completed evidence follow it as one append.
Observe(c) ==
  LET matched == Found(c) = Planned(Request(c), session[c].archive)
  IN  /\ At(c, "observe")
      /\ Goto(c, IF matched THEN "complete" ELSE "interrupt")
      /\ UNCHANGED <<leases, declared, journal, begun, effects, stateStore>>

Complete(c) ==
  At(c, "complete") /\ SealReceipt(c, "application_completed", "completed")

Unknown(h) == h.active \in {"intent", "indeterminate"}

\* interrupt_active_execution and restart_interruption
Interrupt(c) ==
  /\ At(c, "interrupt")
  /\ IF Memory(c).state = "recovering"
     THEN /\ Goto(c, "enter_recovery")
          /\ UNCHANGED <<leases, declared, journal, begun, stateStore>>
     ELSE AppendStep(c, [Memory(c) EXCEPT
                           !.state = IF Unknown(Memory(c)) THEN "indeterminate"
                                     ELSE "recovery_pending"],
                     "enter_recovery")
  /\ UNCHANGED effects

\* validate_recovery_binding
RecoveryBound(c) ==
  Bound(c, {IF Unknown(Memory(c)) THEN "indeterminate" ELSE "recovery_pending",
            "recovering"})

EnterRecovery(c) ==
  Gate(c, "enter_recovery", RecoveryBound(c),
       IF Memory(c).active = "failed" THEN "conclude" ELSE "begin_recovery")

BeginRecovery(c) ==
  /\ At(c, "begin_recovery")
  /\ IF Memory(c).state = "recovering"
     THEN /\ Goto(c, IF Memory(c).recover = "none" THEN "announce_recovery" ELSE "conclude")
          /\ UNCHANGED <<leases, declared, journal, begun, stateStore>>
     ELSE AppendStep(c, [Memory(c) EXCEPT !.state = "recovering"], "announce_recovery")
  /\ UNCHANGED effects

AnnounceRecovery(c) ==
  /\ At(c, "announce_recovery")
  /\ AppendStep(c, [Memory(c) EXCEPT !.recover = "intent"], "recover")
  /\ UNCHANGED effects

Recover(c) ==
  /\ At(c, "recover")
  /\ issued' = [issued EXCEPT ![session[c].nonce].recover = @ + 1]
  /\ Answer(c, Memory(c).captured, "record_recovery")

RecordRecovery(c) ==
  /\ At(c, "record_recovery")
  /\ AppendStep(c, [Memory(c) EXCEPT !.recover = session[c].fact], "conclude")
  /\ UNCHANGED effects

Conclude(c) ==
  LET h == Memory(c)
  IN  /\ At(c, "conclude")
      /\ CASE h.active = "failed" ->
                SealReceipt(c, "abandoned", "failed_before_target_mutation")
           [] h.active # "failed" /\ h.recover = "completed" ->
                SealReceipt(c, "recovered", "failed_fully_recovered")
           [] h.active # "failed" /\ h.recover = "failed" /\ ~Unknown(h) ->
                SealReceipt(c, "effects_visible", "failed_with_partial_effects")
           [] OTHER -> SealReceipt(c, "indeterminate", "indeterminate")

----------------------------------------------------------------------------
(***************************************************************************)
(* resume_application().                                                   *)
(***************************************************************************)
\* assess_application_restart, for one active effect.
RequiresRecovery(h) ==
  \/ h.state = "mutating" /\ h.active \in {"intent", "failed", "indeterminate"}
  \/ h.state \in {"recovery_pending", "recovering"}
Resumable(h) ==
  /\ h.receipt = "none"
  /\ \/ h.state \in {"preparing", "prepared", "mutating", "effects_visible"}
     \/ RequiresRecovery(h)

\* reopen_application_engine, with any request, backend and archive.
Resume(c) ==
  /\ At(c, "idle")
  /\ control[c].lease # 0 /\ control[c].projection # NotGiven
  /\ \E n \in Nonces, q \in Requests, b \in Backends, archive \in Archives \cup {NotGiven} :
       /\ Journaled(n) /\ Resumable(journal[n])
       /\ Restartable(q, control[c].projection, LeaseOf(c), b, archive, declared[n],
                      Transaction(b, TargetOf(q), control[c].lease, n))
       /\ session' = [session EXCEPT ![c] =
            Entered("resumed", "resume_preparation", q, archive, b, n, journal[n])]
  /\ UNCHANGED <<leases, declared, journal, begun, effects, stateStore>>

\* Slip: preparation goes on without looking at the paths again.
ResumeUnobserved(c) ==
  /\ At(c, "resume_preparation") /\ LeaseStillBinds(c)
  /\ Goto(c, IF Memory(c).state # "preparing" THEN "resume_rejected"
             ELSE IF Memory(c).captured = NotGiven THEN "stage" ELSE "seal_preparation")
  /\ UNCHANGED <<leases, declared, journal, begun, effects, stateStore>>

\* resume_preparation: paths are observed again only in a preparing journal.
ResumePreparation(c) ==
  /\ At(c, "resume_preparation") /\ LeaseStillBinds(c)
  /\ \/ /\ Memory(c).state # "preparing"
        /\ Goto(c, "resume_rejected")
        /\ UNCHANGED <<leases, declared, journal, begun, effects, stateStore>>
     \/ /\ Memory(c).state = "preparing" /\ Satisfied(c)
        /\ session' = [session EXCEPT
             ![c].pc = IF Memory(c).captured = NotGiven THEN "stage"
                       ELSE "seal_preparation",
             ![c].observed = TRUE]
        /\ UNCHANGED <<leases, declared, journal, begun, effects, stateStore>>
     \/ /\ Memory(c).state = "preparing" /\ ~Satisfied(c)
        /\ SealReceipt(c, "abandoned", "failed_before_target_mutation")

\* resume_rejected_publication, then recovery or the forward path: finish_replay.
ResumeRejected(c) ==
  Gate(c, "resume_rejected", LeaseStillBinds(c),
       CASE Memory(c).state = "prepared" -> "begin_mutation"
         [] RequiresRecovery(Memory(c)) -> "interrupt"
         [] OTHER -> "resume_active")

\* resume_active_execution
ResumeActive(c) ==
  Gate(c, "resume_active", LeaseStillBinds(c),
       IF Memory(c).active = "none" THEN "announce" ELSE "effects_visible")

----------------------------------------------------------------------------
\* A gate that does not pass throws.
Gates ==
  {"admission", "enter_preparation", "enter_rejected", "enter_active",
   "enter_completion", "enter_recovery", "resume_preparation", "resume_rejected",
   "resume_active"}
LosesLease(c) ==
  /\ session[c].pc \in Gates /\ ~LeaseStillBinds(c)
  /\ Return(c)
  /\ UNCHANGED <<leases, declared, journal, begun, effects, stateStore>>

\* An append the store refuses throws.
Appends(c) ==
  LET s == session[c]
  IN  \/ s.pc \in {"stage", "seal_preparation", "begin_mutation", "announce",
                   "record", "complete", "announce_recovery", "record_recovery",
                   "conclude"}
      \/ s.pc = "effects_visible" /\ s.memory.state = "mutating"
      \/ s.pc \in {"interrupt", "begin_recovery"} /\ s.memory.state # "recovering"
      \/ s.pc = "resume_preparation" /\ s.memory.state = "preparing" /\ ~Satisfied(c)
LosesCursor(c) ==
  /\ Appends(c) /\ ~CursorMatches(c)
  /\ Return(c)
  /\ UNCHANGED <<leases, declared, journal, begun, effects, stateStore>>

Controller(c) ==
  Acquire(c) \/ ReadState(c) \/ PublishState(c) \/ Release(c) \/ Crash(c)

Preparation(c) ==
  \/ Apply(c) \/ FinishAdmission(c) \/ Declare(c)
  \/ EnterPreparation(c) \/ Stage(c) \/ SealPreparation(c)
Mutation(c) ==
  \/ EnterRejected(c) \/ BeginMutation(c)
  \/ EnterActive(c) \/ Announce(c) \/ ExecuteActive(c) \/ RecordActive(c)
  \/ EffectsVisible(c)
Resolution(c) ==
  \/ EnterCompletion(c) \/ Observe(c) \/ Complete(c) \/ Interrupt(c)
  \/ EnterRecovery(c) \/ BeginRecovery(c) \/ AnnounceRecovery(c) \/ Recover(c)
  \/ RecordRecovery(c) \/ Conclude(c)
Restart(c) ==
  Resume(c) \/ ResumePreparation(c) \/ ResumeRejected(c) \/ ResumeActive(c)

Next ==
  \/ \E c \in Controllers :
       \/ Controller(c) \/ Preparation(c) \/ Mutation(c) \/ Resolution(c)
       \/ Restart(c) \/ LosesLease(c) \/ LosesCursor(c)
  \/ \E i \in held : Lapse(i)
Spec == Init /\ [][Next]_vars

----------------------------------------------------------------------------
(***************************************************************************)
(* Properties.                                                             *)
(***************************************************************************)
\* Leases, sessions and journals keep their shapes, at most one lease of a
\* lock domain is held, and a session never remembers more of its journal than
\* the store committed.
TypeOK ==
  /\ held \subseteq DOMAIN acquired /\ Len(acquired) <= MaxLeases
  /\ \A i, j \in held : acquired[i].domain = acquired[j].domain => i = j
  /\ \A c \in Controllers : control[c].lease \in 0 .. Len(acquired)
  /\ journal \in [Nonces -> History]
  /\ world \in [DOMAIN Initial -> Contents]
  /\ installed \in DOMAIN State /\ published \subseteq 1 .. begun
  /\ \A c \in Controllers : session[c].pc # "idle" =>
       /\ session[c].nonce \in 1 .. begun
       /\ session[c].memory \in History
       /\ Memory(c).steps <= journal[session[c].nonce].steps
  /\ issued \in [Nonces -> [active : Nat, recover : Nat]]
  /\ lapses \in 0 .. MaxLapses

InSession(c) == session[c].pc # "idle"

\* The plan of every running call is the one for the installed state that is
\* published now, for as long as its lease is held: a projection read under an
\* earlier lease, or of another state, never admits a plan
\* (validate_state, validate_target_mutation_lease).
PlanCurrent ==
  \A c \in Controllers : InSession(c) /\ control[c].lease \in held =>
    State[installed].snapshot = PlanOf(Request(c)).snapshot

\* However leases are lost, processes die and journals are resumed while a
\* stale session still runs, an attempt's active effect and its recovery reach
\* the backend at most once: an intent is appended under the exact cursor.
IssuedOnce ==
  \A n \in Nonces : issued[n].active <= 1 /\ issued[n].recover <= 1

BeforeMutation ==
  {"declare", "enter_preparation", "stage", "seal_preparation", "enter_rejected",
   "resume_rejected", "begin_mutation", "enter_active", "resume_active",
   "announce", "execute"}

\* What a session observed when it was admitted, or when it resumed a preparing
\* journal, still holds when its own active effect is issued, unless a lease
\* was lost: nobody else mutates the target in between.  After a lost lease a
\* stale session may; IssuedOnce is what holds then.
AdmittedFactsHold ==
  lapses = 0 =>
    \A c \in Controllers :
      session[c].pc \in BeforeMutation /\ session[c].observed => Satisfied(c)

\* What recovery would restore is the state the plan accepted, whichever
\* session captured it, unless a lease was lost.
CaptureAccepted ==
  lapses = 0 =>
    \A n \in Nonces : Journaled(n) /\ journal[n].captured # NotGiven =>
      journal[n].captured = PlanOf(declared[n].request).before

\* Every attempt stages, and so publishes, the result of the plan its journal
\* declares, whatever request, archive or backend its restarts are called with,
\* and no backend other than the plan's own is ever touched.
DeclaredPlanExecuted ==
  /\ \A n \in Nonces : Journaled(n) /\ journal[n].staged # NotGiven =>
       LET q == declared[n].request
       IN  journal[n].staged = IF Submitted[q].kind = "remove" THEN "absent"
                               ELSE PlanOf(q).image
  /\ \A m \in DOMAIN Initial :
       world[m] # Initial[m] => \E n \in Nonces : Journaled(n) /\ declared[n].backend = m

\* DESIGN.md, hard invariant 5: "Snapshot, ownership, owner vectors, and
\* accepted path facts are revalidated under that lease before mutation."
\* resume_preparation does not observe the paths of a journal that is prepared.
RevalidatedBeforeMutation ==
  lapses = 0 =>
    \A c \in Controllers : session[c].pc = "execute" => Satisfied(c)

=============================================================================
